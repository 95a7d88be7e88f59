SPECIFICATION EngineSpec
CONSTANTS
    Nil = Nil
    k1 = k1
    k2 = k2
    n1 = n1
    s1 = s1
    v1 = v1
    MaxCtx = 2
    MaxReplies = 1
    BrokerCap = 2
    KeyIds = {k1, k2}
    VaultKeys <- MCOneKeyVault
    AltNames = {n1}
    Schemas = {s1}
    Values = {v1}
    KeyOfName <- MCKeyOfName
    Namespaces <- MCOneNamespace
    CollinfoReplies <- MCContendedCollinfoReplies
    MarkingReplies <- MCMissingKeyReply
    Messages <- MCContendedMessages
    EncryptOpts <- MCEitherKeyOpts
    DecryptDocs <- MCDecryptDocs
    DecryptMessages <- MCDecryptMessages
    DecryptOpts <- MCDecryptOpts
    NoBlockModes = {TRUE, FALSE}
INVARIANT EngineTypeOK
INVARIANT OneFetchPerKey
INVARIANT PendingOwnerIsLive
INVARIANT ReadyHasKeys
INVARIANT OnlyMissingKeysStayEncrypted
PROPERTY KeyCacheKeepsDiscipline
CHECK_DEADLOCK FALSE
