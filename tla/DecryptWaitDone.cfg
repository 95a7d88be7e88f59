SPECIFICATION EngineFairSpec
CONSTANTS
    Nil = Nil
    k1 = k1
    k2 = k2
    n1 = n1
    s1 = s1
    v1 = v1
    MaxCtx = 3
    MaxReplies = 1
    BrokerCap = 2
    KeyIds = {k1, k2}
    VaultKeys = {k1, k2}
    AltNames = {n1}
    Schemas = {s1}
    Values = {v1}
    KeyOfName <- MCKeyOfName
    Namespaces <- MCOneNamespace
    CollinfoReplies <- MCContendedCollinfoReplies
    MarkingReplies <- MCOneMarkingReply
    Messages <- MCContendedMessages
    EncryptOpts <- MCExplicitOpts
    DecryptDocs <- MCSameKeyDocs
    DecryptMessages = {}
    DecryptOpts <- MCDecryptOpts
    NoBlockModes = {TRUE}
PROPERTY EncryptionFinishesBesideDecryption
CHECK_DEADLOCK FALSE
