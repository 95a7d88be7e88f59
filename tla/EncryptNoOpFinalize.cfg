SPECIFICATION Spec
CONSTANTS
    Nil = Nil
    k1 = k1
    k2 = k2
    n1 = n1
    s1 = s1
    v1 = v1
    MaxCtx = 2
    MaxReplies = 1
    BrokerCap = 2
    KeyIds = {k1, k2}
    VaultKeys = {k1, k2}
    AltNames = {n1}
    Schemas = {s1}
    Values = {v1}
    KeyOfName <- MCKeyOfName
    Namespaces <- MCNamespaces
    CollinfoReplies <- MCCollinfoReplies
    MarkingReplies <- MCMarkingReplies
    Messages <- MCMessages
    EncryptOpts <- MCEncryptOpts
    NoBlockModes = {TRUE, FALSE}
INVARIANT FinalizeReturnsCommand
CHECK_DEADLOCK FALSE
