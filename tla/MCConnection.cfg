SPECIFICATION FairSpec
CONSTANTS
    Client = {c1, c2}
    Groups = 2
    EncSk = 2
    Confs <- AnyConf
    Partings <- AtPromptOrAnywhere
INVARIANTS
    ConnTypeOK
    NothingBehindAMessage
    InStep
    QueriesInStep
    ServerStaysUp
PROPERTIES
    HandshakeCompletes
    QueryReturns
CHECK_DEADLOCK FALSE
