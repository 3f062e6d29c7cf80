SPECIFICATION FairSpec
CONSTANTS
    Client = {c1, c2}
    Groups = 2
    EncSk = 2
    Confs <- AnyConf
    Partings <- Never
PROPERTIES
    EveryHandshakeCompletes
CHECK_DEADLOCK FALSE
