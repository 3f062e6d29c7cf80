SPECIFICATION Spec
CONSTANTS
    Client = {c1, c2}
    Groups = 2
    EncSk = 2
    Confs <- NoSync
    Partings <- AtKeys
INVARIANTS
    OneClientLeaves
CHECK_DEADLOCK FALSE
