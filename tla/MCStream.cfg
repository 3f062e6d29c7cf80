SPECIFICATION Spec
CONSTANTS
    Client = "client"
    Server = "server"
    Dialogue <- MCDialogue
    HeaderSize = 2
    AckSize = 4
    BufferSize <- MCBufferSize
    Modulus = 64
    JunkLength <- MCJunkLength
INVARIANTS
    StreamTypeOK
PROPERTIES
    ImplementsChannel
CHECK_DEADLOCK FALSE
