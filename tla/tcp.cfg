SPECIFICATION Spec
CONSTANTS
    Clients = 2
    Cap = 4
    Lines <- MCLines
    MaxLines = 3
INVARIANTS TypeOK Reassembly OwnBytesOnly
PROPERTY InputConsumed
CHECK_DEADLOCK FALSE
