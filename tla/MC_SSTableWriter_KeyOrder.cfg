CONSTANTS
    UserKeys <- MCUserKeys
    Seqs = {1, 2, 3, 4, 5}
    PutValue <- MCPutValue
    BlockSize = 48
    RestartInterval = 2
    BitsPerKey = 10
    MaxSequenceNumber = 1000
    HashVals = {1, 13}
CHECK_DEADLOCK FALSE
SPECIFICATION Spec
INVARIANT
    BlockKeysAscending
