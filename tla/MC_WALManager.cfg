CONSTANTS
    Policies = {"PerWrite", "Batched", "Periodic", "NoSync"}
    BatchSize <- MCBatchSize
    Entries <- MCEntries
    PayloadSizes <- MCSmallPayloads
    MaxChunks = 2
    MaxFileSize <- MCMaxFileSize
    NameLimit = 100
    MaxLog = 3
    MaxAppends = 3
    MaxCrashes = 2
    MaxOpenFaults = 1
SPECIFICATION MSpec
INVARIANTS
    MTypeOK
    RecoverReturnsOwed
    RecoveredInOrder
