CONSTANTS
    Policies = {"PerWrite"}
    BatchSize <- MCBatchSize
    Entries <- MCEntries
    PayloadSizes <- MCSmallPayloads
    MaxChunks = 2
    MaxFileSize <- MCMaxFileSize
    NameLimit = 2
    MaxLog = 3
    MaxAppends = 3
    MaxCrashes = 1
    MaxOpenFaults = 0
SPECIFICATION MSpec
INVARIANT
    RecoverReturnsOwed
