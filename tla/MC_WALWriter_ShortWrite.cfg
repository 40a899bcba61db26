CONSTANTS
    Policies = {"PerWrite", "Batched", "Periodic", "NoSync"}
    BatchSize <- MCBatchSize
    Entries = {e1}
    PayloadSizes <- MCSmallPayloads
    MaxChunks = 3
    EntryOf <- MCEntryOf
SPECIFICATION WSpec
INVARIANT
    DurableAckedReadable
