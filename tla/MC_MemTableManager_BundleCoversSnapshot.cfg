CONSTANTS
    KeyOrder <- MCKeyOrder
    KeyLen <- MCKeyLen
    ValLen <- MCValLen
    Values = {"v1"}
    EntryStructSize = 80
    MaxSize <- MCMaxSize
    Writers = {w1}
    Readers = {r1}
    Flushers = {f1}
    MaxSeq = 4
    MaxTables = 3
    MaxPending = 1
    SizeBits = 16
SPECIFICATION Spec
INVARIANT
    BundleCoversSnapshot
