CONSTANTS
    kBlockSize = 4096
    Sizes = {17, 1000, 2000}
    Alignments = {8}
    BaseResidues = {0, 16}
    MaxAllocs = 6
SPECIFICATION Spec
INVARIANT AllocationsInBlock
