CONSTANTS
    Keys = {1, 2, 3, 4}
    MaxHeight = 3
    Readers = {r1}
    Targets = {1, 2, 3, 4}
SPECIFICATION FairSpec
INVARIANTS
    SLTypeOK
    LevelsNestedSorted
PROPERTIES
    SkipListImplementsOrderedSet
    SearchesReturn
