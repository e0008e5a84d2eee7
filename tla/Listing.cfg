CONSTANTS
    MaxChar = 2
    Keys <- MCKeys
    Query <- MCQuery
    ScanBatchSize = 2
    MaxEvents = 2
SPECIFICATION ListSpec
CHECK_DEADLOCK FALSE
INVARIANTS ListingInv ListedInOrder StableKeysListed ListedExisted
PROPERTY ListingEnds
