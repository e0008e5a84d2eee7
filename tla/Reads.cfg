CONSTANTS
    Req = {r1, r2}
    Layout <- MCLayout
    Header <- MCHeader
    MaxTransfers = 2
    Slots = 1
    MaxChunk = 2
    Align = 2
SPECIFICATION ReadSpec
CHECK_DEADLOCK FALSE
INVARIANTS ReadInv BodyInOrder RangeHonoured NoReaderStuck
PROPERTY ReadsEnd
