CONSTANTS
    Bucket = {bk}
    Name = {n1, n2}
    Upload = {u1, u2}
    Kind = {"put", "multipart"}
    PartNo <- MCPartNo
    BlockId <- MCBlockId
    ObjectId <- MCObjectId
    Msg = {m1, m2}
    Etag = {e1}
    NoEtag = NoEtag
    Condition <- WithCondition
    MaxAge = 1
    SerialCallers = FALSE
SPECIFICATION StoreSpec
SYMMETRY Symmetry
CHECK_DEADLOCK FALSE
INVARIANT StoreInv
PROPERTY ClaimedUntilDeleted
