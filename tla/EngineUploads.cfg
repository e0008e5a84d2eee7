CONSTANTS
    Bucket = {bk}
    Name = {n1}
    Upload = {u1}
    Kind = {"put", "multipart"}
    PartNo <- MCPartNo
    BlockId <- MCBlockId
    ObjectId <- MCObjectId
    Msg = {m1, m2, m3}
    Etag <- MCEtag
    NoEtag <- MCNoEtag
    Condition <- Unconditional
    MaxAge = 0
    SerialCallers = FALSE
    Req = {r1, r2}
    Setup <- UploadSetup
SPECIFICATION EngineSpec
SYMMETRY Symmetry
CHECK_DEADLOCK FALSE
INVARIANTS EngineInv TagsMatchData NothingOutlivesBucket
PROPERTY ReleasedIsQueued
PROPERTY ImplementsObjectStore
