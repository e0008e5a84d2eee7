CONSTANTS
    Bucket = {bk}
    Name = {n1, n2}
    Upload = {u1, u2}
    Kind = {"put"}
    PartNo <- PutPart
    BlockId <- MCBlockId
    ObjectId <- MCObjectId
    Msg = {m1, m2}
    Etag <- MCEtag
    NoEtag <- MCNoEtag
    Condition <- Unconditional
    MaxAge = 0
    SerialCallers = FALSE
    Req = {r1, r2}
    Setup <- CopySetup
SPECIFICATION EngineSpec
CHECK_DEADLOCK FALSE
PROPERTY CopyRejectsStaleSource
