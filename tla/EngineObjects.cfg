CONSTANTS
    Bucket = {b1, b2}
    Name = {n1}
    Upload = {u1, u2}
    Kind = {"put"}
    PartNo <- PutPart
    BlockId <- MCBlockId
    ObjectId <- MCObjectId
    Msg = {m1, m2}
    Etag <- MCEtag
    NoEtag <- MCNoEtag
    Condition <- Unconditional
    MaxAge = 1
    SerialCallers = FALSE
    Req = {r1, r2}
    Setup <- ObjectSetup
SPECIFICATION EngineSpec
SYMMETRY Symmetry
CHECK_DEADLOCK FALSE
INVARIANTS EngineInv CountsStayExact PutUploadsOwned
PROPERTY ImplementsObjectStore
