CONSTANTS
    Bucket = {bk}
    Name = {n1}
    Upload = {u1}
    Kind = {"put"}
    PartNo <- MCPartNo
    BlockId <- OneBlockId
    ObjectId <- MCObjectId
    Msg = {m1, m2}
    BotApiMsg = {m1}
    Etag = {e1}
    NoEtag = NoEtag
    Condition <- Unconditional
    MaxAge = 1
    SerialCallers = TRUE
    Process = {server}
    Server = server
    GcLimit = 2
    Budget <- NoFault
SPECIFICATION GcSpec
CHECK_DEADLOCK FALSE
PROPERTY AttachesOwnBlocks
