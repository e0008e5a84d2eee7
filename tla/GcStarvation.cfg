CONSTANTS
    Bucket = {bk}
    Name = {n1}
    Upload = {u1}
    Kind = {"put"}
    PartNo <- MCPartNo
    BlockId <- OneBlockId
    ObjectId <- MCObjectId
    Msg = {m1, m2}
    BotApiMsg = {m1}
    Etag = {e1}
    NoEtag = NoEtag
    Condition <- Unconditional
    MaxAge = 2
    SerialCallers = TRUE
    Process = {server}
    Server = server
    GcLimit = 1
    Budget <- NoFault
SPECIFICATION FairGcSpec
CHECK_DEADLOCK FALSE
PROPERTY QueuedIsProcessed
