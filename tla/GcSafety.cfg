CONSTANTS
    Bucket = {bk}
    Name = {n1}
    Upload = {u1}
    Kind = {"put"}
    PartNo <- MCPartNo
    BlockId <- MCBlockId
    ObjectId <- MCObjectId
    Msg = {m1, m2}
    BotApiMsg = {m1, m2}
    Etag = {e1}
    NoEtag = NoEtag
    Condition <- Unconditional
    MaxAge = 1
    SerialCallers = FALSE
    Process = {server, command}
    Server = server
    GcLimit = 2
    Budget <- SafetyBudgets
SPECIFICATION GcSpec
SYMMETRY Symmetry
CHECK_DEADLOCK FALSE
INVARIANTS GcInv LiveMessagesPresent
PROPERTY DeletesOnlyClaimed
