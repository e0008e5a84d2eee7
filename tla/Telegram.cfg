CONSTANTS
    Msg = {m1, m2}
    Call = {c1, c2}
    NoCall = NoCall
    MaxAttempts = 2
    Task = {t1, t2}
    Dc = {d1, d2}
    DefaultDc = d1
    AuthKey = {k1}
    NoKey = NoKey
    Peer = {p1}
    Hash = {h1}
    h1 = h1
    NoHash = NoHash
    Info <- MCInfo
    Pts = {0, 1}
    NoTask = NoTask
    Transfer = {t1, t2}
    MaxFrame = 2
    LimitWait = 1
    MaxTime = 3
SPECIFICATION Spec
CHECK_DEADLOCK FALSE
INVARIANTS TelegramInv LearnedMessagesKept CacheSurvivesRestart RateKept BacklogIsGranted
PROPERTIES ImplementsStorageChat CallsEnd PeerKnowledgeKept
