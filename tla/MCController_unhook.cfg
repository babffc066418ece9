CONSTANTS
    Clients = {c1}
    Uids = {u1}
    Records = {x1}
    ReserveIds = {r1}
    Arbiter = Arbiter
    Reaper = Reaper
    RootReserve = RootReserve
    FailedId = FailedId
    NoTap = NoTap
    UnsetRate = UnsetRate
    NULL = NULL
    NoReserve = NoReserve
    NoParams = NoParams
    NoRequest = NoRequest
    NoReply = NoReply
    Free = Free
    NoMutex = NoMutex
    LongModulus = 16
    TapParams <- OneParam
SPECIFICATION FairSpec
PROPERTIES
    DeadRecordsUnhooked
