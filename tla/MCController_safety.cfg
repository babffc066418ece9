CONSTANTS
    Clients = {c1, c2}
    Uids = {u1, u2}
    Records = {x1, x2}
    ReserveIds = {r1, r2}
    Arbiter = Arbiter
    Reaper = Reaper
    RootReserve = RootReserve
    FailedId = FailedId
    NoTap = NoTap
    UnsetRate = UnsetRate
    NULL = NULL
    NoReserve = NoReserve
    NoParams = NoParams
    NoRequest = NoRequest
    NoReply = NoReply
    Free = Free
    NoMutex = NoMutex
    LongModulus = 16
    TapParams <- OneParam
SYMMETRY Symmetry
SPECIFICATION Spec
INVARIANTS
    IndInv
    HandlersHoldLiveRecords
    RecordsInOnePlace
    ReservesAccountedFor
    GrantIsValid
PROPERTIES
    NoPutWhileUsed
