CONSTANTS
    Tasks = {"parent", "child", "main", "A", "B", "C"}
    Reserves = {"root", "testreserve", "main_reserve", "A_reserve", "B_reserve", "C_reserve"}
    RootReserve = "root"
    NoReserve = NoReserve
    MaxLevel = 2
    MaxVal = 3
    Weightings <- MCWeightings
    MaxInt = 511
    UndefinedInts <- MCUndefinedInts
    MaxListed = 2
    Nothing = Nothing
SPECIFICATION ValidationSpec
CHECK_DEADLOCK FALSE
INVARIANTS
    ValidationTypeOK
    ForkIsolated
    SharesOfTheWhole
    ThreadsOnOwnReserve
    CallsAsTyped
    ValidationInv
PROPERTIES
    ForkTestEnds
    SubdivideTestEnds
    EndOfInputQuits
