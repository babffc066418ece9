CONSTANTS
    Client = Client
    Server = Server
    Garbled = Garbled
    Capacity = 4
    MaxCommands = 3
SPECIFICATION SessionFairSpec
CHECK_DEADLOCK FALSE
INVARIANTS
    SessionTypeOK
    InStep
    SessionInv
PROPERTIES
    ImplementsExchange
    CommandEnds
    HandlerEnds
