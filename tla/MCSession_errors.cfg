CONSTANTS
    Client = Client
    Server = Server
    Garbled = Garbled
    Capacity = 4
    MaxCommands = 2
SPECIFICATION SessionSpec
CHECK_DEADLOCK FALSE
PROPERTIES
    ErrorDisconnects
