CONSTANTS
    c1 = c1
    c2 = c2
    st1 = st1
    None = None
    Conns <- MCConns
    Stations = {st1}
    StationOf <- SameStation
    Cap = 2
    MaxMsgs = 3
    Loads <- BusyOrTwice
SPECIFICATION WsFairSpec
INVARIANTS
    WsTypeOK
    AnswersDelivered
    RegisteredIsOpen
PROPERTIES
    DroppedOnlyWhenBehind
    AnswersWritten
    ConnectionsEnd
CHECK_DEADLOCK FALSE
