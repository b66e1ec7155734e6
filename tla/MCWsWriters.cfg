CONSTANTS
    c1 = c1
    c2 = c2
    st1 = st1
    None = None
    Conns = {c1}
    Stations = {st1}
    StationOf <- SameStation
    Cap = 1
    MaxMsgs = 1
    Loads <- OneBusy
SPECIFICATION WsSpec
INVARIANT OneWriter
CHECK_DEADLOCK FALSE
