CONSTANTS
    c1 = c1
    c2 = c2
    t1 = t1
    st1 = st1
    st2 = st2
    None = None
    Conns = {c1, c2}
    Tx = {t1}
    Stations = {st1, st2}
    Slots = {}
    StationOf <- OwnStation
    TxOf <- SameTx
    Generated = {}
    Connectors = {0, 1}
    Statuses = {"Available", "Charging"}
    Kinds = {"boot", "status", "start", "stop", "meter"}
    Meters = {0}
    MaxStarts = 1
    Faults = {"restart"}
SPECIFICATION OcppSpec
INVARIANTS
    OcppTypeOK
PROPERTIES
    StationViewsAgree
