CONSTANTS
    c1 = c1
    c2 = c2
    t1 = t1
    t2 = t2
    st1 = st1
    st2 = st2
    r1 = r1
    r2 = r2
    None = None
    Conns = {c1}
    Tx = {t1}
    Stations <- MCStations
    KnownStations = {st1}
    Slots <- MCSlots
    StationOf <- SameStation
    TxOf <- SameTx
    Generated = {t1}
    Connectors = {1}
    Statuses = {"Available", "Charging"}
    Kinds = {"start", "stop", "meter"}
    Meters = {0}
    MaxStarts = 1
    DefaultPrice = 0
    Prices = {2}
    MaxTariffChanges = 1
    Faults <- AllFaults
SPECIFICATION HandlerFairSpec
INVARIANTS
    NoDoubleBilling
    MeteredSessionsExist
    BilledSessionsExist
PROPERTIES
    HandlersReturn
