CONSTANTS
    c1 = c1
    c2 = c2
    t1 = t1
    t2 = t2
    st1 = st1
    st2 = st2
    r1 = r1
    r2 = r2
    None = None
    Conns <- MCConns
    Tx = {t1}
    Stations <- MCStations
    KnownStations = {st1}
    Slots <- MCSlots
    StationOf <- SameStation
    TxOf <- SameTx
    Generated = {}
    Connectors = {1}
    Statuses = {"Available", "Charging"}
    Kinds = {"start", "stop"}
    Meters = {0}
    MaxStarts = 2
    DefaultPrice = 1
    Prices = {}
    MaxTariffChanges = 0
    Faults = {"db", "timeout", "down"}
SPECIFICATION Spec
SYMMETRY SlotSymmetry
INVARIANTS
    TypeOK
    BilledSessionsExist
    ContextsNameSession
PROPERTIES
    LedgerSpec
