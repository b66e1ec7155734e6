CONSTANTS
    c1 = c1
    c2 = c2
    t1 = t1
    t2 = t2
    st1 = st1
    st2 = st2
    r1 = r1
    r2 = r2
    None = None
    Conns <- MCConns
    Tx <- MCTx
    Stations <- MCStations
    KnownStations = {st1, st2}
    Slots <- MCSlots
    StationOf <- OwnStation
    TxOf <- OwnTx
    Generated = {}
    Connectors = {1}
    Statuses = {"Available", "Charging"}
    Kinds = {"start", "stop"}
    Meters = {0, 2}
    MaxStarts = 1
    DefaultPrice = 1
    Prices = {}
    MaxTariffChanges = 0
    Faults = {}
SPECIFICATION FairSpec
PROPERTIES
    StopSettles
