CONSTANTS
    t1 = t1
    t2 = t2
    st1 = st1
    st2 = st2
    r1 = r1
    r2 = r2
    None = None
    Tx <- MCTx
    Stations <- MCStations
    KnownStations <- MCKnown
    Slots <- MCSlots
    Faults <- AllFaults
    Meters = {1}
    MaxStarts = 3
SPECIFICATION SessionsFairSpec
INVARIANTS
    SessionsTypeOK
    CacheBacked
    AnswersNameRow
    UniqueIds
PROPERTIES
    SessionIdsStable
    RequestsEnd
    StaleCacheHeals
