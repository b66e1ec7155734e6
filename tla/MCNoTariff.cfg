CONSTANTS
    r1 = r1
    None = None
    Tx = {}
    Stations = {}
    Slots <- MCSlots
    Prices = {}
    Faults = {}
    DefaultPrice = 7
    MaxTariffChanges = 0
    Meters = {2}
    MaxStarts = 1
SPECIFICATION BillingSpec
INVARIANTS
    NoTariffNoBill
