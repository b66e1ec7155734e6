CONSTANTS
    r1 = r1
    None = None
    Tx = {}
    Stations = {}
    Slots <- MCSlots
    Prices <- MCPrices
    Faults <- AllFaults
    DefaultPrice = 7
    MaxTariffChanges = 3
    Meters = {2}
    MaxStarts = 2
SPECIFICATION BillingFairSpec
INVARIANTS
    BillingTypeOK
    EnergyCostsMoney
PROPERTIES
    PriceWasInForce
    BillRequestsEnd
