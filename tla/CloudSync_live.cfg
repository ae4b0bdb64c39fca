CONSTANTS
    Devices = {d1, d2}
    Shops = {s}
    Unlinked = Unlinked
    Products = {}
    Sales = {x1}
    StockEvents = {e1}
    Keys = {}
    Nobody = Nobody
    Skew = 0
    MaxClock = 0
    MaxUpsets = 3
SPECIFICATION FairSpec
CHECK_DEADLOCK FALSE
INVARIANTS
    NothingLost
    NoEcho
PROPERTIES
    Delivered
