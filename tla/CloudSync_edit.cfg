CONSTANTS
    Devices = {d1, d2}
    Shops = {s}
    Unlinked = Unlinked
    Products = {p1}
    Sales = {}
    StockEvents = {}
    Keys = {}
    Nobody = Nobody
    Skew = 0
    MaxClock = 3
    MaxUpsets = 2
SPECIFICATION Spec
CHECK_DEADLOCK FALSE
SYMMETRY Symmetry
INVARIANTS
    EditKept
