CONSTANTS
    Devices = {d1, d2}
    Shops = {s1, s2}
    Unlinked = Unlinked
    Products = {}
    Sales = {x1, x2}
    StockEvents = {}
    Keys = {}
    Nobody = Nobody
    Skew = 0
    MaxClock = 0
    MaxUpsets = 4
SPECIFICATION Spec
CHECK_DEADLOCK FALSE
SYMMETRY Symmetry
INVARIANTS
    CursorNeverSkips
