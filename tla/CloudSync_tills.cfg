CONSTANTS
    Devices = {d1, d2}
    Shops = {s}
    Unlinked = Unlinked
    Products = {p1}
    Sales = {}
    StockEvents = {}
    Keys = {k1, k2}
    Nobody = Nobody
    Skew = 0
    MaxClock = 2
    MaxUpsets = 4
SPECIFICATION Spec
CHECK_DEADLOCK FALSE
SYMMETRY Symmetry
INVARIANTS
    CursorNeverSkips
    ItemNotLost
    SettingsChangeKept
    MarkedChangeHeld
    SettingsCaughtUp
PROPERTIES
    RowsNeverRegress
