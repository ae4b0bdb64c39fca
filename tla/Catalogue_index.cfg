CONSTANTS
    Tills = {d1, d2}
    Writers = {d1}
    Ids = {p1, p2, p3}
    Codes = {b1, b2}
    NoCode = NoCode
    NoId = NoId
    MaxClock = 6
SPECIFICATION Spec
CHECK_DEADLOCK FALSE
SYMMETRY Symmetry
INVARIANTS
    EntryCarriesCode
    RemovalFreesCode
    ScanFindsItem
    
