CONSTANTS
    Tills = {d1}
    Writers = {d1}
    Ids = {p1, p2, p3}
    Codes = {b1}
    NoCode = NoCode
    NoId = NoId
    MaxClock = 6
SPECIFICATION Spec
CHECK_DEADLOCK FALSE
SYMMETRY Symmetry
INVARIANTS
    OneItemPerCode
