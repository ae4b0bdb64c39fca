CONSTANTS
    Ids = {a, b, c, d}
    NoId = NoId
    Starters = 2
    MaxKills = 1
    MaxSaves = 2
    Sales = {s, t}
    NoSale = NoSale
    MaxPrints = 3
    MaxInputs = 5
SPECIFICATION Spec
SYMMETRY Symmetry
CHECK_DEADLOCK FALSE
INVARIANTS
    StarterShelf
    NeverAnother
    AsOpened
    OkIsPrinted
    StepEnds
