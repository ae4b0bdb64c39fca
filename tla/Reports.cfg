CONSTANTS
    Own = {a1, a2}
    Others = {b}
    Kinds <- TwoKinds
    Criteria <- Searches
    DayLen = 2
    Offset = 1
    Zones = {0, 1}
    Window = 2
    Cap = 1
    MaxClock = 4
    MaxLog = 2
    TitleY = 110
SYMMETRY Symmetry
SPECIFICATION Spec
INVARIANTS
    IndexIsExact
    HintIsHonest
    FilesAddUp
    FilesAgree
    DatesOffByZone
    DashboardAddsUp
