CONSTANTS
    Loop = loop
    Callers = {c1}
    Writers = {w1, w2}
    Nobody = Nobody
    MaxCrashes = 1
SPECIFICATION FairSpec
INVARIANTS
    NoWriteForgotten
    OneCycle
    OnlineIsLatest
PROPERTIES
    Answered
    Implements
