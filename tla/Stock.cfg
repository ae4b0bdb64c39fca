CONSTANTS
    Tills = {d1, d2}
    Sales = {x1}
    Events = {e1, e2, e3}
    Counts = {0, 2}
    Moves <- Removals
    Quantities = {1, 3}
    MaxStamp = 3
SPECIFICATION Spec
CHECK_DEADLOCK FALSE
SYMMETRY Symmetry
INVARIANTS
    CountsAddUp
PROPERTIES
    CountTakes
