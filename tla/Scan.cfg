CONSTANTS
    Probes = {p1, p2, p3, p4}
    MaxConcurrent = 2
SPECIFICATION FairScan
CHECK_DEADLOCK FALSE
INVARIANTS
    DialsBounded
    NoSendOnClosed
    NothingLeftBehind
    HitsKept
PROPERTIES
    Returns
