SPECIFICATION FairSpec
CHECK_DEADLOCK FALSE
CONSTANTS
    p1 = p1  p2 = p2  t1 = t1  t2 = t2
    Procs = {p1}  Targets = {t1}  Knows <- SameRegistry
    Inert = inert  Nobody = nobody  Ghost = ghost
    Limit = 1  BackScan = 100  EventLimit = 2
    Networked = TRUE  Notify = FALSE  Polling = TRUE  LaneWorker = FALSE
    MaxLog = 2  MaxCrashes = 1
INVARIANTS Covered MarksAreEvents
PROPERTIES EventuallyMarked
