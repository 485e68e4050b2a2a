SPECIFICATION FairSpec
CHECK_DEADLOCK FALSE
CONSTANTS
    p1 = p1  p2 = p2  t1 = t1  t2 = t2
    Procs = {p1, p2}  Targets = {t1}  Knows <- SameRegistry
    Inert = inert  Nobody = nobody  Ghost = ghost
    Limit = 2  BackScan = 100  EventLimit = 1
    Networked = FALSE  Notify = TRUE  Polling = FALSE  LaneWorker = TRUE
    MaxLog = 1  MaxCrashes = 0
INVARIANTS TypeOK OneScanner
PROPERTIES EventuallyHandled
