SPECIFICATION FairSpec
CHECK_DEADLOCK FALSE
CONSTANTS
    w1 = w1  w2 = w2  a = a  b = b
    Workers = {w1, w2}  Operated = {w1}  Streams = {a, b}
    MaxCached = 1  FlushEvery = 2  BatchLimit = 3
    StaleRestart = FALSE  LateClear = FALSE
    Nobody = nobody  MaxId = 3  MaxFaults = 1  MaxRebuilds = 1
INVARIANTS TypeOK RowsAreTrue AckedIsDurable
PROPERTIES EventuallyProjected
