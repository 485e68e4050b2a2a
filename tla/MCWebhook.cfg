SPECIFICATION Spec
CHECK_DEADLOCK FALSE
CONSTANTS
    k1 = k1  k2 = k2
    Keys = {k1, k2}
    MaxRetries = 1  Setups <- Settings  MaxFaults = 3
INVARIANTS TypeOK AtMostOnce AckedIsProcessed
PROPERTIES CommittedStays
