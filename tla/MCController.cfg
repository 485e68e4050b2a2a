SPECIFICATION FairSpec
CHECK_DEADLOCK FALSE
CONSTANTS
    a = a  b = b  main = main  side = side
    Lanes = {main, side}  Streams = {a, b}
    Setups <- Promised
    Cooldown = 2  Lease = 1  Ceiling = 2  Delays = {1, 3}
    Harsh = {}
INVARIANTS TypeOK NeverAbandoned ParkedWakes ShutdownIsClean
PROPERTIES EventuallyHandled
