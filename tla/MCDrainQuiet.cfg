SPECIFICATION FairSpec
CONSTANTS
    a = a  b = b  w1 = w1  w2 = w2  order = order  note = note  r1 = r1  r2 = r2
    Targets = {a, b}
    Workers = {w1, w2}
    Holders = {w1, w2}
    NoHolder = NoHolder
    Kinds = {order, note}
    Reactions = {r1}
    Reacts <- OneReaction
    Fetches <- FetchAll
    Sees <- AllSee
    Batched = {b}
    Priority <- SamePriority
    Options <- BackoffAfterOne
    Throws = {"error", "fatal", "close"}
    StreamLimit = 2
    EventLimit = 2
    FirstId = 1
    Budget <- QuietBudget
INVARIANTS PrefixRunsOnce PoisonNotRetried
PROPERTIES EventuallyDrained
CHECK_DEADLOCK FALSE
