SPECIFICATION Spec
CONSTANTS
    a = a  b = b  w1 = w1  w2 = w2  order = order  note = note  r1 = r1  r2 = r2
    Targets = {a}
    Workers = {w1, w2}
    Holders = {w1, w2}
    NoHolder = NoHolder
    Kinds = {order}
    Reactions = {r1, r2}
    Reacts <- TwoReactions
    Fetches <- FetchAll
    Sees <- AllSee
    Batched = {}
    Priority <- SamePriority
    Options <- BlockAfterOne
    Throws = {"error", "defer"}
    StreamLimit = 1
    EventLimit = 2
    FirstId = 1
    Budget <- StealBudget
SYMMETRY Symmetric
INVARIANTS TypeOK NoSkip HolderIsCurrent AttemptsBounded
PROPERTIES OnlyResetRewinds KeepsPromise
CHECK_DEADLOCK FALSE
