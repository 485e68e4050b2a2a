SPECIFICATION Spec
CONSTANTS
    a = a  b = b  w1 = w1  w2 = w2  order = order  note = note  r1 = r1  r2 = r2
    Targets = {a, b}
    Workers = {w1}
    Holders = {w1}
    NoHolder = NoHolder
    Kinds = {order, note}
    Reactions = {r1, r2}
    Reacts <- TwoReactions
    Fetches <- FetchAll
    Sees <- AllSee
    Batched = {}
    Priority <- SamePriority
    Options <- BlockAfterOne
    Throws = {}
    StreamLimit = 2
    EventLimit = 2
    FirstId = 1
    Budget <- WindowBudget
INVARIANTS NoSkip
CHECK_DEADLOCK FALSE
