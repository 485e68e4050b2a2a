SPECIFICATION CloseSpec
CONSTANTS
    c1 = c1  near = near  x = x  y = y
    Calls = {c1}
    Caches = {near}
    CacheOf <- OneCache
    Kinds <- ActAndReact
    Names = {"work", "inert"}
    Reactive = {"work"}
    Batch = 1
    MaxRetries = 0
    MaxId = 3
    Closers = {x, y}
    Policies <- Practices
    CloserCache = near
INVARIANTS CloseTypeOK GuardHolds LoadsAreCurrent
PROPERTIES NoReactionLost ArchivedBeforeDeleted ArchivedOnce
CHECK_DEADLOCK FALSE
SYMMETRY Symmetric
