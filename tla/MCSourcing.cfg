SPECIFICATION Spec
CONSTANTS
    c1 = c1  c2 = c2  near = near  far = far
    Calls = {c1, c2}
    Caches = {near, far}
    CacheOf <- OwnCache
    Kinds <- Every
    Names = {"work"}
    Batch = 2
    MaxRetries = 1
    MaxId = 4
INVARIANTS CacheFaithful SnapshotFaithful
PROPERTIES DecidedOnHead
CHECK_DEADLOCK FALSE
