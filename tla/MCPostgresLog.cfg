\* Two calls in flight, two streams, and a subscription that a restore resets.
CONSTANTS
    Streams = {a, b}
    Batches <- MCBatches
    MaxId = 4
    MaxVersion = 2
    Clients = {c1, c2}
    Readers = {sub}
    Kept = {}
    Straddling = FALSE
    Nobody = Nobody
SPECIFICATION Spec
SYMMETRY Symmetry
PROPERTIES NoGap CheckedOnHead ImplementsStore
CHECK_DEADLOCK FALSE
