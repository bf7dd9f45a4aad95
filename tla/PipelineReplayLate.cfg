SPECIFICATION Spec
CONSTANTS
    Deliveries = {d1}
    Workers = {w1, w2}
    Sweepers = {s1}
    Handlers = {h1}
    MAX_DELIVERY_ATTEMPTS = 1
    WORKER_LOCK_DURATION = 1
    BACKOFF_BASE = 1
    ClaimDelay = 0
    SWEEP_BATCH_SIZE = 2
    MaxReplays = 1
    MaxTime = 1
    MaxFaults = 1
SYMMETRY Symmetry
INVARIANT SucceededWasAcked
PROPERTY KeepsContract
