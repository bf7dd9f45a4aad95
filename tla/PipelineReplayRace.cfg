SPECIFICATION Spec
CONSTANTS
    Deliveries = {d1}
    Workers = {w1}
    Sweepers = {s1}
    Handlers = {h1, h2}
    MAX_DELIVERY_ATTEMPTS = 1
    WORKER_LOCK_DURATION = 1
    BACKOFF_BASE = 1
    ClaimDelay = 0
    SWEEP_BATCH_SIZE = 2
    MaxReplays = 2
    MaxTime = 0
    MaxFaults = 0
SYMMETRY Symmetry
PROPERTY RowHistory
