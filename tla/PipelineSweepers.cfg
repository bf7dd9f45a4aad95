SPECIFICATION Spec
CONSTANTS
    Deliveries = {d1}
    Workers = {w1}
    Sweepers = {s1, s2}
    Handlers = {h1}
    MAX_DELIVERY_ATTEMPTS = 2
    WORKER_LOCK_DURATION = 1
    BACKOFF_BASE = 1
    ClaimDelay = 0
    SWEEP_BATCH_SIZE = 1
    MaxReplays = 0
    MaxTime = 2
    MaxFaults = 1
SYMMETRY Symmetry
PROPERTY ReclaimsOnlyStale
