SPECIFICATION Spec
CONSTANTS
    Deliveries = {d1, d2}
    Workers = {w1}
    Sweepers = {s1}
    Handlers = {h1}
    MAX_DELIVERY_ATTEMPTS = 1
    WORKER_LOCK_DURATION = 1
    BACKOFF_BASE = 1
    ClaimDelay = 0
    SWEEP_BATCH_SIZE = 1
    MaxReplays = 0
    MaxTime = 1
    MaxFaults = 0
SYMMETRY Symmetry
INVARIANT OutboxUntilQueued
