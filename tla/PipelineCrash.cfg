SPECIFICATION Spec
CONSTANTS
    Deliveries = {d1}
    Workers = {w1, w2}
    Sweepers = {s1}
    Handlers = {h1}
    MAX_DELIVERY_ATTEMPTS = 2
    WORKER_LOCK_DURATION = 2
    BACKOFF_BASE = 1
    ClaimDelay = 1
    SWEEP_BATCH_SIZE = 2
    MaxReplays = 0
    MaxTime = 4
    MaxFaults = 1
SYMMETRY Symmetry
INVARIANTS
    TypeOK
    LeaseExclusive
    AttemptIsFree
    AttemptBudget
    DeadOnlyAtCap
PROPERTY RowHistory
