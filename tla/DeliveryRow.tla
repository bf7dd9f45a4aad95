---------------------------- MODULE DeliveryRow ----------------------------
(***************************************************************************)
(* The row of a delivery in Postgres (deliveries and delivery_attempts,     *)
(* packages/shared/src/schema.ts) and the statements that change it, each   *)
(* as a function from the row a statement finds to the row it leaves.       *)
(* Times are natural numbers; the clock itself belongs to the module that   *)
(* composes the system.                                                     *)
(***************************************************************************)
EXTENDS Naturals

CONSTANTS
    MAX_DELIVERY_ATTEMPTS,   \* env.MAX_DELIVERY_ATTEMPTS, at least 1
    WORKER_LOCK_DURATION,    \* config.ts: DELIVERY_TIMEOUT + 30 s
    BACKOFF_BASE             \* backoff.ts: one minute, in model ticks

ASSUME MaxAttemptsAssumption == MAX_DELIVERY_ATTEMPTS \in Nat \ {0}
ASSUME LockDurationAssumption == WORKER_LOCK_DURATION \in Nat \ {0}

\* A null next_retry_at never keeps a row from being due: neither does 0.
NoRetry == 0

Status == {"absent", "pending", "in_progress", "succeeded", "failed"}
OpenStatus == {"pending", "in_progress"}
LastError == {"none", "max_attempts", "other"}

\* "absent" stands for a row that has not been inserted.
DeliveryRow ==
    [status : Status, attemptCount : 0 .. MAX_DELIVERY_ATTEMPTS, replayCount : Nat,
     lastError : LastError, nextRetryAt : Nat, updatedAt : Nat]

AbsentRow ==
    [status |-> "absent", attemptCount |-> 0, replayCount |-> 0,
     lastError |-> "none", nextRetryAt |-> NoRetry, updatedAt |-> 0]

InsertedRow(t) == [AbsentRow EXCEPT !.status = "pending", !.updatedAt = t]

----------------------------------------------------------------------------
(* claimPendingDelivery *)

IsDue(r, t) == r.status = "pending" /\ r.nextRetryAt <= t

\* A null reservedAttempt of the code is 0.
ReservedAttempt(r) ==
    IF r.attemptCount < MAX_DELIVERY_ATTEMPTS THEN r.attemptCount + 1 ELSE 0

\* Faulty: the cap is not tested when the attempt is reserved.
ClaimedRowUncapped(r, lease) ==
    [r EXCEPT !.status = "in_progress", !.attemptCount = @ + 1, !.updatedAt = lease]

ClaimedRow(r, lease) ==
    [r EXCEPT !.status = "in_progress",
              !.attemptCount = IF @ < MAX_DELIVERY_ATTEMPTS THEN @ + 1 ELSE @,
              !.updatedAt = lease]

----------------------------------------------------------------------------
(* recordOutcome: the lease check of its UPDATE, and what it writes *)

\* Faulty: any delivery in progress is taken for the one that was claimed.
HoldsAnyLease(r, lease, run) == r.status = "in_progress"

HoldsLease(r, lease, run) ==
    /\ r.status = "in_progress"
    /\ r.updatedAt = lease
    /\ r.replayCount = run

Decision == {"none", "succeeded", "failed", "dead", "retry", "exhausted"}

\* Faulty: an attempt that is to be retried is given back.
RecordedRowRefunding(r, decision, attempt, retryAt, t) ==
    [r EXCEPT
       !.status = CASE decision = "succeeded" -> "succeeded"
                    [] decision = "retry" -> "pending"
                    [] OTHER -> "failed",
       !.attemptCount = IF decision = "retry" THEN attempt - 1 ELSE @,
       !.nextRetryAt = IF decision = "retry" THEN retryAt ELSE NoRetry,
       !.updatedAt = t]

\* "dead" is the failure of the last attempt; "exhausted" that of a claim
\* which found no attempt left and sent nothing: it leaves attemptCount alone.
RecordedRow(r, decision, attempt, retryAt, t) ==
    [r EXCEPT
       !.status = CASE decision = "succeeded" -> "succeeded"
                    [] decision = "retry" -> "pending"
                    [] OTHER -> "failed",
       !.lastError = CASE decision = "succeeded" -> "none"
                       [] decision \in {"dead", "exhausted"} -> "max_attempts"
                       [] OTHER -> "other",
       !.attemptCount = IF decision = "exhausted" THEN @ ELSE attempt,
       !.nextRetryAt = IF decision = "retry" THEN retryAt ELSE NoRetry,
       !.updatedAt = t]

\* The decision on an answered POST: "ok" is 2xx, "permanent" a non-retryable
\* status, a blocked url or too many redirects, "retryable" everything else.
Answer == {"ok", "permanent", "retryable"}

\* Faulty: the attempts are counted from zero.
DecideOneEarly(answer, attempt) ==
    CASE answer = "ok" -> "succeeded"
      [] answer = "permanent" -> "failed"
      [] OTHER -> IF attempt + 1 >= MAX_DELIVERY_ATTEMPTS THEN "dead" ELSE "retry"

Decide(answer, attempt) ==
    CASE answer = "ok" -> "succeeded"
      [] answer = "permanent" -> "failed"
      [] OTHER -> IF attempt >= MAX_DELIVERY_ATTEMPTS THEN "dead" ELSE "retry"

\* calculateBackoffDelayMs
BackoffDelay(n) == BACKOFF_BASE * 2 ^ (n - 1)

ASSUME BackoffAssumption ==
    \A n \in 1 .. MAX_DELIVERY_ATTEMPTS : BackoffDelay(n) \in Nat

----------------------------------------------------------------------------
(* sweepOrphanDeliveries: the SELECT of candidates and the guarded UPDATE *)

IsStale(r, t) == r.updatedAt + WORKER_LOCK_DURATION <= t

\* Faulty: half of the orphans are left to the queue, or to the outbox.
IsOrphanPending(r, t) == IsStale(r, t) /\ IsDue(r, t)
IsOrphanInProgress(r, t) == IsStale(r, t) /\ r.status = "in_progress"

IsOrphan(r, t) ==
    /\ IsStale(r, t)
    /\ IsDue(r, t) \/ r.status = "in_progress"

\* Faulty: the UPDATE trusts the SELECT, or looks again at the status only.
IsReclaimableById(r, statusRead, t) == r.status # "absent"
IsReclaimableByStatus(r, statusRead, t) == r.status = statusRead

\* The UPDATE looks again at updated_at, and at the status the SELECT read.
IsReclaimable(r, statusRead, t) == IsStale(r, t) /\ r.status = statusRead

\* Faulty: a reclaimed delivery gets its interrupted attempt back.
ReclaimedRowRefunding(r, t) ==
    [r EXCEPT !.status = "pending", !.updatedAt = t,
              !.attemptCount = IF @ > 0 THEN @ - 1 ELSE @]

ReclaimedRow(r, t) == [r EXCEPT !.status = "pending", !.updatedAt = t]

----------------------------------------------------------------------------
(* replayDelivery: the compare-and-set on status = 'failed' *)

\* Faulty: the transaction relies on what the request read before.
CanReplayAnyOpen(r) == r.status \in {"failed", "pending", "in_progress"}

CanReplay(r) == r.status = "failed"

ReplayedRow(r, t) ==
    [status |-> "pending", attemptCount |-> 0, replayCount |-> r.replayCount + 1,
     lastError |-> "none", nextRetryAt |-> NoRetry, updatedAt |-> t]
=============================================================================
