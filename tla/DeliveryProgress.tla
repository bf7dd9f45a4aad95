-------------------------- MODULE DeliveryProgress --------------------------
(***************************************************************************)
(* DeliveryPipeline for ever: that deliveries are settled, and the outbox    *)
(* drained, once failures stop. Only differences of times matter to the code,*)
(* so here the clock stands still at MaxTime and, as time passes, all stored *)
(* times recede instead, down to 0, which is long ago.                       *)
(***************************************************************************)
EXTENDS DeliveryPipeline

\* A row is stale by the clock of any sweep in time before its own times reach 0,
\* and a call in flight may last a tick.
ASSUME HorizonAssumption ==
    /\ MaxTime + 1 >= 2 * WORKER_LOCK_DURATION
    /\ WORKER_LOCK_DURATION >= 2 /\ ClaimDelay >= 1

Recede(t) == IF t > 0 THEN t - 1 ELSE 0

\* Every call in flight ends soon enough: a claim reaches Postgres before it
\* times out, a POST is over and recorded within the lock duration (it is the
\* delivery timeout and 30 s), a sweep does not hang between two statements.
CallsInTime ==
    /\ \A w \in Workers :
         /\ worker[w].pc = "claim" => now < worker[w].lease + ClaimDelay
         /\ worker[w].pc \in {"send", "record"} => now + 1 < worker[w].lease + WORKER_LOCK_DURATION
    /\ \A s \in Sweepers :
         sweeper[s].pc \in {"scan", "reclaim"} => now + 1 < sweeper[s].at + WORKER_LOCK_DURATION

Pass ==
    /\ row' = [d \in Deliveries |->
         [row[d] EXCEPT !.nextRetryAt = Recede(@), !.updatedAt = Recede(@)]]
    /\ worker' = [w \in Workers |->
         [worker[w] EXCEPT !.lease = Recede(@), !.retryAt = Recede(@)]]
    /\ sweeper' = [s \in Sweepers |-> [sweeper[s] EXCEPT !.at = Recede(@)]]
    /\ UNCHANGED <<now, outbox, attempts, job, handler, queued, sent, acked>>

TimePasses == Pass /\ CallsInTime /\ UNCHANGED faults
CallHangs == Pass /\ Fault /\ ~CallsInTime

ProgressNext ==
    TimePasses \/ CallHangs \/ ApiNext \/ WorkerNext \/ QueueNext \/ SweeperNext

\* Processor calls go on, and a tenant is not denied admission for ever: another
\* window begins every minute. BullMQ looks for delayed and for stalled jobs, the
\* timer of the sweeper fires, each call of a sweep returns. Time itself goes on,
\* although calls in flight may hold it up. Nothing is assumed of API requests, nor
\* of failures.
WorkerSteps(w) == Claim(w) \/ ClaimTimesOut(w) \/ Post(w) \/ Record(w) \/ Delay(w) \/ Finish(w)
SweepSteps(s) ==
    \/ SelectOutbox(s) \/ EnqueueOutbox(s) \/ DeleteOutbox(s)
    \/ SelectOrphans(s) \/ Reclaim(s) \/ EnqueueOrphans(s)

Fairness ==
    /\ SF_vars(TimePasses)
    /\ WF_vars(Promote) /\ WF_vars(RecoverStalled)
    /\ \A w \in Workers : WF_vars(Fetch(w)) /\ SF_vars(Admit(w)) /\ WF_vars(WorkerSteps(w))
    /\ \A s \in Sweepers : WF_vars(SweepSteps(s))

ProgressSpec == InitAt(MaxTime) /\ [][ProgressNext]_vars /\ Fairness

----------------------------------------------------------------------------
\* Whichever hand-over a failure cuts (the enqueue of a request, the delayed job of
\* a retry, a claim, the enqueue of a reclaimed delivery, all of Redis), each
\* open delivery is eventually succeeded or failed, in every run.
EverySettled ==
    \A d \in Deliveries :
        row[d].status \in OpenStatus ~> row[d].status \in {"succeeded", "failed"}

\* No outbox row stays for ever, as the guide says that the worker drains it.
OutboxDrains == \A d \in Deliveries : d \in outbox ~> d \notin outbox
=============================================================================
