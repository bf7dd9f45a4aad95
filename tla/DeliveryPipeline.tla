-------------------------- MODULE DeliveryPipeline --------------------------
(***************************************************************************)
(* The life of the deliveries of one event: the API that accepts, re-posts  *)
(* and replays them, the outbox, the job queue, the workers that send them  *)
(* and the sweeper that recovers what a failure left behind. Postgres       *)
(* statements and transactions are atomic steps; everything a process does  *)
(* between two of them is interleaved with the other processes, and a       *)
(* process may fail between any two.                                        *)
(***************************************************************************)
EXTENDS DeliveryRow, DeliveryQueue, FiniteSets

CONSTANTS
    Workers,       \* concurrent processor calls, of one process or of several
    Sweepers,      \* sweeper processes whose Redis lock did not exclude them
    Handlers,      \* API requests in flight
    ClaimDelay,    \* pool and statement timeouts: from new Date() to its SQL
    SWEEP_BATCH_SIZE,
    MaxTime,       \* bound on the clock
    MaxFaults      \* bound on crashes, failed calls and lost locks

ASSUME ClaimDelayAssumption ==
    ClaimDelay \in Nat /\ ClaimDelay < WORKER_LOCK_DURATION
ASSUME BatchAssumption == SWEEP_BATCH_SIZE \in Nat \ {0}
ASSUME BoundsAssumption == MaxTime \in Nat /\ MaxFaults \in Nat

VARIABLES
    now,        \* the clock all processes and Postgres read
    row,        \* deliveries: [Deliveries -> DeliveryRow]
    outbox,     \* delivery_outbox: the delivery ids with a row
    attempts,   \* delivery_attempts: <<delivery, run, number>>
    job,        \* the queue: [JobId -> JobState]
    worker,     \* [Workers -> the locals of its processor call]
    sweeper,    \* [Sweepers -> the locals of its sweep]
    handler,    \* [Handlers -> the locals of its request]
    queued,     \* history: the jobs whose enqueueing the queue accepted
    sent,       \* history: the attempts POSTed, <<delivery, run, number>>
    acked,      \* history: the <<delivery, run>> some POST of which got a 2xx
    faults      \* failures so far

vars == <<now, row, outbox, attempts, job, worker, sweeper, handler, queued, sent, acked, faults>>

NoJob == <<>>

IdleWorker ==
    [pc |-> "idle", job |-> NoJob, locked |-> FALSE, lease |-> 0, run |-> 0,
     attempt |-> 0, decision |-> "none", retryAt |-> NoRetry]
IdleSweeper == [pc |-> "idle", at |-> 0, candidates |-> {}, jobs |-> {}]
IdleHandler == [pc |-> "idle", jobs |-> {}]

DeliveryOf(j) == j[1]
Ids(jobs) == {DeliveryOf(j) : j \in jobs}
CurrentJob(d) == <<d, row[d].replayCount>>

InitAt(t) ==
    /\ now = t
    /\ row = [d \in Deliveries |-> AbsentRow]
    /\ outbox = {}
    /\ attempts = {}
    /\ job = NoJobs
    /\ worker = [w \in Workers |-> IdleWorker]
    /\ sweeper = [s \in Sweepers |-> IdleSweeper]
    /\ handler = [h \in Handlers |-> IdleHandler]
    /\ queued = {}
    /\ sent = {}
    /\ acked = {}
    /\ faults = 0

Init == InitAt(0)

\* The queue accepts a bulk of jobs.
Enqueue(jobs) ==
    /\ job' = EnqueueJobs(job, jobs)
    /\ queued' = queued \cup jobs

Fault == faults < MaxFaults /\ faults' = faults + 1

Tick ==
    /\ now < MaxTime
    /\ now' = now + 1
    /\ UNCHANGED <<row, outbox, attempts, job, worker, sweeper, handler, queued, sent, acked, faults>>

----------------------------------------------------------------------------
(* The API: ingestEvent and replayDelivery, then enqueueAndAcknowledge *)

\* ingestFanout for the endpoints that are active now. A repeated request finds
\* the event, adds deliveries for new endpoints and enqueues every open one;
\* all deliveries of a new event are new and open.
Ingest(h) ==
    /\ handler[h].pc = "idle"
    /\ \E active \in SUBSET Deliveries :
         LET new == {d \in active : row[d].status = "absent"}
             after == [d \in Deliveries |-> IF d \in new THEN InsertedRow(now) ELSE row[d]]
             open == {d \in Deliveries : after[d].status \in OpenStatus}
         IN /\ open # {}
            /\ row' = after
            /\ outbox' = outbox \cup new
            /\ handler' = [handler EXCEPT ![h] =
                 [pc |-> "enqueue", jobs |-> {<<d, after[d].replayCount>> : d \in open}]]
    /\ UNCHANGED <<now, attempts, job, worker, sweeper, queued, sent, acked, faults>>

\* replayDelivery reads the row first; the endpoint is active, or it answers 400.
ReadForReplay(h, d) ==
    /\ handler[h].pc = "idle"
    /\ row[d].status \in {"failed", "pending"}
    /\ handler' = [handler EXCEPT ![h] =
         [pc |-> IF row[d].status = "failed" THEN "replay" ELSE "enqueue",
          jobs |-> {CurrentJob(d)}]]
    /\ UNCHANGED <<now, row, outbox, attempts, job, worker, sweeper, queued, sent, acked, faults>>

\* The transaction tests the status again, and only the status: another replay
\* may have run, and failed, since the read.
Replay(h, d) ==
    /\ handler[h].pc = "replay"
    /\ d \in Ids(handler[h].jobs)
    /\ IF CanReplay(row[d])
         THEN /\ row[d].replayCount < MaxReplays
              /\ row' = [row EXCEPT ![d] = ReplayedRow(@, now)]
              /\ outbox' = outbox \cup {d}
              /\ handler' = [handler EXCEPT ![h] =
                   [pc |-> "enqueue", jobs |-> {<<d, row[d].replayCount + 1>>}]]
         ELSE /\ handler' = [handler EXCEPT ![h] = IdleHandler]
              /\ UNCHANGED <<row, outbox>>
    /\ UNCHANGED <<now, attempts, job, worker, sweeper, queued, sent, acked, faults>>

\* The queue accepts the jobs, in time for the acknowledgement or after the
\* request has been answered 503.
HandlerEnqueues(h) ==
    /\ handler[h].pc \in {"enqueue", "late"}
    /\ Enqueue(handler[h].jobs)
    /\ handler' = [handler EXCEPT ![h] =
         IF @.pc = "late" THEN IdleHandler ELSE [@ EXCEPT !.pc = "acknowledge"]]
    /\ UNCHANGED <<now, row, outbox, attempts, worker, sweeper, sent, acked, faults>>

\* Faulty: a request that timed out acknowledges all the same.
EnqueueTimesOutAcknowledged(h) ==
    /\ handler[h].pc = "enqueue"
    /\ handler' = [handler EXCEPT ![h].pc = "acknowledge"]
    /\ UNCHANGED <<now, row, outbox, attempts, job, worker, sweeper, queued, sent, acked, faults>>

\* Promise.race is lost to the 3 s timer; the enqueue itself is still running.
EnqueueTimesOut(h) ==
    /\ handler[h].pc = "enqueue"
    /\ handler' = [handler EXCEPT ![h].pc = "late"]
    /\ UNCHANGED <<now, row, outbox, attempts, job, worker, sweeper, queued, sent, acked, faults>>

Acknowledge(h) ==
    /\ handler[h].pc = "acknowledge"
    /\ outbox' = outbox \ Ids(handler[h].jobs)
    /\ handler' = [handler EXCEPT ![h] = IdleHandler]
    /\ UNCHANGED <<now, row, attempts, job, worker, sweeper, queued, sent, acked, faults>>

\* The call in flight fails, or the API process stops.
HandlerFails(h) ==
    /\ Fault
    /\ handler[h].pc # "idle"
    /\ handler' = [handler EXCEPT ![h] = IdleHandler]
    /\ UNCHANGED <<now, row, outbox, attempts, job, worker, sweeper, queued, sent, acked>>

ApiNext ==
    \E h \in Handlers :
        \/ Ingest(h)
        \/ \E d \in Deliveries : ReadForReplay(h, d) \/ Replay(h, d)
        \/ HandlerEnqueues(h)
        \/ EnqueueTimesOut(h)
        \/ Acknowledge(h)
        \/ HandlerFails(h)

----------------------------------------------------------------------------
(* The worker: BullMQ hands a job to a processor call *)

\* The processor call ends and its job is alive no more (completed or failed).
EndCall(w) ==
    /\ worker' = [worker EXCEPT ![w] = IdleWorker]
    /\ job' = MoveJob(job, worker[w].job, worker[w].locked, "none")

Fetch(w) ==
    /\ worker[w].pc = "idle"
    /\ \E j \in JobId :
         /\ job[j] = "waiting"
         /\ job' = [job EXCEPT ![j] = "active"]
         /\ worker' = [worker EXCEPT ![w] =
              [IdleWorker EXCEPT !.pc = "admit", !.job = j, !.locked = TRUE]]
    /\ UNCHANGED <<now, row, outbox, attempts, sweeper, handler, queued, sent, acked, faults>>

\* takeRateLimitToken allows the call, and the claim begins: its lease is the
\* time before the statement is sent.
Admit(w) ==
    /\ worker[w].pc = "admit"
    /\ worker' = [worker EXCEPT ![w].pc = "claim", ![w].lease = now]
    /\ UNCHANGED <<now, row, outbox, attempts, job, sweeper, handler, queued, sent, acked, faults>>

\* The window is full: back to the queue, delayed, with nothing claimed.
RateLimited(w) ==
    /\ worker[w].pc = "admit"
    /\ worker' = [worker EXCEPT ![w] = IdleWorker]
    /\ job' = MoveJob(job, worker[w].job, worker[w].locked, "delayed")
    /\ UNCHANGED <<now, row, outbox, attempts, sweeper, handler, queued, sent, acked, faults>>

\* The claim names the delivery and not the run of the job: a job of an earlier
\* run claims the current one. A disabled endpoint decides the outcome at once.
Claim(w) ==
    LET me == worker[w]
        d == DeliveryOf(me.job)
        attempt == ReservedAttempt(row[d])
    IN /\ me.pc = "claim"
       /\ now <= me.lease + ClaimDelay
       /\ IF IsDue(row[d], now)
            THEN /\ row' = [row EXCEPT ![d] = ClaimedRow(@, me.lease)]
                 /\ \E endpoint \in {"active", "disabled"} :
                      worker' = [worker EXCEPT ![w] =
                        [me EXCEPT !.run = row[d].replayCount,
                                   !.attempt = attempt,
                                   !.pc = IF attempt # 0 /\ endpoint = "active"
                                            THEN "send" ELSE "record",
                                   !.decision = IF attempt = 0 THEN "exhausted"
                                                ELSE IF endpoint = "disabled" THEN "failed"
                                                ELSE "none"]]
            ELSE /\ worker' = [worker EXCEPT ![w].pc = "finish"]
                 /\ UNCHANGED row
       /\ UNCHANGED <<now, outbox, attempts, job, sweeper, handler, queued, sent, acked, faults>>

\* connectionTimeoutMillis or statement_timeout ends a claim that waits longer.
ClaimTimesOut(w) ==
    /\ worker[w].pc = "claim"
    /\ now > worker[w].lease + ClaimDelay
    /\ EndCall(w)
    /\ UNCHANGED <<now, row, outbox, attempts, sweeper, handler, queued, sent, acked, faults>>

\* postWithTimeout, answered or given up, and the decision taken on it.
Post(w) ==
    LET me == worker[w]
        target == <<DeliveryOf(me.job), me.run>>
    IN /\ me.pc = "send"
       /\ sent' = sent \cup {<<DeliveryOf(me.job), me.run, me.attempt>>}
       /\ \E answer \in Answer :
            /\ acked' = IF answer = "ok" THEN acked \cup {target} ELSE acked
            /\ worker' = [worker EXCEPT ![w] =
                 [me EXCEPT !.pc = "record",
                            !.decision = Decide(answer, me.attempt),
                            !.retryAt = IF Decide(answer, me.attempt) = "retry"
                                          THEN now + BackoffDelay(me.attempt) ELSE NoRetry]]
       /\ UNCHANGED <<now, row, outbox, attempts, job, sweeper, handler, queued, faults>>

\* recordOutcome, one transaction. Its roll-up of the event is EventRollup.tla.
Record(w) ==
    LET me == worker[w]
        d == DeliveryOf(me.job)
        held == HoldsLease(row[d], me.lease, me.run)
    IN /\ me.pc = "record"
       /\ IF held
            THEN /\ row' = [row EXCEPT ![d] =
                      RecordedRow(@, me.decision, me.attempt, me.retryAt, now)]
                 /\ attempts' = IF me.decision = "exhausted" THEN attempts
                                ELSE attempts \cup {<<d, me.run, me.attempt>>}
            ELSE UNCHANGED <<row, attempts>>
       /\ worker' = [worker EXCEPT ![w] =
            [IdleWorker EXCEPT !.pc = IF held /\ me.decision = "retry" THEN "delay" ELSE "finish",
                               !.job = me.job, !.locked = me.locked]]
       /\ UNCHANGED <<now, outbox, job, sweeper, handler, queued, sent, acked, faults>>

\* moveToDelayed; without the lock it throws, and so does moveToFailed after it.
Delay(w) ==
    /\ worker[w].pc = "delay"
    /\ worker' = [worker EXCEPT ![w] = IdleWorker]
    /\ job' = MoveJob(job, worker[w].job, worker[w].locked, "delayed")
    /\ UNCHANGED <<now, row, outbox, attempts, sweeper, handler, queued, sent, acked, faults>>

Finish(w) ==
    /\ worker[w].pc = "finish"
    /\ EndCall(w)
    /\ UNCHANGED <<now, row, outbox, attempts, sweeper, handler, queued, sent, acked, faults>>

\* A Redis or Postgres call throws, or the reply of a committed one is lost: the
\* processor rejects, and with attempts = 1 the job has failed for good.
ProcessorThrows(w) ==
    /\ Fault
    /\ worker[w].pc \in {"admit", "claim", "send", "record", "delay"}
    /\ EndCall(w)
    /\ UNCHANGED <<now, row, outbox, attempts, sweeper, handler, queued, sent, acked>>

\* The process is gone; its job stays active until the stalled-job check.
WorkerCrashes(w) ==
    /\ Fault
    /\ worker[w].pc # "idle"
    /\ worker' = [worker EXCEPT ![w] = IdleWorker]
    /\ UNCHANGED <<now, row, outbox, attempts, job, sweeper, handler, queued, sent, acked>>

\* The lock expires under a processor that is still running.
LockExpires(w) ==
    /\ Fault
    /\ worker[w].locked
    /\ worker' = [worker EXCEPT ![w].locked = FALSE]
    /\ UNCHANGED <<now, row, outbox, attempts, job, sweeper, handler, queued, sent, acked>>

WorkerNext ==
    \E w \in Workers :
        \/ Fetch(w) \/ Admit(w) \/ RateLimited(w) \/ Claim(w) \/ ClaimTimesOut(w)
        \/ Post(w) \/ Record(w) \/ Delay(w) \/ Finish(w)
        \/ ProcessorThrows(w) \/ WorkerCrashes(w) \/ LockExpires(w)

----------------------------------------------------------------------------
(* The queue by itself *)

\* A delayed job is due by the clock of Redis and BullMQ, which is not the clock
\* next_retry_at is compared with: it may come back at any time.
Promote ==
    /\ \E j \in JobId :
         /\ job[j] = "delayed"
         /\ job' = [job EXCEPT ![j] = "waiting"]
    /\ UNCHANGED <<now, row, outbox, attempts, worker, sweeper, handler, queued, sent, acked, faults>>

\* An active job nobody holds the lock of waits again, or fails if it has
\* stalled before.
RecoverStalled ==
    /\ \E j \in JobId :
         /\ job[j] = "active"
         /\ \A w \in Workers : worker[w].job = j => ~worker[w].locked
         /\ \E state \in {"waiting", "none"} : job' = [job EXCEPT ![j] = state]
    /\ UNCHANGED <<now, row, outbox, attempts, worker, sweeper, handler, queued, sent, acked, faults>>

\* Redis comes back empty: no job, no deduplication id, no lock.
RedisLosesData ==
    /\ Fault
    /\ job # NoJobs
    /\ job' = NoJobs
    /\ worker' = [w \in Workers |-> [worker[w] EXCEPT !.locked = FALSE]]
    /\ UNCHANGED <<now, row, outbox, attempts, sweeper, handler, queued, sent, acked>>

QueueNext == Promote \/ RecoverStalled \/ RedisLosesData

----------------------------------------------------------------------------
(* The sweeper: drainDeliveryOutbox, then sweepOrphanDeliveries *)

\* LIMIT SWEEP_BATCH_SIZE
IsBatchOf(batch, all) ==
    /\ batch \subseteq all
    /\ IF Cardinality(all) <= SWEEP_BATCH_SIZE
         THEN batch = all ELSE Cardinality(batch) = SWEEP_BATCH_SIZE

\* A batch that is not full ends a loop; a full one does past the deadline.
EndsLoop(batch, late) == Cardinality(batch) < SWEEP_BATCH_SIZE \/ late

\* The two loops meet here: the second one starts by reading the clock.
StartScan == [IdleSweeper EXCEPT !.pc = "scan", !.at = now]

SelectOutbox(s) ==
    /\ sweeper[s].pc \in {"idle", "drain"}
    /\ \E batch \in SUBSET outbox :
         /\ IsBatchOf(batch, outbox)
         /\ sweeper' = [sweeper EXCEPT ![s] =
              IF batch = {} THEN StartScan
              ELSE [IdleSweeper EXCEPT !.pc = "enqueue_outbox",
                                       !.jobs = {CurrentJob(d) : d \in batch}]]
    /\ UNCHANGED <<now, row, outbox, attempts, job, worker, handler, queued, sent, acked, faults>>

EnqueueOutbox(s) ==
    /\ sweeper[s].pc = "enqueue_outbox"
    /\ Enqueue(sweeper[s].jobs)
    /\ sweeper' = [sweeper EXCEPT ![s].pc = "delete_outbox"]
    /\ UNCHANGED <<now, row, outbox, attempts, worker, handler, sent, acked, faults>>

\* Faulty: the whole outbox is deleted, and not the rows of the batch.
DeleteWholeOutbox(s) ==
    /\ sweeper[s].pc = "delete_outbox"
    /\ outbox' = {}
    /\ sweeper' = [sweeper EXCEPT ![s] = StartScan]
    /\ UNCHANGED <<now, row, attempts, job, worker, handler, queued, sent, acked, faults>>

\* Faulty: rows of deliveries that have been settled meanwhile are spared.
DeleteOutboxOfOpen(s) ==
    /\ sweeper[s].pc = "delete_outbox"
    /\ outbox' = outbox \ {d \in Ids(sweeper[s].jobs) : row[d].status \in OpenStatus}
    /\ sweeper' = [sweeper EXCEPT ![s] = StartScan]
    /\ UNCHANGED <<now, row, attempts, job, worker, handler, queued, sent, acked, faults>>

DeleteOutbox(s) ==
    /\ sweeper[s].pc = "delete_outbox"
    /\ outbox' = outbox \ Ids(sweeper[s].jobs)
    /\ \E late \in BOOLEAN :
         sweeper' = [sweeper EXCEPT ![s] =
           IF EndsLoop(sweeper[s].jobs, late) THEN StartScan
           ELSE [IdleSweeper EXCEPT !.pc = "drain"]]
    /\ UNCHANGED <<now, row, attempts, job, worker, handler, queued, sent, acked, faults>>

\* The SELECT keeps which candidates it saw pending and which in progress; the
\* oldest come first.
SelectOrphans(s) ==
    LET orphans == {d \in Deliveries : IsOrphan(row[d], sweeper[s].at)}
    IN /\ sweeper[s].pc = "scan"
       /\ \E batch \in SUBSET orphans :
            /\ IsBatchOf(batch, orphans)
            /\ \A d \in batch, e \in orphans \ batch : row[d].updatedAt <= row[e].updatedAt
            /\ sweeper' = [sweeper EXCEPT ![s] =
                 IF batch = {} THEN IdleSweeper
                 ELSE [@ EXCEPT !.pc = "reclaim",
                                !.candidates = {<<d, row[d].status>> : d \in batch}]]
       /\ UNCHANGED <<now, row, outbox, attempts, job, worker, handler, queued, sent, acked, faults>>

\* What the UPDATE finds of the candidates.
Reclaimable(s) ==
    {d \in Deliveries : \E st \in OpenStatus :
        <<d, st>> \in sweeper[s].candidates /\ IsReclaimable(row[d], st, sweeper[s].at)}

\* One UPDATE ... RETURNING. What it returns is enqueued, what it left behind is not.
Reclaim(s) ==
    /\ sweeper[s].pc = "reclaim"
    /\ row' = [d \in Deliveries |-> IF d \in Reclaimable(s) THEN ReclaimedRow(row[d], sweeper[s].at)
                                    ELSE row[d]]
    /\ sweeper' = [sweeper EXCEPT ![s].pc = "enqueue_orphans",
                                  ![s].jobs = {CurrentJob(d) : d \in Reclaimable(s)}]
    /\ UNCHANGED <<now, outbox, attempts, job, worker, handler, queued, sent, acked, faults>>

EnqueueOrphans(s) ==
    /\ sweeper[s].pc = "enqueue_orphans"
    /\ Enqueue(sweeper[s].jobs)
    /\ \E late \in BOOLEAN :
         sweeper' = [sweeper EXCEPT ![s] =
           IF EndsLoop(sweeper[s].candidates, late) THEN IdleSweeper ELSE StartScan]
    /\ UNCHANGED <<now, row, outbox, attempts, worker, handler, sent, acked, faults>>

\* A call throws (sweeper_failed) or the process stops: the sweep is over.
SweepFails(s) ==
    /\ Fault
    /\ sweeper[s].pc # "idle"
    /\ sweeper' = [sweeper EXCEPT ![s] = IdleSweeper]
    /\ UNCHANGED <<now, row, outbox, attempts, job, worker, handler, queued, sent, acked>>

SweeperNext ==
    \E s \in Sweepers :
        \/ SelectOutbox(s) \/ EnqueueOutbox(s) \/ DeleteOutbox(s)
        \/ SelectOrphans(s) \/ Reclaim(s) \/ EnqueueOrphans(s) \/ SweepFails(s)

----------------------------------------------------------------------------
Next == Tick \/ ApiNext \/ WorkerNext \/ QueueNext \/ SweeperNext

Spec == Init /\ [][Next]_vars

----------------------------------------------------------------------------
(* Properties *)

WorkerPc == {"idle", "admit", "claim", "send", "record", "delay", "finish"}
SweeperPc == {"idle", "drain", "enqueue_outbox", "delete_outbox", "scan", "reclaim",
              "enqueue_orphans"}
HandlerPc == {"idle", "replay", "enqueue", "late", "acknowledge"}

WorkerState ==
    [pc : WorkerPc, job : JobId \cup {NoJob}, locked : BOOLEAN, lease : Nat,
     run : 0 .. MaxReplays, attempt : 0 .. MAX_DELIVERY_ATTEMPTS,
     decision : Decision, retryAt : Nat]

RowsOK ==
    /\ row \in [Deliveries -> DeliveryRow]
    /\ \A d \in Deliveries : row[d].replayCount <= MaxReplays

WorkersOK ==
    /\ worker \in [Workers -> WorkerState]
    /\ \A w \in Workers :
         /\ worker[w].pc # "idle" \/ worker[w].locked => worker[w].job \in JobId
         /\ worker[w].pc = "send" => worker[w].attempt # 0

SweeperState ==
    [pc : SweeperPc, at : Nat, candidates : SUBSET (Deliveries \X OpenStatus),
     jobs : SUBSET JobId]

HandlerState == [pc : HandlerPc, jobs : SUBSET JobId]

TablesOK ==
    /\ outbox \subseteq Deliveries
    /\ attempts \subseteq (Deliveries \X (0 .. MaxReplays) \X (0 .. MAX_DELIVERY_ATTEMPTS))
    /\ sent \subseteq (Deliveries \X (0 .. MaxReplays) \X (1 .. MAX_DELIVERY_ATTEMPTS))
    /\ acked \subseteq JobId
    /\ queued \subseteq JobId

\* Every variable stays in its type: the type invariant of the pipeline, with
\* attempt_count never above the cap the claim of processor.ts tests.
TypeOK ==
    /\ now \in 0 .. MaxTime
    /\ faults \in 0 .. MaxFaults
    /\ RowsOK
    /\ TablesOK
    /\ job \in [JobId -> JobState]
    /\ WorkersOK
    /\ sweeper \in [Sweepers -> SweeperState]
    /\ handler \in [Handlers -> HandlerState]

\* A processor call whose recordOutcome would pass the lease check now.
Holds(w) ==
    /\ worker[w].pc \in {"send", "record"}
    /\ HoldsLease(row[DeliveryOf(worker[w].job)], worker[w].lease, worker[w].run)

\* The lease of recordOutcome excludes: of all the calls that have claimed a
\* delivery, and may still be sending it, at most one can record an outcome,
\* although a lease is nothing but the time a claim began.
LeaseExclusive ==
    \A v, w \in Workers :
        Holds(v) /\ Holds(w) /\ DeliveryOf(worker[v].job) = DeliveryOf(worker[w].job)
            => v = w

\* The call that may record an outcome knows the row's attempt, and no row of
\* delivery_attempts has its number yet: the INSERT of recordOutcome never meets
\* the unique index and never rolls a delivered outcome back.
AttemptIsFree ==
    \A w \in Workers :
        LET d == DeliveryOf(worker[w].job)
        IN Holds(w) /\ worker[w].decision # "exhausted" =>
             /\ row[d].attemptCount = worker[w].attempt
             /\ <<d, worker[w].run, worker[w].attempt>> \notin attempts

\* Every number up to MAX_DELIVERY_ATTEMPTS is reserved, and POSTed, at most once
\* in a run, whatever is killed, reclaimed, redelivered or replayed meanwhile: a
\* claim that is about to send has a number of its run nobody has sent, although
\* calls that have lost their lease may still be sending (guide.md: at most five
\* HTTP attempts in a run, an interrupted attempt counts).
AttemptBudget ==
    \A w \in Workers :
        worker[w].pc = "send" =>
            /\ worker[w].attempt \in 1 .. MAX_DELIVERY_ATTEMPTS
            /\ <<DeliveryOf(worker[w].job), worker[w].run, worker[w].attempt>> \notin sent

\* A delivery is succeeded only if some request of its current run got a 2xx.
SucceededWasAcked ==
    \A d \in Deliveries : row[d].status = "succeeded" => CurrentJob(d) \in acked

\* Only the last attempt of a run is dead-lettered: a delivery failed with
\* max_attempts has used every attempt of its run.
DeadOnlyAtCap ==
    \A d \in Deliveries :
        row[d].status = "failed" /\ row[d].lastError = "max_attempts"
            => row[d].attemptCount = MAX_DELIVERY_ATTEMPTS

\* Until the queue has accepted the first job of an ingested delivery, the
\* delivery is in the outbox: a 503, a late enqueue, a crashed request or a
\* failed sweep never leave a committed delivery with neither (guide.md: a
\* committed delivery is not lost if Redis is unavailable at ingest time).
OutboxUntilQueued ==
    \A d \in Deliveries :
        row[d].status \in OpenStatus /\ row[d].replayCount = 0 /\ CurrentJob(d) \notin queued
            => d \in outbox

\* The same for every run, as publish.ts says of outbox rows: they are
\* acknowledged only after the queue accepts their jobs.
AcknowledgedAfterQueued ==
    \A d \in Deliveries :
        row[d].status \in OpenStatus /\ CurrentJob(d) \notin queued => d \in outbox

\* The pipeline implements DeliveryContract: whatever fails and whoever races, a
\* tenant sees runs in order, numbered POSTs that never repeat a number, and one
\* outcome per run, a success only after a 2xx of that run.
ContractState(d) ==
    CASE row[d].status \in OpenStatus -> "open"
      [] OTHER -> row[d].status
Contract == INSTANCE DeliveryContract
              WITH state <- [d \in Deliveries |-> ContractState(d)],
                   run <- [d \in Deliveries |-> row[d].replayCount],
                   posts <- sent, accepted <- acked
KeepsContract == Contract!Spec

\* What no statement may do to a row, however stale its writer: reopen or change
\* a succeeded delivery, reopen a failed one but by replay to the next run, or
\* take back an attempt of the run in progress.
RowHistory ==
    [][\A d \in Deliveries :
         LET r == row[d]
             s == row'[d]
         IN /\ r.status = "succeeded" => s = r
            /\ r.status = "failed" /\ s # r => s = ReplayedRow(r, now)
            /\ s.replayCount # r.replayCount => r.status = "failed"
            /\ s.replayCount = r.replayCount => s.attemptCount >= r.attemptCount]_vars

\* An open delivery goes back to pending, its attempt unrecorded, only when its
\* row has not been touched for the lock duration: a sweeper whose SELECT or
\* clock is old, or whose Redis lock has run out, never takes a live lease.
ReclaimsOnlyStale ==
    [][\A d \in Deliveries :
         LET r == row[d]
             s == row'[d]
         IN r.status \in OpenStatus /\ s # r /\ s.status = "pending" /\ attempts' = attempts
              => IsStale(r, now)]_vars
=============================================================================
