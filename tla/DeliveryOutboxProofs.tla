------------------------ MODULE DeliveryOutboxProofs ------------------------
(***************************************************************************)
(* A committed delivery is in the outbox until the queue has accepted it:   *)
(* whoever deletes an outbox row has seen jobs of the delivery accepted, and *)
(* in the first run of a delivery there is but one job to accept.            *)
(***************************************************************************)
EXTENDS DeliveryAttemptProofs

\* The jobs are of runs that have begun.
OfBegunRuns(jobs) == \A j \in jobs : j[2] <= row[DeliveryOf(j)].replayCount

HandlerInv(h) ==
    /\ OfBegunRuns(handler[h].jobs)
    /\ handler[h].pc = "acknowledge" => handler[h].jobs \subseteq queued

SweepInv(s) ==
    /\ OfBegunRuns(sweeper[s].jobs)
    /\ sweeper[s].pc = "delete_outbox" => sweeper[s].jobs \subseteq queued

OutboxInv ==
    /\ OutboxUntilQueued
    /\ \A h \in Handlers : HandlerInv(h)
    /\ \A s \in Sweepers : SweepInv(s)

----------------------------------------------------------------------------
\* Runs only begin, and a delivery is opened in its first run by its insert alone.
LEMMA RunsBegin ==
    ASSUME TypeOK, NumbersInv, [Next]_vars, NEW d \in Deliveries
    PROVE  /\ row'[d].replayCount >= row[d].replayCount
           /\ row'[d].status \in OpenStatus /\ row'[d].replayCount = 0
                => Inserted(d) \/ (row[d].status \in OpenStatus /\ row[d].replayCount = 0)
<1> DEFINE Goal ==
      /\ row'[d].replayCount >= row[d].replayCount
      /\ row'[d].status \in OpenStatus /\ row'[d].replayCount = 0
           => Inserted(d) \/ (row[d].status \in OpenStatus /\ row[d].replayCount = 0)
<1>0. row[d].replayCount \in Nat
  BY RowTypes
<1>1. CASE row'[d] = row[d]
  BY <1>0, <1>1
<1>2. CASE Inserted(d)
  BY <1>2 DEF Inserted, InsertedRow, AbsentRow, NumbersInv, RowInv
<1>3. ASSUME NEW w \in Workers, ClaimedBy(w, d) PROVE Goal
  BY <1>0, <1>3, ClaimedFacts DEF OpenStatus
<1>4. ASSUME NEW w \in Workers, RecordedBy(w, d) PROVE Goal
  BY <1>0, <1>4, RecordedFacts DEF OpenStatus
<1>5. ASSUME NEW s \in Sweepers, ReclaimedBy(s, d) PROVE Goal
  BY <1>0, <1>5, ReclaimedFacts
<1>6. CASE Replayed(d)
  BY <1>0, <1>6 DEF Replayed, ReplayedRow
<1> QED
  BY <1>1, <1>2, <1>3, <1>4, <1>5, <1>6, RowStep

LEMMA RunsStayBegun ==
    ASSUME TypeOK, TypeOK', NumbersInv, [Next]_vars, NEW jobs \in SUBSET JobId, OfBegunRuns(jobs)
    PROVE  \A j \in jobs : j[2] <= row'[DeliveryOf(j)].replayCount
<1> SUFFICES ASSUME NEW j \in jobs PROVE j[2] <= row'[DeliveryOf(j)].replayCount
  OBVIOUS
<1>1. DeliveryOf(j) \in Deliveries /\ j[2] \in Nat /\ j[2] <= row[DeliveryOf(j)].replayCount
  BY JobDelivery, MaxReplaysAssumption DEF OfBegunRuns
<1>2. row[DeliveryOf(j)].replayCount \in Nat /\ row'[DeliveryOf(j)].replayCount \in Nat
  BY <1>1 DEF TypeOK, RowsOK, DeliveryRow
<1> QED
  BY <1>1, <1>2, RunsBegin

\* Whoever deletes the outbox row of a delivery in its first run has seen its job
\* accepted.
LEMMA DeletedAfterQueued ==
    ASSUME TypeOK, NEW d \in Deliveries, row[d].replayCount = 0, NEW jobs \in SUBSET JobId,
           OfBegunRuns(jobs), jobs \subseteq queued, d \in Ids(jobs)
    PROVE  CurrentJob(d) \in queued
<1>1. PICK j \in jobs : d = DeliveryOf(j)
  BY DEF Ids
<1>2. j[2] \in Nat /\ j[2] <= 0 /\ j = <<d, j[2]>>
  BY <1>1, MaxReplaysAssumption DEF OfBegunRuns, JobId, DeliveryOf
<1> QED
  BY <1>2 DEF CurrentJob

LEMMA CurrentRun ==
    ASSUME TypeOK, NEW d \in Deliveries
    PROVE  DeliveryOf(CurrentJob(d)) = d /\ CurrentJob(d)[2] = row[d].replayCount
BY DEF CurrentJob, DeliveryOf

LEMMA OutboxInit == Init => OutboxInv
BY DEF Init, InitAt, OutboxInv, OutboxUntilQueued, HandlerInv, SweepInv, OfBegunRuns,
       IdleHandler, IdleSweeper, AbsentRow, OpenStatus

LEMMA OutboxStep == TypeOK /\ TypeOK' /\ NumbersInv /\ OutboxInv /\ [Next]_vars => OutboxInv'
<1> SUFFICES ASSUME TypeOK, TypeOK', NumbersInv, OutboxInv, [Next]_vars PROVE OutboxInv'
  OBVIOUS
<1>0. /\ handler \in [Handlers -> HandlerState] /\ sweeper \in [Sweepers -> SweeperState]
      /\ \A h \in Handlers : handler[h].jobs \in SUBSET JobId
      /\ \A s \in Sweepers : sweeper[s].jobs \in SUBSET JobId
  BY DEF TypeOK, HandlerState, SweeperState
\* A request or a sweep that the step leaves alone
<1>1. ASSUME queued \subseteq queued', NEW h \in Handlers, handler'[h] = handler[h]
      PROVE  HandlerInv(h)'
  BY <1>0, <1>1, RunsStayBegun DEF OutboxInv, HandlerInv, OfBegunRuns
<1>2. ASSUME queued \subseteq queued', NEW s \in Sweepers, sweeper'[s] = sweeper[s]
      PROVE  SweepInv(s)'
  BY <1>0, <1>2, RunsStayBegun DEF OutboxInv, SweepInv, OfBegunRuns
\* Nothing is deleted but deliveries whose first job has been accepted.
<1>3. ASSUME queued \subseteq queued',
             \A d \in outbox \ outbox' : row[d].replayCount = 0 => CurrentJob(d) \in queued
      PROVE  OutboxUntilQueued'
  <2> SUFFICES ASSUME NEW d \in Deliveries, row'[d].status \in OpenStatus,
                      row'[d].replayCount = 0, CurrentJob(d)' \notin queued'
               PROVE  d \in outbox'
    BY DEF OutboxUntilQueued
  <2> QED
    BY <1>3, RunsBegin DEF OutboxInv, OutboxUntilQueued, CurrentJob, Inserted
<1>4. CASE Tick \/ WorkerNext \/ QueueNext \/ UNCHANGED vars
  <2>1. UNCHANGED <<outbox, queued, handler, sweeper>>
    BY <1>4, ZenonT(60) DEF Tick, WorkerNext, Fetch, Admit, RateLimited, Claim,
       ClaimTimesOut, Post, Record, Delay, Finish, ProcessorThrows, WorkerCrashes,
       LockExpires, QueueNext, Promote, RecoverStalled, RedisLosesData, vars
  <2> QED
    BY <1>1, <1>2, <1>3, <2>1 DEF OutboxInv
<1>5. CASE ApiNext
  <2>1. PICK h \in Handlers :
          \/ Ingest(h)
          \/ \E d \in Deliveries : ReadForReplay(h, d) \/ Replay(h, d)
          \/ HandlerEnqueues(h) \/ EnqueueTimesOut(h) \/ Acknowledge(h) \/ HandlerFails(h)
    BY <1>5 DEF ApiNext
  <2>2. HandlerInv(h) /\ handler[h].jobs \in SUBSET JobId
    BY <1>0 DEF OutboxInv
  <2>3. /\ sweeper' = sweeper /\ queued \subseteq queued'
        /\ \A g \in Handlers : g # h => handler'[g] = handler[g]
    BY <1>0, <2>1 DEF Ingest, ReadForReplay, Replay, HandlerEnqueues, EnqueueTimesOut,
                      Acknowledge, HandlerFails, Enqueue
  <2>4. OutboxUntilQueued'
    <3>1. CASE Acknowledge(h)
      <4>1. outbox' = outbox \ Ids(handler[h].jobs) /\ handler[h].jobs \subseteq queued
        BY <2>2, <3>1 DEF Acknowledge, HandlerInv
      <4>2. ASSUME NEW d \in outbox \ outbox', row[d].replayCount = 0
            PROVE  CurrentJob(d) \in queued
        <5>1. d \in Deliveries /\ d \in Ids(handler[h].jobs)
          BY <4>1, <4>2 DEF TypeOK, TablesOK
        <5> QED
          BY <2>2, <4>1, <4>2, <5>1, DeletedAfterQueued DEF HandlerInv
      <4> QED
        BY <1>3, <2>3, <4>2
    <3>2. CASE ~Acknowledge(h)
      <4>1. outbox \subseteq outbox'
        BY <2>1, <3>2 DEF Ingest, ReadForReplay, Replay, HandlerEnqueues, EnqueueTimesOut,
                          HandlerFails
      <4> QED
        BY <1>3, <2>3, <4>1
    <3> QED
      BY <3>1, <3>2
  <2>5. HandlerInv(h)'
    <3>1. CASE Ingest(h)
      <4> DEFINE After(new) ==
            [d \in Deliveries |-> IF d \in new THEN InsertedRow(now) ELSE row[d]]
      <4>1. PICK new \in SUBSET Deliveries :
              /\ row' = After(new)
              /\ handler' = [handler EXCEPT ![h] =
                   [pc |-> "enqueue",
                    jobs |-> {<<d, After(new)[d].replayCount>> :
                                d \in {e \in Deliveries : After(new)[e].status \in OpenStatus}}]]
        BY <3>1, Zenon DEF Ingest
      <4> HIDE DEF After
      <4>2. /\ handler'[h].jobs \subseteq {<<d, row'[d].replayCount>> : d \in Deliveries}
            /\ handler'[h].pc = "enqueue"
        BY <1>0, <4>1
      <4>3. \A d \in Deliveries : row'[d].replayCount \in Nat
        BY DEF TypeOK, RowsOK, DeliveryRow
      <4> QED
        BY <4>2, <4>3 DEF HandlerInv, OfBegunRuns, DeliveryOf
    <3>2. ASSUME NEW d \in Deliveries, ReadForReplay(h, d) PROVE HandlerInv(h)'
      <4>1. /\ handler'[h].jobs = {CurrentJob(d)} /\ handler'[h].pc # "acknowledge"
            /\ row' = row
        BY <1>0, <3>2 DEF ReadForReplay
      <4> QED
        BY <4>1, CurrentRun, RowTypes DEF HandlerInv, OfBegunRuns
    <3>3. ASSUME NEW d \in Deliveries, Replay(h, d) PROVE HandlerInv(h)'
      <4>1. CASE CanReplay(row[d])
        <5>1. /\ row' = [row EXCEPT ![d] = ReplayedRow(row[d], now)]
              /\ handler'[h] = [pc |-> "enqueue", jobs |-> {<<d, row[d].replayCount + 1>>}]
          BY <1>0, <3>3, <4>1 DEF Replay
        <5>2. row'[d].replayCount = row[d].replayCount + 1 /\ row[d].replayCount \in Nat
          BY <5>1, RowTypes DEF ReplayedRow, TypeOK, RowsOK
        <5> QED
          BY <5>1, <5>2 DEF HandlerInv, OfBegunRuns, DeliveryOf
      <4>2. CASE ~CanReplay(row[d])
        BY <1>0, <3>3, <4>2 DEF Replay, HandlerInv, OfBegunRuns, IdleHandler
      <4> QED
        BY <4>1, <4>2
    <3>4. CASE HandlerEnqueues(h)
      <4>1. \/ handler'[h] = IdleHandler
            \/ handler'[h].jobs = handler[h].jobs /\ handler[h].jobs \subseteq queued'
        BY <1>0, <3>4 DEF HandlerEnqueues, Enqueue, HandlerState
      <4>2. row' = row
        BY <3>4 DEF HandlerEnqueues
      <4> QED
        BY <2>2, <4>1, <4>2 DEF HandlerInv, OfBegunRuns, IdleHandler
    <3>5. CASE EnqueueTimesOut(h)
      BY <1>0, <2>2, <3>5 DEF EnqueueTimesOut, HandlerState, HandlerInv, OfBegunRuns
    <3>6. CASE Acknowledge(h) \/ HandlerFails(h)
      BY <1>0, <3>6 DEF Acknowledge, HandlerFails, HandlerInv, OfBegunRuns, IdleHandler
    <3> QED
      BY <2>1, <3>1, <3>2, <3>3, <3>4, <3>5, <3>6
  <2>6. ASSUME NEW g \in Handlers PROVE HandlerInv(g)'
    BY <1>1, <2>3, <2>5
  <2>7. ASSUME NEW s \in Sweepers PROVE SweepInv(s)'
    BY <1>2, <2>3
  <2> QED
    BY <2>4, <2>6, <2>7 DEF OutboxInv
<1>6. CASE SweeperNext
  <2>1. PICK s \in Sweepers :
          \/ SelectOutbox(s) \/ EnqueueOutbox(s) \/ DeleteOutbox(s)
          \/ SelectOrphans(s) \/ Reclaim(s) \/ EnqueueOrphans(s) \/ SweepFails(s)
    BY <1>6 DEF SweeperNext
  <2>2. SweepInv(s) /\ sweeper[s].jobs \in SUBSET JobId
    BY <1>0 DEF OutboxInv
  <2>3. /\ handler' = handler /\ queued \subseteq queued'
        /\ \A t \in Sweepers : t # s => sweeper'[t] = sweeper[t]
    BY <1>0, <2>1 DEF SelectOutbox, EnqueueOutbox, DeleteOutbox, SelectOrphans, Reclaim,
                      EnqueueOrphans, SweepFails, Enqueue
  <2>4. OutboxUntilQueued'
    <3>1. CASE DeleteOutbox(s)
      <4>1. outbox' = outbox \ Ids(sweeper[s].jobs) /\ sweeper[s].jobs \subseteq queued
        BY <2>2, <3>1 DEF DeleteOutbox, SweepInv
      <4>2. ASSUME NEW d \in outbox \ outbox', row[d].replayCount = 0
            PROVE  CurrentJob(d) \in queued
        <5>1. d \in Deliveries /\ d \in Ids(sweeper[s].jobs)
          BY <4>1, <4>2 DEF TypeOK, TablesOK
        <5> QED
          BY <2>2, <4>1, <4>2, <5>1, DeletedAfterQueued DEF SweepInv
      <4> QED
        BY <1>3, <2>3, <4>2
    <3>2. CASE ~DeleteOutbox(s)
      <4>1. outbox' = outbox
        BY <2>1, <3>2 DEF SelectOutbox, EnqueueOutbox, SelectOrphans, Reclaim,
                          EnqueueOrphans, SweepFails
      <4> QED
        BY <1>3, <2>3, <4>1
    <3> QED
      BY <3>1, <3>2
  <2>5. SweepInv(s)'
    <3>1. ASSUME sweeper'[s].jobs = {} PROVE SweepInv(s)'
      BY <3>1 DEF SweepInv, OfBegunRuns
    <3>2. StartScan.jobs = {} /\ IdleSweeper.jobs = {}
      BY DEF StartScan, IdleSweeper
    <3>3. CASE SelectOutbox(s)
      <4>1. PICK batch \in SUBSET outbox :
              sweeper' = [sweeper EXCEPT ![s] =
                IF batch = {} THEN StartScan
                ELSE [IdleSweeper EXCEPT !.pc = "enqueue_outbox",
                                         !.jobs = {CurrentJob(d) : d \in batch}]]
        BY <3>3, Zenon DEF SelectOutbox
      <4>2. CASE batch = {}
        BY <1>0, <3>1, <3>2, <4>1, <4>2
      <4>3. CASE batch # {}
        <5>1. /\ sweeper'[s].jobs = {CurrentJob(d) : d \in batch}
              /\ sweeper'[s].pc = "enqueue_outbox" /\ row' = row /\ batch \subseteq Deliveries
          BY <1>0, <3>3, <4>1, <4>3 DEF SelectOutbox, IdleSweeper, TypeOK, TablesOK
        <5> QED
          BY <5>1, CurrentRun, RowTypes DEF SweepInv, OfBegunRuns
      <4> QED
        BY <4>2, <4>3
    <3>4. CASE EnqueueOutbox(s)
      BY <1>0, <2>2, <3>4 DEF EnqueueOutbox, Enqueue, SweeperState, SweepInv, OfBegunRuns
    <3>5. CASE DeleteOutbox(s)
      <4>1. [IdleSweeper EXCEPT !.pc = "drain"].jobs = {}
        BY DEF IdleSweeper
      <4> QED
        BY <1>0, <3>1, <3>2, <3>5, <4>1 DEF DeleteOutbox
    <3>6. CASE SelectOrphans(s)
      <4>1. \/ sweeper'[s] = IdleSweeper
            \/ sweeper'[s].jobs = sweeper[s].jobs /\ sweeper'[s].pc = "reclaim"
        BY <1>0, <3>6 DEF SelectOrphans, SweeperState
      <4>2. row' = row
        BY <3>6 DEF SelectOrphans
      <4> QED
        BY <2>2, <3>1, <3>2, <4>1, <4>2 DEF SweepInv, OfBegunRuns
    <3>7. CASE Reclaim(s)
      <4>1. /\ sweeper'[s].jobs = {CurrentJob(d) : d \in Reclaimable(s)}
            /\ sweeper'[s].pc = "enqueue_orphans" /\ Reclaimable(s) \subseteq Deliveries
        BY <1>0, <3>7 DEF Reclaim, SweeperState, Reclaimable
      <4>2. \A d \in Deliveries : row'[d].replayCount >= row[d].replayCount
        BY RunsBegin
      <4> QED
        BY <4>1, <4>2, CurrentRun DEF SweepInv, OfBegunRuns
    <3>8. CASE EnqueueOrphans(s) \/ SweepFails(s)
      BY <1>0, <3>1, <3>2, <3>8 DEF EnqueueOrphans, SweepFails
    <3> QED
      BY <2>1, <3>3, <3>4, <3>5, <3>6, <3>7, <3>8
  <2>6. ASSUME NEW t \in Sweepers PROVE SweepInv(t)'
    BY <1>2, <2>3, <2>5
  <2>7. ASSUME NEW h \in Handlers PROVE HandlerInv(h)'
    BY <1>1, <2>3
  <2> QED
    BY <2>4, <2>6, <2>7 DEF OutboxInv
<1> QED
  BY <1>4, <1>5, <1>6 DEF Next

\* A delivery that has been committed is in the outbox until the queue has accepted
\* its first job, whoever else enqueues, acknowledges, sweeps or fails.
THEOREM CommittedUntilQueued == Spec => []OutboxUntilQueued
<1>1. OutboxInv => OutboxUntilQueued
  BY DEF OutboxInv
<1> QED
  BY <1>1, TypeStep, OutboxInit, OutboxStep, InvariantsHold, PTL DEF Spec
=============================================================================
