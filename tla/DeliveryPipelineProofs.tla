----------------------- MODULE DeliveryPipelineProofs -----------------------
(***************************************************************************)
(* Theorems about DeliveryPipeline, for any number of deliveries, workers,  *)
(* sweepers and requests, any attempt cap, lock duration and bounds.        *)
(***************************************************************************)
EXTENDS DeliveryPipeline, TLAPS

----------------------------------------------------------------------------
(* The operators on a row keep its type. *)

LEMMA JobDelivery ==
    ASSUME NEW j \in JobId
    PROVE  DeliveryOf(j) \in Deliveries /\ j[2] \in 0 .. MaxReplays
BY DEF JobId, DeliveryOf

LEMMA ClaimedRowType ==
    ASSUME NEW r \in DeliveryRow, NEW lease \in Nat
    PROVE  /\ ClaimedRow(r, lease) \in DeliveryRow
           /\ ClaimedRow(r, lease).replayCount = r.replayCount
           /\ ReservedAttempt(r) \in 0 .. MAX_DELIVERY_ATTEMPTS
<1> DEFINE count == IF r.attemptCount < MAX_DELIVERY_ATTEMPTS
                      THEN r.attemptCount + 1 ELSE r.attemptCount
<1>1. r.attemptCount \in 0 .. MAX_DELIVERY_ATTEMPTS
  BY DEF DeliveryRow
<1>2. count \in 0 .. MAX_DELIVERY_ATTEMPTS /\ ReservedAttempt(r) \in 0 .. MAX_DELIVERY_ATTEMPTS
  BY <1>1, MaxAttemptsAssumption DEF ReservedAttempt
<1>3. ClaimedRow(r, lease) = [r EXCEPT !.status = "in_progress", !.attemptCount = count,
                                       !.updatedAt = lease]
  BY DEF ClaimedRow
<1> HIDE DEF count
<1> QED
  BY <1>2, <1>3 DEF DeliveryRow, Status

LEMMA RecordedRowType ==
    ASSUME NEW r \in DeliveryRow, NEW decision \in Decision, NEW retryAt \in Nat,
           NEW attempt \in 0 .. MAX_DELIVERY_ATTEMPTS, NEW t \in Nat
    PROVE  /\ RecordedRow(r, decision, attempt, retryAt, t) \in DeliveryRow
           /\ RecordedRow(r, decision, attempt, retryAt, t).replayCount = r.replayCount
BY DEF DeliveryRow, RecordedRow, Decision, Status, LastError, NoRetry

LEMMA InsertedRowType ==
    ASSUME NEW t \in Nat
    PROVE  InsertedRow(t) \in DeliveryRow /\ InsertedRow(t).replayCount = 0
<1>1. 0 \in 0 .. MAX_DELIVERY_ATTEMPTS
  BY MaxAttemptsAssumption
<1>2. AbsentRow \in DeliveryRow /\ AbsentRow.replayCount = 0
  BY <1>1 DEF DeliveryRow, AbsentRow, Status, LastError, NoRetry
<1> QED
  BY <1>2 DEF DeliveryRow, InsertedRow, Status

LEMMA ReclaimedRowType ==
    ASSUME NEW r \in DeliveryRow, NEW t \in Nat
    PROVE  /\ ReclaimedRow(r, t) \in DeliveryRow
           /\ ReclaimedRow(r, t).replayCount = r.replayCount
BY DEF DeliveryRow, ReclaimedRow, Status

LEMMA ReplayedRowType ==
    ASSUME NEW r \in DeliveryRow, NEW t \in Nat
    PROVE  /\ ReplayedRow(r, t) \in DeliveryRow
           /\ ReplayedRow(r, t).replayCount = r.replayCount + 1
<1>1. 0 \in 0 .. MAX_DELIVERY_ATTEMPTS
  BY MaxAttemptsAssumption
<1> QED
  BY <1>1 DEF DeliveryRow, ReplayedRow, Status, LastError, NoRetry

LEMMA DecideType ==
    ASSUME NEW answer \in Answer, NEW n \in 1 .. MAX_DELIVERY_ATTEMPTS
    PROVE  Decide(answer, n) \in Decision /\ BackoffDelay(n) \in Nat
BY BackoffAssumption DEF Decide, Decision

LEMMA EnqueueType ==
    ASSUME NEW q \in [JobId -> JobState], NEW jobs
    PROVE  EnqueueJobs(q, jobs) \in [JobId -> JobState]
BY DEF EnqueueJobs, JobState

LEMMA MoveType ==
    ASSUME NEW q \in [JobId -> JobState], NEW j, NEW locked \in BOOLEAN,
           NEW state \in JobState
    PROVE  MoveJob(q, j, locked, state) \in [JobId -> JobState]
BY DEF MoveJob

----------------------------------------------------------------------------
(* Updates that keep the variables in their types *)

LEMMA RowUpdate ==
    ASSUME RowsOK, NEW d \in Deliveries, NEW r \in DeliveryRow,
           r.replayCount <= MaxReplays, row' = [row EXCEPT ![d] = r]
    PROVE  RowsOK'
BY DEF RowsOK

LEMMA WorkerUpdate ==
    ASSUME WorkersOK, NEW w \in Workers, NEW x \in WorkerState,
           x.pc # "idle" \/ x.locked => x.job \in JobId,
           x.pc = "send" => x.attempt # 0,
           worker' = [worker EXCEPT ![w] = x]
    PROVE  WorkersOK'
BY DEF WorkersOK

LEMMA CurrentJobType ==
    ASSUME RowsOK, NEW d \in Deliveries
    PROVE  CurrentJob(d) \in JobId /\ row[d].replayCount \in 0 .. MaxReplays
<1>1. row[d].replayCount \in Nat /\ row[d].replayCount <= MaxReplays
  BY DEF RowsOK, DeliveryRow
<1> QED
  BY <1>1, MaxReplaysAssumption DEF CurrentJob, JobId

LEMMA IdleTypes ==
    /\ IdleWorker \in WorkerState
    /\ IdleWorker.pc = "idle" /\ IdleWorker.locked = FALSE
    /\ IdleSweeper \in SweeperState
    /\ IdleHandler \in HandlerState
<1>1. 0 \in 0 .. MaxReplays /\ 0 \in 0 .. MAX_DELIVERY_ATTEMPTS
  BY MaxReplaysAssumption, MaxAttemptsAssumption
<1> QED
  BY <1>1 DEF IdleWorker, WorkerState, WorkerPc, Decision, NoRetry, IdleSweeper,
              SweeperState, SweeperPc, IdleHandler, HandlerState, HandlerPc

LEMMA IdsType ==
    ASSUME NEW jobs \in SUBSET JobId
    PROVE  Ids(jobs) \subseteq Deliveries
BY JobDelivery DEF Ids

\* The end of a processor call: the worker is idle, its job moved or not.
LEMMA WorkerIdles ==
    ASSUME TypeOK, NEW w \in Workers, NEW state \in JobState,
           worker' = [worker EXCEPT ![w] = IdleWorker],
           job' = MoveJob(job, worker[w].job, worker[w].locked, state)
    PROVE  WorkersOK' /\ job' \in [JobId -> JobState]
<1>1. WorkersOK /\ worker[w].locked \in BOOLEAN
  BY DEF TypeOK, WorkersOK, WorkerState
<1>2. WorkersOK'
  BY <1>1, IdleTypes, WorkerUpdate
<1>3. job' \in [JobId -> JobState]
  BY <1>1, MoveType DEF TypeOK
<1> QED
  BY <1>2, <1>3

----------------------------------------------------------------------------
(* Type correctness, one lemma for the actions of each actor *)

LEMMA FaultType == ASSUME TypeOK, Fault PROVE faults' \in 0 .. MaxFaults
BY BoundsAssumption DEF TypeOK, Fault

LEMMA ApiType == ASSUME TypeOK, ApiNext PROVE TypeOK'
<1> PICK h \in Handlers :
      \/ Ingest(h)
      \/ \E d \in Deliveries : ReadForReplay(h, d) \/ Replay(h, d)
      \/ HandlerEnqueues(h) \/ EnqueueTimesOut(h) \/ Acknowledge(h) \/ HandlerFails(h)
  BY DEF ApiNext
<1> DEFINE jobs == handler[h].jobs
<1>0. /\ now \in Nat /\ jobs \in SUBSET JobId /\ Ids(jobs) \subseteq Deliveries
      /\ handler \in [Handlers -> HandlerState]
  BY BoundsAssumption, IdsType, SMTT(30) DEF TypeOK, HandlerState
<1>1. CASE Ingest(h)
  <2> DEFINE After(new) ==
        [d \in Deliveries |-> IF d \in new THEN InsertedRow(now) ELSE row[d]]
  <2>1. PICK new \in SUBSET Deliveries :
          /\ row' = After(new)
          /\ outbox' = outbox \cup new
          /\ handler' = [handler EXCEPT ![h] =
               [pc |-> "enqueue",
                jobs |-> {<<d, After(new)[d].replayCount>> :
                            d \in {e \in Deliveries : After(new)[e].status \in OpenStatus}}]]
    BY <1>1, Zenon DEF Ingest
  <2>2. RowsOK'
    <3>1. /\ InsertedRow(now) \in DeliveryRow /\ InsertedRow(now).replayCount = 0
          /\ row \in [Deliveries -> DeliveryRow]
          /\ \A d \in Deliveries : row[d].replayCount <= MaxReplays
      BY <1>0, InsertedRowType DEF TypeOK, RowsOK
    <3>2. \A d \in Deliveries : row'[d] = InsertedRow(now) \/ row'[d] = row[d]
      BY <2>1
    <3>3. row' \in [Deliveries -> DeliveryRow]
      BY <2>1, <3>1
    <3>4. \A d \in Deliveries : row'[d].replayCount <= MaxReplays
      BY <3>1, <3>2, MaxReplaysAssumption
    <3> QED
      BY <3>3, <3>4 DEF RowsOK
  <2>3. \A d \in Deliveries : <<d, row'[d].replayCount>> \in JobId
    BY <2>2, MaxReplaysAssumption DEF RowsOK, DeliveryRow, JobId
  <2>4. handler' \in [Handlers -> HandlerState]
    BY <1>0, <2>1, <2>3 DEF HandlerState, HandlerPc
  <2>5. outbox' \subseteq Deliveries
    BY <2>1 DEF TypeOK, TablesOK
  <2> QED
    BY <1>1, <2>2, <2>4, <2>5 DEF Ingest, TypeOK, TablesOK, WorkersOK
<1>2. ASSUME NEW d \in Deliveries, ReadForReplay(h, d) PROVE TypeOK'
  <2>1. CurrentJob(d) \in JobId
    BY CurrentJobType DEF TypeOK
  <2>2. handler' \in [Handlers -> HandlerState]
    BY <1>0, <1>2, <2>1 DEF ReadForReplay, HandlerState, HandlerPc
  <2> QED
    BY <1>2, <2>2 DEF ReadForReplay, TypeOK, TablesOK, RowsOK, WorkersOK
<1>3. ASSUME NEW d \in Deliveries, Replay(h, d) PROVE TypeOK'
  <2>1. CASE CanReplay(row[d])
    <3>1. row[d] \in DeliveryRow /\ row[d].replayCount \in Nat /\ row[d].replayCount < MaxReplays
      BY <1>3, <2>1 DEF Replay, TypeOK, RowsOK, DeliveryRow
    <3>2. RowsOK'
      <4>1. RowsOK /\ row' = [row EXCEPT ![d] = ReplayedRow(row[d], now)]
        BY <1>3, <2>1 DEF Replay, TypeOK
      <4>2. /\ ReplayedRow(row[d], now) \in DeliveryRow
            /\ ReplayedRow(row[d], now).replayCount = row[d].replayCount + 1
        BY <1>0, <3>1, ReplayedRowType
      <4>3. ReplayedRow(row[d], now).replayCount <= MaxReplays
        BY <3>1, <4>2, MaxReplaysAssumption
      <4> QED
        BY <4>1, <4>2, <4>3, RowUpdate
    <3>3. <<d, row[d].replayCount + 1>> \in JobId
      BY <3>1, MaxReplaysAssumption DEF JobId
    <3>4. handler' \in [Handlers -> HandlerState]
      BY <1>0, <1>3, <2>1, <3>3 DEF Replay, HandlerState, HandlerPc
    <3> QED
      BY <1>3, <2>1, <3>2, <3>4 DEF Replay, TypeOK, TablesOK, WorkersOK
  <2>2. CASE ~CanReplay(row[d])
    <3>1. handler' \in [Handlers -> HandlerState]
      BY <1>0, <1>3, <2>2, IdleTypes DEF Replay
    <3> QED
      BY <1>3, <2>2, <3>1 DEF Replay, TypeOK, TablesOK, RowsOK, WorkersOK
  <2> QED
    BY <2>1, <2>2
<1>4. CASE HandlerEnqueues(h)
  <2>1. job' \in [JobId -> JobState] /\ queued' \subseteq JobId
    BY <1>0, <1>4, EnqueueType DEF HandlerEnqueues, Enqueue, TypeOK, TablesOK
  <2>2. [handler[h] EXCEPT !.pc = "acknowledge"] \in HandlerState
    BY <1>0 DEF HandlerState, HandlerPc
  <2>3. handler' \in [Handlers -> HandlerState]
    <3> DEFINE x == IF handler[h].pc = "late" THEN IdleHandler
                    ELSE [handler[h] EXCEPT !.pc = "acknowledge"]
    <3>1. handler' = [handler EXCEPT ![h] = x]
      BY <1>4 DEF HandlerEnqueues
    <3>2. x \in HandlerState
      BY <2>2, IdleTypes
    <3> HIDE DEF x
    <3> QED
      BY <1>0, <3>1, <3>2
  <2> QED
    BY <1>4, <2>1, <2>3 DEF HandlerEnqueues, TypeOK, TablesOK, RowsOK, WorkersOK
<1>5. CASE EnqueueTimesOut(h)
  <2>1. handler' \in [Handlers -> HandlerState]
    BY <1>0, <1>5 DEF EnqueueTimesOut, HandlerState, HandlerPc
  <2> QED
    BY <1>5, <2>1 DEF EnqueueTimesOut, TypeOK, TablesOK, RowsOK, WorkersOK
<1>6. CASE Acknowledge(h)
  <2>1. handler' \in [Handlers -> HandlerState]
    BY <1>0, <1>6, IdleTypes DEF Acknowledge
  <2> QED
    BY <1>6, <2>1 DEF Acknowledge, TypeOK, TablesOK, RowsOK, WorkersOK
<1>7. CASE HandlerFails(h)
  <2>1. handler' \in [Handlers -> HandlerState]
    BY <1>0, <1>7, IdleTypes DEF HandlerFails
  <2> QED
    BY <1>7, <2>1, FaultType DEF HandlerFails, TypeOK, TablesOK, RowsOK, WorkersOK
<1> QED
  BY <1>1, <1>2, <1>3, <1>4, <1>5, <1>6, <1>7

LEMMA WorkerType == ASSUME TypeOK, WorkerNext PROVE TypeOK'
<1> PICK w \in Workers :
      \/ Fetch(w) \/ Admit(w) \/ RateLimited(w) \/ Claim(w) \/ ClaimTimesOut(w)
      \/ Post(w) \/ Record(w) \/ Delay(w) \/ Finish(w)
      \/ ProcessorThrows(w) \/ WorkerCrashes(w) \/ LockExpires(w)
  BY DEF WorkerNext
<1> DEFINE me == worker[w]
           d == DeliveryOf(me.job)
<1>0. /\ now \in Nat /\ me \in WorkerState /\ WorkersOK /\ RowsOK
      /\ me.pc # "idle" => me.job \in JobId /\ d \in Deliveries
      /\ me.locked => me.job \in JobId
  BY BoundsAssumption, JobDelivery DEF TypeOK, WorkersOK
<1>1. CASE Fetch(w)
  <2>1. PICK j \in JobId :
          /\ job' = [job EXCEPT ![j] = "active"]
          /\ worker' = [worker EXCEPT ![w] =
               [IdleWorker EXCEPT !.pc = "admit", !.job = j, !.locked = TRUE]]
    BY <1>1 DEF Fetch
  <2> DEFINE x == [IdleWorker EXCEPT !.pc = "admit", !.job = j, !.locked = TRUE]
  <2>2. x \in WorkerState /\ x.job \in JobId /\ x.pc # "send"
    BY IdleTypes DEF WorkerState, WorkerPc
  <2>3. WorkersOK'
    BY <1>0, <2>1, <2>2, WorkerUpdate
  <2>4. job' \in [JobId -> JobState]
    BY <2>1 DEF TypeOK, JobState
  <2> QED
    BY <1>1, <2>3, <2>4 DEF Fetch, TypeOK, TablesOK, RowsOK
<1>2. CASE Admit(w)
  <2> DEFINE x == [me EXCEPT !.pc = "claim", !.lease = now]
  <2>1. x \in WorkerState /\ x.job \in JobId /\ x.pc # "send"
    BY <1>0, <1>2 DEF Admit, WorkerState, WorkerPc
  <2>2. worker' = [worker EXCEPT ![w] = x]
    BY <1>2 DEF Admit
  <2>3. WorkersOK'
    BY <1>0, <2>1, <2>2, WorkerUpdate
  <2> QED
    BY <1>2, <2>3 DEF Admit, TypeOK, TablesOK, RowsOK
<1>3. CASE RateLimited(w)
  <2>1. WorkersOK' /\ job' \in [JobId -> JobState]
    BY <1>3, WorkerIdles DEF RateLimited, JobState
  <2> QED
    BY <1>3, <2>1 DEF RateLimited, TypeOK, TablesOK, RowsOK
<1>4. CASE Claim(w)
  <2>1. /\ d \in Deliveries /\ me.job \in JobId /\ me.lease \in Nat
        /\ row[d] \in DeliveryRow /\ row[d].replayCount \in 0 .. MaxReplays
        /\ row[d].replayCount <= MaxReplays
    BY <1>0, <1>4, CurrentJobType DEF Claim, RowsOK, WorkerState
  <2>2. CASE IsDue(row[d], now)
    <3>1. PICK endpoint \in {"active", "disabled"} :
            worker' = [worker EXCEPT ![w] =
              [me EXCEPT !.run = row[d].replayCount,
                         !.attempt = ReservedAttempt(row[d]),
                         !.pc = IF ReservedAttempt(row[d]) # 0 /\ endpoint = "active"
                                  THEN "send" ELSE "record",
                         !.decision = IF ReservedAttempt(row[d]) = 0 THEN "exhausted"
                                      ELSE IF endpoint = "disabled" THEN "failed"
                                      ELSE "none"]]
      BY <1>4, <2>2 DEF Claim
    <3> DEFINE a == ReservedAttempt(row[d])
               p == IF a # 0 /\ endpoint = "active" THEN "send" ELSE "record"
               c == IF a = 0 THEN "exhausted"
                    ELSE IF endpoint = "disabled" THEN "failed" ELSE "none"
               x == [me EXCEPT !.run = row[d].replayCount, !.attempt = a, !.pc = p,
                               !.decision = c]
    <3>2. /\ a \in 0 .. MAX_DELIVERY_ATTEMPTS /\ p \in WorkerPc /\ c \in Decision
          /\ p = "send" => a # 0
      BY <2>1, ClaimedRowType DEF WorkerPc, Decision
    <3>3. worker' = [worker EXCEPT ![w] = x]
      BY <3>1
    <3> HIDE DEF a, p, c
    <3>4. x \in WorkerState /\ x.job \in JobId /\ (x.pc = "send" => x.attempt # 0)
      BY <1>0, <2>1, <3>2 DEF WorkerState
    <3> HIDE DEF x
    <3>5. WorkersOK'
      BY <1>0, <3>3, <3>4, WorkerUpdate
    <3>6. RowsOK'
      <4>1. row' = [row EXCEPT ![d] = ClaimedRow(row[d], me.lease)]
        BY <1>4, <2>2 DEF Claim
      <4>2. /\ ClaimedRow(row[d], me.lease) \in DeliveryRow
            /\ ClaimedRow(row[d], me.lease).replayCount = row[d].replayCount
        BY <2>1, ClaimedRowType
      <4> QED
        BY <1>0, <2>1, <4>1, <4>2, RowUpdate
    <3> QED
      BY <1>4, <3>5, <3>6 DEF Claim, TypeOK, TablesOK
  <2>3. CASE ~IsDue(row[d], now)
    <3> DEFINE x == [me EXCEPT !.pc = "finish"]
    <3>1. x \in WorkerState /\ x.job \in JobId /\ x.pc # "send"
      BY <1>0, <2>1 DEF WorkerState, WorkerPc
    <3>2. worker' = [worker EXCEPT ![w] = x] /\ UNCHANGED row
      BY <1>4, <2>3 DEF Claim
    <3>3. WorkersOK'
      BY <1>0, <3>1, <3>2, WorkerUpdate
    <3> QED
      BY <1>4, <3>2, <3>3 DEF Claim, TypeOK, TablesOK, RowsOK
  <2> QED
    BY <2>2, <2>3
<1>5. CASE ClaimTimesOut(w)
  <2>1. WorkersOK' /\ job' \in [JobId -> JobState]
    BY <1>5, WorkerIdles DEF ClaimTimesOut, EndCall, JobState
  <2> QED
    BY <1>5, <2>1 DEF ClaimTimesOut, TypeOK, TablesOK, RowsOK
<1>6. CASE Post(w)
  <2>1. /\ d \in Deliveries /\ me.job \in JobId
        /\ me.run \in 0 .. MaxReplays /\ me.attempt \in 1 .. MAX_DELIVERY_ATTEMPTS
    <3>1. me.pc = "send" /\ me.attempt # 0
      BY <1>0, <1>6 DEF Post, WorkersOK
    <3>2. me.run \in 0 .. MaxReplays /\ me.attempt \in 0 .. MAX_DELIVERY_ATTEMPTS
      BY <1>0 DEF WorkerState
    <3> QED
      BY <1>0, <3>1, <3>2, MaxAttemptsAssumption
  <2>2. PICK answer \in Answer :
          /\ acked' = IF answer = "ok" THEN acked \cup {<<d, me.run>>} ELSE acked
          /\ worker' = [worker EXCEPT ![w] =
               [me EXCEPT !.pc = "record",
                          !.decision = Decide(answer, me.attempt),
                          !.retryAt = IF Decide(answer, me.attempt) = "retry"
                                        THEN now + BackoffDelay(me.attempt) ELSE NoRetry]]
    BY <1>6 DEF Post
  <2> DEFINE at == IF Decide(answer, me.attempt) = "retry"
                     THEN now + BackoffDelay(me.attempt) ELSE NoRetry
             c == Decide(answer, me.attempt)
             x == [me EXCEPT !.pc = "record", !.decision = c, !.retryAt = at]
  <2>3. at \in Nat /\ c \in Decision /\ worker' = [worker EXCEPT ![w] = x]
    <3>1. c \in Decision /\ BackoffDelay(me.attempt) \in Nat
      BY <2>1, DecideType
    <3>2. at \in Nat
      BY <1>0, <3>1 DEF NoRetry
    <3> QED
      BY <2>2, <3>1, <3>2
  <2> HIDE DEF at, c
  <2>4. x \in WorkerState /\ x.job \in JobId /\ x.pc # "send"
    BY <1>0, <2>1, <2>3 DEF WorkerState, WorkerPc
  <2>5. WorkersOK'
    BY <1>0, <2>3, <2>4, WorkerUpdate
  <2>6. <<d, me.run>> \in JobId /\ acked' \subseteq JobId
    BY <2>1, <2>2 DEF JobId, TypeOK, TablesOK
  <2>7. sent' \subseteq Deliveries \X (0 .. MaxReplays) \X (1 .. MAX_DELIVERY_ATTEMPTS)
    <3>1. <<d, me.run, me.attempt>>
            \in Deliveries \X (0 .. MaxReplays) \X (1 .. MAX_DELIVERY_ATTEMPTS)
      BY <2>1
    <3>2. sent' = sent \cup {<<d, me.run, me.attempt>>}
      BY <1>6 DEF Post
    <3> QED
      BY <3>1, <3>2 DEF TypeOK, TablesOK
  <2> QED
    BY <1>6, <2>5, <2>6, <2>7 DEF Post, TypeOK, TablesOK, RowsOK
<1>7. CASE Record(w)
  <2>1. /\ d \in Deliveries /\ me.job \in JobId /\ row[d] \in DeliveryRow
        /\ row[d].replayCount <= MaxReplays
        /\ me.run \in 0 .. MaxReplays /\ me.attempt \in 0 .. MAX_DELIVERY_ATTEMPTS
        /\ me.decision \in Decision /\ me.retryAt \in Nat /\ me.locked \in BOOLEAN
    BY <1>0, <1>7 DEF Record, RowsOK, WorkerState
  <2>2. WorkersOK'
    <3> DEFINE p == IF HoldsLease(row[d], me.lease, me.run) /\ me.decision = "retry"
                      THEN "delay" ELSE "finish"
               x == [IdleWorker EXCEPT !.pc = p, !.job = me.job, !.locked = me.locked]
    <3>1. p \in WorkerPc /\ p # "send"
      BY DEF WorkerPc
    <3>2. worker' = [worker EXCEPT ![w] = x]
      BY <1>7 DEF Record
    <3> HIDE DEF p
    <3>3. x \in WorkerState /\ x.job \in JobId /\ x.pc # "send"
      BY <2>1, <3>1, IdleTypes DEF WorkerState
    <3> QED
      BY <1>0, <3>2, <3>3, WorkerUpdate
  <2>3. CASE HoldsLease(row[d], me.lease, me.run)
    <3> DEFINE r == RecordedRow(row[d], me.decision, me.attempt, me.retryAt, now)
    <3>1. row' = [row EXCEPT ![d] = r]
      BY <1>7, <2>3 DEF Record
    <3>2. now \in Nat
      BY <1>0
    <3>3. r \in DeliveryRow /\ r.replayCount = row[d].replayCount
      <4> DEFINE q == row[d]
                 c == me.decision
                 n == me.attempt
                 u == me.retryAt
      <4>1. /\ q \in DeliveryRow /\ c \in Decision
            /\ n \in 0 .. MAX_DELIVERY_ATTEMPTS /\ u \in Nat
        BY <2>1
      <4> HIDE DEF q, c, n, u
      <4>2. /\ RecordedRow(q, c, n, u, now) \in DeliveryRow
            /\ RecordedRow(q, c, n, u, now).replayCount = q.replayCount
        BY <3>2, <4>1, RecordedRowType
      <4> QED
        BY <4>2 DEF q, c, n, u
    <3> HIDE DEF r
    <3>4. r \in DeliveryRow /\ r.replayCount <= MaxReplays
      BY <2>1, <3>3
    <3>5. RowsOK'
      BY <1>0, <2>1, <3>1, <3>4, RowUpdate
    <3>6. attempts' \subseteq Deliveries \X (0 .. MaxReplays) \X (0 .. MAX_DELIVERY_ATTEMPTS)
      BY <1>7, <2>1, <2>3 DEF Record, TypeOK, TablesOK
    <3> QED
      BY <1>7, <2>2, <3>5, <3>6 DEF Record, TypeOK, TablesOK
  <2>4. CASE ~HoldsLease(row[d], me.lease, me.run)
    BY <1>7, <2>2, <2>4 DEF Record, TypeOK, TablesOK, RowsOK
  <2> QED
    BY <2>3, <2>4
<1>8. CASE Delay(w)
  <2>1. WorkersOK' /\ job' \in [JobId -> JobState]
    BY <1>8, WorkerIdles DEF Delay, JobState
  <2> QED
    BY <1>8, <2>1 DEF Delay, TypeOK, TablesOK, RowsOK
<1>9. CASE Finish(w)
  <2>1. WorkersOK' /\ job' \in [JobId -> JobState]
    BY <1>9, WorkerIdles DEF Finish, EndCall, JobState
  <2> QED
    BY <1>9, <2>1 DEF Finish, TypeOK, TablesOK, RowsOK
<1>10. CASE ProcessorThrows(w)
  <2>1. WorkersOK' /\ job' \in [JobId -> JobState]
    BY <1>10, WorkerIdles DEF ProcessorThrows, EndCall, JobState
  <2> QED
    BY <1>10, <2>1, FaultType DEF ProcessorThrows, TypeOK, TablesOK, RowsOK
<1>11. CASE WorkerCrashes(w)
  <2>1. WorkersOK'
    BY <1>0, <1>11, IdleTypes, WorkerUpdate DEF WorkerCrashes
  <2> QED
    BY <1>11, <2>1, FaultType DEF WorkerCrashes, TypeOK, TablesOK, RowsOK
<1>12. CASE LockExpires(w)
  <2> DEFINE x == [me EXCEPT !.locked = FALSE]
  <2>1. worker' = [worker EXCEPT ![w] = x]
    BY <1>12 DEF LockExpires
  <2>2. /\ x \in WorkerState /\ x.job = me.job /\ x.pc = me.pc /\ x.attempt = me.attempt
        /\ me.job \in JobId /\ (me.pc = "send" => me.attempt # 0)
    BY <1>0, <1>12 DEF LockExpires, WorkerState, WorkersOK
  <2> HIDE DEF x
  <2>3. WorkersOK'
    BY <1>0, <2>1, <2>2, WorkerUpdate
  <2> QED
    BY <1>12, <2>3, FaultType DEF LockExpires, TypeOK, TablesOK, RowsOK
<1> QED
  BY <1>1, <1>2, <1>3, <1>4, <1>5, <1>6, <1>7, <1>8, <1>9, <1>10, <1>11, <1>12

LEMMA QueueType == ASSUME TypeOK, QueueNext PROVE TypeOK'
<1>1. CASE Promote
  <2>1. job' \in [JobId -> JobState]
    BY <1>1 DEF Promote, TypeOK, JobState
  <2> QED
    BY <1>1, <2>1 DEF Promote, TypeOK, TablesOK, RowsOK, WorkersOK
<1>2. CASE RecoverStalled
  <2>1. job' \in [JobId -> JobState]
    BY <1>2 DEF RecoverStalled, TypeOK, JobState
  <2> QED
    BY <1>2, <2>1 DEF RecoverStalled, TypeOK, TablesOK, RowsOK, WorkersOK
<1>3. CASE RedisLosesData
  <2>1. job' \in [JobId -> JobState]
    BY <1>3 DEF RedisLosesData, NoJobs, JobState
  <2>2. ASSUME NEW w \in Workers
        PROVE  /\ worker'[w] \in WorkerState /\ worker'[w].locked = FALSE
               /\ worker'[w].pc = worker[w].pc /\ worker'[w].job = worker[w].job
               /\ worker'[w].attempt = worker[w].attempt
    BY <1>3 DEF RedisLosesData, TypeOK, WorkersOK, WorkerState
  <2>3. worker' \in [Workers -> WorkerState]
    BY <1>3, <2>2 DEF RedisLosesData
  <2>4. WorkersOK'
    BY <2>2, <2>3 DEF TypeOK, WorkersOK
  <2> QED
    BY <1>3, <2>1, <2>4, FaultType DEF RedisLosesData, TypeOK, TablesOK, RowsOK
<1> QED
  BY <1>1, <1>2, <1>3 DEF QueueNext

LEMMA SweeperType == ASSUME TypeOK, SweeperNext PROVE TypeOK'
<1> PICK s \in Sweepers :
      \/ SelectOutbox(s) \/ EnqueueOutbox(s) \/ DeleteOutbox(s)
      \/ SelectOrphans(s) \/ Reclaim(s) \/ EnqueueOrphans(s) \/ SweepFails(s)
  BY DEF SweeperNext
<1> DEFINE me == sweeper[s]
<1>0. /\ now \in Nat /\ me \in SweeperState /\ RowsOK
      /\ sweeper \in [Sweepers -> SweeperState]
  BY BoundsAssumption DEF TypeOK
<1>1. StartScan \in SweeperState
  BY <1>0, IdleTypes DEF StartScan, SweeperState, SweeperPc
<1>2. CASE SelectOutbox(s)
  <2>1. PICK batch \in SUBSET outbox :
          sweeper' = [sweeper EXCEPT ![s] =
            IF batch = {} THEN StartScan
            ELSE [IdleSweeper EXCEPT !.pc = "enqueue_outbox",
                                     !.jobs = {CurrentJob(d) : d \in batch}]]
    BY <1>2, Zenon DEF SelectOutbox
  <2>2. {CurrentJob(d) : d \in batch} \in SUBSET JobId
    BY <1>0, CurrentJobType DEF TypeOK, TablesOK
  <2>3. [IdleSweeper EXCEPT !.pc = "enqueue_outbox",
                            !.jobs = {CurrentJob(d) : d \in batch}] \in SweeperState
    BY <2>2, IdleTypes DEF SweeperState, SweeperPc
  <2>4. sweeper' \in [Sweepers -> SweeperState]
    BY <1>0, <1>1, <2>1, <2>3
  <2> QED
    BY <1>2, <2>4, ZenonT(60) DEF SelectOutbox, TypeOK, TablesOK, RowsOK, WorkersOK
<1>3. CASE EnqueueOutbox(s)
  <2>1. job' \in [JobId -> JobState] /\ queued' \subseteq JobId
    BY <1>0, <1>3, EnqueueType DEF EnqueueOutbox, Enqueue, TypeOK, TablesOK, SweeperState
  <2>2. sweeper' \in [Sweepers -> SweeperState]
    BY <1>0, <1>3 DEF EnqueueOutbox, SweeperState, SweeperPc
  <2> QED
    BY <1>3, <2>1, <2>2 DEF EnqueueOutbox, TypeOK, TablesOK, RowsOK, WorkersOK
<1>4. CASE DeleteOutbox(s)
  <2>1. [IdleSweeper EXCEPT !.pc = "drain"] \in SweeperState
    BY IdleTypes DEF SweeperState, SweeperPc
  <2>2. sweeper' \in [Sweepers -> SweeperState]
    BY <1>0, <1>1, <1>4, <2>1 DEF DeleteOutbox
  <2> QED
    BY <1>4, <2>2 DEF DeleteOutbox, TypeOK, TablesOK, RowsOK, WorkersOK
<1>5. CASE SelectOrphans(s)
  <2>1. PICK batch \in SUBSET {d \in Deliveries : IsOrphan(row[d], me.at)} :
          sweeper' = [sweeper EXCEPT ![s] =
            IF batch = {} THEN IdleSweeper
            ELSE [@ EXCEPT !.pc = "reclaim",
                           !.candidates = {<<d, row[d].status>> : d \in batch}]]
    BY <1>5, Zenon DEF SelectOrphans
  <2>2. {<<d, row[d].status>> : d \in batch} \subseteq Deliveries \X OpenStatus
    BY DEF IsOrphan, IsDue, OpenStatus
  <2>3. [me EXCEPT !.pc = "reclaim",
                   !.candidates = {<<d, row[d].status>> : d \in batch}] \in SweeperState
    BY <1>0, <2>2 DEF SweeperState, SweeperPc
  <2>4. sweeper' \in [Sweepers -> SweeperState]
    BY <1>0, <2>1, <2>3, IdleTypes
  <2> QED
    BY <1>5, <2>4, ZenonT(60) DEF SelectOrphans, TypeOK, TablesOK, RowsOK, WorkersOK
<1>6. CASE Reclaim(s)
  <2>1. PICK found \in SUBSET Deliveries :
          /\ row' = [d \in Deliveries |-> IF d \in found THEN ReclaimedRow(row[d], me.at)
                                          ELSE row[d]]
          /\ sweeper' = [sweeper EXCEPT ![s].pc = "enqueue_orphans",
                                        ![s].jobs = {CurrentJob(d) : d \in found}]
    <3>1. Reclaimable(s) \in SUBSET Deliveries
      BY DEF Reclaimable
    <3> QED
      BY <1>6, <3>1 DEF Reclaim
  <2>2. {CurrentJob(d) : d \in found} \in SUBSET JobId
    BY <1>0, CurrentJobType
  <2>3. sweeper' \in [Sweepers -> SweeperState]
    BY <1>0, <2>1, <2>2 DEF SweeperState, SweeperPc
  <2>4. \A d \in Deliveries : /\ ReclaimedRow(row[d], me.at) \in DeliveryRow
                              /\ ReclaimedRow(row[d], me.at).replayCount = row[d].replayCount
    BY <1>0, ReclaimedRowType DEF RowsOK, SweeperState
  <2>5. RowsOK'
    BY <1>0, <2>1, <2>4 DEF RowsOK
  <2> QED
    BY <1>6, <2>3, <2>5 DEF Reclaim, TypeOK, TablesOK, WorkersOK
<1>7. CASE EnqueueOrphans(s)
  <2>1. job' \in [JobId -> JobState] /\ queued' \subseteq JobId
    BY <1>0, <1>7, EnqueueType DEF EnqueueOrphans, Enqueue, TypeOK, TablesOK, SweeperState
  <2>2. sweeper' \in [Sweepers -> SweeperState]
    BY <1>0, <1>1, <1>7, IdleTypes DEF EnqueueOrphans
  <2> QED
    BY <1>7, <2>1, <2>2 DEF EnqueueOrphans, TypeOK, TablesOK, RowsOK, WorkersOK
<1>8. CASE SweepFails(s)
  <2>1. sweeper' \in [Sweepers -> SweeperState]
    BY <1>0, <1>8, IdleTypes DEF SweepFails
  <2> QED
    BY <1>8, <2>1, FaultType DEF SweepFails, TypeOK, TablesOK, RowsOK, WorkersOK
<1> QED
  BY <1>2, <1>3, <1>4, <1>5, <1>6, <1>7, <1>8

LEMMA TypeInit == Init => TypeOK
<1> SUFFICES ASSUME Init PROVE TypeOK
  OBVIOUS
<1>1. 0 \in 0 .. MaxTime /\ 0 \in 0 .. MaxFaults /\ 0 \in 0 .. MAX_DELIVERY_ATTEMPTS
  BY BoundsAssumption, MaxAttemptsAssumption
<1>2. AbsentRow \in DeliveryRow /\ AbsentRow.replayCount <= MaxReplays
  BY <1>1, MaxReplaysAssumption DEF AbsentRow, DeliveryRow, Status, LastError, NoRetry
<1>3. RowsOK
  BY <1>2 DEF Init, InitAt, RowsOK
<1>4. WorkersOK
  BY IdleTypes DEF Init, InitAt, WorkersOK
<1>5. job \in [JobId -> JobState]
  BY DEF Init, InitAt, NoJobs, JobState
<1> QED
  BY <1>1, <1>3, <1>4, <1>5, IdleTypes DEF Init, InitAt, TypeOK, TablesOK

LEMMA TypeStep == TypeOK /\ [Next]_vars => TypeOK'
<1> SUFFICES ASSUME TypeOK, [Next]_vars PROVE TypeOK'
  OBVIOUS
<1>1. CASE Tick
  <2>1. now' \in 0 .. MaxTime
    BY <1>1, BoundsAssumption DEF Tick, TypeOK
  <2> QED
    BY <1>1, <2>1 DEF Tick, TypeOK, TablesOK, RowsOK, WorkersOK
<1>2. CASE UNCHANGED vars
  BY <1>2 DEF vars, TypeOK, TablesOK, RowsOK, WorkersOK
<1> QED
  BY <1>1, <1>2, ApiType, WorkerType, QueueType, SweeperType DEF Next

\* The type invariant holds in every behaviour of the pipeline, whatever the
\* number of deliveries, workers, sweepers and requests.
THEOREM TypeCorrect == Spec => []TypeOK
BY TypeInit, TypeStep, PTL DEF Spec

----------------------------------------------------------------------------
(* The lease excludes. A call either holds its lease or its lease is a lock  *)
(* duration old: only a reclaim takes a lease away, and a reclaim waits that *)
(* long. A new claim's lease is at most ClaimDelay old, so it is not equal   *)
(* to the lease of any earlier call that may still be sending.               *)

Claimed(w) == worker[w].pc \in {"send", "record"}

HeldOrOld(w) ==
    Claimed(w) => Holds(w) \/ worker[w].lease + WORKER_LOCK_DURATION <= now

LeaseInv ==
    /\ \A s \in Sweepers : sweeper[s].at <= now
    /\ \A w \in Workers : HeldOrOld(w)
    /\ LeaseExclusive

\* What a call knows of its claim
SameClaim(w) ==
    /\ worker'[w].job = worker[w].job
    /\ worker'[w].lease = worker[w].lease
    /\ worker'[w].run = worker[w].run

LEMMA ClaimedTypes ==
    ASSUME TypeOK, NEW w \in Workers, Claimed(w)
    PROVE  /\ worker[w].lease \in Nat
           /\ DeliveryOf(worker[w].job) \in Deliveries
           /\ row[DeliveryOf(worker[w].job)] \in DeliveryRow
BY JobDelivery DEF TypeOK, WorkersOK, RowsOK, Claimed, WorkerState

LEMMA TimeTypes ==
    TypeOK => now \in Nat /\ WORKER_LOCK_DURATION \in Nat \ {0}
BY BoundsAssumption, LockDurationAssumption DEF TypeOK

\* A step that claims nothing and changes no delivery in progress.
LEMMA LeaseFrame ==
    ASSUME TypeOK, LeaseInv, now' \in Nat, now <= now',
           \A w \in Workers : Claimed(w)' => Claimed(w) /\ SameClaim(w),
           \A d \in Deliveries : \/ row'[d] = row[d]
                                 \/ /\ row[d].status # "in_progress"
                                    /\ row'[d].status # "in_progress"
    PROVE  (\A w \in Workers : HeldOrOld(w)') /\ LeaseExclusive'
<1>1. ASSUME NEW w \in Workers, Claimed(w)'
      PROVE  Claimed(w) /\ SameClaim(w) /\ (Holds(w)' <=> Holds(w))
  BY <1>1, ClaimedTypes DEF Claimed, SameClaim, Holds, HoldsLease
<1>2. ASSUME NEW w \in Workers PROVE HeldOrOld(w)'
  <2>1. SUFFICES ASSUME Claimed(w)', ~Holds(w)'
                 PROVE  worker'[w].lease + WORKER_LOCK_DURATION <= now'
    BY DEF HeldOrOld
  <2>2. worker[w].lease + WORKER_LOCK_DURATION <= now /\ worker[w].lease \in Nat
    BY <1>1, <2>1, ClaimedTypes DEF LeaseInv, HeldOrOld
  <2>3. worker'[w].lease = worker[w].lease
    BY <1>1, <2>1 DEF SameClaim
  <2> QED
    BY <2>2, <2>3, TimeTypes
<1>3. LeaseExclusive'
  <2>1. ASSUME NEW w \in Workers, Holds(w)' PROVE Claimed(w)'
    BY <2>1 DEF Holds, Claimed
  <2> QED
    BY <1>1, <2>1 DEF LeaseInv, LeaseExclusive, SameClaim
<1> QED
  BY <1>2, <1>3

\* The clock of a sweep is never ahead.
LEMMA SweepClock ==
    ASSUME TypeOK, LeaseInv, [Next]_vars
    PROVE  now' \in Nat /\ now <= now' /\ \A s \in Sweepers : sweeper'[s].at <= now'
<1>1. now \in Nat /\ \A s \in Sweepers : sweeper[s].at \in Nat /\ sweeper[s].at <= now
  BY TimeTypes DEF TypeOK, LeaseInv, SweeperState
<1>2. StartScan.at = now /\ IdleSweeper.at = 0 /\ StartScan \in SweeperState
  BY <1>1, IdleTypes, Zenon DEF StartScan, IdleSweeper, SweeperState, SweeperPc
<1>3. CASE Tick
  BY <1>1, <1>3 DEF Tick
<1>4. CASE ApiNext \/ WorkerNext \/ QueueNext \/ UNCHANGED vars
  <2>1. now' = now /\ sweeper' = sweeper
    BY <1>4, ZenonT(60) DEF ApiNext, Ingest, ReadForReplay, Replay, HandlerEnqueues, EnqueueTimesOut,
                Acknowledge, HandlerFails, WorkerNext, Fetch, Admit, RateLimited, Claim,
                ClaimTimesOut, Post, Record, Delay, Finish, ProcessorThrows, WorkerCrashes,
                LockExpires, QueueNext, Promote, RecoverStalled, RedisLosesData, vars
  <2> QED
    BY <1>1, <2>1
<1>5. CASE SweeperNext
  <2>1. PICK s \in Sweepers :
          \/ SelectOutbox(s) \/ EnqueueOutbox(s) \/ DeleteOutbox(s)
          \/ SelectOrphans(s) \/ Reclaim(s) \/ EnqueueOrphans(s) \/ SweepFails(s)
    BY <1>5 DEF SweeperNext
  <2>2. sweeper \in [Sweepers -> SweeperState]
    BY DEF TypeOK
  <2>3. now' = now
    BY <2>1 DEF SelectOutbox, EnqueueOutbox, DeleteOutbox, SelectOrphans, Reclaim,
                EnqueueOrphans, SweepFails
  <2>4. \A t \in Sweepers : t # s => sweeper'[t] = sweeper[t]
    BY <2>1, <2>2 DEF SelectOutbox, EnqueueOutbox, DeleteOutbox, SelectOrphans, Reclaim,
                      EnqueueOrphans, SweepFails
  <2>5. sweeper'[s].at \in {0, now, sweeper[s].at}
    <3>1. CASE SelectOutbox(s)
      BY <1>2, <2>2, <3>1 DEF SelectOutbox, IdleSweeper
    <3>2. CASE EnqueueOutbox(s) \/ Reclaim(s)
      BY <2>2, <3>2 DEF EnqueueOutbox, Reclaim, SweeperState
    <3>3. CASE DeleteOutbox(s)
      BY <1>2, <2>2, <3>3 DEF DeleteOutbox, IdleSweeper
    <3>4. CASE SelectOrphans(s)
      BY <1>2, <2>2, <3>4 DEF SelectOrphans, SweeperState
    <3>5. CASE EnqueueOrphans(s) \/ SweepFails(s)
      BY <1>2, <2>2, <3>5 DEF EnqueueOrphans, SweepFails
    <3> QED
      BY <2>1, <3>1, <3>2, <3>3, <3>4, <3>5
  <2> QED
    BY <1>1, <2>3, <2>4, <2>5
<1> QED
  BY <1>3, <1>4, <1>5 DEF Next

\* A claim: nobody holds the lease of a pending delivery, and whoever has
\* claimed it before began at least a lock duration ago.
LEMMA LeaseClaim ==
    ASSUME TypeOK, LeaseInv, NEW w \in Workers, Claim(w),
           IsDue(row[DeliveryOf(worker[w].job)], now)
    PROVE  (\A v \in Workers : HeldOrOld(v)') /\ LeaseExclusive'
<1> DEFINE me == worker[w]
           d == DeliveryOf(me.job)
<1>1. /\ d \in Deliveries /\ row[d] \in DeliveryRow /\ row[d].status = "pending"
      /\ me.lease \in Nat /\ now <= me.lease + ClaimDelay /\ now' = now
      /\ now \in Nat /\ ClaimDelay \in Nat /\ ClaimDelay < WORKER_LOCK_DURATION
      /\ WORKER_LOCK_DURATION \in Nat
  BY JobDelivery, TimeTypes, ClaimDelayAssumption
  DEF Claim, TypeOK, WorkersOK, RowsOK, WorkerState, IsDue
<1>2. row' = [row EXCEPT ![d] = ClaimedRow(@, me.lease)]
  BY DEF Claim
<1>3. /\ row'[d].status = "in_progress" /\ row'[d].updatedAt = me.lease
      /\ row'[d].replayCount = row[d].replayCount
      /\ \A e \in Deliveries : e # d => row'[e] = row[e]
  BY <1>1, <1>2 DEF ClaimedRow, DeliveryRow, TypeOK, RowsOK
<1>4. /\ worker'[w].pc \in {"send", "record"} /\ worker'[w].job = me.job
      /\ worker'[w].lease = me.lease /\ worker'[w].run = row[d].replayCount
      /\ \A v \in Workers : v # w => worker'[v] = worker[v]
  <2> DEFINE a == ReservedAttempt(row[d])
  <2>1. PICK endpoint \in {"active", "disabled"} :
          worker' = [worker EXCEPT ![w] =
            [me EXCEPT !.run = row[d].replayCount,
                       !.attempt = a,
                       !.pc = IF a # 0 /\ endpoint = "active" THEN "send" ELSE "record",
                       !.decision = IF a = 0 THEN "exhausted"
                                    ELSE IF endpoint = "disabled" THEN "failed"
                                    ELSE "none"]]
    BY DEF Claim
  <2>2. me \in WorkerState /\ worker \in [Workers -> WorkerState]
    BY DEF TypeOK, WorkersOK
  <2> HIDE DEF a
  <2> QED
    BY <2>1, <2>2 DEF WorkerState
<1>5. Holds(w)'
  BY <1>3, <1>4 DEF Holds, HoldsLease
<1>6. ASSUME NEW v \in Workers, v # w, Claimed(v)', DeliveryOf(worker[v].job) = d
      PROVE  ~Holds(v)' /\ worker[v].lease + WORKER_LOCK_DURATION <= now
  <2>1. Claimed(v) /\ ~Holds(v)
    BY <1>1, <1>4, <1>6 DEF Claimed, Holds, HoldsLease
  <2>2. worker[v].lease \in Nat /\ worker[v].lease + WORKER_LOCK_DURATION <= now
    BY <2>1, ClaimedTypes DEF LeaseInv, HeldOrOld
  <2>3. worker[v].lease # me.lease
    BY <1>1, <2>2
  <2> QED
    BY <1>3, <1>4, <1>6, <2>2, <2>3 DEF Holds, HoldsLease
<1>7. ASSUME NEW v \in Workers, v # w, Claimed(v)', DeliveryOf(worker[v].job) # d
      PROVE  Claimed(v) /\ (Holds(v)' <=> Holds(v))
  BY <1>3, <1>4, <1>7, ClaimedTypes DEF Claimed, Holds, HoldsLease
<1>8. ASSUME NEW v \in Workers PROVE HeldOrOld(v)'
  BY <1>1, <1>4, <1>5, <1>6, <1>7 DEF HeldOrOld, LeaseInv
<1>9. LeaseExclusive'
  <2>1. \A v \in Workers : Holds(v)' => Claimed(v)'
    BY DEF Holds, Claimed
  <2>2. \A v \in Workers : Holds(v)' /\ v # w => DeliveryOf(worker'[v].job) # d /\ Holds(v)
    BY <1>4, <1>6, <1>7, <2>1
  <2> QED
    BY <1>4, <2>2 DEF LeaseExclusive, LeaseInv
<1> QED
  BY <1>8, <1>9

\* An outcome written by the holder: no other call held the delivery's lease.
LEMMA LeaseRecord ==
    ASSUME TypeOK, LeaseInv, NEW w \in Workers, Record(w), Holds(w)
    PROVE  (\A v \in Workers : HeldOrOld(v)') /\ LeaseExclusive'
<1> DEFINE d == DeliveryOf(worker[w].job)
<1>1. /\ \A e \in Deliveries : e # d => row'[e] = row[e]
      /\ \A v \in Workers : v # w => worker'[v] = worker[v]
      /\ worker'[w].pc \in {"delay", "finish"} /\ now' = now
  <2>1. worker'[w].pc \in {"delay", "finish"}
    BY DEF Record, TypeOK, WorkersOK, IdleWorker
  <2> QED
    BY <2>1 DEF Record, TypeOK, RowsOK, WorkersOK
<1>2. ASSUME NEW v \in Workers, Claimed(v)'
      PROVE  v # w /\ Claimed(v) /\ (Holds(v)' => Holds(v) /\ DeliveryOf(worker[v].job) # d)
             /\ (Holds(v) => Holds(v)')
  <2>1. v # w /\ Claimed(v) /\ worker'[v] = worker[v]
    BY <1>1, <1>2 DEF Claimed
  <2>2. CASE DeliveryOf(worker[v].job) = d
    <3>1. ~Holds(v)
      BY <2>1, <2>2 DEF LeaseInv, LeaseExclusive
    <3>2. row'[d].status # "in_progress"
      <4>1. d \in Deliveries /\ row[d] \in DeliveryRow /\ worker[w].decision \in Decision
        BY ClaimedTypes DEF Holds, Claimed, TypeOK, WorkersOK, WorkerState
      <4>2. row' = [row EXCEPT ![d] = RecordedRow(@, worker[w].decision, worker[w].attempt,
                                                  worker[w].retryAt, now)]
        BY DEF Record, Holds
      <4> QED
        BY <4>1, <4>2 DEF RecordedRow, DeliveryRow, Decision, TypeOK, RowsOK
    <3> QED
      BY <2>1, <2>2, <3>1, <3>2 DEF Holds, HoldsLease
  <2>3. CASE DeliveryOf(worker[v].job) # d
    BY <1>1, <2>1, <2>3, ClaimedTypes DEF Holds, HoldsLease, Claimed
  <2> QED
    BY <2>1, <2>2, <2>3
<1>3. ASSUME NEW v \in Workers PROVE HeldOrOld(v)'
  BY <1>1, <1>2 DEF HeldOrOld, LeaseInv
<1>4. LeaseExclusive'
  <2>1. \A v \in Workers : Holds(v)' => Claimed(v)'
    BY DEF Holds, Claimed
  <2> QED
    BY <1>1, <1>2, <2>1 DEF LeaseExclusive, LeaseInv
<1> QED
  BY <1>3, <1>4

\* A reclaim takes only leases that are a lock duration old.
LEMMA LeaseReclaim ==
    ASSUME TypeOK, LeaseInv, NEW s \in Sweepers, Reclaim(s)
    PROVE  (\A v \in Workers : HeldOrOld(v)') /\ LeaseExclusive'
<1> DEFINE at == sweeper[s].at
<1>1. at \in Nat /\ at <= now /\ now' = now /\ worker' = worker
  BY DEF Reclaim, TypeOK, SweeperState, LeaseInv
<1>2. ASSUME NEW d \in Deliveries
      PROVE  \/ row'[d] = row[d]
             \/ (row'[d].status = "pending" /\ IsStale(row[d], at))
  <2>1. row'[d] = row[d] \/ (row'[d] = ReclaimedRow(row[d], at) /\ IsStale(row[d], at))
    <3>1. d \in Reclaimable(s) => IsStale(row[d], at)
      BY DEF Reclaimable, IsReclaimable
    <3>2. row'[d] = IF d \in Reclaimable(s) THEN ReclaimedRow(row[d], at) ELSE row[d]
      BY DEF Reclaim
    <3> QED
      BY <3>1, <3>2
  <2>2. ReclaimedRow(row[d], at).status = "pending"
    BY DEF ReclaimedRow, TypeOK, RowsOK, DeliveryRow
  <2> QED
    BY <2>1, <2>2, Zenon
<1>3. ASSUME NEW v \in Workers, Claimed(v)'
      PROVE  /\ Claimed(v) /\ (Holds(v)' => Holds(v))
             /\ Holds(v) /\ ~Holds(v)' => worker[v].lease + WORKER_LOCK_DURATION <= now
  <2> DEFINE d == DeliveryOf(worker[v].job)
  <2>1. Claimed(v)
    BY <1>1, <1>3 DEF Claimed
  <2>2. d \in Deliveries /\ worker[v].lease \in Nat
    BY <2>1, ClaimedTypes
  <2>3. CASE row'[d] = row[d]
    BY <1>1, <2>1, <2>3 DEF Holds
  <2>4. CASE row'[d].status = "pending" /\ IsStale(row[d], at)
    BY <1>1, <2>1, <2>2, <2>4, TimeTypes DEF Holds, HoldsLease, IsStale
  <2> QED
    BY <1>2, <2>1, <2>2, <2>3, <2>4
<1>4. ASSUME NEW v \in Workers PROVE HeldOrOld(v)'
  BY <1>1, <1>3 DEF HeldOrOld, LeaseInv
<1>5. LeaseExclusive'
  <2>1. \A v \in Workers : Holds(v)' => Claimed(v)'
    BY DEF Holds, Claimed
  <2> QED
    BY <1>1, <1>3, <2>1 DEF LeaseExclusive, LeaseInv
<1> QED
  BY <1>4, <1>5

LEMMA LeaseInit == Init => LeaseInv
BY DEF Init, InitAt, LeaseInv, HeldOrOld, Claimed, Holds, LeaseExclusive, IdleWorker, IdleSweeper

LEMMA LeaseStep == TypeOK /\ LeaseInv /\ [Next]_vars => LeaseInv'
<1> SUFFICES ASSUME TypeOK, LeaseInv, [Next]_vars PROVE LeaseInv'
  OBVIOUS
<1>1. now' \in Nat /\ now <= now' /\ \A s \in Sweepers : sweeper'[s].at <= now'
  BY SweepClock
<1> DEFINE Exclusion == (\A w \in Workers : HeldOrOld(w)') /\ LeaseExclusive'
<1>2. SUFFICES Exclusion
  BY <1>1 DEF LeaseInv
<1>3. ASSUME worker' = worker, row' = row PROVE Exclusion
  BY <1>1, <1>3, LeaseFrame DEF Claimed, SameClaim
<1>4. CASE Tick \/ UNCHANGED vars
  BY <1>3, <1>4 DEF Tick, vars
<1>5. CASE ApiNext
  <2>1. PICK h \in Handlers :
          \/ Ingest(h)
          \/ \E d \in Deliveries : ReadForReplay(h, d) \/ Replay(h, d)
          \/ HandlerEnqueues(h) \/ EnqueueTimesOut(h) \/ Acknowledge(h) \/ HandlerFails(h)
    BY <1>5 DEF ApiNext
  <2>2. worker' = worker
    BY <2>1 DEF Ingest, ReadForReplay, Replay, HandlerEnqueues, EnqueueTimesOut,
                Acknowledge, HandlerFails
  <2>3. row \in [Deliveries -> DeliveryRow]
    BY DEF TypeOK, RowsOK
  <2> DEFINE Quiet(d) == \/ row'[d] = row[d]
                         \/ /\ row[d].status # "in_progress"
                            /\ row'[d].status # "in_progress"
  <2>4. ASSUME Ingest(h), NEW d \in Deliveries PROVE Quiet(d)
    <3>1. PICK new \in SUBSET Deliveries :
            /\ \A e \in new : row[e].status = "absent"
            /\ row' = [e \in Deliveries |-> IF e \in new THEN InsertedRow(now) ELSE row[e]]
      BY <2>4, Zenon DEF Ingest
    <3>2. row'[d] = IF d \in new THEN InsertedRow(now) ELSE row[d]
      BY <3>1
    <3>3. InsertedRow(now).status = "pending"
      BY DEF InsertedRow, AbsentRow
    <3> QED
      BY <3>1, <3>2, <3>3
  <2>5. ASSUME NEW e \in Deliveries, Replay(h, e), NEW d \in Deliveries PROVE Quiet(d)
    <3>1. CASE CanReplay(row[e])
      <4>1. row' = [row EXCEPT ![e] = ReplayedRow(row[e], now)]
        BY <2>5, <3>1 DEF Replay
      <4>2. row[e].status = "failed" /\ ReplayedRow(row[e], now).status = "pending"
        BY <3>1 DEF CanReplay, ReplayedRow
      <4> QED
        BY <2>3, <4>1, <4>2
    <3>2. CASE ~CanReplay(row[e])
      BY <2>5, <3>2 DEF Replay
    <3> QED
      BY <3>1, <3>2
  <2>6. ASSUME NEW d \in Deliveries PROVE Quiet(d)
    <3>1. CASE \/ \E e \in Deliveries : ReadForReplay(h, e)
               \/ HandlerEnqueues(h) \/ EnqueueTimesOut(h) \/ Acknowledge(h) \/ HandlerFails(h)
      BY <3>1 DEF ReadForReplay, HandlerEnqueues, EnqueueTimesOut, Acknowledge, HandlerFails
    <3> QED
      BY <2>1, <2>4, <2>5, <3>1
  <2> QED
    BY <1>1, <2>2, <2>6, LeaseFrame DEF Claimed, SameClaim
<1>6. CASE WorkerNext
  <2>1. PICK w \in Workers :
          \/ Fetch(w) \/ Admit(w) \/ RateLimited(w) \/ Claim(w) \/ ClaimTimesOut(w)
          \/ Post(w) \/ Record(w) \/ Delay(w) \/ Finish(w)
          \/ ProcessorThrows(w) \/ WorkerCrashes(w) \/ LockExpires(w)
    BY <1>6 DEF WorkerNext
  <2> DEFINE d == DeliveryOf(worker[w].job)
  <2>2. worker \in [Workers -> WorkerState]
    BY DEF TypeOK, WorkersOK
  <2>3. ASSUME row' = row, \A v \in Workers : v # w => worker'[v] = worker[v],
               Claimed(w)' => Claimed(w) /\ SameClaim(w)
        PROVE  Exclusion
    BY <1>1, <2>3, LeaseFrame DEF Claimed, SameClaim
  <2>4. CASE Claim(w) /\ IsDue(row[d], now)
    BY <2>4, LeaseClaim
  <2>5. CASE Claim(w) /\ ~IsDue(row[d], now)
    BY <2>2, <2>3, <2>5 DEF Claim, Claimed, WorkerState
  <2>6. CASE Record(w)
    <3>1. CASE Holds(w)
      BY <2>6, <3>1, LeaseRecord
    <3>2. CASE ~Holds(w)
      <4>1. row' = row
        BY <2>6, <3>2 DEF Record, Holds
      <4>2. worker'[w].pc \in {"delay", "finish"}
        BY <2>2, <2>6 DEF Record, IdleWorker
      <4> QED
        BY <2>2, <2>3, <2>6, <4>1, <4>2 DEF Record, Claimed
    <3> QED
      BY <3>1, <3>2
  <2>7. CASE Post(w)
    <3>1. row' = row /\ \A v \in Workers : v # w => worker'[v] = worker[v]
      BY <2>2, <2>7 DEF Post
    <3>2. Claimed(w) /\ SameClaim(w)
      BY <2>2, <2>7 DEF Post, Claimed, SameClaim, WorkerState
    <3> QED
      BY <2>3, <3>1, <3>2
  <2>8. CASE LockExpires(w)
    <3>1. row' = row /\ \A v \in Workers : v # w => worker'[v] = worker[v]
      BY <2>2, <2>8 DEF LockExpires
    <3>2. (Claimed(w)' => Claimed(w)) /\ SameClaim(w)
      BY <2>2, <2>8 DEF LockExpires, Claimed, SameClaim, WorkerState
    <3> QED
      BY <2>3, <3>1, <3>2
  <2>9. CASE Fetch(w) \/ Admit(w)
    <3>1. row' = row /\ \A v \in Workers : v # w => worker'[v] = worker[v]
      BY <2>2, <2>9 DEF Fetch, Admit
    <3>2. worker'[w].pc \in {"admit", "claim"}
      <4>1. CASE Fetch(w)
        BY <2>2, <4>1 DEF Fetch, IdleWorker
      <4>2. CASE Admit(w)
        BY <2>2, <4>2 DEF Admit, WorkerState
      <4> QED
        BY <2>9, <4>1, <4>2
    <3> QED
      BY <2>3, <3>1, <3>2 DEF Claimed
  <2>10. CASE \/ RateLimited(w) \/ ClaimTimesOut(w) \/ Delay(w) \/ Finish(w)
              \/ ProcessorThrows(w) \/ WorkerCrashes(w)
    <3>1. row' = row /\ worker' = [worker EXCEPT ![w] = IdleWorker]
      BY <2>10 DEF RateLimited, ClaimTimesOut, Delay, Finish, ProcessorThrows,
                   WorkerCrashes, EndCall
    <3> QED
      BY <2>2, <2>3, <3>1, IdleTypes DEF Claimed
  <2> QED
    BY <2>1, <2>4, <2>5, <2>6, <2>7, <2>8, <2>9, <2>10
<1>7. CASE QueueNext
  <2>1. row' = row /\ \A w \in Workers : Claimed(w)' => Claimed(w) /\ SameClaim(w)
    <3>1. CASE Promote \/ RecoverStalled
      BY <3>1 DEF Promote, RecoverStalled, Claimed, SameClaim
    <3>2. CASE RedisLosesData
      BY <3>2 DEF RedisLosesData, Claimed, SameClaim, TypeOK, WorkersOK, WorkerState
    <3> QED
      BY <1>7, <3>1, <3>2 DEF QueueNext
  <2> QED
    BY <1>1, <2>1, LeaseFrame
<1>8. CASE SweeperNext
  <2>1. PICK s \in Sweepers :
          \/ SelectOutbox(s) \/ EnqueueOutbox(s) \/ DeleteOutbox(s)
          \/ SelectOrphans(s) \/ Reclaim(s) \/ EnqueueOrphans(s) \/ SweepFails(s)
    BY <1>8 DEF SweeperNext
  <2>2. CASE Reclaim(s)
    BY <2>2, LeaseReclaim
  <2>3. CASE ~Reclaim(s)
    <3>1. worker' = worker /\ row' = row
      BY <2>1, <2>3 DEF SelectOutbox, EnqueueOutbox, DeleteOutbox, SelectOrphans,
                        EnqueueOrphans, SweepFails
    <3> QED
      BY <1>3, <3>1, SMTT(30)
  <2> QED
    BY <2>2, <2>3
<1> QED
  BY <1>4, <1>5, <1>6, <1>7, <1>8 DEF Next

\* Of all processor calls that have claimed a delivery, one at most can record
\* an outcome: recordOutcome's test of updated_at excludes, because a reclaim
\* waits for the lock duration and a claim takes less.
THEOREM LeaseExcludes == Spec => []LeaseExclusive
<1>1. LeaseInv => LeaseExclusive
  BY DEF LeaseInv
<1> QED
  BY <1>1, TypeInit, TypeStep, LeaseInit, LeaseStep, PTL DEF Spec
=============================================================================
