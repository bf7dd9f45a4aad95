----------------------- MODULE DeliveryAttemptProofs -----------------------
(***************************************************************************)
(* More theorems about DeliveryPipeline: attempt numbers, outcomes, the     *)
(* history of a row, and that the pipeline keeps DeliveryContract. They rest *)
(* on LeaseInv and on an invariant that bounds every number in use by the   *)
(* row it was taken from.                                                    *)
(***************************************************************************)
EXTENDS DeliveryPipelineProofs

\* Attempt n of run r has been reserved in the row of d.
Past(d, r, n) ==
    \/ r < row[d].replayCount
    \/ r = row[d].replayCount /\ n <= row[d].attemptCount

\* The attempt a call has reserved.
Number(w) == <<DeliveryOf(worker[w].job), worker[w].run, worker[w].attempt>>

RowInv(d) ==
    /\ row[d].status = "absent" => row[d].attemptCount = 0 /\ row[d].replayCount = 0
    /\ row[d].status = "succeeded" => CurrentJob(d) \in acked
    /\ row[d].status = "failed" /\ row[d].lastError = "max_attempts"
         => row[d].attemptCount = MAX_DELIVERY_ATTEMPTS

\* What is true of a call from its claim to its outcome, whether or not it still
\* holds its lease.
CallInv(w) ==
    LET me == worker[w]
        d == DeliveryOf(me.job)
    IN Claimed(w) =>
         /\ row[d].status # "absent"
         /\ Past(d, me.run, me.attempt)
         /\ me.pc = "record" => (me.decision = "exhausted" <=> me.attempt = 0)
         /\ me.attempt # 0 => Number(w) \notin attempts
         /\ me.pc = "send" => Number(w) \notin sent
         /\ Holds(w) => row[d].attemptCount =
                          IF me.attempt = 0 THEN MAX_DELIVERY_ATTEMPTS ELSE me.attempt
         /\ me.decision = "dead" => me.attempt = MAX_DELIVERY_ATTEMPTS
         /\ me.decision = "succeeded" => <<d, me.run>> \in acked

DistinctNumbers ==
    \A v, w \in Workers :
        Claimed(v) /\ Claimed(w) /\ v # w /\ worker[v].attempt # 0 => Number(v) # Number(w)

TablesInv ==
    \A d \in Deliveries, r \in 0 .. MaxReplays, n \in 0 .. MAX_DELIVERY_ATTEMPTS :
        <<d, r, n>> \in attempts \cup sent => Past(d, r, n)

NumbersInv ==
    /\ \A d \in Deliveries : RowInv(d)
    /\ \A w \in Workers : CallInv(w)
    /\ DistinctNumbers
    /\ TablesInv

----------------------------------------------------------------------------
(* The statements that write a row *)

Inserted(d) ==
    row[d].status = "absent" /\ row'[d] = InsertedRow(now) /\ d \in outbox'
ClaimedBy(w, d) ==
    /\ Claim(w) /\ d = DeliveryOf(worker[w].job) /\ row[d].status = "pending"
    /\ row'[d] = ClaimedRow(row[d], worker[w].lease)
RecordedBy(w, d) ==
    /\ Record(w) /\ Holds(w) /\ d = DeliveryOf(worker[w].job)
    /\ row'[d] = RecordedRow(row[d], worker[w].decision, worker[w].attempt,
                             worker[w].retryAt, now)
ReclaimedBy(s, d) ==
    /\ row[d].status \in OpenStatus /\ IsStale(row[d], sweeper[s].at)
    /\ row'[d] = ReclaimedRow(row[d], sweeper[s].at)
Replayed(d) == row[d].status = "failed" /\ row'[d] = ReplayedRow(row[d], now)

\* Every step leaves a row as it is, or is one of the five.
LEMMA RowStep ==
    ASSUME TypeOK, [Next]_vars, NEW d \in Deliveries
    PROVE  \/ row'[d] = row[d]
           \/ Inserted(d)
           \/ \E w \in Workers : ClaimedBy(w, d) \/ RecordedBy(w, d)
           \/ \E s \in Sweepers : ReclaimedBy(s, d)
           \/ Replayed(d)
<1> DEFINE Goal == \/ row'[d] = row[d]
                   \/ Inserted(d)
                   \/ \E w \in Workers : ClaimedBy(w, d) \/ RecordedBy(w, d)
                   \/ \E s \in Sweepers : ReclaimedBy(s, d)
                   \/ Replayed(d)
<1>0. row \in [Deliveries -> DeliveryRow]
  BY DEF TypeOK, RowsOK
<1>1. CASE Tick \/ QueueNext \/ UNCHANGED vars
  BY <1>1 DEF Tick, QueueNext, Promote, RecoverStalled, RedisLosesData, vars
<1>2. CASE ApiNext
  <2>1. PICK h \in Handlers :
          \/ Ingest(h)
          \/ \E e \in Deliveries : ReadForReplay(h, e) \/ Replay(h, e)
          \/ HandlerEnqueues(h) \/ EnqueueTimesOut(h) \/ Acknowledge(h) \/ HandlerFails(h)
    BY <1>2 DEF ApiNext
  <2>2. CASE Ingest(h)
    <3>1. PICK new \in SUBSET Deliveries :
            /\ \A e \in new : row[e].status = "absent"
            /\ row' = [e \in Deliveries |-> IF e \in new THEN InsertedRow(now) ELSE row[e]]
            /\ outbox' = outbox \cup new
      BY <2>2, Zenon DEF Ingest
    <3> QED
      BY <3>1 DEF Inserted
  <2>3. ASSUME NEW e \in Deliveries, Replay(h, e) PROVE Goal
    <3>1. CASE CanReplay(row[e])
      <4>1. row' = [row EXCEPT ![e] = ReplayedRow(row[e], now)] /\ row[e].status = "failed"
        BY <2>3, <3>1 DEF Replay, CanReplay
      <4> QED
        BY <1>0, <4>1 DEF Replayed
    <3>2. CASE ~CanReplay(row[e])
      BY <2>3, <3>2 DEF Replay
    <3> QED
      BY <3>1, <3>2
  <2>4. CASE \/ \E e \in Deliveries : ReadForReplay(h, e)
             \/ HandlerEnqueues(h) \/ EnqueueTimesOut(h) \/ Acknowledge(h) \/ HandlerFails(h)
    BY <2>4 DEF ReadForReplay, HandlerEnqueues, EnqueueTimesOut, Acknowledge, HandlerFails
  <2> QED
    BY <2>1, <2>2, <2>3, <2>4
<1>3. CASE WorkerNext
  <2>1. PICK w \in Workers :
          \/ Fetch(w) \/ Admit(w) \/ RateLimited(w) \/ Claim(w) \/ ClaimTimesOut(w)
          \/ Post(w) \/ Record(w) \/ Delay(w) \/ Finish(w)
          \/ ProcessorThrows(w) \/ WorkerCrashes(w) \/ LockExpires(w)
    BY <1>3 DEF WorkerNext
  <2> DEFINE e == DeliveryOf(worker[w].job)
  <2>2. CASE Claim(w)
    <3>1. CASE IsDue(row[e], now)
      <4>1. row' = [row EXCEPT ![e] = ClaimedRow(row[e], worker[w].lease)]
            /\ row[e].status = "pending"
        BY <2>2, <3>1 DEF Claim, IsDue
      <4> HIDE DEF e
      <4>2. row'[d] = row[d] \/ (d = e /\ row'[d] = ClaimedRow(row[d], worker[w].lease))
        BY <1>0, <4>1
      <4> QED
        BY <2>2, <4>1, <4>2 DEF ClaimedBy, e
    <3>2. CASE ~IsDue(row[e], now)
      BY <2>2, <3>2 DEF Claim
    <3> QED
      BY <3>1, <3>2
  <2>3. CASE Record(w)
    <3>1. CASE Holds(w)
      <4> DEFINE r == RecordedRow(row[e], worker[w].decision, worker[w].attempt,
                                  worker[w].retryAt, now)
      <4>1. row' = [row EXCEPT ![e] = r]
        BY <2>3, <3>1 DEF Record, Holds
      <4> HIDE DEF r
      <4>2. row'[d] = row[d] \/ (d = e /\ row'[d] = r)
        BY <1>0, <4>1
      <4> QED
        BY <2>3, <3>1, <4>2 DEF RecordedBy, r
    <3>2. CASE ~Holds(w)
      BY <2>3, <3>2 DEF Record, Holds
    <3> QED
      BY <3>1, <3>2
  <2>4. CASE ~Claim(w) /\ ~Record(w)
    BY <2>1, <2>4 DEF Fetch, Admit, RateLimited, ClaimTimesOut, Post, Delay, Finish,
                      ProcessorThrows, WorkerCrashes, LockExpires
  <2> QED
    BY <2>2, <2>3, <2>4
<1>4. CASE SweeperNext
  <2>1. PICK s \in Sweepers :
          \/ SelectOutbox(s) \/ EnqueueOutbox(s) \/ DeleteOutbox(s)
          \/ SelectOrphans(s) \/ Reclaim(s) \/ EnqueueOrphans(s) \/ SweepFails(s)
    BY <1>4 DEF SweeperNext
  <2>2. CASE Reclaim(s)
    <3>1. row'[d] = IF d \in Reclaimable(s) THEN ReclaimedRow(row[d], sweeper[s].at)
                    ELSE row[d]
      BY <2>2 DEF Reclaim
    <3>2. d \in Reclaimable(s) => /\ row[d].status \in OpenStatus
                                  /\ IsStale(row[d], sweeper[s].at)
      BY DEF Reclaimable, IsReclaimable
    <3> QED
      BY <3>1, <3>2 DEF ReclaimedBy
  <2>3. CASE ~Reclaim(s)
    BY <2>1, <2>3 DEF SelectOutbox, EnqueueOutbox, DeleteOutbox, SelectOrphans,
                      EnqueueOrphans, SweepFails
  <2> QED
    BY <2>2, <2>3
<1> QED
  BY <1>1, <1>2, <1>3, <1>4 DEF Next

----------------------------------------------------------------------------
(* What is reserved stays reserved *)

Advances(d) ==
    /\ row'[d] \in DeliveryRow
    /\ \/ row'[d].replayCount > row[d].replayCount
       \/ /\ row'[d].replayCount = row[d].replayCount
          /\ row'[d].attemptCount >= row[d].attemptCount

SameCall(w) ==
    /\ Claimed(w) /\ SameClaim(w)
    /\ worker'[w].pc = worker[w].pc
    /\ worker'[w].attempt = worker[w].attempt
    /\ worker'[w].decision = worker[w].decision

LEMMA RowTypes ==
    ASSUME TypeOK, NEW d \in Deliveries
    PROVE  /\ row[d] \in DeliveryRow /\ row[d].replayCount \in Nat
           /\ row[d].attemptCount \in Nat /\ row[d].attemptCount <= MAX_DELIVERY_ATTEMPTS
BY MaxAttemptsAssumption DEF TypeOK, RowsOK, DeliveryRow

LEMMA CallTypes ==
    ASSUME TypeOK, NEW w \in Workers, Claimed(w)
    PROVE  /\ DeliveryOf(worker[w].job) \in Deliveries
           /\ worker[w] \in WorkerState
           /\ worker[w].run \in Nat /\ worker[w].attempt \in Nat
           /\ worker[w].run \in 0 .. MaxReplays
           /\ worker[w].attempt \in 0 .. MAX_DELIVERY_ATTEMPTS
           /\ worker[w].pc = "send" => worker[w].attempt # 0
BY ClaimedTypes, MaxReplaysAssumption, MaxAttemptsAssumption
DEF TypeOK, WorkersOK, WorkerState

LEMMA PastKept ==
    ASSUME TypeOK, NEW d \in Deliveries, Advances(d), NEW r \in Nat, NEW n \in Nat, Past(d, r, n)
    PROVE  Past(d, r, n)'
<1>1. row'[d].replayCount \in Nat /\ row'[d].attemptCount \in Nat
  BY MaxAttemptsAssumption DEF Advances, DeliveryRow
<1> QED
  BY <1>1, RowTypes DEF Past, Advances

LEMMA TablesKept ==
    ASSUME TypeOK, NumbersInv, \A d \in Deliveries : Advances(d),
           attempts' \cup sent' \subseteq attempts \cup sent
    PROVE  TablesInv'
<1> SUFFICES ASSUME NEW d \in Deliveries, NEW r \in 0 .. MaxReplays,
                    NEW n \in 0 .. MAX_DELIVERY_ATTEMPTS, <<d, r, n>> \in attempts' \cup sent'
             PROVE  Past(d, r, n)'
  BY DEF TablesInv
<1>1. Past(d, r, n) /\ r \in Nat /\ n \in Nat
  BY MaxReplaysAssumption, MaxAttemptsAssumption DEF NumbersInv, TablesInv
<1> QED
  BY <1>1, PastKept

LEMMA CallKept ==
    ASSUME TypeOK, NumbersInv, NEW v \in Workers, SameCall(v),
           Advances(DeliveryOf(worker[v].job)),
           row'[DeliveryOf(worker[v].job)].status # "absent",
           acked \subseteq acked',
           worker[v].attempt # 0 => Number(v) \notin attempts',
           worker[v].pc = "send" => Number(v) \notin sent',
           Holds(v)' => Holds(v) /\ row'[DeliveryOf(worker[v].job)].attemptCount
                                    = row[DeliveryOf(worker[v].job)].attemptCount
    PROVE  CallInv(v)'
<1> DEFINE d == DeliveryOf(worker[v].job)
<1>1. CallInv(v)
  BY DEF NumbersInv
<1>2. /\ worker'[v].job = worker[v].job /\ worker'[v].run = worker[v].run
      /\ worker'[v].pc = worker[v].pc /\ worker'[v].attempt = worker[v].attempt
      /\ worker'[v].decision = worker[v].decision /\ Claimed(v)
  BY DEF SameCall, SameClaim
<1>3. Past(d, worker[v].run, worker[v].attempt)'
  BY <1>1, <1>2, PastKept, CallTypes DEF CallInv
<1>4. Number(v)' = Number(v)
  BY <1>2 DEF Number
<1> QED
  BY <1>1, <1>2, <1>3, <1>4 DEF CallInv

LEMMA DistinctKept ==
    ASSUME NumbersInv, \A w \in Workers : Claimed(w)' => SameCall(w)
    PROVE  DistinctNumbers'
BY DEF NumbersInv, DistinctNumbers, SameCall, SameClaim, Number

----------------------------------------------------------------------------
(* One lemma for each kind of step *)

\* A step that claims, sends and records nothing; rows may be inserted, reclaimed
\* or replayed.
LEMMA NumbersFrame ==
    ASSUME TypeOK, NumbersInv, UNCHANGED <<attempts, sent, acked>>,
           \A w \in Workers : Claimed(w)' => SameCall(w),
           \A d \in Deliveries : \/ row'[d] = row[d]
                                 \/ Advances(d) /\ row'[d].status = "pending"
    PROVE  NumbersInv'
<1>1. ASSUME NEW d \in Deliveries PROVE Advances(d)
  <2>1. row'[d] = row[d] => Advances(d)
    BY RowTypes DEF Advances
  <2> QED
    BY <2>1
<1>2. ASSUME NEW d \in Deliveries PROVE RowInv(d)'
  <2>1. RowInv(d)
    BY DEF NumbersInv
  <2> QED
    BY <2>1 DEF RowInv, CurrentJob
<1>3. ASSUME NEW w \in Workers PROVE CallInv(w)'
  <2> SUFFICES ASSUME Claimed(w)' PROVE CallInv(w)'
    BY DEF CallInv
  <2> DEFINE d == DeliveryOf(worker[w].job)
  <2>1. SameCall(w) /\ Claimed(w) /\ d \in Deliveries /\ CallInv(w)
    BY CallTypes DEF SameCall, NumbersInv
  <2>2. Holds(w)' => row'[d] = row[d] /\ Holds(w)
    BY <2>1 DEF Holds, HoldsLease, SameCall, SameClaim
  <2>3. row'[d].status # "absent"
    BY <2>1 DEF CallInv
  <2>4. /\ worker[w].attempt # 0 => Number(w) \notin attempts'
        /\ worker[w].pc = "send" => Number(w) \notin sent'
    BY <2>1 DEF CallInv
  <2> QED
    BY <1>1, <2>1, <2>2, <2>3, <2>4, CallKept
<1>4. TablesInv'
  BY <1>1, TablesKept
<1> QED
  BY <1>2, <1>3, <1>4, DistinctKept DEF NumbersInv

\* A claim reserves a number past every one of its run, and finds no holder.
LEMMA NumbersClaim ==
    ASSUME TypeOK, LeaseInv, NumbersInv, LeaseExclusive', NEW w \in Workers, Claim(w),
           IsDue(row[DeliveryOf(worker[w].job)], now)
    PROVE  NumbersInv'
<1> DEFINE me == worker[w]
           d == DeliveryOf(me.job)
           a == ReservedAttempt(row[d])
<1>1. /\ d \in Deliveries /\ row[d].status = "pending" /\ row[d] \in DeliveryRow
      /\ me \in WorkerState /\ worker \in [Workers -> WorkerState]
      /\ row \in [Deliveries -> DeliveryRow] /\ me.lease \in Nat
  BY JobDelivery DEF Claim, IsDue, TypeOK, WorkersOK, RowsOK, WorkerState
<1>2. /\ row' = [row EXCEPT ![d] = ClaimedRow(row[d], me.lease)]
      /\ UNCHANGED <<attempts, sent, acked>>
  BY DEF Claim
<1>3. /\ ClaimedRow(row[d], me.lease) \in DeliveryRow
      /\ ClaimedRow(row[d], me.lease).replayCount = row[d].replayCount
      /\ a \in 0 .. MAX_DELIVERY_ATTEMPTS
  BY <1>1, ClaimedRowType
<1>4. /\ ClaimedRow(row[d], me.lease).status = "in_progress"
      /\ ClaimedRow(row[d], me.lease).updatedAt = me.lease
      /\ ClaimedRow(row[d], me.lease).attemptCount =
           IF row[d].attemptCount < MAX_DELIVERY_ATTEMPTS
             THEN row[d].attemptCount + 1 ELSE row[d].attemptCount
  BY <1>1 DEF ClaimedRow, DeliveryRow
<1>5. /\ row'[d] \in DeliveryRow /\ row'[d].status = "in_progress"
      /\ row'[d].updatedAt = me.lease /\ row'[d].replayCount = row[d].replayCount
      /\ \/ /\ a # 0 /\ a = row[d].attemptCount + 1 /\ row'[d].attemptCount = a
         \/ /\ a = 0 /\ row[d].attemptCount = MAX_DELIVERY_ATTEMPTS
            /\ row'[d].attemptCount = MAX_DELIVERY_ATTEMPTS
      /\ \A e \in Deliveries : e # d => row'[e] = row[e]
  BY <1>1, <1>2, <1>3, <1>4, RowTypes, MaxAttemptsAssumption DEF ReservedAttempt
<1>6. /\ worker'[w].job = me.job /\ worker'[w].lease = me.lease
      /\ worker'[w].run = row[d].replayCount /\ worker'[w].attempt = a
      /\ worker'[w].pc \in {"send", "record"} /\ (worker'[w].pc = "send" => a # 0)
      /\ worker'[w].decision \in {"none", "failed", "exhausted"}
      /\ worker'[w].pc = "record" => (worker'[w].decision = "exhausted" <=> a = 0)
      /\ \A v \in Workers : v # w => worker'[v] = worker[v]
  <2>1. PICK endpoint \in {"active", "disabled"} :
          worker' = [worker EXCEPT ![w] =
            [me EXCEPT !.run = row[d].replayCount,
                       !.attempt = a,
                       !.pc = IF a # 0 /\ endpoint = "active" THEN "send" ELSE "record",
                       !.decision = IF a = 0 THEN "exhausted"
                                    ELSE IF endpoint = "disabled" THEN "failed"
                                    ELSE "none"]]
    BY DEF Claim
  <2> HIDE DEF a
  <2> QED
    BY <1>1, <2>1 DEF WorkerState
<1> HIDE DEF me, d, a
<1>7. \A e \in Deliveries : Advances(e)
  <2>1. row[d].attemptCount \in Nat /\ row[d].attemptCount <= MAX_DELIVERY_ATTEMPTS
    BY <1>1, RowTypes
  <2>2. Advances(d)
    BY <1>5, <2>1, MaxAttemptsAssumption DEF Advances
  <2>3. ASSUME NEW e \in Deliveries, e # d PROVE Advances(e)
    BY <1>5, <2>3, RowTypes DEF Advances
  <2> QED
    BY <2>2, <2>3
<1>8. TablesInv'
  BY <1>2, <1>7, TablesKept
<1>9. \A e \in Deliveries : RowInv(e)'
  <2>1. \A e \in Deliveries : RowInv(e)
    BY DEF NumbersInv
  <2> QED
    BY <1>2, <1>5, <2>1 DEF RowInv, CurrentJob
\* The number is new.
<1>10. ASSUME a # 0 PROVE ~Past(d, row[d].replayCount, a)
  BY <1>1, <1>5, <1>10, RowTypes DEF Past
<1>11. a # 0 => <<d, row[d].replayCount, a>> \notin attempts \cup sent
  <2>1. row[d].replayCount \in 0 .. MaxReplays
    BY <1>1, CurrentJobType DEF TypeOK
  <2> QED
    BY <1>1, <1>3, <1>10, <2>1 DEF NumbersInv, TablesInv
<1>12. Number(w)' = <<d, row[d].replayCount, a>>
  BY <1>6 DEF Number, d, me
<1>13. CallInv(w)'
  <2>1. DeliveryOf(worker'[w].job) = d
    BY <1>6 DEF d, me
  <2>2. Past(DeliveryOf(worker[w].job), worker[w].run, worker[w].attempt)'
    BY <1>3, <1>5, <1>6, <2>1, MaxAttemptsAssumption DEF Past
  <2>3. /\ worker'[w].attempt # 0 => Number(w)' \notin attempts'
        /\ worker'[w].pc = "send" => Number(w)' \notin sent'
    BY <1>2, <1>6, <1>11, <1>12
  <2>4. row'[d].attemptCount =
          IF worker'[w].attempt = 0 THEN MAX_DELIVERY_ATTEMPTS ELSE worker'[w].attempt
    BY <1>5, <1>6
  <2> QED
    BY <1>5, <1>6, <2>1, <2>2, <2>3, <2>4 DEF CallInv
<1>14. Holds(w)'
  BY <1>5, <1>6 DEF Holds, HoldsLease, d, me
<1>15. ASSUME NEW v \in Workers, v # w, Claimed(v)'
       PROVE  SameCall(v) /\ CallInv(v)' /\ (a # 0 => Number(v)' # Number(w)')
  <2> DEFINE e == DeliveryOf(worker[v].job)
  <2>1. SameCall(v) /\ Claimed(v) /\ worker'[v] = worker[v]
    BY <1>6, <1>15 DEF SameCall, SameClaim, Claimed
  <2>2. e \in Deliveries /\ CallInv(v) /\ worker[v].run \in Nat /\ worker[v].attempt \in Nat
    BY <2>1, CallTypes DEF NumbersInv
  <2>3. Holds(v)' => e # d
    BY <1>6, <1>14, <1>15, <2>1 DEF LeaseExclusive, d, me
  <2>4. Holds(v)' => Holds(v) /\ row'[e] = row[e]
    BY <1>5, <2>1, <2>2, <2>3 DEF Holds
  <2>5. row'[e].status # "absent"
    BY <1>5, <2>1, <2>2 DEF CallInv
  <2>6. CallInv(v)'
    <3>1. /\ worker[v].attempt # 0 => Number(v) \notin attempts'
          /\ worker[v].pc = "send" => Number(v) \notin sent'
      BY <1>2, <2>1, <2>2 DEF CallInv
    <3> QED
      BY <1>2, <1>7, <2>1, <2>2, <2>4, <2>5, <3>1, CallKept
  <2>7. Past(e, worker[v].run, worker[v].attempt) /\ Number(v)' = Number(v)
    BY <2>1, <2>2 DEF CallInv, Number
  <2> QED
    BY <1>10, <1>12, <2>1, <2>6, <2>7 DEF Number
<1>16. DistinctNumbers'
  <2>1. ASSUME NEW u \in Workers, NEW v \in Workers, Claimed(u)', Claimed(v)', u # v,
               worker'[u].attempt # 0
        PROVE  Number(u)' # Number(v)'
    <3>1. CASE u # w /\ v # w
      BY <1>15, <2>1, <3>1 DEF NumbersInv, DistinctNumbers, SameCall, SameClaim, Number
    <3>2. CASE u = w
      BY <1>6, <1>15, <2>1, <3>2
    <3>3. CASE v = w
      <4>1. a = 0 => Number(u)'[3] # Number(w)'[3]
        BY <1>12, <2>1 DEF Number
      <4> QED
        BY <1>15, <2>1, <3>3, <4>1
    <3> QED
      BY <3>1, <3>2, <3>3
  <2> QED
    BY <2>1 DEF DistinctNumbers
<1> QED
  BY <1>8, <1>9, <1>13, <1>15, <1>16 DEF NumbersInv, CallInv

\* A POST uses a number that no other call has.
LEMMA NumbersPost ==
    ASSUME TypeOK, NumbersInv, NEW w \in Workers, Post(w)
    PROVE  NumbersInv'
<1> DEFINE me == worker[w]
           d == DeliveryOf(me.job)
<1>1. /\ Claimed(w) /\ CallInv(w) /\ me.attempt # 0 /\ d \in Deliveries
      /\ me \in WorkerState /\ worker \in [Workers -> WorkerState]
      /\ me.attempt \in 1 .. MAX_DELIVERY_ATTEMPTS
  <2>1. Claimed(w) /\ me.pc = "send"
    BY DEF Post, Claimed
  <2> QED
    BY <2>1, CallTypes, MaxAttemptsAssumption DEF NumbersInv, TypeOK, WorkersOK
<1>2. PICK answer \in Answer :
        /\ acked' = IF answer = "ok" THEN acked \cup {<<d, me.run>>} ELSE acked
        /\ worker' = [worker EXCEPT ![w] =
             [me EXCEPT !.pc = "record",
                        !.decision = Decide(answer, me.attempt),
                        !.retryAt = IF Decide(answer, me.attempt) = "retry"
                                      THEN now + BackoffDelay(me.attempt) ELSE NoRetry]]
  BY DEF Post
<1>3. /\ row' = row /\ attempts' = attempts /\ sent' = sent \cup {Number(w)}
      /\ acked \subseteq acked'
  BY <1>2 DEF Post, Number
<1>4. /\ worker'[w].job = me.job /\ worker'[w].lease = me.lease
      /\ worker'[w].run = me.run /\ worker'[w].attempt = me.attempt
      /\ worker'[w].pc = "record" /\ worker'[w].decision = Decide(answer, me.attempt)
      /\ \A v \in Workers : v # w => worker'[v] = worker[v]
  BY <1>1, <1>2 DEF WorkerState
<1>5. /\ Decide(answer, me.attempt) # "exhausted"
      /\ Decide(answer, me.attempt) = "succeeded" => answer = "ok"
      /\ Decide(answer, me.attempt) = "dead" => me.attempt = MAX_DELIVERY_ATTEMPTS
  BY <1>1, MaxAttemptsAssumption DEF Decide, Answer
<1>6. \A e \in Deliveries : Advances(e) /\ RowInv(e)'
  <2>1. \A e \in Deliveries : RowInv(e)
    BY DEF NumbersInv
  <2> QED
    BY <1>3, <2>1, RowTypes DEF Advances, RowInv, CurrentJob
<1>7. CallInv(w)'
  <2>1. Past(d, me.run, me.attempt)'
    BY <1>1, <1>3, <1>4 DEF CallInv, Past
  <2>2. Number(w)' = Number(w) /\ (Holds(w)' => Holds(w))
    BY <1>1, <1>3, <1>4 DEF Number, Holds, Claimed
  <2>3. DeliveryOf(worker'[w].job) = d
    BY <1>4
  <2>4. worker'[w].decision = "succeeded" => <<d, me.run>> \in acked'
    BY <1>2, <1>4, <1>5
  <2> QED
    BY <1>1, <1>3, <1>4, <1>5, <2>1, <2>2, <2>3, <2>4 DEF CallInv
<1>8. ASSUME NEW v \in Workers, v # w, Claimed(v)' PROVE CallInv(v)'
  <2>1. SameCall(v) /\ Claimed(v) /\ CallInv(v) /\ DeliveryOf(worker[v].job) \in Deliveries
    BY <1>4, <1>8, CallTypes DEF SameCall, SameClaim, Claimed, NumbersInv
  <2>2. Number(v) # Number(w)
    BY <1>1, <1>8, <2>1 DEF NumbersInv, DistinctNumbers
  <2>3. /\ worker[v].attempt # 0 => Number(v) \notin attempts'
        /\ worker[v].pc = "send" => Number(v) \notin sent'
        /\ row'[DeliveryOf(worker[v].job)].status # "absent"
        /\ Holds(v)' => Holds(v)
    BY <1>3, <1>4, <1>8, <2>1, <2>2 DEF CallInv, Holds
  <2> QED
    BY <1>3, <1>6, <2>1, <2>3, CallKept
<1>9. DistinctNumbers'
  <2>1. \A v \in Workers : Claimed(v)' => Claimed(v) /\ Number(v)' = Number(v)
                                         /\ worker'[v].attempt = worker[v].attempt
    BY <1>1, <1>4 DEF Claimed, Number
  <2> QED
    BY <2>1 DEF NumbersInv, DistinctNumbers
<1>10. TablesInv'
  <2> SUFFICES ASSUME NEW e \in Deliveries, NEW r \in 0 .. MaxReplays,
                      NEW n \in 0 .. MAX_DELIVERY_ATTEMPTS,
                      <<e, r, n>> \in attempts' \cup sent'
               PROVE  Past(e, r, n)'
    BY DEF TablesInv
  <2>1. <<e, r, n>> = Number(w) => Past(e, r, n)
    BY <1>1 DEF Number, CallInv
  <2>2. <<e, r, n>> \in attempts \cup sent => Past(e, r, n)
    BY DEF NumbersInv, TablesInv
  <2> QED
    BY <1>3, <2>1, <2>2 DEF Past
<1> QED
  BY <1>6, <1>7, <1>8, <1>9, <1>10 DEF NumbersInv, CallInv

\* The holder's outcome: its attempt is the row's, and is recorded once.
LEMMA NumbersRecord ==
    ASSUME TypeOK, LeaseInv, NumbersInv, NEW w \in Workers, Record(w), Holds(w)
    PROVE  NumbersInv'
<1> DEFINE me == worker[w]
           d == DeliveryOf(me.job)
           r == RecordedRow(row[d], me.decision, me.attempt, me.retryAt, now)
<1>1. /\ Claimed(w) /\ CallInv(w) /\ d \in Deliveries /\ row[d] \in DeliveryRow
      /\ row \in [Deliveries -> DeliveryRow] /\ worker \in [Workers -> WorkerState]
      /\ me.decision \in Decision /\ me.attempt \in 0 .. MAX_DELIVERY_ATTEMPTS
      /\ me.retryAt \in Nat /\ now \in Nat /\ me.pc = "record"
      /\ row[d].replayCount = me.run
  <2>1. Claimed(w) /\ me.pc = "record"
    BY DEF Record, Claimed
  <2> QED
    BY <2>1, CallTypes, TimeTypes
    DEF NumbersInv, TypeOK, WorkersOK, RowsOK, WorkerState, Holds, HoldsLease
<1>2. /\ row' = [row EXCEPT ![d] = r] /\ UNCHANGED <<sent, acked>>
      /\ attempts' \subseteq attempts \cup {Number(w)}
      /\ me.decision = "exhausted" => attempts' = attempts
  BY DEF Record, Holds, Number
<1>3. r \in DeliveryRow /\ r.replayCount = row[d].replayCount
  <2> DEFINE q == row[d]
             c == me.decision
             n == me.attempt
             u == me.retryAt
  <2>1. q \in DeliveryRow /\ c \in Decision /\ n \in 0 .. MAX_DELIVERY_ATTEMPTS /\ u \in Nat
    BY <1>1
  <2>2. now \in Nat
    BY <1>1
  <2> HIDE DEF q, c, n, u
  <2>3. /\ RecordedRow(q, c, n, u, now) \in DeliveryRow
        /\ RecordedRow(q, c, n, u, now).replayCount = q.replayCount
    BY <2>1, <2>2, RecordedRowType
  <2> QED
    BY <2>3 DEF q, c, n, u
<1>4. /\ r.attemptCount = row[d].attemptCount
      /\ r.status \in {"succeeded", "pending", "failed"}
      /\ r.status = "succeeded" => me.decision = "succeeded"
      /\ r.lastError = "max_attempts" => me.decision \in {"dead", "exhausted"}
  <2>1. me.decision # "exhausted" => row[d].attemptCount = me.attempt
    BY <1>1 DEF CallInv
  <2>2. /\ r.attemptCount = IF me.decision = "exhausted" THEN row[d].attemptCount
                            ELSE me.attempt
        /\ r.status = CASE me.decision = "succeeded" -> "succeeded"
                        [] me.decision = "retry" -> "pending"
                        [] OTHER -> "failed"
        /\ r.lastError = CASE me.decision = "succeeded" -> "none"
                           [] me.decision \in {"dead", "exhausted"} -> "max_attempts"
                           [] OTHER -> "other"
    BY <1>1 DEF RecordedRow, DeliveryRow
  <2> HIDE DEF r
  <2> QED
    BY <1>1, <2>1, <2>2 DEF Decision
<1> HIDE DEF r
<1>5. /\ row'[d] = r /\ \A e \in Deliveries : e # d => row'[e] = row[e]
      /\ \A v \in Workers : v # w => worker'[v] = worker[v]
      /\ ~Claimed(w)'
  <2>1. worker'[w].pc \in {"delay", "finish"}
    BY <1>1 DEF Record, IdleWorker
  <2> QED
    BY <1>1, <1>2, <2>1 DEF Record, Claimed
<1>6. \A e \in Deliveries : Advances(e)
  <2>1. Advances(d)
    BY <1>1, <1>3, <1>4, <1>5, RowTypes DEF Advances
  <2>2. ASSUME NEW e \in Deliveries, e # d PROVE Advances(e)
    BY <1>5, <2>2, RowTypes DEF Advances
  <2> QED
    BY <2>1, <2>2
<1>7. \A e \in Deliveries : RowInv(e)'
  <2>1. \A e \in Deliveries : RowInv(e)
    BY DEF NumbersInv
  <2>2. ASSUME NEW e \in Deliveries, e = d PROVE RowInv(e)'
    <3>1. me.decision = "succeeded" => <<d, row[d].replayCount>> \in acked
      BY <1>1 DEF CallInv
    <3>2. me.decision \in {"dead", "exhausted"} => row[d].attemptCount = MAX_DELIVERY_ATTEMPTS
      BY <1>1, MaxAttemptsAssumption DEF CallInv
    <3> QED
      BY <1>2, <1>3, <1>4, <1>5, <2>2, <3>1, <3>2 DEF RowInv, CurrentJob
  <2>3. ASSUME NEW e \in Deliveries, e # d PROVE RowInv(e)'
    BY <1>2, <1>5, <2>1, <2>3 DEF RowInv, CurrentJob
  <2> QED
    BY <2>2, <2>3
<1>8. ASSUME NEW v \in Workers, Claimed(v)' PROVE SameCall(v) /\ CallInv(v)'
  <2> DEFINE e == DeliveryOf(worker[v].job)
  <2>1. /\ v # w /\ SameCall(v) /\ Claimed(v) /\ CallInv(v) /\ e \in Deliveries
        /\ worker'[v] = worker[v]
    BY <1>5, <1>8, CallTypes DEF SameCall, SameClaim, Claimed, NumbersInv
  <2>2. worker[v].attempt # 0 => Number(v) # Number(w)
    BY <1>1, <2>1 DEF NumbersInv, DistinctNumbers
  <2>3. Holds(v)' => Holds(v) /\ row'[e] = row[e]
    BY <1>4, <1>5, <2>1 DEF Holds, HoldsLease
  <2>4. row'[e].status # "absent"
    BY <1>4, <1>5, <2>1 DEF CallInv
  <2>5. /\ worker[v].attempt # 0 => Number(v) \notin attempts'
        /\ worker[v].pc = "send" => Number(v) \notin sent'
    BY <1>2, <2>1, <2>2 DEF CallInv
  <2> QED
    BY <1>2, <1>6, <2>1, <2>3, <2>4, <2>5, CallKept
<1>9. TablesInv'
  <2> SUFFICES ASSUME NEW e \in Deliveries, NEW k \in 0 .. MaxReplays,
                      NEW n \in 0 .. MAX_DELIVERY_ATTEMPTS,
                      <<e, k, n>> \in attempts' \cup sent'
               PROVE  Past(e, k, n)'
    BY DEF TablesInv
  <2>1. <<e, k, n>> = Number(w) => Past(e, k, n)
    BY <1>1 DEF Number, CallInv
  <2>2. <<e, k, n>> \in attempts \cup sent => Past(e, k, n)
    BY DEF NumbersInv, TablesInv
  <2>3. Past(e, k, n) /\ k \in Nat /\ n \in Nat
    BY <1>2, <2>1, <2>2, MaxReplaysAssumption, MaxAttemptsAssumption
  <2> QED
    BY <1>6, <2>3, PastKept
<1> QED
  BY <1>7, <1>8, <1>9, DistinctKept DEF NumbersInv, CallInv

LEMMA NumbersInit == Init => NumbersInv
BY DEF Init, InitAt, NumbersInv, RowInv, CallInv, DistinctNumbers, TablesInv, Claimed,
       IdleWorker, AbsentRow

LEMMA NumbersStep ==
    TypeOK /\ LeaseInv /\ LeaseInv' /\ NumbersInv /\ [Next]_vars => NumbersInv'
<1> SUFFICES ASSUME TypeOK, LeaseInv, LeaseInv', NumbersInv, [Next]_vars PROVE NumbersInv'
  OBVIOUS
<1>0. worker \in [Workers -> WorkerState] /\ now \in Nat
  BY TimeTypes DEF TypeOK, WorkersOK
<1>1. ASSUME NEW w \in Workers, worker' = worker PROVE ~Claim(w) /\ ~Record(w)
  <2>1. ASSUME Claim(w) PROVE worker'[w].pc # "claim"
    <3>1. CASE IsDue(row[DeliveryOf(worker[w].job)], now)
      <4> DEFINE a == ReservedAttempt(row[DeliveryOf(worker[w].job)])
      <4>1. PICK endpoint \in {"active", "disabled"} :
              worker' = [worker EXCEPT ![w] =
                [worker[w] EXCEPT !.run = row[DeliveryOf(worker[w].job)].replayCount,
                                  !.attempt = a,
                                  !.pc = IF a # 0 /\ endpoint = "active"
                                           THEN "send" ELSE "record",
                                  !.decision = IF a = 0 THEN "exhausted"
                                               ELSE IF endpoint = "disabled" THEN "failed"
                                               ELSE "none"]]
        BY <2>1, <3>1 DEF Claim
      <4> HIDE DEF a
      <4> QED
        BY <1>0, <4>1 DEF WorkerState
    <3>2. CASE ~IsDue(row[DeliveryOf(worker[w].job)], now)
      BY <1>0, <2>1, <3>2 DEF Claim, WorkerState
    <3> QED
      BY <3>1, <3>2
  <2>2. Record(w) => worker'[w].pc # "record"
    BY <1>0 DEF Record, IdleWorker
  <2> QED
    BY <1>1, <2>1, <2>2 DEF Claim, Record
\* Rows that are inserted, reclaimed or replayed advance and are pending.
<1>2. ASSUME \A w \in Workers : ~Claim(w) /\ ~Record(w), NEW d \in Deliveries
      PROVE  row'[d] = row[d] \/ (Advances(d) /\ row'[d].status = "pending")
  <2>1. CASE Inserted(d)
    <3>1. row[d].attemptCount = 0 /\ row[d].replayCount = 0
      BY <2>1 DEF Inserted, NumbersInv, RowInv
    <3>2. InsertedRow(now) \in DeliveryRow
      BY <1>0, InsertedRowType
    <3>3. /\ InsertedRow(now).attemptCount = 0 /\ InsertedRow(now).replayCount = 0
          /\ InsertedRow(now).status = "pending"
      BY DEF InsertedRow, AbsentRow
    <3> QED
      BY <2>1, <3>1, <3>2, <3>3 DEF Inserted, Advances
  <2>2. ASSUME NEW s \in Sweepers, ReclaimedBy(s, d)
        PROVE  Advances(d) /\ row'[d].status = "pending"
    <3>1. sweeper[s].at \in Nat
      BY DEF TypeOK, SweeperState
    <3>2. ReclaimedRow(row[d], sweeper[s].at) \in DeliveryRow
      BY <3>1, RowTypes, ReclaimedRowType
    <3>3. row'[d].replayCount = row[d].replayCount /\ row'[d].attemptCount = row[d].attemptCount
          /\ row'[d].status = "pending"
      BY <2>2, RowTypes DEF ReclaimedBy, ReclaimedRow, DeliveryRow
    <3> QED
      BY <2>2, <3>2, <3>3, RowTypes DEF ReclaimedBy, Advances
  <2>3. CASE Replayed(d)
    <3>1. /\ ReplayedRow(row[d], now) \in DeliveryRow
          /\ ReplayedRow(row[d], now).replayCount = row[d].replayCount + 1
          /\ ReplayedRow(row[d], now).status = "pending"
      BY <1>0, RowTypes, ReplayedRowType DEF ReplayedRow
    <3> QED
      BY <2>3, <3>1, RowTypes DEF Replayed, Advances
  <2> QED
    BY <1>2, <2>1, <2>2, <2>3, RowStep DEF ClaimedBy, RecordedBy
<1>3. CASE Tick \/ ApiNext \/ SweeperNext \/ UNCHANGED vars
  <2>1. worker' = worker /\ UNCHANGED <<attempts, sent, acked>>
    BY <1>3, ZenonT(60) DEF Tick, ApiNext, Ingest, ReadForReplay, Replay, HandlerEnqueues,
       EnqueueTimesOut, Acknowledge, HandlerFails, SweeperNext, SelectOutbox, EnqueueOutbox,
       DeleteOutbox, SelectOrphans, Reclaim, EnqueueOrphans, SweepFails, vars
  <2>2. \A w \in Workers : Claimed(w)' => SameCall(w)
    BY <2>1 DEF Claimed, SameCall, SameClaim
  <2>3. \A d \in Deliveries : row'[d] = row[d] \/ (Advances(d) /\ row'[d].status = "pending")
    BY <1>1, <1>2, <2>1
  <2> QED
    BY <2>1, <2>2, <2>3, NumbersFrame
<1>4. ASSUME row' = row, UNCHANGED <<attempts, sent, acked>>,
             \A w \in Workers : Claimed(w)' => SameCall(w)
      PROVE  NumbersInv'
  BY <1>4, NumbersFrame
<1>5. CASE QueueNext
  <2>1. row' = row /\ UNCHANGED <<attempts, sent, acked>>
    BY <1>5 DEF QueueNext, Promote, RecoverStalled, RedisLosesData
  <2>2. ASSUME NEW w \in Workers, Claimed(w)' PROVE SameCall(w)
    <3>1. CASE Promote \/ RecoverStalled
      BY <2>2, <3>1 DEF Promote, RecoverStalled, Claimed, SameCall, SameClaim
    <3>2. CASE RedisLosesData
      BY <1>0, <2>2, <3>2 DEF RedisLosesData, Claimed, SameCall, SameClaim, WorkerState
    <3> QED
      BY <1>5, <3>1, <3>2 DEF QueueNext
  <2> QED
    BY <1>4, <2>1, <2>2
<1>6. CASE WorkerNext
  <2>1. PICK w \in Workers :
          \/ Fetch(w) \/ Admit(w) \/ RateLimited(w) \/ Claim(w) \/ ClaimTimesOut(w)
          \/ Post(w) \/ Record(w) \/ Delay(w) \/ Finish(w)
          \/ ProcessorThrows(w) \/ WorkerCrashes(w) \/ LockExpires(w)
    BY <1>6 DEF WorkerNext
  <2> DEFINE due == IsDue(row[DeliveryOf(worker[w].job)], now)
  <2>2. CASE Claim(w) /\ due
    BY <2>2, NumbersClaim DEF LeaseInv
  <2>3. CASE Post(w)
    BY <2>3, NumbersPost
  <2>4. CASE Record(w) /\ Holds(w)
    BY <2>4, NumbersRecord
  \* The other steps of a call touch no table, and claim nothing.
  <2>5. ASSUME row' = row, UNCHANGED <<attempts, sent, acked>>,
               \A v \in Workers : v # w => worker'[v] = worker[v],
               Claimed(w)' => SameCall(w)
        PROVE  NumbersInv'
    <3>1. ASSUME NEW v \in Workers, Claimed(v)' PROVE SameCall(v)
      BY <2>5, <3>1 DEF Claimed, SameCall, SameClaim
    <3> QED
      BY <1>4, <2>5, <3>1
  <2>6. CASE Claim(w) /\ ~due
    BY <1>0, <2>5, <2>6 DEF Claim, Claimed, WorkerState
  <2>7. CASE Record(w) /\ ~Holds(w)
    <3>1. row' = row /\ UNCHANGED <<attempts, sent, acked>>
      BY <2>7 DEF Record, Holds
    <3>2. worker'[w].pc \in {"delay", "finish"}
      BY <1>0, <2>7 DEF Record, IdleWorker
    <3> QED
      BY <1>0, <2>5, <2>7, <3>1, <3>2 DEF Record, Claimed
  <2>8. CASE Fetch(w) \/ Admit(w)
    <3>1. /\ row' = row /\ UNCHANGED <<attempts, sent, acked>>
          /\ \A v \in Workers : v # w => worker'[v] = worker[v]
      BY <1>0, <2>8 DEF Fetch, Admit
    <3>2. CASE Fetch(w)
      BY <1>0, <2>5, <3>1, <3>2 DEF Fetch, IdleWorker, Claimed
    <3>3. CASE Admit(w)
      BY <1>0, <2>5, <3>1, <3>3 DEF Admit, WorkerState, Claimed
    <3> QED
      BY <2>8, <3>2, <3>3
  <2>9. CASE LockExpires(w)
    BY <1>0, <2>5, <2>9 DEF LockExpires, WorkerState, Claimed, SameCall, SameClaim
  <2>10. CASE \/ RateLimited(w) \/ ClaimTimesOut(w) \/ Delay(w) \/ Finish(w)
              \/ ProcessorThrows(w) \/ WorkerCrashes(w)
    <3>1. row' = row /\ UNCHANGED <<attempts, sent, acked>>
          /\ worker' = [worker EXCEPT ![w] = IdleWorker]
      BY <2>10 DEF RateLimited, ClaimTimesOut, Delay, Finish, ProcessorThrows,
                   WorkerCrashes, EndCall
    <3> QED
      BY <1>0, <2>5, <3>1, IdleTypes DEF Claimed
  <2> QED
    BY <2>1, <2>2, <2>3, <2>4, <2>6, <2>7, <2>8, <2>9, <2>10
<1> QED
  BY <1>3, <1>5, <1>6 DEF Next

----------------------------------------------------------------------------
(* What follows for single states *)

LEMMA InvariantsHold == Spec => [](TypeOK /\ LeaseInv /\ NumbersInv)
BY TypeInit, TypeStep, LeaseInit, LeaseStep, NumbersInit, NumbersStep, PTL DEF Spec

\* The INSERT of recordOutcome never meets the unique index of delivery_attempts:
\* whoever may record an outcome has the row's attempt, and nobody has recorded it.
THEOREM AttemptsAreFree == Spec => []AttemptIsFree
<1>1. TypeOK /\ NumbersInv => AttemptIsFree
  <2> SUFFICES ASSUME TypeOK, NumbersInv, NEW w \in Workers, Holds(w),
                      worker[w].decision # "exhausted"
               PROVE  /\ row[DeliveryOf(worker[w].job)].attemptCount = worker[w].attempt
                      /\ Number(w) \notin attempts
    BY DEF AttemptIsFree, Number
  <2>1. Claimed(w) /\ CallInv(w)
    BY DEF Holds, Claimed, NumbersInv
  <2>2. worker[w].attempt # 0
    BY <2>1, CallTypes DEF CallInv, Claimed
  <2> QED
    BY <2>1, <2>2 DEF CallInv
<1> QED
  BY <1>1, InvariantsHold, PTL

\* No number of a run is POSTed twice, nor one above the cap: the budget of a run is
\* kept by crashed, reclaimed and redelivered calls together.
THEOREM BudgetIsKept == Spec => []AttemptBudget
<1>1. TypeOK /\ NumbersInv => AttemptBudget
  <2> SUFFICES ASSUME TypeOK, NumbersInv, NEW w \in Workers, worker[w].pc = "send"
               PROVE  /\ worker[w].attempt \in 1 .. MAX_DELIVERY_ATTEMPTS
                      /\ Number(w) \notin sent
    BY DEF AttemptBudget, Number
  <2>1. Claimed(w) /\ CallInv(w)
    BY DEF Claimed, NumbersInv
  <2> QED
    BY <2>1, CallTypes, MaxAttemptsAssumption DEF CallInv
<1> QED
  BY <1>1, InvariantsHold, PTL

\* A delivery is dead-lettered only with the whole budget of its run used.
THEOREM DeadLettersAtCap == Spec => []DeadOnlyAtCap
<1>1. NumbersInv => DeadOnlyAtCap
  BY DEF NumbersInv, RowInv, DeadOnlyAtCap
<1> QED
  BY <1>1, InvariantsHold, PTL

\* A succeeded delivery got a 2xx in its current run, however late an answer to an
\* earlier run arrives.
THEOREM SuccessWasAcked == Spec => []SucceededWasAcked
<1>1. NumbersInv => SucceededWasAcked
  BY DEF NumbersInv, RowInv, SucceededWasAcked
<1> QED
  BY <1>1, InvariantsHold, PTL

----------------------------------------------------------------------------
(* What follows for steps *)

\* What a recorded outcome does to the row of its holder.
LEMMA RecordedFacts ==
    ASSUME TypeOK, NumbersInv, NEW d \in Deliveries, NEW w \in Workers, RecordedBy(w, d)
    PROVE  /\ row[d].status = "in_progress"
           /\ row'[d].replayCount = row[d].replayCount
           /\ row'[d].attemptCount = row[d].attemptCount
           /\ row'[d].status = CASE worker[w].decision = "succeeded" -> "succeeded"
                                 [] worker[w].decision = "retry" -> "pending"
                                 [] OTHER -> "failed"
<1>1. Claimed(w) /\ CallInv(w) /\ row[d] \in DeliveryRow /\ row[d].status = "in_progress"
  BY RowTypes DEF RecordedBy, Holds, HoldsLease, Claimed, NumbersInv
<1>2. worker[w].decision # "exhausted" => row[d].attemptCount = worker[w].attempt
  BY <1>1 DEF RecordedBy, Record, CallInv
<1> QED
  BY <1>1, <1>2 DEF RecordedBy, RecordedRow, DeliveryRow

LEMMA ClaimedFacts ==
    ASSUME TypeOK, NEW d \in Deliveries, NEW w \in Workers, ClaimedBy(w, d)
    PROVE  /\ row[d].status = "pending" /\ row'[d].status = "in_progress"
           /\ row'[d].replayCount = row[d].replayCount
           /\ row'[d].attemptCount >= row[d].attemptCount
BY RowTypes, MaxAttemptsAssumption DEF ClaimedBy, ClaimedRow, DeliveryRow

LEMMA ReclaimedFacts ==
    ASSUME TypeOK, NEW d \in Deliveries, NEW s \in Sweepers, ReclaimedBy(s, d)
    PROVE  /\ row[d].status \in OpenStatus /\ row'[d].status = "pending"
           /\ row'[d].replayCount = row[d].replayCount
           /\ row'[d].attemptCount = row[d].attemptCount
BY RowTypes DEF ReclaimedBy, ReclaimedRow, DeliveryRow

\* Nobody reopens or changes a succeeded delivery, reopens a failed one but by
\* replay, or takes back an attempt.
THEOREM HistoryIsKept == Spec => RowHistory
<1> DEFINE Kept(d) ==
      /\ row[d].status = "succeeded" => row'[d] = row[d]
      /\ row[d].status = "failed" /\ row'[d] # row[d] => row'[d] = ReplayedRow(row[d], now)
      /\ row'[d].replayCount # row[d].replayCount => row[d].status = "failed"
      /\ row'[d].replayCount = row[d].replayCount
           => row'[d].attemptCount >= row[d].attemptCount
<1>1. ASSUME TypeOK, NumbersInv, [Next]_vars, NEW d \in Deliveries PROVE Kept(d)
  <2>0. row[d].attemptCount \in Nat
    BY <1>1, RowTypes
  <2>1. CASE row'[d] = row[d]
    BY <2>0, <2>1
  <2>2. CASE Inserted(d)
    BY <1>1, <2>2 DEF Inserted, InsertedRow, AbsentRow, NumbersInv, RowInv
  <2>3. ASSUME NEW w \in Workers, ClaimedBy(w, d) PROVE Kept(d)
    BY <1>1, <2>3, ClaimedFacts
  <2>4. ASSUME NEW w \in Workers, RecordedBy(w, d) PROVE Kept(d)
    BY <1>1, <2>0, <2>4, RecordedFacts
  <2>5. ASSUME NEW s \in Sweepers, ReclaimedBy(s, d) PROVE Kept(d)
    BY <1>1, <2>0, <2>5, ReclaimedFacts DEF OpenStatus
  <2>6. CASE Replayed(d)
    BY <1>1, <2>6, RowTypes DEF Replayed, ReplayedRow
  <2> QED
    BY <1>1, <2>1, <2>2, <2>3, <2>4, <2>5, <2>6, RowStep
<1>2. TypeOK /\ NumbersInv /\ [Next]_vars => [\A d \in Deliveries : Kept(d)]_vars
  BY <1>1
<1>3. Spec => [][\A d \in Deliveries : Kept(d)]_vars
  BY <1>2, InvariantsHold, PTL DEF Spec
<1> QED
  BY <1>3 DEF RowHistory

\* A sweeper takes back only what has been left alone for the lock duration, by the
\* clock of the moment, however old its own.
THEOREM OnlyStaleReclaimed == Spec => ReclaimsOnlyStale
<1> DEFINE Stale(d) ==
      row[d].status \in OpenStatus /\ row'[d] # row[d] /\ row'[d].status = "pending"
        /\ attempts' = attempts => IsStale(row[d], now)
<1>1. ASSUME TypeOK, LeaseInv, NumbersInv, [Next]_vars, NEW d \in Deliveries PROVE Stale(d)
  <2>1. CASE Inserted(d) \/ Replayed(d)
    BY <2>1 DEF Inserted, Replayed, OpenStatus
  <2>2. ASSUME NEW w \in Workers, ClaimedBy(w, d) PROVE Stale(d)
    BY <1>1, <2>2, ClaimedFacts
  <2>3. ASSUME NEW w \in Workers, RecordedBy(w, d) PROVE Stale(d)
    <3> SUFFICES ASSUME row'[d].status = "pending" PROVE attempts' # attempts
      OBVIOUS
    <3>1. worker[w].decision = "retry"
      BY <1>1, <2>3, RecordedFacts
    <3>2. Number(w) \in attempts'
      BY <2>3, <3>1 DEF RecordedBy, Record, Holds, Number
    <3>3. Claimed(w) /\ CallInv(w) /\ worker[w].pc = "record"
      BY <1>1, <2>3 DEF RecordedBy, Record, Claimed, NumbersInv
    <3> QED
      BY <3>1, <3>2, <3>3 DEF CallInv
  <2>4. ASSUME NEW s \in Sweepers, ReclaimedBy(s, d) PROVE Stale(d)
    <3>1. /\ sweeper[s].at \in Nat /\ sweeper[s].at <= now /\ now \in Nat
          /\ row[d].updatedAt \in Nat /\ WORKER_LOCK_DURATION \in Nat
      BY <1>1, RowTypes, TimeTypes DEF TypeOK, SweeperState, LeaseInv, DeliveryRow
    <3> QED
      BY <2>4, <3>1 DEF ReclaimedBy, IsStale
  <2> QED
    BY <1>1, <2>1, <2>2, <2>3, <2>4, RowStep
<1>2. TypeOK /\ LeaseInv /\ NumbersInv /\ [Next]_vars => [\A d \in Deliveries : Stale(d)]_vars
  BY <1>1
<1>3. Spec => [][\A d \in Deliveries : Stale(d)]_vars
  BY <1>2, InvariantsHold, PTL DEF Spec
<1> QED
  BY <1>3 DEF ReclaimsOnlyStale

----------------------------------------------------------------------------
(* The pipeline implements DeliveryContract *)

State == [d \in Deliveries |-> ContractState(d)]
Run == [d \in Deliveries |-> row[d].replayCount]

\* The step changes nothing the contract speaks of.
Stutters == State' = State /\ Run' = Run /\ UNCHANGED <<sent, acked>>

LEMMA ContractStutter ==
    ASSUME UNCHANGED <<sent, acked>>,
           \A d \in Deliveries : ContractState(d)' = ContractState(d)
                                /\ row'[d].replayCount = row[d].replayCount
    PROVE  Stutters
BY DEF Stutters, State, Run

\* A step that changes one delivery.
LEMMA ContractOne ==
    ASSUME NEW d \in Deliveries, NEW st, NEW r,
           ContractState(d)' = st, row'[d].replayCount = r,
           \A e \in Deliveries : e # d => row'[e] = row[e]
    PROVE  State' = [State EXCEPT ![d] = st] /\ Run' = [Run EXCEPT ![d] = r]
BY DEF State, Run, ContractState

LEMMA ContractStep ==
    TypeOK /\ LeaseInv /\ NumbersInv /\ [Next]_vars => [Contract!Next]_(Contract!contract)
<1> SUFFICES ASSUME TypeOK, LeaseInv, NumbersInv, [Next]_vars
             PROVE  Contract!Next \/ Stutters
  BY DEF Contract!contract, Stutters, State, Run
<1>0. /\ row \in [Deliveries -> DeliveryRow] /\ worker \in [Workers -> WorkerState]
      /\ now \in Nat
  BY TimeTypes DEF TypeOK, RowsOK, WorkersOK
<1>1. ASSUME row' = row, UNCHANGED <<sent, acked>> PROVE Stutters
  BY <1>1 DEF Stutters, State, Run, ContractState
<1>2. CASE Tick \/ QueueNext \/ UNCHANGED vars
  BY <1>1, <1>2 DEF Tick, QueueNext, Promote, RecoverStalled, RedisLosesData, vars
<1>3. CASE ApiNext
  <2>1. PICK h \in Handlers :
          \/ Ingest(h)
          \/ \E e \in Deliveries : ReadForReplay(h, e) \/ Replay(h, e)
          \/ HandlerEnqueues(h) \/ EnqueueTimesOut(h) \/ Acknowledge(h) \/ HandlerFails(h)
    BY <1>3 DEF ApiNext
  <2>2. CASE Ingest(h)
    <3>1. PICK new \in SUBSET Deliveries :
            /\ \A e \in new : row[e].status = "absent"
            /\ row' = [e \in Deliveries |-> IF e \in new THEN InsertedRow(now) ELSE row[e]]
      BY <2>2, Zenon DEF Ingest
    <3>2. /\ InsertedRow(now).status = "pending" /\ InsertedRow(now).replayCount = 0
          /\ \A e \in new : row[e].replayCount = 0
      BY <3>1 DEF InsertedRow, AbsentRow, NumbersInv, RowInv
    <3>3. new \in SUBSET {d \in Deliveries : State[d] = "absent"}
      BY <3>1 DEF State, ContractState, OpenStatus
    <3>4. State' = [d \in Deliveries |-> IF d \in new THEN "open" ELSE State[d]]
      BY <3>1, <3>2 DEF State, ContractState, OpenStatus
    <3>5. Run' = Run
      BY <3>1, <3>2 DEF Run
    <3>6. UNCHANGED <<sent, acked>>
      BY <2>2 DEF Ingest
    <3> QED
      BY <3>3, <3>4, <3>5, <3>6 DEF Contract!Next, Contract!Accept, State, Run
  <2>3. ASSUME NEW d \in Deliveries, Replay(h, d) PROVE Contract!Next \/ Stutters
    <3>1. CASE CanReplay(row[d])
      <4>1. /\ row' = [row EXCEPT ![d] = ReplayedRow(row[d], now)] /\ row[d].status = "failed"
            /\ UNCHANGED <<sent, acked>>
        BY <2>3, <3>1 DEF Replay, CanReplay
      <4>2. /\ row'[d].status = "pending" /\ row'[d].replayCount = row[d].replayCount + 1
            /\ \A e \in Deliveries : e # d => row'[e] = row[e]
        BY <1>0, <4>1 DEF ReplayedRow
      <4>3. State' = [State EXCEPT ![d] = "open"]
            /\ Run' = [Run EXCEPT ![d] = row[d].replayCount + 1]
        BY <4>2, ContractOne DEF ContractState, OpenStatus
      <4>4. State[d] = "failed" /\ Run[d] = row[d].replayCount
        BY <4>1 DEF State, Run, ContractState, OpenStatus
      <4> QED
        BY <4>1, <4>3, <4>4 DEF Contract!Next, Contract!Replay, State, Run
    <3>2. CASE ~CanReplay(row[d])
      BY <1>1, <2>3, <3>2 DEF Replay
    <3> QED
      BY <3>1, <3>2
  <2>4. CASE \/ \E e \in Deliveries : ReadForReplay(h, e)
             \/ HandlerEnqueues(h) \/ EnqueueTimesOut(h) \/ Acknowledge(h) \/ HandlerFails(h)
    BY <1>1, <2>4 DEF ReadForReplay, HandlerEnqueues, EnqueueTimesOut, Acknowledge, HandlerFails
  <2> QED
    BY <2>1, <2>2, <2>3, <2>4
<1>4. CASE WorkerNext
  <2>1. PICK w \in Workers :
          \/ Fetch(w) \/ Admit(w) \/ RateLimited(w) \/ Claim(w) \/ ClaimTimesOut(w)
          \/ Post(w) \/ Record(w) \/ Delay(w) \/ Finish(w)
          \/ ProcessorThrows(w) \/ WorkerCrashes(w) \/ LockExpires(w)
    BY <1>4 DEF WorkerNext
  <2> DEFINE d == DeliveryOf(worker[w].job)
  <2>2. CASE Claim(w)
    <3>1. UNCHANGED <<sent, acked>>
      BY <2>2 DEF Claim
    <3>2. ASSUME NEW e \in Deliveries
          PROVE  ContractState(e)' = ContractState(e)
                 /\ row'[e].replayCount = row[e].replayCount
      <4>1. row'[e] = row[e] \/ ClaimedBy(w, e)
        <5>1. CASE IsDue(row[d], now)
          BY <1>0, <2>2, <5>1 DEF Claim, IsDue, ClaimedBy
        <5>2. CASE ~IsDue(row[d], now)
          BY <2>2, <5>2 DEF Claim
        <5> QED
          BY <5>1, <5>2
      <4> QED
        BY <4>1, ClaimedFacts DEF ContractState, OpenStatus
    <3> QED
      BY <3>1, <3>2, ContractStutter
  <2>3. CASE Post(w)
    <3>1. /\ Claimed(w) /\ CallInv(w) /\ worker[w].pc = "send" /\ d \in Deliveries
          /\ worker[w].attempt \in 1 .. MAX_DELIVERY_ATTEMPTS
          /\ worker[w].run \in Nat /\ row[d].replayCount \in Nat
      <4>1. Claimed(w) /\ CallInv(w) /\ worker[w].pc = "send"
        BY <2>3 DEF Post, Claimed, NumbersInv
      <4> QED
        BY <4>1, CallTypes, RowTypes, MaxAttemptsAssumption
    <3>2. /\ row' = row /\ sent' = sent \cup {<<d, worker[w].run, worker[w].attempt>>}
          /\ acked' \in {acked, acked \cup {<<d, worker[w].run>>}}
      BY <2>3 DEF Post
    <3>3. State' = State /\ Run' = Run /\ State[d] # "absent" /\ Run[d] = row[d].replayCount
      BY <3>1, <3>2 DEF State, Run, ContractState, CallInv, OpenStatus
    <3>4. worker[w].run \in 0 .. Run[d] /\ Number(w) \notin sent
      BY <3>1, <3>3 DEF CallInv, Past
    <3> QED
      BY <3>1, <3>2, <3>3, <3>4 DEF Contract!Next, Contract!Post, State, Run, Number
  <2>4. CASE Record(w) /\ Holds(w)
    <3>1. /\ d \in Deliveries /\ CallInv(w) /\ worker[w].pc = "record"
          /\ row[d].status = "in_progress" /\ row[d].replayCount = worker[w].run
      BY <2>4, CallTypes DEF Record, Claimed, Holds, HoldsLease, NumbersInv
    <3>2. UNCHANGED <<sent, acked>>
      BY <2>4 DEF Record
    <3>3. /\ row'[d] = RecordedRow(row[d], worker[w].decision, worker[w].attempt,
                                   worker[w].retryAt, now)
          /\ \A e \in Deliveries : e # d => row'[e] = row[e]
      <4> DEFINE r == RecordedRow(row[d], worker[w].decision, worker[w].attempt,
                                  worker[w].retryAt, now)
      <4>1. row' = [row EXCEPT ![d] = r]
        BY <2>4 DEF Record, Holds
      <4> HIDE DEF r
      <4>2. row'[d] = r /\ \A e \in Deliveries : e # d => row'[e] = row[e]
        BY <1>0, <3>1, <4>1
      <4> QED
        BY <4>2 DEF r
    <3>4. RecordedBy(w, d)
      BY <2>4, <3>3 DEF RecordedBy
    <3>5. /\ row'[d].replayCount = row[d].replayCount
          /\ row'[d].status = CASE worker[w].decision = "succeeded" -> "succeeded"
                                [] worker[w].decision = "retry" -> "pending"
                                [] OTHER -> "failed"
      BY <3>1, <3>4, RecordedFacts
    <3>6. State[d] = "open" /\ Run[d] = row[d].replayCount
          /\ Run = [Run EXCEPT ![d] = row[d].replayCount]
      BY <3>1 DEF State, Run, ContractState, OpenStatus
    <3>7. ASSUME NEW st, NEW e \in Deliveries, e = d, ContractState(e)' = st
          PROVE  State' = [State EXCEPT ![e] = st] /\ Run' = Run
      BY <3>3, <3>5, <3>6, <3>7, ContractOne
    <3>8. PICK e \in Deliveries : e = d
      BY <3>1
    <3>9. CASE worker[w].decision = "succeeded"
      <4>1. ContractState(e)' = "succeeded"
        BY <3>5, <3>8, <3>9 DEF ContractState, OpenStatus
      <4>2. <<e, Run[e]>> \in acked
        BY <3>1, <3>6, <3>8, <3>9 DEF CallInv, Claimed
      <4> QED
        BY <3>2, <3>6, <3>7, <3>8, <4>1, <4>2 DEF Contract!Next, Contract!Succeed, State, Run
    <3>10. CASE worker[w].decision = "retry"
      <4>1. ContractState(e)' = "open"
        BY <3>5, <3>8, <3>10 DEF ContractState, OpenStatus
      <4>2. State' = State
        BY <3>6, <3>7, <3>8, <4>1 DEF State
      <4> QED
        BY <3>2, <3>7, <3>8, <4>1, <4>2 DEF Stutters
    <3>11. CASE worker[w].decision \notin {"succeeded", "retry"}
      <4>1. ContractState(e)' = "failed"
        BY <3>5, <3>8, <3>11 DEF ContractState, OpenStatus
      <4> QED
        BY <3>2, <3>6, <3>7, <3>8, <4>1 DEF Contract!Next, Contract!Fail, State, Run
    <3> QED
      BY <3>9, <3>10, <3>11
  <2>5. CASE Record(w) /\ ~Holds(w)
    BY <1>1, <2>5 DEF Record, Holds
  <2>6. CASE ~Claim(w) /\ ~Post(w) /\ ~Record(w)
    BY <1>1, <2>1, <2>6 DEF Fetch, Admit, RateLimited, ClaimTimesOut, Delay, Finish,
       ProcessorThrows, WorkerCrashes, LockExpires
  <2> QED
    BY <2>2, <2>3, <2>4, <2>5, <2>6
<1>5. CASE SweeperNext
  <2>1. PICK s \in Sweepers :
          \/ SelectOutbox(s) \/ EnqueueOutbox(s) \/ DeleteOutbox(s)
          \/ SelectOrphans(s) \/ Reclaim(s) \/ EnqueueOrphans(s) \/ SweepFails(s)
    BY <1>5 DEF SweeperNext
  <2>2. CASE Reclaim(s)
    <3>1. UNCHANGED <<sent, acked>>
      BY <2>2 DEF Reclaim
    <3>2. ASSUME NEW e \in Deliveries
          PROVE  ContractState(e)' = ContractState(e)
                 /\ row'[e].replayCount = row[e].replayCount
      <4>1. row'[e] = row[e] \/ ReclaimedBy(s, e)
        BY <2>2 DEF Reclaim, Reclaimable, IsReclaimable, ReclaimedBy
      <4> QED
        BY <4>1, ReclaimedFacts DEF ContractState, OpenStatus
    <3> QED
      BY <3>1, <3>2, ContractStutter
  <2>3. CASE ~Reclaim(s)
    BY <1>1, <2>1, <2>3 DEF SelectOutbox, EnqueueOutbox, DeleteOutbox, SelectOrphans,
                            EnqueueOrphans, SweepFails
  <2> QED
    BY <2>2, <2>3
<1> QED
  BY <1>2, <1>3, <1>4, <1>5 DEF Next

\* Whatever fails and whoever races, a tenant sees what DeliveryContract allows:
\* the processor, the sweeper, the queue and the API together implement it.
THEOREM PipelineKeepsContract == Spec => KeepsContract
<1>1. Init => Contract!Init
  BY DEF Init, InitAt, Contract!Init, ContractState, AbsentRow, OpenStatus
<1>2. TypeOK /\ LeaseInv /\ NumbersInv /\ [Next]_vars => [Contract!Next]_(Contract!contract)
  BY ContractStep
<1> QED
  BY <1>1, <1>2, InvariantsHold, PTL DEF Spec, KeepsContract, Contract!Spec

=============================================================================
