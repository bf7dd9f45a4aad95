------------------------- MODULE EventRollupProofs -------------------------
(* EventAgrees for any number of deliveries and transactions. *)
EXTENDS EventRollup, TLAPS

\* Whoever has updated the event, and not committed, has the roll-up of what it
\* sees: no other transaction can commit before it, and a change from one open
\* status to another does not show in a roll-up.
RollupInv ==
    /\ TypeOK
    /\ EventAgrees
    /\ \A t \in Transactions : txn[t].pc = "updated" => txn[t].rollup = Rollup(View(t))

Open == {"pending", "in_progress"}

LEMMA RollupType == ASSUME NEW f PROVE Rollup(f) \in EventStatus
BY DEF Rollup, EventStatus

LEMMA RollupOfOpen ==
    ASSUME NEW f, NEW g,
           \A d \in Deliveries : f[d] = g[d] \/ (f[d] \in Open /\ g[d] \in Open)
    PROVE  Rollup(f) = Rollup(g)
<1> DEFINE has(h, set) == \E d \in Deliveries : h[d] \in set
<1>1. /\ has(f, {"pending", "in_progress"}) <=> has(g, {"pending", "in_progress"})
      /\ has(f, {"pending", "in_progress", "succeeded"})
           <=> has(g, {"pending", "in_progress", "succeeded"})
      /\ has(f, {"pending", "in_progress", "succeeded", "failed"})
           <=> has(g, {"pending", "in_progress", "succeeded", "failed"})
      /\ has(f, {"succeeded"}) <=> has(g, {"succeeded"})
      /\ has(f, {"failed"}) <=> has(g, {"failed"})
  BY DEF Open
<1> QED
  BY <1>1 DEF Rollup

LEMMA RollupInit == Init => RollupInv
<1> SUFFICES ASSUME Init PROVE RollupInv
  OBVIOUS
<1>1. NoTransaction \in [pc : {"idle", "written", "locked", "updated"},
                         writes : [Deliveries -> DeliveryStatus \cup {"none"}],
                         shares : BOOLEAN, rollup : EventStatus]
  BY DEF NoTransaction, NoWrites, EventStatus
<1>2. event \in EventStatus
  BY RollupType DEF Init
<1>3. status \in [Deliveries -> DeliveryStatus]
  BY DEF Init, DeliveryStatus
<1>4. \A t \in Transactions : txn[t].pc = "idle"
  BY DEF Init, NoTransaction
<1> QED
  BY <1>1, <1>2, <1>3, <1>4 DEF Init, RollupInv, TypeOK, EventAgrees, HasEventLock

TxnState ==
    [pc : {"idle", "written", "locked", "updated"},
     writes : [Deliveries -> DeliveryStatus \cup {"none"}],
     shares : BOOLEAN, rollup : EventStatus]

\* One session moves, to a state that does not hold the event's lock.
LEMMA OneMoves ==
    ASSUME RollupInv, NEW t \in Transactions, NEW x \in TxnState,
           x.pc \in {"idle", "written"}, txn' = [txn EXCEPT ![t] = x],
           UNCHANGED <<status, event>>
    PROVE  RollupInv'
<1>1. txn' \in [Transactions -> TxnState]
  BY DEF RollupInv, TypeOK, TxnState
<1>2. \A u \in Transactions : u # t => txn'[u] = txn[u]
  BY DEF RollupInv, TypeOK
<1>3. txn'[t] = x
  BY DEF RollupInv, TypeOK
<1>4. \A u \in Transactions : HasEventLock(u)' => u # t /\ HasEventLock(u)
  BY <1>2, <1>3 DEF HasEventLock
<1>5. TypeOK'
  BY <1>1, <1>4 DEF RollupInv, TypeOK, TxnState
<1>6. ASSUME NEW u \in Transactions, txn'[u].pc = "updated"
      PROVE  txn'[u].rollup = Rollup(View(u)')
  BY <1>2, <1>3, <1>6 DEF RollupInv, View
<1> QED
  BY <1>5, <1>6 DEF RollupInv, EventAgrees, Rollup

LEMMA RollupStep == RollupInv /\ [Next]_vars => RollupInv'
<1> SUFFICES ASSUME RollupInv, [Next]_vars PROVE RollupInv'
  OBVIOUS
<1>0. TypeOK /\ txn \in [Transactions -> TxnState] /\ status \in [Deliveries -> DeliveryStatus]
  BY DEF RollupInv, TypeOK, TxnState
<1>1. ASSUME NEW t \in Transactions, RecordOutcome(t) \/ Replay(t) \/ Ingest(t) PROVE RollupInv'
  <2>1. ASSUME NEW ds, NEW st \in {"succeeded", "failed", "pending"}, NEW shares \in BOOLEAN,
               Write(t, ds, st, shares)
        PROVE  RollupInv'
    <3> DEFINE x == [pc |-> "written",
                     writes |-> [d \in Deliveries |-> IF d \in ds THEN st ELSE "none"],
                     shares |-> shares, rollup |-> "pending"]
    <3>1. x \in TxnState
      BY DEF TxnState, DeliveryStatus, EventStatus
    <3>2. txn' = [txn EXCEPT ![t] = x] /\ UNCHANGED <<status, event>>
      BY <1>1, <2>1 DEF Write, RecordOutcome, Replay, Ingest
    <3> QED
      BY <3>1, <3>2, OneMoves
  <2>2. CASE RecordOutcome(t)
    <3>1. PICK d \in Deliveries, st \in {"succeeded", "failed"} : Write(t, {d}, st, FALSE)
      BY <2>2 DEF RecordOutcome
    <3> QED
      BY <3>1, <2>1
  <2>3. CASE Replay(t)
    <3>1. PICK d \in Deliveries : Write(t, {d}, "pending", FALSE)
      BY <2>3 DEF Replay
    <3> QED
      BY <3>1, <2>1
  <2>4. CASE Ingest(t)
    <3>1. PICK new : Write(t, new, "pending", new # {})
      BY <2>4 DEF Ingest
    <3> QED
      BY <3>1, <2>1
  <2> QED
    BY <1>1, <2>2, <2>3, <2>4
<1>2. ASSUME NEW t \in Transactions, LockEvent(t) PROVE RollupInv'
  <2>1. /\ txn' \in [Transactions -> TxnState]
        /\ \A u \in Transactions : u # t => txn'[u] = txn[u] /\ ~HasEventLock(u)
        /\ txn'[t].pc = "locked" /\ UNCHANGED <<status, event>>
    BY <1>0, <1>2 DEF LockEvent, TxnState
  <2>2. TypeOK'
    BY <1>0, <2>1 DEF TypeOK, TxnState, HasEventLock
  <2>3. \A u \in Transactions : txn'[u].pc # "updated"
    BY <2>1 DEF HasEventLock
  <2> QED
    BY <2>1, <2>2, <2>3 DEF RollupInv, EventAgrees, Rollup
<1>3. ASSUME NEW t \in Transactions, UpdateEvent(t) PROVE RollupInv'
  <2>1. Rollup(View(t)) \in EventStatus
    BY RollupType
  <2>2. /\ txn' \in [Transactions -> TxnState]
        /\ \A u \in Transactions : u # t => txn'[u] = txn[u]
        /\ txn'[t].pc = "updated" /\ txn'[t].rollup = Rollup(View(t))
        /\ txn'[t].writes = txn[t].writes
        /\ UNCHANGED <<status, event>>
    BY <1>0, <1>3, <2>1 DEF UpdateEvent, TxnState
  <2>3. \A u \in Transactions : HasEventLock(u)' => HasEventLock(u)
    BY <1>3, <2>2 DEF HasEventLock, UpdateEvent
  <2>4. TypeOK'
    BY <1>0, <2>2, <2>3 DEF TypeOK, TxnState
  <2>5. \A u \in Transactions : View(u)' = View(u)
    BY <2>2 DEF View
  <2>6. \A u \in Transactions : txn'[u].pc = "updated" => txn'[u].rollup = Rollup(View(u)')
    BY <2>2, <2>5 DEF RollupInv
  <2> QED
    BY <2>2, <2>4, <2>6 DEF RollupInv, EventAgrees, Rollup
<1>4. ASSUME NEW t \in Transactions, Commit(t) PROVE RollupInv'
  <2>1. status' = View(t) /\ event' = Rollup(View(t)) /\ txn' = [txn EXCEPT ![t] = NoTransaction]
    BY <1>4 DEF Commit, RollupInv
  <2>2. View(t) \in [Deliveries -> DeliveryStatus] /\ Rollup(View(t)) \in EventStatus
    BY <1>0, RollupType DEF View, TxnState
  <2>3. NoTransaction \in TxnState /\ NoTransaction.pc = "idle"
    BY DEF NoTransaction, NoWrites, TxnState, EventStatus
  <2>4. /\ txn' \in [Transactions -> TxnState] /\ txn'[t].pc = "idle"
        /\ \A u \in Transactions : u # t => txn'[u] = txn[u] /\ ~HasEventLock(u)
    BY <1>0, <1>4, <2>1, <2>3 DEF Commit, TypeOK, HasEventLock
  <2>5. \A u \in Transactions : ~HasEventLock(u)'
    BY <2>4 DEF HasEventLock
  <2>6. TypeOK'
    BY <2>1, <2>2, <2>4, <2>5 DEF TypeOK, TxnState
  <2>7. EventAgrees'
    BY <2>1 DEF EventAgrees, Rollup
  <2> QED
    BY <2>5, <2>6, <2>7 DEF RollupInv, HasEventLock
<1>5. ASSUME NEW t \in Transactions, Abort(t) PROVE RollupInv'
  <2>1. NoTransaction \in TxnState /\ NoTransaction.pc = "idle"
    BY DEF NoTransaction, NoWrites, TxnState, EventStatus
  <2> QED
    BY <1>5, <2>1, OneMoves DEF Abort
<1>6. CASE ChangeOpen
  <2>1. PICK d \in Deliveries :
          /\ Unlocked(d) /\ status[d] \in Open
          /\ \E st \in Open : status' = [status EXCEPT ![d] = st]
    BY <1>6, Zenon DEF ChangeOpen, Open
  <2>2. /\ status' \in [Deliveries -> DeliveryStatus] /\ status'[d] \in Open
        /\ \A e \in Deliveries : e # d => status'[e] = status[e]
        /\ UNCHANGED <<event, txn>>
    BY <1>0, <1>6, <2>1 DEF ChangeOpen, Open, DeliveryStatus
  <2>3. Rollup(status) = Rollup(status')
    BY <2>1, <2>2, RollupOfOpen
  <2>4. ASSUME NEW t \in Transactions PROVE Rollup(View(t)) = Rollup(View(t)')
    <3>1. \A e \in Deliveries : View(t)[e] = View(t)'[e]
                                \/ (View(t)[e] \in Open /\ View(t)'[e] \in Open)
      BY <2>1, <2>2 DEF View, Unlocked
    <3> QED
      BY <3>1, RollupOfOpen
  <2>5. TypeOK'
    BY <1>0, <2>2 DEF TypeOK, HasEventLock
  <2>6. EventAgrees'
    BY <2>2, <2>3 DEF RollupInv, EventAgrees, Rollup
  <2> QED
    BY <2>2, <2>4, <2>5, <2>6 DEF RollupInv
<1>7. CASE UNCHANGED vars
  <2>1. \A t \in Transactions : View(t)' = View(t)
    BY <1>7 DEF vars, View
  <2> QED
    BY <1>7, <2>1 DEF vars, RollupInv, TypeOK, HasEventLock, EventAgrees, Rollup
<1> QED
  BY <1>1, <1>2, <1>3, <1>4, <1>5, <1>6, <1>7 DEF Next

\* Types, and that one transaction at most is past the lock of the event row.
THEOREM RollupTypeCorrect == Spec => []TypeOK
<1>1. RollupInv => TypeOK
  BY DEF RollupInv
<1> QED
  BY <1>1, RollupInit, RollupStep, PTL DEF Spec

\* An event's status is the roll-up of its deliveries in every committed state.
THEOREM EventAlwaysAgrees == Spec => []EventAgrees
<1>1. RollupInv => EventAgrees
  BY DEF RollupInv
<1> QED
  BY <1>1, RollupInit, RollupStep, PTL DEF Spec
=============================================================================
