---------------------------- MODULE EventRollup ----------------------------
(***************************************************************************)
(* The status of an event, rolled up from its deliveries by                 *)
(* reevaluateEventStatus inside the transactions that settle, replay or add *)
(* deliveries. Here a transaction is not a step: its statements interleave  *)
(* with those of the others under READ COMMITTED, each reading what is      *)
(* committed when it starts and what its own transaction has written.       *)
(***************************************************************************)
EXTENDS Naturals

CONSTANTS Deliveries,     \* the (event, endpoint) pairs of one event
          Transactions    \* database sessions

VARIABLES
    status,     \* committed deliveries.status, "absent" before the insert
    event,      \* committed events.status
    txn         \* [Transactions -> [pc, writes, shares, rollup]]

vars == <<status, event, txn>>

DeliveryStatus == {"absent", "pending", "in_progress", "succeeded", "failed"}
EventStatus == {"pending", "no_recipients", "partial_failure", "failed", "completed"}

NoWrites == [d \in Deliveries |-> "none"]
NoTransaction == [pc |-> "idle", writes |-> NoWrites, shares |-> FALSE, rollup |-> "pending"]

\* What a statement of t sees.
View(t) == [d \in Deliveries |-> IF txn[t].writes[d] # "none" THEN txn[t].writes[d] ELSE status[d]]

\* The summary and computed parts of the second statement.
Rollup(f) ==
    LET has(set) == \E d \in Deliveries : f[d] \in set
    IN CASE has({"pending", "in_progress"}) -> "pending"
         [] ~has({"pending", "in_progress", "succeeded", "failed"}) -> "no_recipients"
         [] ~has({"pending", "in_progress"}) /\ has({"succeeded"}) /\ has({"failed"}) -> "partial_failure"
         [] ~has({"pending", "in_progress", "succeeded"}) /\ has({"failed"}) -> "failed"
         [] OTHER -> "completed"

\* The event was committed with the deliveries its endpoints called for then.
Init ==
    /\ status \in [Deliveries -> {"absent", "pending"}]
    /\ event = Rollup(status)
    /\ txn = [t \in Transactions |-> NoTransaction]

\* No open transaction has written the row: an UPDATE waits for the row lock
\* and an INSERT for the unique index, then look at the committed row.
Unlocked(d) == \A t \in Transactions : txn[t].writes[d] = "none"

HasEventLock(t) == txn[t].pc \in {"locked", "updated"}

----------------------------------------------------------------------------
Write(t, ds, st, shares) ==
    txn' = [txn EXCEPT ![t] =
      [pc |-> "written", writes |-> [d \in Deliveries |-> IF d \in ds THEN st ELSE "none"],
       shares |-> shares, rollup |-> "pending"]]

\* recordOutcome of a terminal outcome, up to its roll-up
RecordOutcome(t) ==
    /\ txn[t].pc = "idle"
    /\ \E d \in Deliveries, st \in {"succeeded", "failed"} :
         /\ Unlocked(d)
         /\ status[d] = "in_progress"
         /\ Write(t, {d}, st, FALSE)
    /\ UNCHANGED <<status, event>>

\* replayDelivery, up to its roll-up
Replay(t) ==
    /\ txn[t].pc = "idle"
    /\ \E d \in Deliveries :
         /\ Unlocked(d)
         /\ status[d] = "failed"
         /\ Write(t, {d}, "pending", FALSE)
    /\ UNCHANGED <<status, event>>

\* A repeated ingest inserts the deliveries of new endpoints. Their foreign key
\* takes a share lock on the event, which waits for whoever locks it.
Ingest(t) ==
    /\ txn[t].pc = "idle"
    /\ \E new \in SUBSET {d \in Deliveries : status[d] = "absent"} :
         /\ \A d \in new : Unlocked(d)
         /\ new # {} => ~\E u \in Transactions : HasEventLock(u)
         /\ Write(t, new, "pending", new # {})
    /\ UNCHANGED <<status, event>>

\* Faulty: the roll-ups of an event are not serialized.
LockEventWithoutWaiting(t) ==
    /\ txn[t].pc = "written"
    /\ txn' = [txn EXCEPT ![t].pc = "locked"]
    /\ UNCHANGED <<status, event>>

\* SELECT ... FOR UPDATE of reevaluateEventStatus. Two ingests that share the
\* event wait here for each other until Postgres, or a timeout, aborts one.
LockEvent(t) ==
    /\ txn[t].pc = "written"
    /\ \A u \in Transactions \ {t} : ~HasEventLock(u) /\ ~txn[u].shares
    /\ txn' = [txn EXCEPT ![t].pc = "locked"]
    /\ UNCHANGED <<status, event>>

\* Faulty: the roll-up is given the pool, and not the transaction, to run in.
UpdateEventOutside(t) ==
    /\ txn[t].pc = "locked"
    /\ txn' = [txn EXCEPT ![t].pc = "updated", ![t].rollup = Rollup(status)]
    /\ UNCHANGED <<status, event>>

\* The next statement has a snapshot of its own, taken with the lock held.
UpdateEvent(t) ==
    /\ txn[t].pc = "locked"
    /\ txn' = [txn EXCEPT ![t].pc = "updated", ![t].rollup = Rollup(View(t))]
    /\ UNCHANGED <<status, event>>

Commit(t) ==
    /\ txn[t].pc = "updated"
    /\ status' = View(t)
    /\ event' = txn[t].rollup
    /\ txn' = [txn EXCEPT ![t] = NoTransaction]

\* A statement fails or times out, a deadlock is broken, the process dies.
Abort(t) ==
    /\ txn[t].pc # "idle"
    /\ txn' = [txn EXCEPT ![t] = NoTransaction]
    /\ UNCHANGED <<status, event>>

\* A claim, or a reclaim and a retry, which are one statement or do not roll up.
ChangeOpen ==
    /\ \E d \in Deliveries :
         /\ Unlocked(d)
         /\ \/ status[d] = "pending" /\ status' = [status EXCEPT ![d] = "in_progress"]
            \/ status[d] = "in_progress" /\ status' = [status EXCEPT ![d] = "pending"]
    /\ UNCHANGED <<event, txn>>

Next ==
    \/ ChangeOpen
    \/ \E t \in Transactions :
         \/ RecordOutcome(t) \/ Replay(t) \/ Ingest(t)
         \/ LockEvent(t) \/ UpdateEvent(t) \/ Commit(t) \/ Abort(t)

Spec == Init /\ [][Next]_vars

----------------------------------------------------------------------------
\* Types, and the lock: at most one transaction is past SELECT ... FOR UPDATE.
TypeOK ==
    /\ status \in [Deliveries -> DeliveryStatus]
    /\ event \in EventStatus
    /\ txn \in [Transactions ->
                  [pc : {"idle", "written", "locked", "updated"},
                   writes : [Deliveries -> DeliveryStatus \cup {"none"}],
                   shares : BOOLEAN, rollup : EventStatus]]
    /\ \A t, u \in Transactions : HasEventLock(t) /\ HasEventLock(u) => t = u

\* The event's status is the roll-up of its deliveries at every moment, not only
\* when nothing is in flight: no order of concurrent outcomes, replays and
\* repeated ingests leaves an event completed, failed or pending against them.
EventAgrees == event = Rollup(status)
=============================================================================
