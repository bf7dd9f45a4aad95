----------------------------- MODULE SweeperLock -----------------------------
(***************************************************************************)
(* The lock in Redis that lets one worker process sweep at a time, the      *)
(* interval timer that asks for it, and stopSweeper. The lock expires: a    *)
(* sweep that outlives it runs beside the next one, which DeliveryPipeline  *)
(* allows for. Times are what is left of them, so runs are unbounded.       *)
(***************************************************************************)
EXTENDS Naturals

CONSTANTS Processes,    \* worker processes
          Tokens,       \* randomUUID values
          NoToken,
          LockTtl,          \* SWEEPER_LOCK_TTL_MS, in ticks
          MaxFailures   \* bound on crashes and lost replies

VARIABLES
    lock,       \* Redis: [token, left], left = 0 once it has expired
    timer,      \* [Processes -> BOOLEAN]: sweepTimer is set
    stopping,   \* [Processes -> BOOLEAN]
    sweep,      \* [Processes -> [st, token, held, left, late]]; held is the lock's own time
    failures

vars == <<lock, timer, stopping, sweep, failures>>

NoSweep == [st |-> "none", token |-> NoToken, held |-> 0, left |-> 0, late |-> 0]
Running == {"draining", "reclaiming"}

TypeOK ==
    /\ lock \in [token: Tokens \cup {NoToken}, left: 0..LockTtl]
    /\ timer \in [Processes -> BOOLEAN]
    /\ stopping \in [Processes -> BOOLEAN]
    /\ sweep \in [Processes -> [st: {"none", "asking", "acquired", "refused", "releasing"} \cup Running,
                                token: Tokens \cup {NoToken}, held: 0..LockTtl, left: 0..LockTtl, late: Nat]]
    /\ failures \in 0..MaxFailures

Init ==
    /\ lock = [token |-> NoToken, left |-> 0]
    /\ timer = [p \in Processes |-> FALSE]
    /\ stopping = [p \in Processes |-> FALSE]
    /\ sweep = [p \in Processes |-> NoSweep]
    /\ failures = 0

Unused(tok) == tok # lock.token /\ \A p \in Processes : tok # sweep[p].token

\* tick, and runSweep up to the call of Redis
BeginSweep(p) ==
    /\ sweep[p].st = "none"
    /\ \E tok \in Tokens : Unused(tok) /\ sweep' = [sweep EXCEPT ![p] = [NoSweep EXCEPT !.st = "asking", !.token = tok]]

StartSweeper(p) ==
    /\ ~timer[p] /\ ~stopping[p]
    /\ timer' = [timer EXCEPT ![p] = TRUE]
    /\ BeginSweep(p)
    /\ UNCHANGED <<lock, stopping, failures>>

TimerFires(p) ==
    /\ timer[p] /\ ~stopping[p]
    /\ BeginSweep(p)
    /\ UNCHANGED <<lock, timer, stopping, failures>>

\* Faulty: SET PX without NX.
IsFreeAlways == TRUE

\* SET NX finds no key.
IsFree == lock.left = 0

\* SET lockKey token PX ttl NX
AskRedis(p) ==
    /\ sweep[p].st = "asking"
    /\ IF IsFree
       THEN /\ lock' = [token |-> sweep[p].token, left |-> LockTtl]
            /\ sweep' = [sweep EXCEPT ![p].st = "acquired", ![p].held = LockTtl]
       ELSE /\ sweep' = [sweep EXCEPT ![p].st = "refused"]
            /\ UNCHANGED lock
    /\ UNCHANGED <<timer, stopping, failures>>

\* The reply of SET: the deadline is taken now, later than Redis set the key.
HearRedis(p) ==
    /\ \/ sweep[p].st = "acquired" /\ sweep' = [sweep EXCEPT ![p].st = "draining", ![p].left = LockTtl]
       \/ sweep[p].st = "refused" /\ sweep' = [sweep EXCEPT ![p] = NoSweep]
    /\ UNCHANGED <<lock, timer, stopping, failures>>

\* A full batch was found and the deadline has not passed.
MoreToDo(p) == sweep[p].left > 0

\* A batch of drainDeliveryOutbox or of sweepOrphanDeliveries ends; the next
\* one begins, perhaps after the deadline.
Batch(p) ==
    /\ sweep[p].st \in Running
    /\ \/ /\ MoreToDo(p)
          /\ sweep' = [sweep EXCEPT ![p].late = IF sweep[p].left = 0 THEN @ + 1 ELSE @]
       \/ /\ sweep[p].st = "draining"
          /\ sweep' = [sweep EXCEPT ![p].st = "reclaiming", ![p].late = IF sweep[p].left = 0 THEN @ + 1 ELSE @]
       \/ /\ sweep[p].st = "reclaiming"
          /\ sweep' = [sweep EXCEPT ![p].st = "releasing"]
    /\ UNCHANGED <<lock, timer, stopping, failures>>

Owns(p) == lock.token = sweep[p].token

\* The finally: compare and delete.
Release(p) ==
    /\ sweep[p].st = "releasing"
    /\ lock' = IF lock.left > 0 /\ Owns(p) THEN [token |-> NoToken, left |-> 0] ELSE lock
    /\ sweep' = [sweep EXCEPT ![p] = NoSweep]
    /\ UNCHANGED <<timer, stopping, failures>>

\* An exception: of a sweep, which then releases; of SET, after which acquired
\* is false whatever Redis did; of the release, which is only logged.
Fail(p) ==
    /\ failures < MaxFailures /\ failures' = failures + 1
    /\ \/ sweep[p].st \in Running /\ sweep' = [sweep EXCEPT ![p].st = "releasing"]
       \/ sweep[p].st \in {"acquired", "refused", "releasing"} /\ sweep' = [sweep EXCEPT ![p] = NoSweep]
    /\ UNCHANGED <<lock, timer, stopping>>

Crash(p) ==
    /\ failures < MaxFailures /\ failures' = failures + 1
    /\ timer' = [timer EXCEPT ![p] = FALSE]
    /\ stopping' = [stopping EXCEPT ![p] = FALSE]
    /\ sweep' = [sweep EXCEPT ![p] = NoSweep]
    /\ UNCHANGED lock

\* stopSweeper clears the timer and waits for the active sweep.
StopSweeper(p) ==
    /\ timer[p] /\ ~stopping[p]
    /\ timer' = [timer EXCEPT ![p] = FALSE]
    /\ stopping' = [stopping EXCEPT ![p] = TRUE]
    /\ UNCHANGED <<lock, sweep, failures>>

Stopped(p) ==
    /\ stopping[p] /\ sweep[p].st = "none"
    /\ stopping' = [stopping EXCEPT ![p] = FALSE]
    /\ UNCHANGED <<lock, timer, sweep, failures>>

Less(n) == IF n = 0 THEN 0 ELSE n - 1

\* Faulty: SET without PX.
ExpiringNever == lock

Expiring == [token |-> IF lock.left <= 1 THEN NoToken ELSE lock.token, left |-> Less(lock.left)]

Tick ==
    /\ lock' = Expiring
    /\ sweep' = [p \in Processes |-> [sweep[p] EXCEPT !.held = Less(@), !.left = Less(@)]]
    /\ UNCHANGED <<timer, stopping, failures>>

Next ==
    \/ \E p \in Processes :
         \/ StartSweeper(p) \/ TimerFires(p) \/ AskRedis(p) \/ HearRedis(p) \/ Batch(p) \/ Release(p)
         \/ Fail(p) \/ Crash(p) \/ StopSweeper(p) \/ Stopped(p)
    \/ Tick

\* The event loop runs, Redis and Postgres answer, time passes. A loop ends
\* for sure only at its deadline: before, there may always be a full batch.
Fairness ==
    /\ \A p \in Processes :
         /\ WF_vars(TimerFires(p) \/ AskRedis(p) \/ HearRedis(p) \/ Release(p)
                    \/ (~MoreToDo(p) /\ Batch(p)))
         /\ WF_vars(Stopped(p))
    /\ WF_vars(Tick)
Spec == Init /\ [][Next]_vars /\ Fairness

----------------------------------------------------------------------------
\* Two processes sweep at once only when one of them has outlived its lock.
OneSweepPerLock ==
    \A p, q \in Processes :
      p # q /\ sweep[p].st \in Running /\ sweep[q].st \in Running => sweep[p].held = 0 \/ sweep[q].held = 0

\* Nobody but its owner releases a lock that has not expired, also when the
\* sweep that took an earlier one ends late.
OwnerReleases ==
    lock.left > 1 /\ lock'.token = NoToken =>
      \E p \in Processes : lock.token = sweep[p].token /\ sweep[p].st = "releasing"

\* However much there is to sweep, at most one batch begins after the deadline
\* that was taken with the lock: the first of the stale rows.
BoundedOverrun == \A p \in Processes : sweep[p].late <= 1

\* Once stopSweeper has returned nothing of the sweeper runs in the process.
StoppedIsQuiet == \A p \in Processes : ~timer[p] /\ ~stopping[p] => sweep[p].st = "none"

\* The lock keeps sweeps apart, and nothing outlasts it or stopSweeper.
SweepsApart == OneSweepPerLock /\ BoundedOverrun /\ StoppedIsQuiet

\* stopSweeper returns, even when every batch is full.
StopReturns == \A p \in Processes : stopping[p] ~> ~stopping[p]

\* Whatever crashed while it held the lock, sweeps go on while a process has its timer.
SweepsGoOn == []<>((\E p \in Processes : sweep[p].st \in Running) \/ \A p \in Processes : ~timer[p])
=============================================================================
