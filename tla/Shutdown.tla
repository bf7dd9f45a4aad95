------------------------------ MODULE Shutdown ------------------------------
(***************************************************************************)
(* The shutdown of a worker or an API process on SIGTERM: stop accepting,   *)
(* wait for the work in hand, close queue, Postgres and Redis, and exit, all *)
(* against one deadline, while any of these calls may fail or hang.         *)
(***************************************************************************)
EXTENDS Naturals

CONSTANT Work      \* requests, or jobs and a sweep

VARIABLES
    api,        \* the API process; the worker otherwise
    phase,      \* of shutdown()
    accepting,  \* new work can begin
    active,     \* work in hand
    cut,        \* ghost: work that met a closed resource, or the end of the process
    drain,      \* the calls that wait for the work
    closer,     \* queue, postgres, redis
    called,     \* ghost: how often each close was called
    timeUp,     \* the deadline has passed
    failed,
    code        \* of process.exit

vars == <<api, phase, accepting, active, cut, drain, closer, called, timeUp, failed, code>>

Drains == IF api THEN {"server"} ELSE {"worker_pause", "worker", "sweeper"}
Resources == {"queue", "postgres", "redis"}
CallState == {"none", "running", "done"}

TypeOK ==
    /\ api \in BOOLEAN
    /\ phase \in {"serving", "draining", "closing", "returned", "exited"}
    /\ accepting \in BOOLEAN /\ timeUp \in BOOLEAN /\ failed \in BOOLEAN
    /\ active \subseteq Work /\ cut \subseteq Work
    /\ drain \in [Drains -> CallState]
    /\ closer \in [Resources -> CallState]
    /\ called \in [Resources -> Nat]
    /\ code \in 0..1

Init ==
    /\ api \in BOOLEAN
    /\ phase = "serving" /\ accepting = TRUE /\ active = {} /\ cut = {}
    /\ drain = [d \in Drains |-> "none"]
    /\ closer = [r \in Resources |-> "none"] /\ called = [r \in Resources |-> 0]
    /\ timeUp = FALSE /\ failed = FALSE /\ code = 0

Alive == phase # "exited"

BeginWork(w) ==
    /\ accepting /\ Alive /\ w \notin active \cup cut
    /\ active' = active \cup {w}
    /\ UNCHANGED <<api, phase, accepting, cut, drain, closer, called, timeUp, failed, code>>

\* Work that ends after a resource was closed under it has failed.
EndWork(w) ==
    /\ w \in active /\ Alive
    /\ active' = active \ {w}
    /\ cut' = IF \E r \in Resources : closer[r] # "none" THEN cut \cup {w} ELSE cut
    /\ UNCHANGED <<api, phase, accepting, drain, closer, called, timeUp, failed, code>>

----------------------------------------------------------------------------
\* server.close() takes no new connection; worker.pause(true) takes no new job,
\* and stopSweeper has cleared its timer when it returns its promise.
StartDraining ==
    /\ phase' = "draining"
    /\ accepting' = FALSE
    /\ drain' = [d \in Drains |-> IF d = "worker" THEN "none" ELSE "running"]
    /\ UNCHANGED <<api, active, cut, closer, called, timeUp, failed, code>>

\* A later signal gets the same promise.
Signal == phase = "serving" /\ StartDraining

\* Faulty: closing the worker does not wait for its jobs.
DrainedAtOnce(d) == TRUE

\* What the call waits for.
Drained(d) == d \in {"server", "worker", "sweeper"} => active = {}

\* A call of stage one settles: done, or rejected at any time, which is only noted.
DrainSettles(d) ==
    /\ drain[d] = "running" /\ Alive
    /\ \/ Drained(d) /\ UNCHANGED failed
       \/ failed' = TRUE
    /\ drain' = [e \in Drains |-> IF e = d THEN "done"
                                  ELSE IF d = "worker_pause" /\ e = "worker" THEN "running" ELSE drain[e]]
    /\ UNCHANGED <<api, phase, accepting, active, cut, closer, called, timeUp, code>>

CloseAll ==
    /\ closer' = [r \in Resources |-> "running"]
    /\ called' = [r \in Resources |-> called[r] + 1]

\* Stage two of the worker, once stage one is over or forced.
WorkerCloses ==
    /\ ~api /\ phase = "draining"
    /\ timeUp \/ \A d \in Drains : drain[d] = "done"
    /\ phase' = "closing"
    /\ failed' = (failed \/ timeUp)
    /\ CloseAll
    /\ UNCHANGED <<api, accepting, active, cut, drain, timeUp, code>>

\* closeResources of the API is started once, by whoever comes first.
CloseIfOpen ==
    IF \A r \in Resources : closer[r] = "none" THEN CloseAll ELSE UNCHANGED <<closer, called>>

ServerClosed ==
    /\ api /\ phase \in {"draining", "returned"} /\ drain["server"] = "done"
    /\ \E r \in Resources : closer[r] = "none"
    /\ CloseAll
    /\ phase' = IF phase = "draining" THEN "closing" ELSE phase
    /\ UNCHANGED <<api, accepting, active, cut, drain, timeUp, failed, code>>

CloserSettles(r) ==
    /\ closer[r] = "running" /\ Alive
    /\ closer' = [closer EXCEPT ![r] = "done"]
    /\ failed' \in {failed, TRUE}
    /\ UNCHANGED <<api, phase, accepting, active, cut, drain, called, timeUp, code>>

\* Everything is closed: the exit code tells whether anything failed.
AllClosed ==
    /\ phase = "closing" /\ \A r \in Resources : closer[r] = "done"
    /\ phase' = "returned"
    /\ code' = IF failed THEN 1 ELSE 0
    /\ UNCHANGED <<api, accepting, active, cut, drain, closer, called, timeUp, failed>>

\* The timer; it is cleared when shutdown() returns.
Deadline ==
    /\ phase \in {"draining", "closing"} /\ ~timeUp
    /\ timeUp' = TRUE
    /\ UNCHANGED <<api, phase, accepting, active, cut, drain, closer, called, failed, code>>

\* Stage two is raced against the same deadline, which may have passed before.
WorkerForced ==
    /\ ~api /\ phase = "closing" /\ timeUp
    /\ phase' = "returned" /\ failed' = TRUE /\ code' = 1
    /\ UNCHANGED <<api, accepting, active, cut, drain, closer, called, timeUp>>

\* closeAllConnections ends the requests; the cleanup is not waited for.
ApiForced ==
    /\ api /\ phase \in {"draining", "closing"} /\ timeUp
    /\ phase' = "returned" /\ code' = 1
    /\ active' = {} /\ cut' = cut \cup active
    /\ CloseIfOpen
    /\ UNCHANGED <<api, accepting, drain, timeUp, failed>>

Exit ==
    /\ phase = "returned"
    /\ phase' = "exited"
    /\ active' = {} /\ cut' = cut \cup active
    /\ UNCHANGED <<api, accepting, drain, closer, called, timeUp, failed, code>>

Next ==
    \/ \E w \in Work : BeginWork(w) \/ EndWork(w)
    \/ Signal \/ WorkerCloses \/ ServerClosed \/ AllClosed
    \/ \E d \in Drains : DrainSettles(d)
    \/ \E r \in Resources : CloserSettles(r)
    \/ Deadline \/ WorkerForced \/ ApiForced \/ Exit

\* Timers fire and promises that are settled are noticed. Nothing is assumed of
\* the work in hand or of the calls that wait for it: each may hang.
Progress == WorkerCloses \/ AllClosed \/ WorkerForced \/ ApiForced \/ Exit
Fairness == WF_vars(Deadline) /\ WF_vars(Progress)
Spec == Init /\ [][Next]_vars /\ Fairness

----------------------------------------------------------------------------
\* Work is cut off only by the deadline, or where waiting for it had failed.
DrainsBeforeClosing == cut # {} => timeUp \/ failed

\* Exit code 0 means that all work was finished and every resource closed.
CleanExit ==
    phase = "exited" /\ code = 0 =>
      cut = {} /\ ~failed /\ \A r \in Resources : closer[r] = "done"

\* No resource is closed twice, whichever of signals, timeout and drained
\* server come together.
ClosesOnce == \A r \in Resources : called[r] <= 1

\* Drain, close, exit: in this order, once, and with the code that says how it went.
EndsInOrder == DrainsBeforeClosing /\ CleanExit /\ ClosesOnce

\* Again and again: a signal ends the process, whatever hangs.
Ended == phase \in {"serving", "exited"}
=============================================================================
