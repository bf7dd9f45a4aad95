--------------------------- MODULE DeliveryQueue ---------------------------
(***************************************************************************)
(* The BullMQ queue of delivery jobs, as the worker, the sweeper and the    *)
(* API use it. enqueueDelivery.ts gives every job the deduplication id      *)
(* deliveryId:replayCount, so at most one job of an id is alive (waiting,   *)
(* active or delayed) and the function from ids to states is the queue.     *)
(* Retained completed and failed jobs play no part: attempts is 1, a        *)
(* finished job only frees its id.                                          *)
(***************************************************************************)
EXTENDS Naturals

CONSTANTS Deliveries,   \* delivery ids
          MaxReplays    \* bound: replay_count of a delivery stays below or at it

ASSUME MaxReplaysAssumption == MaxReplays \in Nat

JobId == Deliveries \X (0 .. MaxReplays)
JobState == {"none", "waiting", "delayed", "active"}

NoJobs == [j \in JobId |-> "none"]

\* enqueueDeliveryJob, enqueueDeliveryJobs: an id that is alive is ignored.
EnqueueJobs(q, jobs) ==
    [j \in JobId |-> IF j \in jobs /\ q[j] = "none" THEN "waiting" ELSE q[j]]

\* Job states change only in the hands of the job's lock owner: BullMQ answers
\* "missing lock" to a worker whose lock has expired, and changes nothing.
MoveJob(q, j, locked, state) == IF locked THEN [q EXCEPT ![j] = state] ELSE q
=============================================================================
