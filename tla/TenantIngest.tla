---------------------------- MODULE TenantIngest ----------------------------
(***************************************************************************)
(* POST /v1/events of one tenant under one idempotency key: callers retry,  *)
(* or reuse the key for another body, while endpoints are created and       *)
(* paused.  A request is one transaction (READ COMMITTED), then the enqueue *)
(* and the acknowledgement of its jobs.                                     *)
(***************************************************************************)
EXTENDS Naturals, FiniteSets

CONSTANTS Requests, Bodies, Endpoints, NoBody

VARIABLES
    event,      \* body of the event with this key, or NoBody
    endpoints,  \* [Endpoints -> "absent", "active", "paused"]
    deliveries, \* [Endpoints -> "none", "open" (pending, in_progress) or "done"]
    outbox,     \* deliveries with an outbox row
    queue,      \* deliveries with a job
    req,        \* [Requests -> the request]
    watch       \* ghost: [Requests -> endpoints active since it began]

vars == <<event, endpoints, deliveries, outbox, queue, req, watch>>

Open == {e \in Endpoints : deliveries[e] = "open"}
Active == {e \in Endpoints : endpoints[e] = "active"}
Idle == [pc |-> "idle", body |-> NoBody, inserted |-> FALSE, to |-> {}, jobs |-> {}, code |-> 0]

TypeOK ==
    /\ event \in Bodies \cup {NoBody}
    /\ endpoints \in [Endpoints -> {"absent", "active", "paused"}]
    /\ deliveries \in [Endpoints -> {"none", "open", "done"}]
    /\ outbox \subseteq Endpoints /\ queue \subseteq Endpoints
    /\ \A r \in Requests : req[r].jobs \subseteq Endpoints /\ req[r].code \in {0, 202, 409, 503}

Init ==
    /\ event = NoBody
    /\ endpoints = [e \in Endpoints |-> "absent"]
    /\ deliveries = [e \in Endpoints |-> "none"]
    /\ outbox = {} /\ queue = {}
    /\ req = [r \in Requests |-> Idle]
    /\ watch = [r \in Requests |-> {}]

At(r, pc) == req[r].pc = pc
Ends(r, code) == req' = [req EXCEPT ![r].pc = "ended", ![r].code = code]

\* Somebody has inserted the event and not committed: the unique index waits.
KeyFree == \A r \in Requests : ~(req[r].inserted /\ req[r].pc \in {"read", "insert"})

----------------------------------------------------------------------------
\* Faulty: a duplicate is whatever has the same key.
SameBodyAlways(r, body) == TRUE

SameBody(r, body) == event = body

\* INSERT ... ON CONFLICT DO NOTHING, and the event that is there already.
Begins(r, body) ==
    /\ At(r, "idle") /\ KeyFree
    /\ watch' = [watch EXCEPT ![r] = Active]
    /\ IF event = NoBody
       THEN req' = [req EXCEPT ![r] = [Idle EXCEPT !.pc = "read", !.body = body, !.inserted = TRUE]]
       ELSE req' = [req EXCEPT ![r] =
              IF SameBody(r, body) THEN [Idle EXCEPT !.pc = "read", !.body = body]
              ELSE [Idle EXCEPT !.pc = "ended", !.body = body, !.code = 409]]
    /\ UNCHANGED <<event, endpoints, deliveries, outbox, queue>>

\* getActiveEndpointIds: also for a duplicate.
Targets(r) == Active

ReadsEndpoints(r) ==
    /\ At(r, "read")
    /\ req' = [req EXCEPT ![r].pc = "insert", ![r].to = Targets(r)]
    /\ UNCHANGED <<event, endpoints, deliveries, outbox, queue, watch>>

\* The new deliveries; for a duplicate, all that are not done.
JobsOf(r, new) == IF req[r].inserted THEN new ELSE new \cup Open

\* insertDeliveries with their outbox rows, and the commit.
Commits(r) ==
    LET new == {e \in req[r].to : deliveries[e] = "none"} IN
    /\ At(r, "insert")
    /\ event' = req[r].body
    /\ deliveries' = [e \in Endpoints |-> IF e \in new THEN "open" ELSE deliveries[e]]
    /\ outbox' = outbox \cup new
    /\ req' = [req EXCEPT ![r].pc = "enqueue", ![r].jobs = JobsOf(r, new)]
    /\ UNCHANGED <<endpoints, queue, watch>>

\* The transaction fails and is rolled back: 500.
Fails(r) ==
    /\ req[r].pc \in {"read", "insert"}
    /\ req' = [req EXCEPT ![r] = [Idle EXCEPT !.pc = "ended"]]
    /\ UNCHANGED <<event, endpoints, deliveries, outbox, queue, watch>>

Enqueues(r) ==
    /\ At(r, "enqueue")
    /\ queue' = queue \cup req[r].jobs
    /\ req' = [req EXCEPT ![r].pc = "acknowledge"]
    /\ UNCHANGED <<event, endpoints, deliveries, outbox, watch>>

\* Three seconds without an answer of the queue: 503.
TimesOut(r) ==
    /\ At(r, "enqueue")
    /\ Ends(r, 503)
    /\ UNCHANGED <<event, endpoints, deliveries, outbox, queue, watch>>

Acknowledged(r) == req[r].jobs

Answers(r) ==
    /\ At(r, "acknowledge")
    /\ outbox' = outbox \ Acknowledged(r)
    /\ Ends(r, 202)
    /\ UNCHANGED <<event, endpoints, deliveries, queue, watch>>

----------------------------------------------------------------------------
\* createEndpoint, and patchEndpoint with a status
Creates(e) ==
    /\ endpoints[e] = "absent"
    /\ endpoints' = [endpoints EXCEPT ![e] = "active"]
    /\ UNCHANGED <<event, deliveries, outbox, queue, req, watch>>

Patches(e, status) ==
    /\ endpoints[e] # "absent" /\ endpoints[e] # status
    /\ endpoints' = [endpoints EXCEPT ![e] = status]
    /\ watch' = [r \in Requests |-> IF req[r].pc = "ended" THEN watch[r] ELSE watch[r] \ {e}]
    /\ UNCHANGED <<event, deliveries, outbox, queue, req>>

\* The worker ends the delivery of a job. The sweeper publishes the outbox.
Works(e) ==
    /\ e \in queue
    /\ queue' = queue \ {e}
    /\ deliveries' = [deliveries EXCEPT ![e] = "done"]
    /\ UNCHANGED <<event, endpoints, outbox, req, watch>>

Sweeps(e) ==
    /\ e \in outbox
    /\ outbox' = outbox \ {e} /\ queue' = queue \cup {e}
    /\ UNCHANGED <<event, endpoints, deliveries, req, watch>>

Next ==
    \/ \E r \in Requests :
         \/ \E body \in Bodies : Begins(r, body)
         \/ ReadsEndpoints(r) \/ Commits(r) \/ Fails(r)
         \/ Enqueues(r) \/ TimesOut(r) \/ Answers(r)
    \/ \E e \in Endpoints :
         \/ Creates(e) \/ \E status \in {"active", "paused"} : Patches(e, status)
         \/ Works(e) \/ Sweeps(e)

Spec == Init /\ [][Next]_vars

----------------------------------------------------------------------------
\* Who got 202 sent the body that is stored: the first body under a key stays, and
\* callers with another one are told, also while the first is being inserted.
AcceptedIsStored == \A r \in Requests : req[r].code = 202 => req[r].body = event

\* 202 promises a delivery to every endpoint that was active all along, to a retry
\* as to the first call.
AcceptedIsFannedOut ==
    \A r \in Requests : req[r].code = 202 => \A e \in watch[r] : deliveries[e] # "none"

\* An open delivery has an outbox row or a job, whoever acknowledges whose rows.
OpenIsKept == Open \subseteq outbox \cup queue

\* What was accepted is stored, fanned out, and on its way.
AcceptedIsKept == AcceptedIsStored /\ AcceptedIsFannedOut /\ OpenIsKept
=============================================================================
