------------------------------ MODULE MCServices ------------------------------
(***************************************************************************)
(* The services around the delivery pipeline, for TLC. They share nothing,  *)
(* so a behaviour runs one of them, chosen by scenario, while the others    *)
(* stay in their initial states.                                            *)
(***************************************************************************)
EXTENDS RateLimitWindow

CONSTANTS Scenarios,                                                \* the services to run
          Processes, Tokens, NoToken, LockTtl,                      \* SweeperLock
          Work,                                                     \* Shutdown
          OneCall,                                                  \* of Calls
          Calls, Hosts, Refused, Public, Private,                   \* WebhookRequest
          Timeout, CacheTtl, CacheMax, MaxRedirects, MaxBody, MaxSent, MaxNow

ASSUME LockAssumption == LockTtl \in Nat /\ NoToken \notin Tokens
ASSUME RequestAssumption ==
    /\ Timeout \in Nat /\ CacheTtl \in Nat /\ CacheMax \in Nat \ {0} /\ MaxRedirects \in Nat
    /\ MaxBody \in Nat /\ MaxSent \in Nat /\ MaxNow \in Nat

VARIABLES
    scenario,
    lock, timer, stopping, sweep, sweepFailures,
    api, phase, accepting, active, cut, drain, closer, called, timeUp, failed, code,
    clock, pc, start, redirects, url, until, asked, pinned, aborted, reply, posts,
    cache, idle, contacted

Sweeper == INSTANCE SweeperLock WITH failures <- sweepFailures
Process == INSTANCE Shutdown
Webhook == INSTANCE WebhookRequest WITH now <- clock

lockVars == <<lock, timer, stopping, sweep, sweepFailures>>
processVars == <<api, phase, accepting, active, cut, drain, closer, called, timeUp, failed, code>>
requestVars == <<clock, pc, start, redirects, url, until, asked, pinned, aborted, reply, posts,
                 cache, idle, contacted>>
serviceVars == <<vars, lockVars, processVars, requestVars>>

MCInit ==
    /\ scenario \in Scenarios
    /\ Init /\ Sweeper!Init /\ Process!Init /\ Webhook!Init
    /\ scenario # "shutdown" => api
    /\ scenario \notin {"webhook", "cache"} => url = [c \in Calls |-> CHOOSE h \in Hosts : TRUE]

\* Callers that share a counter, until some time.
LimitsOf(name, callers, horizon) ==
    /\ scenario = name /\ Next
    /\ \A c \in Callers \ callers : call'[c] = call[c]
    /\ now' <= horizon
    /\ UNCHANGED <<scenario, lockVars, processVars, requestVars>>

Limits ==
    \/ LimitsOf("jobs", Jobs, 3)
    \/ LimitsOf("ingest", Bearer \cup Cookie, 4)
    \/ LimitsOf("auth", Auth \cup Bare, 4)

Sweeps ==
    /\ scenario = "sweeper" /\ Sweeper!Next
    /\ UNCHANGED <<scenario, vars, processVars, requestVars>>

Shutdowns ==
    /\ scenario = "shutdown" /\ Process!Next
    /\ UNCHANGED <<scenario, vars, lockVars, requestVars>>

\* One call with redirects and a body, or two calls without that share the cache.
Requests ==
    /\ Webhook!Next
    /\ \/ scenario = "webhook" /\ \A c \in Calls \ OneCall : pc'[c] = "idle"
       \/ scenario = "cache" /\ \A c \in Calls :
            ~reply'[c].redirect /\ reply'[c].location = "none" /\ reply'[c].sent = 0
    /\ UNCHANGED <<scenario, vars, lockVars, processVars>>

MCNext == Limits \/ Sweeps \/ Shutdowns \/ Requests

----------------------------------------------------------------------------
\* The properties are those of the modules, where they are explained.

\* The variables of the service that runs have their types.
TypesOK ==
    /\ TypeOK
    /\ scenario = "sweeper" => Sweeper!TypeOK
    /\ scenario = "shutdown" => Process!TypeOK
    /\ scenario \in {"webhook", "cache"} => Webhook!TypeOK

\* One sweep per lock in Redis, one batch at most after its deadline, and none once
\* stopSweeper has returned (worker/sweeper.ts).
SweepsApart == scenario = "sweeper" => Sweeper!SweepsApart

\* Work is waited for before queue, Postgres and Redis are closed, each is closed once,
\* and exit code 0 means that nothing failed or was cut off (the two runtime.ts).
EndsInOrder == scenario = "shutdown" => Process!EndsInOrder

\* A webhook call ends with its deadline, contacts only addresses that were checked
\* within the cache's life, follows a bounded number of redirects and keeps no torn
\* answer (worker/httpClient.ts, webhookUrl.ts).
CallIsBounded == scenario \in {"webhook", "cache"} => Webhook!CallIsBounded
=============================================================================
