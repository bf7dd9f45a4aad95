--------------------------- MODULE RateLimitWindow ---------------------------
(***************************************************************************)
(* The fixed one-minute windows in Redis that limit the worker's            *)
(* deliveries, ingest and the authentication routes. A call computes its    *)
(* keys and their time to live on its own clock, and Redis runs the script  *)
(* later, perhaps in the next minute; a reply may be lost. A job that is    *)
(* refused is delayed and comes back; a refused request is answered 429.    *)
(***************************************************************************)
EXTENDS Integers

CONSTANTS
    Jobs, Bearer, Cookie,           \* callers: worker jobs, ingest with an API key or a cookie
    Auth, Bare,                     \* auth routes whose body has an email, or none
    TenantLimit, IngestLimit, AuthLimit,
    WindowMs, JitterMs,             \* RATE_LIMIT_DEFER_MS, RATE_LIMIT_JITTER_MS
    MaxTime, MaxFailures            \* bounds of an instance

Callers == Jobs \cup Bearer \cup Cookie \cup Auth \cup Bare

ASSUME WindowAssumption == WindowMs \in Nat \ {0} /\ JitterMs \in Nat /\ MaxTime \in Nat
ASSUME LimitAssumption == {TenantLimit, IngestLimit, AuthLimit} \subseteq Nat
ASSUME FailureAssumption == MaxFailures \in Nat

VARIABLES
    now,
    count, expires,     \* Redis: the counters, and when each is dropped
    call,               \* [Callers -> [st, stage, at, retryAt]]
    admitted,           \* ghost: calls a key admitted while its window lasted
    failures

vars == <<now, count, expires, call, admitted, failures>>

Keys == {"ratelimit:tenant", "ingest:ip", "ingest:tenant", "auth:ip", "auth:email"}
Limit(k) == CASE k = "ratelimit:tenant" -> TenantLimit
              [] k \in {"ingest:ip", "ingest:tenant"} -> IngestLimit
              [] OTHER -> AuthLimit

\* The sets of keys a caller takes, one call of the script after the other.
KeysOf(c, stage) ==
    CASE c \in Jobs -> {"ratelimit:tenant"}
      [] c \in Bearer -> IF stage = 1 THEN {"ingest:ip"} ELSE {"ingest:tenant"}
      [] c \in Cookie -> {"ingest:tenant"}
      [] c \in Auth -> {"auth:ip", "auth:email"}
      [] OTHER -> {"auth:ip"}
LastStage(c) == IF c \in Bearer THEN 2 ELSE 1

Window(t) == t \div WindowMs

Ttl(t) == WindowMs - (t % WindowMs)
WindowEnd(w) == (w + 1) * WindowMs
Windows == 0..Window(MaxTime)

TypeOK ==
    /\ now \in 0..MaxTime
    /\ count \in [Keys -> [Windows -> Nat]]
    /\ expires \in [Keys -> [Windows -> Nat]]
    /\ call \in [Callers -> [st: {"idle", "sent", "deferred", "admitted", "refused", "failed"},
                             stage: 1..2, at: Nat, retryAt: Nat]]
    /\ admitted \in [Keys -> [Windows -> Nat]]
    /\ failures \in Nat

Init ==
    /\ now = 0 /\ failures = 0
    /\ count = [k \in Keys |-> [w \in Windows |-> 0]]
    /\ expires = [k \in Keys |-> [w \in Windows |-> 0]]
    /\ call = [c \in Callers |-> [st |-> "idle", stage |-> 1, at |-> 0, retryAt |-> 0]]
    /\ admitted = [k \in Keys |-> [w \in Windows |-> 0]]

\* What GET finds: 0 when there is no key, or Redis has dropped it.
Stored(k, w) == IF now < expires[k][w] THEN count[k][w] ELSE 0

CanStart(c) == call[c].st = "idle" \/ (call[c].st = "deferred" /\ now >= call[c].retryAt)

\* fixedWindowRedisKeys: window and time to live are those of the caller's clock.
Start(c) ==
    /\ CanStart(c)
    /\ call' = [call EXCEPT ![c].st = "sent", ![c].at = now]
    /\ UNCHANGED <<now, count, expires, admitted, failures>>

\* PEXPIRE is given once, when INCR creates the key.
Expiry(n, old, ttl) == IF n = 1 THEN now + ttl ELSE old

\* Faulty: a call is refused when all of its keys are full.
FullAll(ks, w) == \A k \in ks : Stored(k, w) >= Limit(k)

Full(ks, w) == \E k \in ks : Stored(k, w) >= Limit(k)

\* The second loop of the script.
Take(ks, w, ttl) ==
    /\ count' = [k \in Keys |-> IF k \in ks THEN [count[k] EXCEPT ![w] = Stored(k, w) + 1] ELSE count[k]]
    /\ expires' = [k \in Keys |-> IF k \in ks
                     THEN [expires[k] EXCEPT ![w] = Expiry(Stored(k, w) + 1, expires[k][w], ttl)]
                     ELSE expires[k]]
    /\ admitted' = [k \in Keys |-> IF k \in ks /\ now < WindowEnd(w)
                      THEN [admitted[k] EXCEPT ![w] = @ + 1] ELSE admitted[k]]

Done(st) == [st |-> st, stage |-> 1, at |-> 0, retryAt |-> 0]

\* Faulty: one limiter too many.
AdvanceTooFar(c) == IF call[c].stage > LastStage(c) THEN Done("admitted")
                    ELSE [Done("idle") EXCEPT !.stage = call[c].stage + 1]

\* next() runs the next limiter, or the handler.
Advance(c) == IF call[c].stage = LastStage(c) THEN Done("admitted")
              ELSE [Done("idle") EXCEPT !.stage = call[c].stage + 1]

\* The script admits the call; the request or job goes on.
Admit(c) ==
    LET ks == KeysOf(c, call[c].stage) w == Window(call[c].at)
    IN /\ call[c].st = "sent"
       /\ ~Full(ks, w)
       /\ Take(ks, w, Ttl(call[c].at))
       /\ call' = [call EXCEPT ![c] = Advance(c)]
       /\ UNCHANGED <<now, failures>>

\* Faulty: the retry is the jitter alone.
RetryAtJitter(at, jitter) == at + jitter

RetryAt(at, jitter) == at + Ttl(at) + jitter

\* Faulty: the job is given up without moveToDelayed.
RefuseForGood(c) ==
    /\ call[c].st = "sent"
    /\ Full(KeysOf(c, call[c].stage), Window(call[c].at))
    /\ call' = [call EXCEPT ![c] = Done("refused")]
    /\ UNCHANGED <<now, count, expires, admitted, failures>>

\* The script refuses it: a job moves to delayed, a request is answered 429.
Refuse(c) ==
    /\ call[c].st = "sent"
    /\ Full(KeysOf(c, call[c].stage), Window(call[c].at))
    /\ IF c \in Jobs
       THEN \E jitter \in 0..JitterMs :
              call' = [call EXCEPT ![c].st = "deferred", ![c].retryAt = RetryAt(call[c].at, jitter)]
       ELSE call' = [call EXCEPT ![c] = Done("refused")]
    /\ UNCHANGED <<now, count, expires, admitted, failures>>

\* No answer, before or after the script ran: 503 for a request. An exception
\* fails the job, whose delivery the sweeper enqueues again.
RedisFails(c) ==
    LET ks == KeysOf(c, call[c].stage) w == Window(call[c].at)
    IN /\ call[c].st = "sent"
       /\ failures < MaxFailures
       /\ failures' = failures + 1
       /\ call' = [call EXCEPT ![c] = Done(IF c \in Jobs THEN "idle" ELSE "failed")]
       /\ \/ ~Full(ks, w) /\ Take(ks, w, Ttl(call[c].at))
          \/ UNCHANGED <<count, expires, admitted>>
       /\ UNCHANGED now

Tick ==
    /\ now < MaxTime
    /\ now' = now + 1
    /\ UNCHANGED <<count, expires, call, admitted, failures>>

Next ==
    \/ \E c \in Callers : Start(c) \/ Admit(c) \/ Refuse(c) \/ RedisFails(c)
    \/ Tick

Spec == Init /\ [][Next]_vars

----------------------------------------------------------------------------
\* While a minute lasts, no key admits more calls than its limit, however calls
\* interleave, fail or reach Redis late (TAKE_FIXED_WINDOW_TOKENS_LUA).
WindowCap == \A k \in Keys, w \in Windows : admitted[k][w] <= Limit(k)

\* While a minute lasts, its counter is the number of calls it admitted: a call
\* that was refused for one of its keys has used up nothing of the others, and
\* no counter is dropped early.
CounterIsExact ==
    \A k \in Keys, w \in Windows : now < WindowEnd(w) => Stored(k, w) = admitted[k][w]

\* A counter is dropped within a minute of the script that created it, so that no
\* tenant or address stays blocked and Redis keeps no dead keys.
CountersExpire ==
    \A k \in Keys, w \in Windows :
      count[k][w] > 0 => expires[k][w] <= now + WindowMs

\* The three for all keys: what the two callers of the script rely on.
LimitIsExact == WindowCap /\ CounterIsExact /\ CountersExpire

\* A job that was refused does not ask again in the minute that refused it
\* (takeRateLimitToken's retryAt).
RetriesInLaterWindow ==
    [][\A c \in Jobs : call[c].st = "deferred" /\ call'[c].st = "sent"
         => Window(call'[c].at) > Window(call[c].at)]_vars

\* Every job is admitted in the end: refusals only delay it.
EveryJobAdmitted == <>(\A c \in Jobs : call[c].st = "admitted")
=============================================================================
