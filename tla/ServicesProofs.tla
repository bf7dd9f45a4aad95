---------------------------- MODULE ServicesProofs ----------------------------
(***************************************************************************)
(* Theorems about the services around the pipeline: RateLimitWindow, and   *)
(* SweeperLock, Shutdown and WebhookRequest as MCConsole runs them, for    *)
(* any number of processes, calls and hosts and any deadlines and limits.  *)
(* Each has its inductive invariant here, and ServicesStep lifts what is   *)
(* proved of one of them to the console's specification: every step of the *)
(* whole is a step of each service or leaves its variables alone.          *)
(*                                                                         *)
(* The limiter: a counter expires at or after the end of its window,       *)
(* because the time to live is taken on the caller's clock before the      *)
(* script runs; so while the window lasts the counter is exact, and a      *)
(* script that adds to it has seen every call admitted before.             *)
(* The sweeper: a sweep whose lock has time left holds the lock in Redis   *)
(* with its own token, and tokens differ; so two sweeps with time left     *)
(* would hold one lock with two tokens. The shutdown: the three resources  *)
(* are closed together, when the phase leaves "draining"; until then       *)
(* nothing can be cut off, afterwards only what the deadline or a failed   *)
(* call has left. The webhook call: what it may connect to was looked up   *)
(* within the cache's life and is public, a hop posts once, and its        *)
(* deadline is the call's.                                                 *)
(***************************************************************************)
EXTENDS MCConsole, FiniteSetTheorems, TLAPS

(***************************************************************************)
(* RateLimitWindow.                                                        *)
(***************************************************************************)
\* The minute of a time and the time to live taken then end together.
LEMMA WindowArithmetic ==
  ASSUME NEW t \in Nat
  PROVE  /\ Window(t) \in Nat
         /\ Ttl(t) \in Nat \ {0}
         /\ t + Ttl(t) = WindowEnd(Window(t))
         /\ t < WindowEnd(Window(t))
<1>1. WindowMs \in Nat \ {0}  BY WindowAssumption
<1>2. t % WindowMs \in 0..(WindowMs - 1)  BY <1>1, SMT
<1>3. t \div WindowMs \in Nat  BY <1>1, SMT
<1>4. t = WindowMs * (t \div WindowMs) + (t % WindowMs)  BY <1>1, SMT
<1>5. ((t \div WindowMs) + 1) * WindowMs = WindowMs * (t \div WindowMs) + WindowMs  BY <1>1, <1>3, SMT
<1>. QED  BY <1>1, <1>2, <1>3, <1>4, <1>5 DEF Window, Ttl, WindowEnd

\* A time at or after the end of a minute is in a later one.
LEMMA LaterWindow ==
  ASSUME NEW t \in Nat, NEW w \in Nat, t >= WindowEnd(w)
  PROVE  Window(t) > w
<1>1. WindowMs \in Nat \ {0}  BY WindowAssumption
<1>2. Window(t) \in Nat /\ t < (Window(t) + 1) * WindowMs  BY WindowArithmetic DEF WindowEnd
<1>3. SUFFICES ASSUME Window(t) <= w PROVE FALSE  BY <1>2
<1>4. (Window(t) + 1) * WindowMs <= (w + 1) * WindowMs  BY <1>1, <1>2, <1>3, SMT
<1>. QED  BY <1>1, <1>2, <1>4, SMT DEF WindowEnd

\* The limit of every key is a number.
LEMMA LimitIsNat == ASSUME NEW k \in Keys PROVE Limit(k) \in Nat
BY LimitAssumption DEF Keys, Limit

\* A counter that is there stays until its window has ended.
LivesOut == \A k \in Keys, w \in Windows : now < expires[k][w] => expires[k][w] >= WindowEnd(w)

\* A call has been sent in the past; a refused job waits for the end of the window.
CallsInOrder ==
    \A c \in Callers :
      /\ call[c].at <= now /\ call[c].stage <= LastStage(c)
      /\ call[c].st = "deferred" => call[c].retryAt >= WindowEnd(Window(call[c].at))

IInv == TypeOK /\ LivesOut /\ CallsInOrder /\ CounterIsExact /\ WindowCap /\ CountersExpire

\* The limiter's invariant holds at the start.
LEMMA InitInv == Init => IInv
<1>. SUFFICES ASSUME Init PROVE IInv  OBVIOUS
<1>1. TypeOK  BY WindowAssumption DEF Init, TypeOK
<1>2. \A k \in Keys, w \in Windows : count[k][w] = 0 /\ expires[k][w] = 0 /\ admitted[k][w] = 0
  BY DEF Init
<1>3. LivesOut  BY <1>1, <1>2 DEF LivesOut, TypeOK, Init
<1>4. CallsInOrder  BY WindowAssumption DEF CallsInOrder, Init, LastStage
<1>5. CounterIsExact  BY <1>2 DEF CounterIsExact, Stored
<1>6. WindowCap  BY <1>2, LimitIsNat DEF WindowCap
<1>7. CountersExpire  BY <1>2 DEF CountersExpire
<1>. QED  BY <1>1, <1>3, <1>4, <1>5, <1>6, <1>7 DEF IInv

\* An update of a table of windows keeps its type, whether or not it has the window.
LEMMA UpdatedWindow ==
  ASSUME NEW f \in [Windows -> Nat], NEW u, NEW v, u \in Windows => v \in Nat
  PROVE  [f EXCEPT ![u] = v] \in [Windows -> Nat]
OBVIOUS

\* The script's second loop, run for a call sent at a time at.
LEMMA TakeKeepsInv ==
  ASSUME IInv, UNCHANGED now, NEW ks \in SUBSET Keys, NEW at \in 0..now,
         ~Full(ks, Window(at)), Take(ks, Window(at), Ttl(at))
  PROVE  /\ count' \in [Keys -> [Windows -> Nat]]
         /\ expires' \in [Keys -> [Windows -> Nat]]
         /\ admitted' \in [Keys -> [Windows -> Nat]]
         /\ LivesOut' /\ CounterIsExact' /\ WindowCap' /\ CountersExpire'
<1>. DEFINE u == Window(at)
            ttl == Ttl(at)
<1>1. now \in Nat /\ now' = now /\ at \in Nat /\ at <= now  BY DEF IInv, TypeOK
<1>2. u \in Nat /\ ttl \in Nat \ {0} /\ ttl <= WindowMs /\ now + ttl >= WindowEnd(u)
  <2>1. ttl <= WindowMs  BY <1>1, WindowAssumption, SMT DEF Ttl
  <2>. QED  BY <1>1, <2>1, WindowArithmetic, WindowAssumption DEF WindowEnd
<1>3. \A k \in Keys, w \in Windows : /\ count[k][w] \in Nat /\ expires[k][w] \in Nat
                                     /\ admitted[k][w] \in Nat /\ Stored(k, w) \in Nat
  BY DEF IInv, TypeOK, Stored
<1>. HIDE DEF u, ttl
<1>4. ASSUME NEW k \in Keys, NEW w \in Windows, ~(k \in ks /\ w = u)
      PROVE  count'[k][w] = count[k][w] /\ expires'[k][w] = expires[k][w] /\ admitted'[k][w] = admitted[k][w]
  BY <1>4 DEF Take, IInv, TypeOK, u, ttl
<1>5. ASSUME NEW k \in ks, u \in Windows
      PROVE  /\ count'[k][u] = Stored(k, u) + 1
             /\ expires'[k][u] = Expiry(Stored(k, u) + 1, expires[k][u], ttl)
             /\ admitted'[k][u] = IF now < WindowEnd(u) THEN admitted[k][u] + 1 ELSE admitted[k][u]
             /\ Stored(k, u) < Limit(k)
  <2>1. Stored(k, u) < Limit(k)  BY <1>3, <1>5, LimitIsNat DEF Full, u
  <2>. QED  BY <1>5, <2>1 DEF Take, IInv, TypeOK, u, ttl
<1>6. ASSUME NEW k \in ks, u \in Windows
      PROVE  /\ expires'[k][u] \in Nat /\ expires'[k][u] > now
             /\ expires'[k][u] >= WindowEnd(u) /\ expires'[k][u] <= now + WindowMs
  <2>1. CASE Stored(k, u) = 0
    BY <1>1, <1>2, <1>3, <1>5, <1>6, <2>1, WindowAssumption DEF Expiry
  <2>2. CASE Stored(k, u) # 0
    <3>1. now < expires[k][u] /\ count[k][u] > 0 /\ expires'[k][u] = expires[k][u]
      BY <1>3, <1>5, <1>6, <2>2 DEF Expiry, Stored
    <3>2. k \in Keys /\ expires[k][u] \in Nat  BY <1>3, <1>6
    <3>. QED  BY <1>6, <3>1, <3>2 DEF IInv, LivesOut, CountersExpire
  <2>. QED  BY <2>1, <2>2
<1>7. count' \in [Keys -> [Windows -> Nat]]
  <2>1. ASSUME NEW k \in Keys PROVE count'[k] \in [Windows -> Nat]
    <3>1. count[k] \in [Windows -> Nat]  BY DEF IInv, TypeOK
    <3>2. CASE k \in ks
      <4>1. count'[k] = [count[k] EXCEPT ![u] = Stored(k, u) + 1]  BY <3>2 DEF Take, u
      <4>. QED  BY <1>3, <3>1, <4>1, UpdatedWindow
    <3>3. CASE k \notin ks  BY <3>1, <3>3 DEF Take
    <3>. QED  BY <3>2, <3>3
  <2>. QED  BY <2>1 DEF Take
<1>8. admitted' \in [Keys -> [Windows -> Nat]]
  <2>1. ASSUME NEW k \in Keys PROVE admitted'[k] \in [Windows -> Nat]
    <3>1. admitted[k] \in [Windows -> Nat]  BY DEF IInv, TypeOK
    <3>2. CASE k \in ks /\ now < WindowEnd(u)
      <4>1. admitted'[k] = [admitted[k] EXCEPT ![u] = admitted[k][u] + 1]  BY <3>2 DEF Take, u
      <4>. QED  BY <1>3, <3>1, <4>1, UpdatedWindow
    <3>3. CASE ~(k \in ks /\ now < WindowEnd(u))  BY <3>1, <3>3 DEF Take, u
    <3>. QED  BY <3>2, <3>3
  <2>. QED  BY <2>1 DEF Take
<1>9. expires' \in [Keys -> [Windows -> Nat]]
  <2>1. ASSUME NEW k \in Keys PROVE expires'[k] \in [Windows -> Nat]
    <3>1. expires[k] \in [Windows -> Nat]  BY DEF IInv, TypeOK
    <3>2. CASE k \in ks
      <4>1. expires'[k] = [expires[k] EXCEPT ![u] = Expiry(Stored(k, u) + 1, expires[k][u], ttl)]
        BY <3>2 DEF Take, u, ttl
      <4>2. u \in Windows => Expiry(Stored(k, u) + 1, expires[k][u], ttl) \in Nat
        BY <1>1, <1>2, <1>3 DEF Expiry
      <4>. QED  BY <3>1, <4>1, <4>2, UpdatedWindow
    <3>3. CASE k \notin ks  BY <3>1, <3>3 DEF Take
    <3>. QED  BY <3>2, <3>3
  <2>. QED  BY <2>1 DEF Take
<1>10. LivesOut'
  <2>. SUFFICES ASSUME NEW k \in Keys, NEW w \in Windows, now < expires'[k][w]
                PROVE  expires'[k][w] >= WindowEnd(w)
    BY <1>1 DEF LivesOut
  <2>1. CASE k \in ks /\ w = u  BY <1>6, <2>1
  <2>2. CASE ~(k \in ks /\ w = u)  BY <1>4, <2>2 DEF IInv, LivesOut
  <2>. QED  BY <2>1, <2>2
<1>11. CounterIsExact' /\ WindowCap'
  <2>. SUFFICES ASSUME NEW k \in Keys, NEW w \in Windows
                PROVE  /\ now < WindowEnd(w) =>
                            (IF now < expires'[k][w] THEN count'[k][w] ELSE 0) = admitted'[k][w]
                       /\ admitted'[k][w] <= Limit(k)
    BY <1>1 DEF CounterIsExact, WindowCap, Stored
  <2>1. CASE k \in ks /\ w = u
    <3>1. now < WindowEnd(u) => Stored(k, u) = admitted[k][u]  BY <2>1 DEF IInv, CounterIsExact
    <3>2. admitted[k][u] <= Limit(k)  BY <2>1 DEF IInv, WindowCap
    <3>. QED  BY <1>3, <1>5, <1>6, <2>1, <3>1, <3>2, LimitIsNat
  <2>2. CASE ~(k \in ks /\ w = u)
    BY <1>4, <2>2 DEF IInv, CounterIsExact, WindowCap, Stored
  <2>. QED  BY <2>1, <2>2
<1>12. CountersExpire'
  <2>. SUFFICES ASSUME NEW k \in Keys, NEW w \in Windows, count'[k][w] > 0
                PROVE  expires'[k][w] <= now + WindowMs
    BY <1>1 DEF CountersExpire
  <2>1. CASE k \in ks /\ w = u  BY <1>6, <2>1
  <2>2. CASE ~(k \in ks /\ w = u)  BY <1>4, <2>2 DEF IInv, CountersExpire
  <2>. QED  BY <2>1, <2>2
<1>. QED  BY <1>7, <1>8, <1>9, <1>10, <1>11, <1>12

\* Every step of the limiter keeps it, and a call refused asks again later.
LEMMA InvStep == IInv /\ [Next]_vars => IInv' /\ [\A c \in Jobs :
    call[c].st = "deferred" /\ call'[c].st = "sent" => Window(call'[c].at) > Window(call[c].at)]_vars
<1>. SUFFICES ASSUME IInv, [Next]_vars
              PROVE  IInv' /\ (\A c \in Jobs : call[c].st = "deferred" /\ call'[c].st = "sent"
                                  => Window(call'[c].at) > Window(call[c].at))
  OBVIOUS
<1>. USE DEF IInv
<1>0. /\ now \in Nat
      /\ \A c \in Callers : call[c].at \in Nat /\ call[c].retryAt \in Nat /\ call[c].stage \in 1..2
                          /\ call[c].at <= now /\ call[c].stage <= LastStage(c)
      /\ \A c \in Callers : LastStage(c) \in 1..2
  BY DEF TypeOK, CallsInOrder, LastStage
<1>. DEFINE Entry == [st: {"idle", "sent", "deferred", "admitted", "refused", "failed"},
                      stage: 1..2, at: Nat, retryAt: Nat]
            Later == \A c \in Jobs : call[c].st = "deferred" /\ call'[c].st = "sent"
                       => Window(call'[c].at) > Window(call[c].at)
\* An action that leaves Redis alone and changes the entry of one call.
<1>1. ASSUME NEW c \in Callers, NEW e \in Entry, call' = [call EXCEPT ![c] = e], UNCHANGED now,
             e.at <= now, e.stage <= LastStage(c), e.st = "deferred" => e.retryAt >= WindowEnd(Window(e.at))
      PROVE  call' \in [Callers -> Entry] /\ CallsInOrder'
  BY <1>1 DEF TypeOK, CallsInOrder
<1>2. ASSUME UNCHANGED <<now, count, expires, admitted>>
      PROVE  LivesOut' /\ CounterIsExact' /\ WindowCap' /\ CountersExpire'
  BY <1>2 DEF LivesOut, CounterIsExact, WindowCap, CountersExpire, Stored
<1>3. ASSUME NEW st \in {"idle", "admitted", "refused", "failed"}
      PROVE  Done(st) \in Entry /\ Done(st).at = 0 /\ Done(st).st = st /\ Done(st).stage = 1
  BY <1>3 DEF Done
<1>. HIDE DEF Entry
<1>4. ASSUME NEW c \in Callers, Start(c) PROVE IInv' /\ Later
  <2>. DEFINE e == [call[c] EXCEPT !.st = "sent", !.at = now]
  <2>1. /\ e \in Entry /\ e.st = "sent" /\ e.at = now /\ e.stage = call[c].stage
        /\ call' = [call EXCEPT ![c] = e]
    BY <1>0, <1>4 DEF Start, TypeOK, Entry
  <2>2. call' \in [Callers -> Entry] /\ CallsInOrder'
    <3>. HIDE DEF e
    <3>1. e.at <= now /\ e.stage <= LastStage(c) /\ e.st # "deferred"  BY <1>0, <2>1
    <3>2. UNCHANGED now  BY <1>4 DEF Start
    <3>. QED  BY <1>1, <2>1, <3>1, <3>2
  <2>3. LivesOut' /\ CounterIsExact' /\ WindowCap' /\ CountersExpire'  BY <1>2, <1>4 DEF Start
  <2>4. Later
    <3>. SUFFICES ASSUME NEW d \in Jobs, call[d].st = "deferred", call'[d].st = "sent"
                  PROVE  Window(call'[d].at) > Window(call[d].at)
      OBVIOUS
    <3>1. d \in Callers  BY DEF Callers
    <3>2. d = c /\ call'[d].at = now  BY <2>1, <3>1 DEF TypeOK
    <3>3. now >= call[d].retryAt  BY <1>4, <3>2 DEF Start, CanStart
    <3>4. call[d].retryAt >= WindowEnd(Window(call[d].at))  BY <3>1 DEF CallsInOrder
    <3>5. Window(call[d].at) \in Nat  BY <1>0, <3>1, WindowArithmetic
    <3>6. now >= WindowEnd(Window(call[d].at))
      BY <1>0, <3>1, <3>3, <3>4, <3>5, WindowAssumption, SMT DEF WindowEnd
    <3>. QED  BY <1>0, <3>2, <3>5, <3>6, LaterWindow
  <2>. QED  BY <1>4, <2>2, <2>3, <2>4 DEF Start, TypeOK, Entry
<1>5. ASSUME NEW c \in Callers, Admit(c) PROVE IInv' /\ Later
  <2>. DEFINE ks == KeysOf(c, call[c].stage)
  <2>1. ks \in SUBSET Keys  BY DEF KeysOf, Keys
  <2>2. call[c].at \in 0..now  BY <1>0
  <2>3. ~Full(ks, Window(call[c].at)) /\ Take(ks, Window(call[c].at), Ttl(call[c].at)) /\ UNCHANGED now
    BY <1>5 DEF Admit
  <2>4. /\ count' \in [Keys -> [Windows -> Nat]] /\ expires' \in [Keys -> [Windows -> Nat]]
        /\ admitted' \in [Keys -> [Windows -> Nat]]
        /\ LivesOut' /\ CounterIsExact' /\ WindowCap' /\ CountersExpire'
    <3>. HIDE DEF ks
    <3>. QED  BY <2>1, <2>2, <2>3, TakeKeepsInv
  <2>5. /\ Advance(c) \in Entry /\ Advance(c).at = 0 /\ Advance(c).st \in {"idle", "admitted"}
        /\ Advance(c).stage <= LastStage(c)
    <3>1. CASE call[c].stage = LastStage(c)  BY <1>0, <1>3, <3>1 DEF Advance
    <3>2. CASE call[c].stage # LastStage(c)
      <4>1. call[c].stage + 1 \in 1..2 /\ call[c].stage + 1 <= LastStage(c)  BY <1>0, <3>2
      <4>. QED  BY <3>2, <4>1 DEF Advance, Done, Entry
    <3>. QED  BY <3>1, <3>2
  <2>6. call' = [call EXCEPT ![c] = Advance(c)]  BY <1>5 DEF Admit
  <2>7. call' \in [Callers -> Entry] /\ CallsInOrder'  
    <3>. DEFINE e == Advance(c)
    <3>1. e.at <= now /\ e.stage <= LastStage(c) /\ e.st # "deferred"  BY <1>0, <2>5
    <3>. HIDE DEF e
    <3>2. e \in Entry /\ call' = [call EXCEPT ![c] = e]  BY <2>5, <2>6 DEF e
    <3>. QED  BY <1>1, <2>3, <3>1, <3>2
  <2>8. Later  BY <2>5, <2>6 DEF Callers, TypeOK
  <2>. QED  BY <1>5, <2>4, <2>7, <2>8 DEF Admit, TypeOK, Entry
<1>6. ASSUME NEW c \in Callers, Refuse(c) PROVE IInv' /\ Later
  <2>1. CASE c \in Jobs
    <3>1. PICK jitter \in 0..JitterMs :
            call' = [call EXCEPT ![c].st = "deferred", ![c].retryAt = RetryAt(call[c].at, jitter)]
      BY <1>6, <2>1 DEF Refuse
    <3>. DEFINE e == [call[c] EXCEPT !.st = "deferred", !.retryAt = RetryAt(call[c].at, jitter)]
    <3>2. RetryAt(call[c].at, jitter) \in Nat /\ RetryAt(call[c].at, jitter) >= WindowEnd(Window(call[c].at))
      BY <1>0, WindowArithmetic, WindowAssumption DEF RetryAt, WindowEnd
    <3>3. /\ e \in Entry /\ e.st = "deferred" /\ e.at = call[c].at /\ e.stage = call[c].stage
          /\ e.retryAt = RetryAt(call[c].at, jitter) /\ call' = [call EXCEPT ![c] = e]
      BY <1>0, <3>1, <3>2 DEF TypeOK, Entry
    <3>4. call' \in [Callers -> Entry] /\ CallsInOrder'
      <4>. HIDE DEF e
      <4>. QED  BY <1>0, <1>1, <1>6, <3>2, <3>3 DEF Refuse
    <3>5. Later  BY <3>3 DEF Callers, TypeOK
    <3>. QED  BY <1>2, <1>6, <3>4, <3>5 DEF Refuse, TypeOK, Entry
  <2>2. CASE c \notin Jobs
    <3>1. call' = [call EXCEPT ![c] = Done("refused")]  BY <1>6, <2>2 DEF Refuse
    <3>2. call' \in [Callers -> Entry] /\ CallsInOrder'
      <4>. DEFINE e == Done("refused")
      <4>1. e \in Entry /\ e.at <= now /\ e.stage <= LastStage(c) /\ e.st # "deferred"  BY <1>0, <1>3
      <4>2. UNCHANGED now /\ call' = [call EXCEPT ![c] = e]  BY <1>6, <3>1 DEF Refuse
      <4>. HIDE DEF e
      <4>. QED  BY <1>1, <4>1, <4>2
    <3>3. Later  BY <1>3, <3>1 DEF Callers, TypeOK
    <3>. QED  BY <1>2, <1>6, <3>2, <3>3 DEF Refuse, TypeOK, Entry
  <2>. QED  BY <2>1, <2>2
<1>7. ASSUME NEW c \in Callers, RedisFails(c) PROVE IInv' /\ Later
  <2>. DEFINE ks == KeysOf(c, call[c].stage)
              e == Done(IF c \in Jobs THEN "idle" ELSE "failed")
  <2>1. ks \in SUBSET Keys /\ call[c].at \in 0..now  BY <1>0 DEF KeysOf, Keys
  <2>2. e \in Entry /\ e.at = 0 /\ e.st \in {"idle", "failed"} /\ e.stage = 1  BY <1>3
  <2>3. call' = [call EXCEPT ![c] = e] /\ UNCHANGED now /\ failures' \in Nat
    BY <1>7 DEF RedisFails, TypeOK
  <2>4. call' \in [Callers -> Entry] /\ CallsInOrder'
    <3>. HIDE DEF e
    <3>1. e.at <= now /\ e.stage <= LastStage(c) /\ e.st # "deferred"  BY <1>0, <2>2
    <3>. QED  BY <1>1, <2>2, <2>3, <3>1
  <2>5. Later
    <3>. HIDE DEF e
    <3>. QED  BY <2>2, <2>3 DEF Callers, TypeOK
  <2>6. CASE ~Full(ks, Window(call[c].at)) /\ Take(ks, Window(call[c].at), Ttl(call[c].at))
    <3>1. /\ count' \in [Keys -> [Windows -> Nat]] /\ expires' \in [Keys -> [Windows -> Nat]]
          /\ admitted' \in [Keys -> [Windows -> Nat]]
          /\ LivesOut' /\ CounterIsExact' /\ WindowCap' /\ CountersExpire'
      <4>. HIDE DEF ks
      <4>. QED  BY <2>1, <2>3, <2>6, TakeKeepsInv
    <3>. QED  BY <2>3, <2>4, <2>5, <3>1 DEF TypeOK, Entry
  <2>7. CASE UNCHANGED <<count, expires, admitted>>
    BY <1>2, <2>3, <2>4, <2>5, <2>7 DEF TypeOK, Entry
  <2>. QED  BY <1>7, <2>6, <2>7 DEF RedisFails
<1>8. ASSUME Tick PROVE IInv' /\ Later
  <2>1. now' = now + 1 /\ UNCHANGED <<count, expires, call, admitted, failures>> /\ now' \in 0..MaxTime
    BY <1>0, <1>8, WindowAssumption DEF Tick, TypeOK
  <2>2. TypeOK' /\ Later  BY <2>1 DEF TypeOK
  <2>3. LivesOut' /\ CallsInOrder'
    <3>1. \A k \in Keys, w \in Windows : expires[k][w] \in Nat  BY DEF TypeOK
    <3>. QED  BY <1>0, <2>1, <3>1 DEF LivesOut, CallsInOrder
  <2>4. CounterIsExact'
    <3>. SUFFICES ASSUME NEW k \in Keys, NEW w \in Windows, now + 1 < WindowEnd(w)
                  PROVE  (IF now + 1 < expires[k][w] THEN count[k][w] ELSE 0) = admitted[k][w]
      BY <2>1 DEF CounterIsExact, Stored
    <3>1. w \in Nat /\ WindowEnd(w) \in Int /\ expires[k][w] \in Nat
      <4>1. w \in Nat  BY DEF Windows
      <4>2. expires[k][w] \in Nat  BY DEF TypeOK
      <4>. QED  BY <4>1, <4>2, WindowAssumption, SMT DEF WindowEnd
    <3>2. (IF now < expires[k][w] THEN count[k][w] ELSE 0) = admitted[k][w]
      BY <1>0, <3>1 DEF CounterIsExact, Stored
    <3>3. now < expires[k][w] => expires[k][w] >= WindowEnd(w)  BY DEF LivesOut
    <3>. QED  BY <1>0, <3>1, <3>2, <3>3
  <2>5. WindowCap' /\ CountersExpire'
    <3>1. \A k \in Keys, w \in Windows : expires[k][w] \in Nat  BY DEF TypeOK
    <3>. QED  BY <1>0, <2>1, <3>1, WindowAssumption DEF WindowCap, CountersExpire
  <2>. QED  BY <2>2, <2>3, <2>4, <2>5
<1>9. CASE UNCHANGED vars
  BY <1>2, <1>9 DEF vars, TypeOK, CallsInOrder
<1>. QED  BY <1>4, <1>5, <1>6, <1>7, <1>8, <1>9 DEF Next

\* It holds always.
LEMMA Invariant == Spec => []IInv
<1>. QED  BY InitInv, InvStep, PTL DEF Spec

\* The types of the limiter's state.
THEOREM WindowsTypeCorrect == Spec => []TypeOK
<1>1. IInv => TypeOK  BY DEF IInv
<1>. QED  BY <1>1, Invariant, PTL

\* No key admits more calls than its limit while its minute lasts.
THEOREM WindowsCapped == Spec => []WindowCap
<1>1. IInv => WindowCap  BY DEF IInv
<1>. QED  BY <1>1, Invariant, PTL

\* While its minute lasts a counter is the number of calls it admitted.
THEOREM CountersAreExact == Spec => []CounterIsExact
<1>1. IInv => CounterIsExact  BY DEF IInv
<1>. QED  BY <1>1, Invariant, PTL

\* Every counter is dropped within a minute.
THEOREM CountersAreDropped == Spec => []CountersExpire
<1>1. IInv => CountersExpire  BY DEF IInv
<1>. QED  BY <1>1, Invariant, PTL

\* The limit of every key is exact.
THEOREM LimitsAreExact == Spec => []LimitIsExact
<1>1. IInv => LimitIsExact  BY DEF IInv, LimitIsExact
<1>. QED  BY <1>1, Invariant, PTL

\* A refused job asks again in a later minute.
THEOREM RefusedAskLater == Spec => RetriesInLaterWindow
<1>. QED  BY Invariant, InvStep, PTL DEF Spec, RetriesInLaterWindow

(***************************************************************************)
(* The services beside it, and their specification as parts of the whole.  *)
(***************************************************************************)
\* Every service starts in its initial state.
LEMMA ServicesStart ==
  ASSUME ConsoleInit
  PROVE  /\ Init /\ Sweeper!Init /\ Process!Init /\ Webhook!Init
         /\ Login!Init /\ Account!Init /\ ApiKey!Init /\ Tenant!Init
BY DEF ConsoleInit, ApiInit, MCInit

\* Every step is a step of each service, or leaves what it has alone.
LEMMA ServicesStep ==
  ASSUME [ConsoleNext]_allVars
  PROVE  /\ [Next]_vars
         /\ [Sweeper!Next]_(Sweeper!vars)
         /\ [Process!Next]_(Process!vars)
         /\ [Webhook!Next]_(Webhook!vars)
         /\ [Login!Next]_(Login!vars)
         /\ [Account!Next]_(Account!vars)
         /\ [ApiKey!Next]_(ApiKey!vars)
         /\ [Tenant!Next]_(Tenant!vars)
<1>. DEFINE Goal == /\ [Next]_vars /\ [Sweeper!Next]_lockVars /\ [Process!Next]_processVars
                    /\ [Webhook!Next]_requestVars /\ [Login!Next]_loginVars
                    /\ [Account!Next]_accountVars /\ [ApiKey!Next]_keyVars
                    /\ [Tenant!Next]_eventVars
<1>. SUFFICES Goal
  BY DEF lockVars, processVars, requestVars, loginVars, accountVars, keyVars, eventVars,
         Sweeper!vars, Process!vars, Webhook!vars, Webhook!callVars, Login!vars, Account!vars,
         ApiKey!vars, Tenant!vars
<1>1. CASE UNCHANGED <<serviceVars, apiVars>>
  BY <1>1 DEF serviceVars, apiVars
<1>2. CASE UNCHANGED allVars  BY <1>1, <1>2 DEF allVars
<1>3. CASE Pages
  BY <1>1, <1>3 DEF Pages, ListSteps, DetailSteps, BoardSteps, SendSteps, GateSteps, LinkSteps,
                    SecretSteps, DialogSteps
<1>4. CASE Services
  <2>1. UNCHANGED <<loginVars, accountVars, keyVars, eventVars>>  BY <1>4 DEF Services, apiVars
  <2>2. CASE Limits  BY <2>1, <2>2 DEF Limits, LimitsOf
  <2>3. CASE Sweeps  BY <2>1, <2>3 DEF Sweeps
  <2>4. CASE Shutdowns  BY <2>1, <2>4 DEF Shutdowns
  <2>5. CASE Requests  BY <2>1, <2>5 DEF Requests
  <2>. QED  BY <1>4, <2>2, <2>3, <2>4, <2>5 DEF Services, MCNext
<1>5. CASE Logins  BY <1>5 DEF Logins, serviceVars
<1>6. CASE Administers  BY <1>6 DEF Administers, serviceVars
<1>7. CASE UsesKeys  BY <1>7 DEF UsesKeys, serviceVars
<1>8. CASE Ingests  BY <1>8 DEF Ingests, serviceVars
<1>. QED  BY <1>2, <1>3, <1>4, <1>5, <1>6, <1>7, <1>8 DEF ConsoleNext, Clients, ApiNext


----------------------------------------------------------------------------
\* The sweeper and its lock (SweeperLock).
SweepStates == {"none", "asking", "acquired", "refused", "releasing", "draining", "reclaiming"}
SweepRecord == [st: SweepStates, token: Tokens \cup {NoToken}, held: Nat, left: Nat, late: Nat]

SweepTypes ==
    /\ lock \in [token: Tokens \cup {NoToken}, left: Nat]
    /\ sweep \in [Processes -> SweepRecord]
    /\ timer \in [Processes -> BOOLEAN]
    /\ stopping \in [Processes -> BOOLEAN]

\* A sweep whose lock has time left holds it.
HoldsLock ==
    \A p \in Processes :
      sweep[p].held > 0 => lock.left = sweep[p].held /\ lock.token = sweep[p].token

\* Each sweep has a token of its own.
OwnTokens ==
    \A p, q \in Processes :
      p # q /\ sweep[p].st # "none" /\ sweep[q].st # "none" => sweep[p].token # sweep[q].token

\* What has not begun to sweep holds nothing and is not late.
SweepNotBegun ==
    \A p \in Processes :
      /\ sweep[p].st \in {"none", "asking", "refused"} => sweep[p].held = 0
      /\ sweep[p].st \notin {"reclaiming", "releasing"} => sweep[p].late = 0

SweepInv == SweepTypes /\ HoldsLock /\ OwnTokens /\ SweepNotBegun /\ Sweeper!BoundedOverrun /\ Sweeper!StoppedIsQuiet

\* The idle sweep is a sweep that has nothing.
LEMMA NoSweepIs ==
  /\ Sweeper!NoSweep \in SweepRecord /\ Sweeper!NoSweep.st = "none" /\ Sweeper!NoSweep.token = NoToken
  /\ Sweeper!NoSweep.held = 0 /\ Sweeper!NoSweep.left = 0 /\ Sweeper!NoSweep.late = 0
BY DEF Sweeper!NoSweep, SweepRecord, SweepStates

\* At the start nobody sweeps and the lock is free.
LEMMA SweepInitInv == Sweeper!Init => SweepInv
<1>. SUFFICES ASSUME Sweeper!Init PROVE SweepInv  OBVIOUS
<1>1. SweepTypes  BY NoSweepIs DEF Sweeper!Init, SweepTypes
<1>2. \A p \in Processes : sweep[p] = Sweeper!NoSweep  BY DEF Sweeper!Init
<1>3. HoldsLock /\ OwnTokens /\ SweepNotBegun /\ Sweeper!BoundedOverrun /\ Sweeper!StoppedIsQuiet
  BY <1>2, NoSweepIs
    DEF HoldsLock, OwnTokens, SweepNotBegun, Sweeper!BoundedOverrun, Sweeper!StoppedIsQuiet
<1>. QED  BY <1>1, <1>3 DEF SweepInv

\* Sweep p becomes s; nothing else of a sweep changes.
SweepBecomes(p, s) ==
    /\ s \in SweepRecord /\ sweep' \in [Processes -> SweepRecord] /\ sweep'[p] = s
    /\ \A q \in Processes : q # p => sweep'[q] = sweep[q]

\* A sweep that starts has a new token.
LEMMA SweepBeginsInv ==
  ASSUME SweepInv, NEW p \in Processes, Sweeper!BeginSweep(p), UNCHANGED <<lock, stopping>>,
         timer' = [timer EXCEPT ![p] = TRUE]
  PROVE  SweepInv'
<1>1. PICK tok \in Tokens :
        Sweeper!Unused(tok) /\ sweep' = [sweep EXCEPT ![p] = [Sweeper!NoSweep EXCEPT !.st = "asking", !.token = tok]]
  BY DEF Sweeper!BeginSweep
<1>. DEFINE s == [Sweeper!NoSweep EXCEPT !.st = "asking", !.token = tok]
<1>2. sweep' = [sweep EXCEPT ![p] = s]  BY <1>1
<1>3. s \in SweepRecord  BY NoSweepIs DEF SweepRecord, SweepStates
<1>4. s.st = "asking" /\ s.token = tok /\ s.held = 0 /\ s.late = 0  BY NoSweepIs DEF SweepRecord
<1>. HIDE DEF s
<1>5. SweepBecomes(p, s)  BY <1>2, <1>3 DEF SweepBecomes, SweepInv, SweepTypes
<1>6. SweepTypes'  BY <1>5 DEF SweepTypes, SweepBecomes, SweepInv
<1>7. HoldsLock'  BY <1>4, <1>5 DEF HoldsLock, SweepBecomes, SweepInv
<1>8. OwnTokens'  BY <1>1, <1>4, <1>5 DEF OwnTokens, SweepBecomes, SweepInv, Sweeper!Unused
<1>9. SweepNotBegun' /\ Sweeper!BoundedOverrun'
  BY <1>4, <1>5 DEF SweepNotBegun, Sweeper!BoundedOverrun, SweepBecomes, SweepInv
<1>10. Sweeper!StoppedIsQuiet'
  BY <1>5 DEF Sweeper!StoppedIsQuiet, SweepBecomes, SweepInv, SweepTypes
<1>. QED  BY <1>6, <1>7, <1>8, <1>9, <1>10 DEF SweepInv

\* SET NX gives a lock that nobody holds.
LEMMA SweepAskInv ==
  ASSUME SweepInv, LockTtl \in Nat, NEW p \in Processes, Sweeper!AskRedis(p)
  PROVE  SweepInv'
<1>1. UNCHANGED <<timer, stopping>> /\ sweep[p].st = "asking" /\ sweep[p] \in SweepRecord
  BY DEF Sweeper!AskRedis, SweepInv, SweepTypes
<1>2. CASE Sweeper!IsFree
  <2>. DEFINE s == [sweep[p] EXCEPT !.st = "acquired", !.held = LockTtl]
  <2>1. sweep' = [sweep EXCEPT ![p] = s] /\ lock' = [token |-> sweep[p].token, left |-> LockTtl]
    BY <1>2 DEF Sweeper!AskRedis, SweepInv, SweepTypes
  <2>2. s \in SweepRecord  BY <1>1 DEF SweepRecord, SweepStates
  <2>3. s.st = "acquired" /\ s.token = sweep[p].token /\ s.held = LockTtl /\ s.late = sweep[p].late
    BY <1>1 DEF SweepRecord
  <2>. HIDE DEF s
  <2>4. SweepBecomes(p, s)  BY <2>1, <2>2 DEF SweepBecomes, SweepInv, SweepTypes
  <2>5. SweepTypes'  BY <1>1, <2>1, <2>4 DEF SweepTypes, SweepBecomes, SweepInv, SweepRecord
  <2>6. \A q \in Processes : sweep[q].held = 0
    BY <1>2 DEF Sweeper!IsFree, SweepInv, HoldsLock, SweepTypes, SweepRecord
  <2>7. HoldsLock'  BY <2>1, <2>3, <2>4, <2>6 DEF HoldsLock, SweepBecomes
  <2>8. OwnTokens'  BY <1>1, <2>3, <2>4 DEF OwnTokens, SweepBecomes, SweepInv
  <2>9. SweepNotBegun' /\ Sweeper!BoundedOverrun'
    BY <1>1, <2>3, <2>4 DEF SweepNotBegun, Sweeper!BoundedOverrun, SweepBecomes, SweepInv
  <2>10. Sweeper!StoppedIsQuiet'  BY <1>1, <2>4 DEF Sweeper!StoppedIsQuiet, SweepBecomes, SweepInv
  <2>. QED  BY <2>5, <2>7, <2>8, <2>9, <2>10 DEF SweepInv
<1>3. CASE ~Sweeper!IsFree
  <2>. DEFINE s == [sweep[p] EXCEPT !.st = "refused"]
  <2>1. sweep' = [sweep EXCEPT ![p] = s] /\ lock' = lock
    BY <1>3 DEF Sweeper!AskRedis, SweepInv, SweepTypes
  <2>2. s \in SweepRecord  BY <1>1 DEF SweepRecord, SweepStates
  <2>3. s.st = "refused" /\ s.token = sweep[p].token /\ s.held = sweep[p].held /\ s.late = sweep[p].late
    BY <1>1 DEF SweepRecord
  <2>. HIDE DEF s
  <2>4. SweepBecomes(p, s)  BY <2>1, <2>2 DEF SweepBecomes, SweepInv, SweepTypes
  <2>5. SweepTypes'  BY <1>1, <2>1, <2>4 DEF SweepTypes, SweepBecomes, SweepInv
  <2>6. HoldsLock' /\ OwnTokens'
    BY <1>1, <2>1, <2>3, <2>4 DEF HoldsLock, OwnTokens, SweepBecomes, SweepInv
  <2>7. SweepNotBegun' /\ Sweeper!BoundedOverrun'
    BY <1>1, <2>3, <2>4 DEF SweepNotBegun, Sweeper!BoundedOverrun, SweepBecomes, SweepInv
  <2>8. Sweeper!StoppedIsQuiet'  BY <1>1, <2>4 DEF Sweeper!StoppedIsQuiet, SweepBecomes, SweepInv
  <2>. QED  BY <2>5, <2>6, <2>7, <2>8 DEF SweepInv
<1>. QED  BY <1>2, <1>3

\* A sweep that goes on keeps its token and its lock; one batch at most, the
\* first of the stale rows, is late.
LEMMA SweepGoesOnInv ==
  ASSUME SweepInv, NEW p \in Processes, NEW s \in SweepRecord, sweep' = [sweep EXCEPT ![p] = s],
         UNCHANGED <<lock, timer, stopping>>,
         s.token = sweep[p].token, s.held = sweep[p].held,
         sweep[p].st \in {"acquired", "draining", "reclaiming"},
         s.st \in {"draining", "reclaiming", "releasing"},
         \/ s.late = sweep[p].late /\ (sweep[p].st = "reclaiming" => s.st # "draining")
         \/ sweep[p].st = "draining" /\ s.st = "reclaiming" /\ s.late = sweep[p].late + 1
  PROVE  SweepInv'
<1>1. SweepBecomes(p, s)  BY DEF SweepBecomes, SweepInv, SweepTypes
<1>2. SweepTypes'  BY <1>1 DEF SweepTypes, SweepBecomes, SweepInv
<1>3. HoldsLock' /\ OwnTokens'  BY <1>1 DEF HoldsLock, OwnTokens, SweepBecomes, SweepInv
<1>4. SweepNotBegun' /\ Sweeper!BoundedOverrun'
  BY <1>1 DEF SweepNotBegun, Sweeper!BoundedOverrun, SweepBecomes, SweepInv
<1>5. Sweeper!StoppedIsQuiet'  BY <1>1 DEF Sweeper!StoppedIsQuiet, SweepBecomes, SweepInv
<1>. QED  BY <1>2, <1>3, <1>4, <1>5 DEF SweepInv

\* A sweep that ends leaves the lock to its own time, or deletes its own.
LEMMA SweepEndsInv ==
  ASSUME SweepInv, NEW p \in Processes, sweep' = [sweep EXCEPT ![p] = Sweeper!NoSweep],
         lock' \in [token: Tokens \cup {NoToken}, left: Nat],
         \/ lock' = lock
         \/ lock.token = sweep[p].token /\ sweep[p].st = "releasing",
         timer' \in [Processes -> BOOLEAN], stopping' \in [Processes -> BOOLEAN],
         \A q \in Processes : q # p => timer'[q] = timer[q] /\ stopping'[q] = stopping[q]
  PROVE  SweepInv'
<1>1. SweepBecomes(p, Sweeper!NoSweep)  BY NoSweepIs DEF SweepBecomes, SweepInv, SweepTypes
<1>2. SweepTypes'  BY <1>1 DEF SweepTypes, SweepBecomes, SweepInv
<1>3. HoldsLock'
  <2>. SUFFICES ASSUME NEW q \in Processes, sweep'[q].held > 0
                PROVE  lock'.left = sweep'[q].held /\ lock'.token = sweep'[q].token
    BY DEF HoldsLock
  <2>1. q # p /\ sweep'[q] = sweep[q]  BY <1>1, NoSweepIs DEF SweepBecomes
  <2>2. lock.left = sweep[q].held /\ lock.token = sweep[q].token  BY <2>1 DEF SweepInv, HoldsLock
  <2>3. sweep[q].st # "none"  BY <2>1 DEF SweepInv, SweepNotBegun, SweepTypes, SweepRecord
  <2>4. lock' = lock  BY <2>1, <2>2, <2>3 DEF SweepInv, OwnTokens
  <2>. QED  BY <2>1, <2>2, <2>4
<1>4. OwnTokens'  BY <1>1, NoSweepIs DEF OwnTokens, SweepBecomes, SweepInv
<1>5. SweepNotBegun' /\ Sweeper!BoundedOverrun'
  BY <1>1, NoSweepIs DEF SweepNotBegun, Sweeper!BoundedOverrun, SweepBecomes, SweepInv
<1>6. Sweeper!StoppedIsQuiet'
  BY <1>1, NoSweepIs DEF Sweeper!StoppedIsQuiet, SweepBecomes, SweepInv
<1>. QED  BY <1>2, <1>3, <1>4, <1>5, <1>6 DEF SweepInv


\* What one tick leaves of a time.
LEMMA SweepOneLess == ASSUME NEW n \in Nat
                      PROVE  Sweeper!Less(n) \in Nat /\ (n = 0 => Sweeper!Less(n) = 0) /\ (n > 0 => n = Sweeper!Less(n) + 1)
BY DEF Sweeper!Less

\* Time takes the same from a lock and from what its holder has left of it.
LEMMA SweepTickInv == ASSUME SweepInv, Sweeper!Tick PROVE SweepInv'
<1>1. UNCHANGED <<timer, stopping>>  BY DEF Sweeper!Tick
<1>2. lock.left \in Nat /\ lock.token \in Tokens \cup {NoToken}  BY DEF SweepInv, SweepTypes
<1>3. lock'.left = Sweeper!Less(lock.left) /\ (lock.left > 1 => lock'.token = lock.token)
  <2>1. lock' = [token |-> IF lock.left <= 1 THEN NoToken ELSE lock.token, left |-> Sweeper!Less(lock.left)]
    BY Zenon DEF Sweeper!Tick, Sweeper!Expiring
  <2>2. lock'.left = Sweeper!Less(lock.left)  BY <2>1
  <2>3. lock'.token = IF lock.left <= 1 THEN NoToken ELSE lock.token  BY <2>1
  <2>. QED  BY <1>2, <2>2, <2>3
<1>4. lock' \in [token: Tokens \cup {NoToken}, left: Nat]
  <2>1. Sweeper!Less(lock.left) \in Nat  BY <1>2, SweepOneLess
  <2>. QED  BY <1>2, <2>1 DEF Sweeper!Tick, Sweeper!Expiring
<1>5. ASSUME NEW p \in Processes
      PROVE  /\ sweep'[p] \in SweepRecord /\ sweep'[p].st = sweep[p].st /\ sweep'[p].token = sweep[p].token
             /\ sweep'[p].held = Sweeper!Less(sweep[p].held) /\ sweep'[p].late = sweep[p].late
  <2>1. sweep[p] \in SweepRecord  BY DEF SweepInv, SweepTypes
  <2>2. Sweeper!Less(sweep[p].held) \in Nat /\ Sweeper!Less(sweep[p].left) \in Nat
    BY <2>1, SweepOneLess DEF SweepRecord
  <2>3. sweep'[p] = [sweep[p] EXCEPT !.held = Sweeper!Less(sweep[p].held), !.left = Sweeper!Less(sweep[p].left)]
    BY <2>1 DEF Sweeper!Tick, SweepRecord
  <2>. QED  BY <2>1, <2>2, <2>3 DEF SweepRecord
<1>6. SweepTypes'
  <2>1. sweep' \in [Processes -> SweepRecord]  BY <1>5 DEF Sweeper!Tick
  <2>. QED  BY <1>1, <1>4, <2>1 DEF SweepTypes, SweepInv
<1>7. HoldsLock'
  <2>. SUFFICES ASSUME NEW p \in Processes, sweep'[p].held > 0
                PROVE  lock'.left = sweep'[p].held /\ lock'.token = sweep'[p].token
    BY DEF HoldsLock
  <2>1. sweep[p].held \in Nat  BY DEF SweepInv, SweepTypes, SweepRecord
  <2>2. sweep[p].held > 1 /\ sweep'[p].held = Sweeper!Less(sweep[p].held)
    BY <1>5, <2>1, SweepOneLess
  <2>3. lock.left = sweep[p].held /\ lock.token = sweep[p].token
    BY <2>1, <2>2 DEF SweepInv, HoldsLock
  <2>. QED  BY <1>3, <1>5, <2>2, <2>3
<1>8. OwnTokens' /\ Sweeper!BoundedOverrun' /\ Sweeper!StoppedIsQuiet'
  BY <1>1, <1>5 DEF OwnTokens, Sweeper!BoundedOverrun, Sweeper!StoppedIsQuiet, SweepInv
<1>9. SweepNotBegun'
  <2>1. Sweeper!Less(0) = 0  BY DEF Sweeper!Less
  <2>. QED  BY <1>5, <2>1 DEF SweepNotBegun, SweepInv
<1>. QED  BY <1>6, <1>7, <1>8, <1>9 DEF SweepInv

\* One step of one process.
LEMMA SweepProcessInv ==
  ASSUME SweepInv, LockTtl \in Nat, NEW p \in Processes,
         \/ Sweeper!StartSweeper(p) \/ Sweeper!TimerFires(p) \/ Sweeper!AskRedis(p) \/ Sweeper!HearRedis(p) \/ Sweeper!Batch(p) \/ Sweeper!Release(p)
         \/ Sweeper!Fail(p) \/ Sweeper!Crash(p) \/ Sweeper!StopSweeper(p) \/ Sweeper!Stopped(p)
  PROVE  SweepInv'
<1>. USE DEF Sweeper!Running
<1>1. sweep[p] \in SweepRecord /\ sweep[p].late \in Nat /\ sweep[p].left \in Nat
  BY DEF SweepInv, SweepTypes, SweepRecord
<1>2. CASE Sweeper!StartSweeper(p)  BY <1>2, SweepBeginsInv DEF Sweeper!StartSweeper
<1>3. CASE Sweeper!TimerFires(p)
  <2>1. timer' = [timer EXCEPT ![p] = TRUE]  BY <1>3 DEF Sweeper!TimerFires, SweepInv, SweepTypes
  <2>. QED  BY <1>3, <2>1, SweepBeginsInv DEF Sweeper!TimerFires
<1>4. CASE Sweeper!AskRedis(p)  BY <1>4, SweepAskInv
<1>5. CASE Sweeper!HearRedis(p)
  <2>1. CASE sweep[p].st = "acquired"
    <3>. DEFINE s == [sweep[p] EXCEPT !.st = "draining", !.left = LockTtl]
    <3>1. sweep' = [sweep EXCEPT ![p] = s]
      BY <1>1, <1>5, <2>1 DEF Sweeper!HearRedis, SweepInv, SweepTypes
    <3>2. /\ s \in SweepRecord /\ s.st = "draining" /\ s.token = sweep[p].token
          /\ s.held = sweep[p].held /\ s.late = sweep[p].late
      BY <1>1 DEF SweepRecord, SweepStates
    <3>. HIDE DEF s
    <3>. QED  BY <1>5, <2>1, <3>1, <3>2, SweepGoesOnInv DEF Sweeper!HearRedis
  <2>2. CASE sweep[p].st = "refused"
    BY <1>5, <2>2, SweepEndsInv DEF Sweeper!HearRedis, SweepInv, SweepTypes
  <2>. QED  BY <1>5, <2>1, <2>2 DEF Sweeper!HearRedis
<1>6. CASE Sweeper!Batch(p)
  <2>1. CASE sweep[p].left > 0 /\ sweep' = [sweep EXCEPT ![p].late = IF sweep[p].left = 0 THEN @ + 1 ELSE @]
    <3>1. (IF sweep[p].left = 0 THEN sweep[p].late + 1 ELSE sweep[p].late) = sweep[p].late
      BY <1>1, <2>1
    <3>2. sweep' = [sweep EXCEPT ![p] = [sweep[p] EXCEPT !.late = sweep[p].late]]
      BY <2>1, <3>1, Zenon
    <3>3. [sweep[p] EXCEPT !.late = sweep[p].late] = sweep[p]  BY <1>1 DEF SweepRecord
    <3>4. sweep' = [sweep EXCEPT ![p] = sweep[p]]  BY <3>2, <3>3, Zenon
    <3>. QED  BY <1>1, <1>6, <3>4, SweepGoesOnInv DEF Sweeper!Batch
  <2>2. CASE /\ sweep[p].st = "draining"
             /\ sweep' = [sweep EXCEPT ![p].st = "reclaiming",
                                       ![p].late = IF sweep[p].left = 0 THEN @ + 1 ELSE @]
    <3>. DEFINE n == IF sweep[p].left = 0 THEN sweep[p].late + 1 ELSE sweep[p].late
                s == [sweep[p] EXCEPT !.st = "reclaiming", !.late = n]
    <3>1. sweep' = [sweep EXCEPT ![p] = s]  BY <1>1, <2>2 DEF SweepInv, SweepTypes, SweepRecord
    <3>2. n \in Nat /\ (n = sweep[p].late \/ n = sweep[p].late + 1)  BY <1>1
    <3>. HIDE DEF n
    <3>3. /\ s \in SweepRecord /\ s.st = "reclaiming" /\ s.token = sweep[p].token
          /\ s.held = sweep[p].held /\ s.late = n
      BY <1>1, <3>2 DEF SweepRecord, SweepStates
    <3>. HIDE DEF s
    <3>. QED  BY <1>6, <2>2, <3>1, <3>2, <3>3, SweepGoesOnInv DEF Sweeper!Batch
  <2>3. CASE sweep[p].st = "reclaiming" /\ sweep' = [sweep EXCEPT ![p].st = "releasing"]
    <3>. DEFINE s == [sweep[p] EXCEPT !.st = "releasing"]
    <3>1. sweep' = [sweep EXCEPT ![p] = s]  BY <1>1, <2>3 DEF SweepInv, SweepTypes, SweepRecord
    <3>2. /\ s \in SweepRecord /\ s.st = "releasing" /\ s.token = sweep[p].token
          /\ s.held = sweep[p].held /\ s.late = sweep[p].late
      BY <1>1 DEF SweepRecord, SweepStates
    <3>. HIDE DEF s
    <3>. QED  BY <1>6, <2>3, <3>1, <3>2, SweepGoesOnInv DEF Sweeper!Batch
  <2>. QED  BY <1>6, <2>1, <2>2, <2>3 DEF Sweeper!Batch, Sweeper!MoreToDo
<1>7. CASE Sweeper!Release(p)
  <2>1. lock' \in [token: Tokens \cup {NoToken}, left: Nat]
    BY <1>7 DEF Sweeper!Release, SweepInv, SweepTypes
  <2>. QED  BY <1>7, <2>1, SweepEndsInv DEF Sweeper!Release, Sweeper!Owns, SweepInv, SweepTypes
<1>8. CASE Sweeper!Fail(p)
  <2>1. CASE sweep[p].st \in Sweeper!Running /\ sweep' = [sweep EXCEPT ![p].st = "releasing"]
    <3>. DEFINE s == [sweep[p] EXCEPT !.st = "releasing"]
    <3>1. sweep' = [sweep EXCEPT ![p] = s]  BY <1>1, <2>1 DEF SweepInv, SweepTypes, SweepRecord
    <3>2. /\ s \in SweepRecord /\ s.st = "releasing" /\ s.token = sweep[p].token
          /\ s.held = sweep[p].held /\ s.late = sweep[p].late
      BY <1>1 DEF SweepRecord, SweepStates
    <3>. HIDE DEF s
    <3>. QED  BY <1>8, <2>1, <3>1, <3>2, SweepGoesOnInv DEF Sweeper!Fail
  <2>2. CASE sweep' = [sweep EXCEPT ![p] = Sweeper!NoSweep]
    BY <1>8, <2>2, SweepEndsInv DEF Sweeper!Fail, SweepInv, SweepTypes
  <2>. QED  BY <1>8, <2>1, <2>2 DEF Sweeper!Fail
<1>9. CASE Sweeper!Crash(p)
  <2>1. /\ timer' \in [Processes -> BOOLEAN] /\ stopping' \in [Processes -> BOOLEAN]
        /\ \A q \in Processes : q # p => timer'[q] = timer[q] /\ stopping'[q] = stopping[q]
    BY <1>9 DEF Sweeper!Crash, SweepInv, SweepTypes
  <2>. QED  BY <1>9, <2>1, SweepEndsInv DEF Sweeper!Crash, SweepInv, SweepTypes
<1>10. CASE Sweeper!StopSweeper(p) \/ Sweeper!Stopped(p)
  <2>1. UNCHANGED <<lock, sweep>>  BY <1>10 DEF Sweeper!StopSweeper, Sweeper!Stopped
  <2>2. HoldsLock' /\ OwnTokens' /\ SweepNotBegun' /\ Sweeper!BoundedOverrun'
    BY <2>1 DEF SweepInv, HoldsLock, OwnTokens, SweepNotBegun, Sweeper!BoundedOverrun
  <2>3. SweepTypes'
    <3>1. timer' \in [Processes -> BOOLEAN]
      BY <1>10 DEF Sweeper!StopSweeper, Sweeper!Stopped, SweepInv, SweepTypes
    <3>2. stopping' \in [Processes -> BOOLEAN]
      BY <1>10 DEF Sweeper!StopSweeper, Sweeper!Stopped, SweepInv, SweepTypes
    <3>. QED  BY <2>1, <3>1, <3>2 DEF SweepInv, SweepTypes
  <2>4. Sweeper!StoppedIsQuiet'
    BY <1>10
      DEF Sweeper!StopSweeper, Sweeper!Stopped, SweepInv, SweepTypes, Sweeper!StoppedIsQuiet
  <2>. QED  BY <2>2, <2>3, <2>4 DEF SweepInv
<1>. QED  BY <1>2, <1>3, <1>4, <1>5, <1>6, <1>7, <1>8, <1>9, <1>10

\* Every step of the specification keeps the invariant.
LEMMA SweepStepInv ==
  ASSUME SweepInv, LockTtl \in Nat, [Sweeper!Next]_(Sweeper!vars)
  PROVE  SweepInv'
<1>1. CASE UNCHANGED Sweeper!vars
  BY <1>1
    DEF Sweeper!vars, SweepInv, SweepTypes, HoldsLock, OwnTokens, SweepNotBegun,
        Sweeper!BoundedOverrun, Sweeper!StoppedIsQuiet
<1>2. CASE Sweeper!Next  BY <1>2, SweepProcessInv, SweepTickInv DEF Sweeper!Next
<1>. QED  BY <1>1, <1>2

\* Two sweeps with time left would have one token.
LEMMA SweepInvGives == SweepInv => Sweeper!SweepsApart
<1>. SUFFICES ASSUME SweepInv PROVE Sweeper!OneSweepPerLock  BY DEF SweepInv, Sweeper!SweepsApart
<1>. SUFFICES ASSUME NEW p \in Processes, NEW q \in Processes, p # q,
                     sweep[p].st \in Sweeper!Running, sweep[q].st \in Sweeper!Running
              PROVE  sweep[p].held = 0 \/ sweep[q].held = 0
  BY DEF Sweeper!OneSweepPerLock
<1>1. sweep[p].held \in Nat /\ sweep[q].held \in Nat  BY DEF SweepInv, SweepTypes, SweepRecord
<1>2. sweep[p].token # sweep[q].token  BY DEF SweepInv, OwnTokens, Sweeper!Running
<1>. QED  BY <1>1, <1>2 DEF SweepInv, HoldsLock

\* Two processes sweep at once only when one has outlived its lock; at most one
\* batch begins after the deadline; after stopSweeper nothing of a sweep runs.
THEOREM SweepsKeptApart == ASSUME LockTtl \in Nat PROVE Sweeper!Spec => []Sweeper!SweepsApart
<1>1. Sweeper!Init => SweepInv  BY SweepInitInv
<1>2. SweepInv /\ [Sweeper!Next]_(Sweeper!vars) => SweepInv'  BY SweepStepInv
<1>3. SweepInv => Sweeper!SweepsApart  BY SweepInvGives
<1>. QED  BY <1>1, <1>2, <1>3, PTL DEF Sweeper!Spec

\* A lock that has not expired has a token, and so has what asks for it.
LockHasToken ==
    /\ SweepTypes
    /\ lock.left > 0 => lock.token # NoToken
    /\ \A p \in Processes : sweep[p].st = "asking" => sweep[p].token # NoToken

\* At the start nobody asks for the lock and it has no time left.
LEMMA LockHasTokenInit == Sweeper!Init => LockHasToken
<1>. SUFFICES ASSUME Sweeper!Init PROVE LockHasToken  OBVIOUS
<1>1. SweepTypes  BY SweepInitInv DEF SweepInv
<1>2. \A p \in Processes : sweep[p] = Sweeper!NoSweep  BY DEF Sweeper!Init
<1>. QED  BY <1>1, <1>2, NoSweepIs DEF Sweeper!Init, LockHasToken

\* Only BeginSweep makes a sweep ask, and only AskRedis sets a lock.
LEMMA LockHasTokenStep ==
  ASSUME SweepInv, SweepInv', LockHasToken, NoToken \notin Tokens, [Sweeper!Next]_(Sweeper!vars)
  PROVE  LockHasToken'
<1>1. SweepTypes'  BY DEF SweepInv
<1>2. \A p \in Processes : sweep[p] \in SweepRecord  BY DEF SweepInv, SweepTypes
<1>3. CASE UNCHANGED Sweeper!vars  BY <1>3 DEF Sweeper!vars, LockHasToken, SweepTypes
<1>4. ASSUME NEW p \in Processes, Sweeper!BeginSweep(p), UNCHANGED lock PROVE LockHasToken'
  <2>1. PICK tok \in Tokens : sweep' = [sweep EXCEPT ![p] = [Sweeper!NoSweep EXCEPT !.st = "asking", !.token = tok]]
    BY <1>4 DEF Sweeper!BeginSweep
  <2>2. [Sweeper!NoSweep EXCEPT !.st = "asking", !.token = tok].token = tok
    BY DEF Sweeper!NoSweep
  <2>3. sweep'[p].token = tok /\ \A q \in Processes : q # p => sweep'[q] = sweep[q]
    BY <2>1, <2>2 DEF SweepInv, SweepTypes
  <2>. QED  BY <1>1, <1>4, <2>3 DEF LockHasToken
<1>5. ASSUME NEW p \in Processes, Sweeper!AskRedis(p) PROVE LockHasToken'
  <2>1. \A q \in Processes : sweep'[q].st = "asking" => q # p /\ sweep'[q] = sweep[q]
    BY <1>2, <1>5 DEF Sweeper!AskRedis, SweepInv, SweepTypes, SweepRecord
  <2>2. lock'.left > 0 => lock'.token # NoToken  BY <1>5 DEF Sweeper!AskRedis, LockHasToken
  <2>. QED  BY <1>1, <2>1, <2>2 DEF LockHasToken
<1>6. ASSUME NEW p \in Processes,
             Sweeper!HearRedis(p) \/ Sweeper!Batch(p) \/ Sweeper!Release(p) \/ Sweeper!Fail(p) \/ Sweeper!Crash(p) \/ Sweeper!StopSweeper(p) \/ Sweeper!Stopped(p)
      PROVE  LockHasToken'
  <2>1. lock' = lock \/ lock'.left = 0
    BY <1>6
      DEF Sweeper!HearRedis, Sweeper!Batch, Sweeper!Release, Sweeper!Fail, Sweeper!Crash,
          Sweeper!StopSweeper, Sweeper!Stopped
  <2>2. \A q \in Processes : sweep'[q].st = "asking" => sweep'[q] = sweep[q]
    BY <1>2, <1>6, NoSweepIs
    DEF Sweeper!HearRedis, Sweeper!Batch, Sweeper!Release, Sweeper!Fail, Sweeper!Crash,
        Sweeper!StopSweeper, Sweeper!Stopped, Sweeper!Running, SweepInv, SweepTypes, SweepRecord
  <2>. QED  BY <1>1, <2>1, <2>2 DEF LockHasToken
<1>7. CASE Sweeper!Tick
  <2>1. \A p \in Processes : sweep'[p].st = sweep[p].st /\ sweep'[p].token = sweep[p].token
    BY <1>2, <1>7 DEF Sweeper!Tick, SweepRecord
  <2>2. lock'.left > 0 => lock.left > 1 /\ lock'.token = lock.token
    <3>1. lock' = [token |-> IF lock.left <= 1 THEN NoToken ELSE lock.token, left |-> Sweeper!Less(lock.left)]
      BY <1>7, Zenon DEF Sweeper!Tick, Sweeper!Expiring
    <3>2. lock'.left = Sweeper!Less(lock.left)  BY <3>1
    <3>3. lock'.token = IF lock.left <= 1 THEN NoToken ELSE lock.token  BY <3>1
    <3>. QED  BY <3>2, <3>3, SweepOneLess DEF SweepInv, SweepTypes
  <2>. QED  BY <1>1, <2>1, <2>2 DEF LockHasToken, SweepTypes
<1>. QED
  BY <1>3, <1>4, <1>5, <1>6, <1>7 DEF Sweeper!Next, Sweeper!StartSweeper, Sweeper!TimerFires

\* Only Release takes the token of a lock with more than a tick left.
LEMMA OwnerReleasesStep ==
  ASSUME LockHasToken, [Sweeper!Next]_(Sweeper!vars)
  PROVE  Sweeper!OwnerReleases
<1>. SUFFICES ASSUME lock.left > 1, lock'.token = NoToken
              PROVE  \E p \in Processes : lock.token = sweep[p].token /\ sweep[p].st = "releasing"
  BY DEF Sweeper!OwnerReleases
<1>1. lock.left \in Nat /\ lock.token # NoToken  BY DEF LockHasToken, SweepTypes
<1>2. CASE UNCHANGED lock  BY <1>1, <1>2
<1>3. CASE Sweeper!Tick
  <2>1. lock' = [token |-> IF lock.left <= 1 THEN NoToken ELSE lock.token, left |-> Sweeper!Less(lock.left)]
    BY <1>3, Zenon DEF Sweeper!Tick, Sweeper!Expiring
  <2>2. lock'.token = IF lock.left <= 1 THEN NoToken ELSE lock.token  BY <2>1
  <2>. QED  BY <1>1, <2>2
<1>4. ASSUME NEW p \in Processes, Sweeper!AskRedis(p) PROVE UNCHANGED lock
  BY <1>1, <1>4 DEF Sweeper!AskRedis, Sweeper!IsFree
<1>5. ASSUME NEW p \in Processes, Sweeper!Release(p), lock' # lock
      PROVE  lock.token = sweep[p].token /\ sweep[p].st = "releasing"
  BY <1>5 DEF Sweeper!Release, Sweeper!Owns
<1>. QED  BY <1>2, <1>3, <1>4, <1>5
  DEF Sweeper!Next, Sweeper!vars, Sweeper!StartSweeper, Sweeper!TimerFires, Sweeper!HearRedis,
      Sweeper!Batch, Sweeper!Fail, Sweeper!Crash, Sweeper!StopSweeper, Sweeper!Stopped

\* Nobody but its owner deletes a lock that has not expired: a release compares
\* tokens, and no two sweeps have the same.
THEOREM OnlyOwnersRelease ==
  ASSUME LockTtl \in Nat, NoToken \notin Tokens PROVE Sweeper!Spec => [][Sweeper!OwnerReleases]_(Sweeper!vars)
<1>1. Sweeper!Init => SweepInv /\ LockHasToken  BY SweepInitInv, LockHasTokenInit
<1>2. SweepInv /\ LockHasToken /\ [Sweeper!Next]_(Sweeper!vars) => SweepInv' /\ LockHasToken'
  BY SweepStepInv, LockHasTokenStep
<1>3. SweepInv /\ LockHasToken /\ [Sweeper!Next]_(Sweeper!vars) => [Sweeper!OwnerReleases]_(Sweeper!vars)
  BY OwnerReleasesStep
<1>. QED  BY <1>1, <1>2, <1>3, PTL DEF Sweeper!Spec

\* What a sweep has left, and what its lock has, never exceeds the time to live.
SweepLimited == [st: SweepStates, token: Tokens \cup {NoToken}, held: 0..LockTtl, left: 0..LockTtl, late: Nat]
SweepTimes ==
    /\ lock \in [token: Tokens \cup {NoToken}, left: 0..LockTtl]
    /\ sweep \in [Processes -> SweepLimited]
    /\ sweepFailures \in 0..MaxFailures

\* At the start no time is left.
LEMMA SweepTimesInit == Sweeper!Init => SweepTimes
<1>. SUFFICES ASSUME Sweeper!Init PROVE SweepTimes  OBVIOUS
<1>1. 0 \in 0..LockTtl /\ 0 \in 0..MaxFailures  BY LockAssumption, FailureAssumption
<1>2. Sweeper!NoSweep \in SweepLimited  BY <1>1 DEF Sweeper!NoSweep, SweepLimited, SweepStates
<1>. QED  BY <1>1, <1>2 DEF Sweeper!Init, SweepTimes

\* Time only passes, or starts again with the whole time to live.
LEMMA SweepTimesStep ==
  ASSUME SweepTimes, [Sweeper!Next]_(Sweeper!vars)
  PROVE  SweepTimes'
<1>1. LockTtl \in Nat /\ LockTtl \in 0..LockTtl /\ 0 \in 0..LockTtl  BY LockAssumption
<1>2. Sweeper!NoSweep \in SweepLimited  BY <1>1 DEF Sweeper!NoSweep, SweepLimited, SweepStates
<1>3. ASSUME NEW n \in 0..LockTtl PROVE Sweeper!Less(n) \in 0..LockTtl  BY <1>1, <1>3 DEF Sweeper!Less
<1>4. sweepFailures' \in 0..MaxFailures
  <2>1. \/ sweepFailures' = sweepFailures
        \/ sweepFailures < MaxFailures /\ sweepFailures' = sweepFailures + 1
    BY Zenon
    DEF Sweeper!Next, Sweeper!vars, Sweeper!StartSweeper, Sweeper!TimerFires, Sweeper!AskRedis,
        Sweeper!HearRedis, Sweeper!Batch, Sweeper!Release, Sweeper!Fail, Sweeper!Crash,
        Sweeper!StopSweeper, Sweeper!Stopped, Sweeper!Tick
  <2>. QED  BY <2>1, FailureAssumption DEF SweepTimes
<1>. SUFFICES /\ lock' \in [token: Tokens \cup {NoToken}, left: 0..LockTtl]
              /\ sweep' \in [Processes -> SweepLimited]
  BY <1>4 DEF SweepTimes
<1>5. CASE UNCHANGED Sweeper!vars  BY <1>5 DEF Sweeper!vars, SweepTimes
<1>6. CASE Sweeper!Tick
  <2>1. lock.left \in 0..LockTtl /\ lock.token \in Tokens \cup {NoToken}  BY DEF SweepTimes
  <2>2. Sweeper!Less(lock.left) \in 0..LockTtl  BY <1>3, <2>1
  <2>3. lock' \in [token: Tokens \cup {NoToken}, left: 0..LockTtl]
    BY <1>6, <2>1, <2>2 DEF Sweeper!Tick, Sweeper!Expiring
  <2>4. ASSUME NEW p \in Processes
        PROVE  [sweep[p] EXCEPT !.held = Sweeper!Less(@), !.left = Sweeper!Less(@)] \in SweepLimited
    <3>1. sweep[p] \in SweepLimited /\ sweep[p].held \in 0..LockTtl /\ sweep[p].left \in 0..LockTtl
      BY DEF SweepTimes, SweepLimited
    <3>2. Sweeper!Less(sweep[p].held) \in 0..LockTtl /\ Sweeper!Less(sweep[p].left) \in 0..LockTtl
      BY <1>3, <3>1
    <3>. QED  BY <3>1, <3>2 DEF SweepLimited
  <2>. QED  BY <1>6, <2>3, <2>4 DEF Sweeper!Tick
<1>7. ASSUME NEW p \in Processes, NEW s \in SweepLimited, sweep' = [sweep EXCEPT ![p] = s]
      PROVE  sweep' \in [Processes -> SweepLimited]
  BY <1>7 DEF SweepTimes
<1>8. ASSUME NEW p \in Processes PROVE sweep[p] \in SweepLimited  BY DEF SweepTimes
<1>9. ASSUME NEW p \in Processes, Sweeper!BeginSweep(p) PROVE sweep' \in [Processes -> SweepLimited]
  <2>1. PICK tok \in Tokens : sweep' = [sweep EXCEPT ![p] = [Sweeper!NoSweep EXCEPT !.st = "asking", !.token = tok]]
    BY <1>9 DEF Sweeper!BeginSweep
  <2>2. [Sweeper!NoSweep EXCEPT !.st = "asking", !.token = tok] \in SweepLimited
    BY <1>2 DEF SweepLimited, SweepStates
  <2>. QED  BY <1>7, <2>1, <2>2
<1>10. ASSUME NEW p \in Processes, Sweeper!StartSweeper(p) \/ Sweeper!TimerFires(p)
       PROVE  UNCHANGED lock /\ sweep' \in [Processes -> SweepLimited]
  BY <1>9, <1>10 DEF Sweeper!StartSweeper, Sweeper!TimerFires
<1>11. ASSUME NEW p \in Processes, Sweeper!AskRedis(p)
       PROVE  /\ lock' \in [token: Tokens \cup {NoToken}, left: 0..LockTtl]
              /\ sweep' \in [Processes -> SweepLimited]
  <2>1. sweep[p].token \in Tokens \cup {NoToken}  BY <1>8 DEF SweepLimited
  <2>2. [sweep[p] EXCEPT !.st = "acquired", !.held = LockTtl] \in SweepLimited
    BY <1>1, <1>8 DEF SweepLimited, SweepStates
  <2>3. [sweep[p] EXCEPT !.st = "refused"] \in SweepLimited  BY <1>8 DEF SweepLimited, SweepStates
  <2>4. \/ lock' = [token |-> sweep[p].token, left |-> LockTtl]
           /\ sweep' = [sweep EXCEPT ![p] = [sweep[p] EXCEPT !.st = "acquired", !.held = LockTtl]]
        \/ lock' = lock /\ sweep' = [sweep EXCEPT ![p] = [sweep[p] EXCEPT !.st = "refused"]]
    BY <1>11 DEF Sweeper!AskRedis, SweepTimes
  <2>5. lock' \in [token: Tokens \cup {NoToken}, left: 0..LockTtl]
    BY <1>1, <2>1, <2>4 DEF SweepTimes
  <2>. QED  BY <1>7, <2>2, <2>3, <2>4, <2>5
<1>12. ASSUME NEW p \in Processes, Sweeper!HearRedis(p)
       PROVE  UNCHANGED lock /\ sweep' \in [Processes -> SweepLimited]
  <2>1. [sweep[p] EXCEPT !.st = "draining", !.left = LockTtl] \in SweepLimited
    BY <1>1, <1>8 DEF SweepLimited, SweepStates
  <2>2. \/ sweep' = [sweep EXCEPT ![p] = [sweep[p] EXCEPT !.st = "draining", !.left = LockTtl]]
        \/ sweep' = [sweep EXCEPT ![p] = Sweeper!NoSweep]
    BY <1>12 DEF Sweeper!HearRedis, SweepTimes
  <2>. QED  BY <1>2, <1>7, <1>12, <2>1, <2>2 DEF Sweeper!HearRedis
<1>13. ASSUME NEW p \in Processes, Sweeper!Batch(p)
       PROVE  UNCHANGED lock /\ sweep' \in [Processes -> SweepLimited]
  <2>. DEFINE late == IF sweep[p].left = 0 THEN sweep[p].late + 1 ELSE sweep[p].late
  <2>1. late \in Nat  BY <1>8 DEF SweepLimited
  <2>2. \/ sweep' = [sweep EXCEPT ![p] = [sweep[p] EXCEPT !.late = late]]
        \/ sweep' = [sweep EXCEPT ![p] = [sweep[p] EXCEPT !.st = "reclaiming", !.late = late]]
        \/ sweep' = [sweep EXCEPT ![p] = [sweep[p] EXCEPT !.st = "releasing"]]
    BY <1>8, <1>13 DEF Sweeper!Batch, SweepTimes, SweepLimited
  <2>. HIDE DEF late
  <2>3. /\ [sweep[p] EXCEPT !.late = late] \in SweepLimited
        /\ [sweep[p] EXCEPT !.st = "reclaiming", !.late = late] \in SweepLimited
        /\ [sweep[p] EXCEPT !.st = "releasing"] \in SweepLimited
    BY <1>8, <2>1 DEF SweepLimited, SweepStates
  <2>. QED  BY <1>7, <1>13, <2>2, <2>3 DEF Sweeper!Batch
<1>14. ASSUME NEW p \in Processes, Sweeper!Release(p)
       PROVE  /\ lock' \in [token: Tokens \cup {NoToken}, left: 0..LockTtl]
              /\ sweep' \in [Processes -> SweepLimited]
  BY <1>1, <1>2, <1>7, <1>14 DEF Sweeper!Release, SweepTimes
<1>15. ASSUME NEW p \in Processes, Sweeper!Fail(p)
       PROVE  UNCHANGED lock /\ sweep' \in [Processes -> SweepLimited]
  <2>1. [sweep[p] EXCEPT !.st = "releasing"] \in SweepLimited  BY <1>8 DEF SweepLimited, SweepStates
  <2>2. \/ sweep' = [sweep EXCEPT ![p] = [sweep[p] EXCEPT !.st = "releasing"]]
        \/ sweep' = [sweep EXCEPT ![p] = Sweeper!NoSweep]
    BY <1>15 DEF Sweeper!Fail, SweepTimes
  <2>. QED  BY <1>2, <1>7, <1>15, <2>1, <2>2 DEF Sweeper!Fail
<1>16. ASSUME NEW p \in Processes, Sweeper!Crash(p) \/ Sweeper!StopSweeper(p) \/ Sweeper!Stopped(p)
       PROVE  UNCHANGED lock /\ sweep' \in [Processes -> SweepLimited]
  BY <1>2, <1>7, <1>16 DEF Sweeper!Crash, Sweeper!StopSweeper, Sweeper!Stopped, SweepTimes
<1>17. lock \in [token: Tokens \cup {NoToken}, left: 0..LockTtl]  BY DEF SweepTimes
<1>. QED
  BY <1>5, <1>6, <1>10, <1>11, <1>12, <1>13, <1>14, <1>15, <1>16, <1>17 DEF Sweeper!Next

----------------------------------------------------------------------------
\* The shutdown of a process (Shutdown).
Early == phase \in {"serving", "draining"}
AllDone == \A d \in Process!Drains : drain[d] = "done"

\* The resources are closed once, together, at the end of the draining.
ClosedTogether ==
    \A r \in Process!Resources :
      /\ Early <=> closer[r] = "none"
      /\ called[r] = IF Early THEN 0 ELSE 1

\* Work begins only while the process serves, and a call that has waited for it is
\* right that there is none, unless something failed.
DrainsWait ==
    /\ phase = "serving" => \A d \in Process!Drains : drain[d] = "none"
    /\ phase # "serving" => ~accepting
    /\ \A d \in Process!Drains : drain[d] = "done" /\ d # "worker_pause" => active = {} \/ failed

\* What is in hand when the resources are closed was left by the deadline or a failure.
LeftInHand ==
    /\ Early => cut = {}
    /\ ~Early => active = {} \/ timeUp \/ failed
    /\ cut # {} => timeUp \/ failed

Clean == cut = {} /\ active = {} /\ ~failed /\ AllDone

\* Exit code 0 is given to a clean shutdown, and a clean one stays so.
CodeIsRight ==
    /\ phase = "closing" /\ ~failed => Clean
    /\ phase \in {"returned", "exited"} /\ code = 0 => Clean /\ \A r \in Process!Resources : closer[r] = "done"

ShutdownInv == Process!TypeOK /\ ClosedTogether /\ DrainsWait /\ LeftInHand /\ CodeIsRight

\* What may have failed besides has failed already or fails now.
LEMMA Noted == ASSUME NEW before \in BOOLEAN, NEW after \in {before, TRUE}
               PROVE  after \in BOOLEAN /\ (before => after)
BY Zenon

\* A process that runs has closed nothing.
LEMMA ShutdownInit == Process!Init => ShutdownInv
<1>. SUFFICES ASSUME Process!Init PROVE ShutdownInv  OBVIOUS
<1>1. Process!TypeOK
  <2>1. drain \in [Process!Drains -> Process!CallState] /\ closer \in [Process!Resources -> Process!CallState] /\ called \in [Process!Resources -> Nat]
    BY DEF Process!Init, Process!CallState
  <2>2. api \in BOOLEAN /\ accepting \in BOOLEAN /\ timeUp \in BOOLEAN /\ failed \in BOOLEAN
    BY DEF Process!Init
  <2>. QED  BY <2>1, <2>2 DEF Process!Init, Process!TypeOK
<1>2. Early  BY DEF Process!Init, Early
<1>3. ClosedTogether  BY <1>2 DEF Process!Init, ClosedTogether
<1>4. DrainsWait  BY DEF Process!Init, DrainsWait
<1>5. LeftInHand  BY <1>2 DEF Process!Init, LeftInHand
<1>6. CodeIsRight  BY DEF Process!Init, CodeIsRight
<1>. QED  BY <1>1, <1>3, <1>4, <1>5, <1>6 DEF ShutdownInv

\* Every step of a shutdown keeps the invariant.
LEMMA ShutdownStep == ShutdownInv /\ [Process!Next]_(Process!vars) => ShutdownInv'
<1>. SUFFICES ASSUME ShutdownInv, [Process!Next]_(Process!vars) PROVE ShutdownInv'  OBVIOUS
<1>. USE DEF ShutdownInv, Process!TypeOK, ClosedTogether, DrainsWait, LeftInHand, CodeIsRight, Clean, AllDone,
             Early, Process!Drains, Process!Resources, Process!CallState, Process!Alive
<1>1. ASSUME NEW w \in Work, Process!BeginWork(w) PROVE ShutdownInv'
  BY <1>1 DEF Process!BeginWork
<1>2. ASSUME NEW w \in Work, Process!EndWork(w) PROVE ShutdownInv'  BY <1>2 DEF Process!EndWork
<1>3. CASE Process!Signal  BY <1>3 DEF Process!Signal, Process!StartDraining
<1>4. CASE Process!WorkerCloses  BY <1>4 DEF Process!WorkerCloses, Process!CloseAll
<1>5. CASE Process!ServerClosed  BY <1>5 DEF Process!ServerClosed, Process!CloseAll
<1>6. CASE Process!AllClosed  BY <1>6 DEF Process!AllClosed
<1>7. ASSUME NEW d \in Process!Drains, Process!DrainSettles(d) PROVE ShutdownInv'
  <2>. SUFFICES ASSUME NEW e \in Process!Drains, drain'[e] = "done", drain[e] # "done", e # "worker_pause"
                PROVE active' = {} \/ failed'
    <3>1. phase # "serving" /\ drain' \in [Process!Drains -> Process!CallState]
      BY <1>7 DEF Process!DrainSettles
    <3>2. api' = api /\ failed' \in BOOLEAN /\ (failed => failed')
      <4>1. failed' \in {failed, TRUE} /\ failed \in BOOLEAN /\ api' = api
        BY <1>7, Zenon DEF Process!DrainSettles
      <4>. QED  BY <4>1, Noted, Zenon
    <3>3. ~AllDone  BY <1>7 DEF Process!DrainSettles
    <3>4. Process!TypeOK' /\ ClosedTogether' /\ LeftInHand'
      BY <1>7, <3>1, <3>2 DEF Process!DrainSettles
    <3>5. CodeIsRight'  BY <1>7, <3>2, <3>3 DEF Process!DrainSettles
    <3>6. (phase # "serving" => ~accepting)'  BY <1>7 DEF Process!DrainSettles
    <3>7. phase' # "serving"  BY <1>7, <3>1 DEF Process!DrainSettles
    <3>. QED  BY <1>7, <3>1, <3>2, <3>4, <3>5, <3>6, <3>7 DEF Process!DrainSettles
  <2>1. e = d  BY <1>7 DEF Process!DrainSettles
  <2>. QED  BY <1>7, <2>1 DEF Process!DrainSettles, Process!Drained
<1>8. ASSUME NEW r \in Process!Resources, Process!CloserSettles(r) PROVE ShutdownInv'
  <2>1. ~Early  BY <1>8 DEF Process!CloserSettles
  <2>2. failed' \in BOOLEAN /\ (failed => failed')
    <3>1. failed' \in {failed, TRUE} /\ failed \in BOOLEAN  BY <1>8 DEF Process!CloserSettles
    <3>. QED  BY <3>1, Noted, Zenon
  <2>3. Process!TypeOK' /\ ClosedTogether'  BY <1>8, <2>1, <2>2 DEF Process!CloserSettles
  <2>4. DrainsWait' /\ LeftInHand'  BY <1>8, <2>1, <2>2 DEF Process!CloserSettles
  <2>5. CodeIsRight'  BY <1>8, <2>1, <2>2 DEF Process!CloserSettles
  <2>. QED  BY <2>3, <2>4, <2>5
<1>9. CASE Process!Deadline  BY <1>9 DEF Process!Deadline
<1>10. CASE Process!WorkerForced  BY <1>10 DEF Process!WorkerForced
<1>11. CASE Process!ApiForced
  BY <1>11 DEF Process!ApiForced, Process!CloseIfOpen, Process!CloseAll
<1>12. CASE Process!Exit  BY <1>12 DEF Process!Exit
<1>13. CASE UNCHANGED Process!vars  BY <1>13 DEF Process!vars
<1>. QED
  BY <1>1, <1>2, <1>3, <1>4, <1>5, <1>6, <1>7, <1>8, <1>9, <1>10, <1>11, <1>12, <1>13
    DEF Process!Next

\* The invariant orders the cleanup and gives the exit code its meaning.
LEMMA ShutdownInvGives == ShutdownInv => Process!EndsInOrder
BY
  DEF ShutdownInv, ClosedTogether, LeftInHand, CodeIsRight, Clean, Process!EndsInOrder,
      Process!DrainsBeforeClosing,
       Process!CleanExit, Process!ClosesOnce

\* Work is waited for before queue, Postgres and Redis are closed, each is closed once, and
\* exit code 0 means that nothing failed or was cut off (shutdown() of both runtime.ts).
THEOREM ShutdownEndsInOrder == Process!Spec => []Process!EndsInOrder
<1>1. Process!Spec => []ShutdownInv  BY ShutdownInit, ShutdownStep, PTL DEF Process!Spec
<1>. QED  BY <1>1, ShutdownInvGives, PTL

----------------------------------------------------------------------------
\* The webhook call (WebhookRequest).
\* Cardinality is that of FiniteSets.
LEMMA WebhookCardinality == \A S : Webhook!Cardinality(S) = Cardinality(S)
BY DEF Cardinality, Webhook!Cardinality

WebhookBefore == {"idle", "resolve", "lookup", "connect"}

\* A call that runs is within its deadline, and its lookup ends with it.
WebhookTimely ==
    \A c \in Calls :
      /\ Webhook!Running(c) => clock <= start[c] + Timeout
      /\ pc[c] = "lookup" => until[c] <= start[c] + Timeout

\* What a call may connect to, and every connection that is kept, was checked.
WebhookChecked ==
    /\ contacted \cap Private = {}
    /\ \A c \in Calls :
         /\ pc[c] \in {"connect", "sent", "receive"} => pinned[c] \cap Private = {}
         /\ pc[c] \in {"lookup", "connect", "sent", "receive"} => url[c] \in Hosts
    /\ \A h \in Hosts, a \in Private : <<h, a>> \notin idle

\* A hop posts once.
WebhookHops ==
    \A c \in Calls :
      /\ redirects[c] <= MaxRedirects /\ posts[c] <= redirects[c] + 1
      /\ pc[c] \in WebhookBefore => posts[c] <= redirects[c]

WebhookCapped(n) == IF n > MaxBody THEN MaxBody ELSE n
WebhookWhole == \A c \in Calls : /\ reply[c].kept = WebhookCapped(reply[c].sent)
                                 /\ pc[c] = "returned" => reply[c].over

WebhookCached ==
    /\ IsFiniteSet(DOMAIN cache) /\ Cardinality(DOMAIN cache) <= CacheMax
    /\ \A h \in DOMAIN cache : /\ cache[h].given \in Nat /\ cache[h].expires = cache[h].given + CacheTtl
                               /\ cache[h].addresses \in SUBSET (Public \cup Private)

WebhookTypes == Webhook!TypeOK /\ posts \in [Calls -> Nat]

WebhookInv == WebhookTypes /\ WebhookTimely /\ WebhookChecked /\ WebhookHops /\ WebhookWhole /\ WebhookCached

WebhookPcs == {"idle", "resolve", "lookup", "connect", "sent", "receive"} \cup Webhook!Ended
WebhookReply == [redirect : BOOLEAN, location : Webhook!Urls \cup {"none"},
                 sent : 0..MaxSent, kept : 0..MaxBody, over : BOOLEAN]

\* At the start nobody calls and nothing is cached.
LEMMA WebhookInitInv == Webhook!Init => WebhookInv
<1>. SUFFICES ASSUME Webhook!Init PROVE WebhookInv  OBVIOUS
<1>1. Webhook!NoReply \in WebhookReply /\ Webhook!NoReply.kept = 0 /\ Webhook!NoReply.sent = 0
  BY RequestAssumption DEF Webhook!NoReply, WebhookReply
<1>2. 0 \in 0..MaxNow /\ 0 \in 0..MaxNow + Timeout  BY RequestAssumption
<1>3. WebhookTypes
  BY <1>1, <1>2 DEF Webhook!Init, WebhookTypes, Webhook!TypeOK, WebhookReply, Webhook!Urls
<1>4. WebhookTimely /\ WebhookHops
  BY RequestAssumption DEF Webhook!Init, WebhookTimely, Webhook!Running, WebhookHops
<1>5. WebhookChecked  BY DEF Webhook!Init, WebhookChecked
<1>6. WebhookWhole  BY <1>1, RequestAssumption DEF Webhook!Init, WebhookWhole, WebhookCapped
<1>7. WebhookCached
  <2>1. DOMAIN cache = {}  BY DEF Webhook!Init
  <2>. QED  BY <2>1, FS_EmptySet, RequestAssumption DEF WebhookCached
<1>. QED  BY <1>3, <1>4, <1>5, <1>6, <1>7 DEF WebhookInv

\* Call c goes to p.
WebhookPcIs(c, p) == p \in WebhookPcs /\ pc' = [pc EXCEPT ![c] = p]

\* A call that goes on leaves the others where they are.
LEMMA WebhookPcTypes ==
  ASSUME WebhookInv, NEW c \in Calls, NEW p, WebhookPcIs(c, p)
  PROVE  pc' \in [Calls -> WebhookPcs] /\ pc'[c] = p /\ \A d \in Calls : d # c => pc'[d] = pc[d]
BY DEF WebhookInv, WebhookTypes, Webhook!TypeOK, WebhookPcIs, WebhookPcs

\* A call that fails leaves the rest to the others.
LEMMA WebhookFailsInv ==
  ASSUME WebhookInv, NEW c \in Calls, NEW p \in Webhook!Failed, Webhook!Ends(c, p),
         UNCHANGED <<clock, Webhook!callVars, cache, idle, contacted>>
  PROVE  WebhookInv'
<1>. USE DEF Webhook!callVars
<1>1. WebhookPcIs(c, p)  BY DEF WebhookPcIs, Webhook!Ends, WebhookPcs, Webhook!Ended
<1>2. /\ pc' \in [Calls -> WebhookPcs] /\ pc'[c] = p /\ \A d \in Calls : d # c => pc'[d] = pc[d]
      /\ p \in Webhook!Ended /\ p \notin {"returned", "idle", "resolve", "lookup", "connect", "sent", "receive"}
  BY <1>1, WebhookPcTypes DEF Webhook!Failed, Webhook!Ended
<1>3. WebhookTypes'  BY <1>2 DEF WebhookInv, WebhookTypes, Webhook!TypeOK, WebhookPcs
<1>4. WebhookTimely'  BY <1>2 DEF WebhookInv, WebhookTimely, Webhook!Running
<1>5. WebhookChecked'  BY <1>2 DEF WebhookInv, WebhookChecked
<1>6. WebhookHops'  BY <1>2 DEF WebhookInv, WebhookHops, WebhookBefore
<1>7. WebhookWhole'  BY <1>2 DEF WebhookInv, WebhookWhole, WebhookCapped
<1>8. WebhookCached'  BY DEF WebhookInv, WebhookCached
<1>. QED  BY <1>3, <1>4, <1>5, <1>6, <1>7, <1>8 DEF WebhookInv

\* A call starts its deadline.
LEMMA WebhookCallInv == ASSUME WebhookInv, NEW c \in Calls, Webhook!Call(c) PROVE WebhookInv'
<1>1. WebhookPcIs(c, "resolve") /\ pc[c] = "idle"
  BY DEF Webhook!Call, Webhook!Goes, WebhookPcIs, WebhookPcs
<1>2. pc' \in [Calls -> WebhookPcs] /\ pc'[c] = "resolve" /\ \A d \in Calls : d # c => pc'[d] = pc[d]
  BY <1>1, WebhookPcTypes
<1>3. /\ start' \in [Calls -> 0..MaxNow] /\ start'[c] = clock /\ clock \in Nat
      /\ \A d \in Calls : d # c => start'[d] = start[d]
  BY RequestAssumption DEF Webhook!Call, WebhookInv, WebhookTypes, Webhook!TypeOK
<1>4. UNCHANGED <<clock, redirects, url, until, asked, pinned, aborted, reply, posts, cache, idle, contacted>>
  BY DEF Webhook!Call
<1>5. WebhookTypes'  BY <1>2, <1>3, <1>4 DEF WebhookInv, WebhookTypes, Webhook!TypeOK, WebhookPcs
<1>6. WebhookTimely'
  <2>1. \A d \in Calls : d # c /\ Webhook!Running(d)' => Webhook!Running(d)
    BY <1>2 DEF Webhook!Running
  <2>. QED  BY <1>2, <1>3, <1>4, <2>1, RequestAssumption DEF WebhookInv, WebhookTimely
<1>7. WebhookChecked'  BY <1>2, <1>4 DEF WebhookInv, WebhookChecked
<1>8. WebhookHops'  BY <1>1, <1>2, <1>4 DEF WebhookInv, WebhookHops, WebhookBefore
<1>9. WebhookWhole'  BY <1>2, <1>4 DEF WebhookInv, WebhookWhole, WebhookCapped
<1>10. WebhookCached'  BY <1>4 DEF WebhookInv, WebhookCached
<1>. QED  BY <1>5, <1>6, <1>7, <1>8, <1>9, <1>10 DEF WebhookInv

\* The addresses that are pinned were all checked.
LEMMA WebhookPinInv ==
  ASSUME WebhookInv, NEW c \in Calls, NEW addresses \in SUBSET (Public \cup Private), Webhook!Pin(c, addresses),
         pc[c] \in {"resolve", "lookup"}, url[c] \in Hosts,
         UNCHANGED <<clock, start, redirects, url, until, aborted, reply, posts, idle, contacted>>,
         asked' \in [Calls -> [host : Hosts, at : 0..MaxNow] \cup {Webhook!NoLookup}],
         \A h \in DOMAIN cache' : h \in Hosts /\ cache'[h].expires \in 0..MaxNow + CacheTtl,
         WebhookCached'
  PROVE  WebhookInv'
<1>1. PICK p \in {"blocked_url", "connect"} :
        /\ WebhookPcIs(c, p)
        /\ p = "connect" => pinned' = [pinned EXCEPT ![c] = addresses] /\ addresses \cap Private = {}
        /\ p = "blocked_url" => UNCHANGED pinned
  BY
    DEF Webhook!Pin, Webhook!Ends, Webhook!Goes, WebhookPcIs, WebhookPcs, Webhook!Ended,
        Webhook!Failed
<1>2. pc' \in [Calls -> WebhookPcs] /\ pc'[c] = p /\ \A d \in Calls : d # c => pc'[d] = pc[d]
  BY <1>1, WebhookPcTypes
<1>3. /\ pinned' \in [Calls -> SUBSET (Public \cup Private)]
      /\ p = "connect" => pinned'[c] \cap Private = {}
      /\ \A d \in Calls : d # c => pinned'[d] = pinned[d]
  BY <1>1 DEF WebhookInv, WebhookTypes, Webhook!TypeOK
<1>4. WebhookTypes'  BY <1>2, <1>3 DEF WebhookInv, WebhookTypes, Webhook!TypeOK, WebhookPcs
<1>5. WebhookTimely'
  <2>1. \A d \in Calls : Webhook!Running(d)' => Webhook!Running(d)
    BY <1>2 DEF Webhook!Running, Webhook!Ended, Webhook!Failed
  <2>. QED  BY <1>2, <2>1 DEF WebhookInv, WebhookTimely
<1>6. WebhookChecked'  BY <1>2, <1>3 DEF WebhookInv, WebhookChecked
<1>7. WebhookHops'  BY <1>2 DEF WebhookInv, WebhookHops, WebhookBefore
<1>8. WebhookWhole'  BY <1>2 DEF WebhookInv, WebhookWhole, WebhookCapped
<1>. QED  BY <1>4, <1>5, <1>6, <1>7, <1>8 DEF WebhookInv

\* The addresses in the cache are those of an answer.
LEMMA WebhookLookupInv == ASSUME WebhookInv, NEW c \in Calls, Webhook!Lookup(c) PROVE WebhookInv'
<1>1. WebhookPcIs(c, "lookup") /\ pc[c] = "resolve"
  BY DEF Webhook!Lookup, Webhook!Goes, WebhookPcIs, WebhookPcs
<1>2. pc' \in [Calls -> WebhookPcs] /\ pc'[c] = "lookup" /\ \A d \in Calls : d # c => pc'[d] = pc[d]
  BY <1>1, WebhookPcTypes
<1>3. UNCHANGED <<clock, start, redirects, url, pinned, aborted, reply, posts, cache, idle, contacted>>
  BY DEF Webhook!Lookup
<1>4. clock \in 0..MaxNow /\ start[c] \in 0..MaxNow /\ url[c] \in Hosts /\ Webhook!Remaining(c) > 0
  BY DEF Webhook!Lookup, WebhookInv, WebhookTypes, Webhook!TypeOK
<1>5. clock + Webhook!Remaining(c) = start[c] + Timeout
  BY <1>4, RequestAssumption DEF Webhook!Remaining
<1>6. until' = [until EXCEPT ![c] = start[c] + Timeout]  BY <1>5 DEF Webhook!Lookup
<1>7. /\ until' \in [Calls -> 0..MaxNow + Timeout] /\ until'[c] = start[c] + Timeout
      /\ \A d \in Calls : d # c => until'[d] = until[d]
  BY <1>4, <1>6, RequestAssumption DEF WebhookInv, WebhookTypes, Webhook!TypeOK
<1>8. asked' \in [Calls -> [host : Hosts, at : 0..MaxNow] \cup {Webhook!NoLookup}]
  BY <1>4 DEF Webhook!Lookup, WebhookInv, WebhookTypes, Webhook!TypeOK
<1>9. WebhookTypes'
  BY <1>2, <1>3, <1>7, <1>8 DEF WebhookInv, WebhookTypes, Webhook!TypeOK, WebhookPcs
<1>10. WebhookTimely'
  <2>1. \A d \in Calls : Webhook!Running(d)' => Webhook!Running(d)
    BY <1>1, <1>2 DEF Webhook!Running, Webhook!Ended, Webhook!Failed
  <2>2. start[c] + Timeout \in Nat  BY <1>4, RequestAssumption
  <2>. QED  BY <1>2, <1>3, <1>7, <2>1, <2>2 DEF WebhookInv, WebhookTimely
<1>11. WebhookChecked'  BY <1>2, <1>3, <1>4 DEF WebhookInv, WebhookChecked
<1>12. WebhookHops'  BY <1>1, <1>2, <1>3 DEF WebhookInv, WebhookHops, WebhookBefore
<1>13. WebhookWhole'  BY <1>2, <1>3 DEF WebhookInv, WebhookWhole, WebhookCapped
<1>14. WebhookCached'  BY <1>3 DEF WebhookInv, WebhookCached
<1>. QED  BY <1>9, <1>10, <1>11, <1>12, <1>13, <1>14 DEF WebhookInv

\* An answer is kept under the name that was asked for, with its time, and in bounds.
LEMMA WebhookAnswerCached ==
  ASSUME WebhookInv, NEW c \in Calls, NEW addresses \in SUBSET (Public \cup Private), Webhook!LookupAnswers(c, addresses)
  PROVE  /\ WebhookCached'
         /\ \A h \in DOMAIN cache' : h \in Hosts /\ cache'[h].expires \in 0..MaxNow + CacheTtl
<1>. DEFINE entry == [addresses |-> addresses, expires |-> Webhook!Expiry(c), given |-> asked[c].at]
            host == asked[c].host
<1>1. cache' = [h \in DOMAIN Webhook!Room \cup {host} |-> IF h = host THEN entry ELSE Webhook!Room[h]]
  BY DEF Webhook!LookupAnswers
<1>2. asked[c] \in [host : Hosts, at : 0..MaxNow]
  BY DEF Webhook!LookupAnswers, WebhookInv, WebhookTypes, Webhook!TypeOK
<1>3. host \in Hosts /\ asked[c].at \in 0..MaxNow  BY <1>2
<1>4. entry.given \in Nat /\ entry.expires = entry.given + CacheTtl /\ entry.expires \in 0..MaxNow + CacheTtl
      /\ entry.addresses \in SUBSET (Public \cup Private)
  BY <1>3, RequestAssumption DEF Webhook!Expiry
<1>5. /\ IsFiniteSet(DOMAIN Webhook!Room) /\ Cardinality(DOMAIN Webhook!Room) + 1 <= CacheMax
      /\ \A h \in DOMAIN Webhook!Room : h \in DOMAIN cache /\ Webhook!Room[h] = cache[h]
  <2>1. CASE Cardinality(DOMAIN cache) >= CacheMax
    <3>1. DOMAIN Webhook!Room = {}  BY <2>1, WebhookCardinality DEF Webhook!Room
    <3>. QED  BY <3>1, FS_EmptySet, RequestAssumption
  <2>2. CASE ~(Cardinality(DOMAIN cache) >= CacheMax)
    <3>1. Webhook!Room = cache  BY <2>2, WebhookCardinality DEF Webhook!Room
    <3>2. IsFiniteSet(DOMAIN cache) /\ Cardinality(DOMAIN cache) \in Nat
      BY FS_CardinalityType DEF WebhookInv, WebhookCached
    <3>. QED  BY <2>2, <3>1, <3>2, RequestAssumption
  <2>. QED  BY <2>1, <2>2
<1>. HIDE DEF entry, host
<1>6. /\ DOMAIN cache' = DOMAIN Webhook!Room \cup {host}
      /\ \A h \in DOMAIN cache' : cache'[h] = entry \/ (h \in DOMAIN cache /\ cache'[h] = cache[h])
  BY <1>1, <1>5
<1>7. IsFiniteSet(DOMAIN cache') /\ Cardinality(DOMAIN cache') <= CacheMax
  <2>1. /\ IsFiniteSet(DOMAIN Webhook!Room \cup {host})
        /\ \/ Cardinality(DOMAIN Webhook!Room \cup {host}) = Cardinality(DOMAIN Webhook!Room)
           \/ Cardinality(DOMAIN Webhook!Room \cup {host}) = Cardinality(DOMAIN Webhook!Room) + 1
    BY <1>5, FS_AddElement
  <2>2. Cardinality(DOMAIN Webhook!Room) \in Nat  BY <1>5, FS_CardinalityType
  <2>. QED  BY <1>5, <1>6, <2>1, <2>2, RequestAssumption
<1>8. \A h \in DOMAIN cache' : cache'[h].given \in Nat /\ cache'[h].expires = cache'[h].given + CacheTtl
                             /\ cache'[h].addresses \in SUBSET (Public \cup Private)
  BY <1>4, <1>6 DEF WebhookInv, WebhookCached
<1>9. \A h \in DOMAIN cache' : h \in Hosts /\ cache'[h].expires \in 0..MaxNow + CacheTtl
  BY <1>3, <1>4, <1>5, <1>6 DEF WebhookInv, WebhookTypes, Webhook!TypeOK
<1>. QED  BY <1>7, <1>8, <1>9 DEF WebhookCached

\* A step that leaves the calls as they are, but for what they have asked.
LEMMA WebhookOnlyCache ==
  ASSUME WebhookInv, UNCHANGED <<clock, pc, start, redirects, url, until, pinned, aborted, reply, posts, idle, contacted>>,
         asked' \in [Calls -> [host : Hosts, at : 0..MaxNow] \cup {Webhook!NoLookup}],
         \A h \in DOMAIN cache' : h \in Hosts /\ cache'[h].expires \in 0..MaxNow + CacheTtl,
         WebhookCached'
  PROVE  WebhookInv'
<1>1. WebhookTypes'  BY DEF WebhookInv, WebhookTypes, Webhook!TypeOK
<1>2. WebhookTimely' /\ WebhookHops'
  BY DEF WebhookInv, WebhookTimely, Webhook!Running, WebhookHops
<1>3. WebhookChecked' /\ WebhookWhole'
  BY DEF WebhookInv, WebhookChecked, WebhookWhole, WebhookCapped
<1>. QED  BY <1>1, <1>2, <1>3 DEF WebhookInv

\* The answer to a lookup comes before its end.
LEMMA WebhookLookupAnswersInv ==
  ASSUME WebhookInv, NEW c \in Calls, NEW addresses \in SUBSET (Public \cup Private), Webhook!LookupAnswers(c, addresses)
  PROVE  WebhookInv'
<1>1. asked' \in [Calls -> [host : Hosts, at : 0..MaxNow] \cup {Webhook!NoLookup}]
  BY DEF Webhook!LookupAnswers, WebhookInv, WebhookTypes, Webhook!TypeOK
<1>2. UNCHANGED <<clock, start, redirects, url, until, aborted, reply, posts, idle, contacted>>
  BY DEF Webhook!LookupAnswers
<1>3. CASE pc[c] = "lookup"
  <2>1. Webhook!Pin(c, addresses) /\ url[c] \in Hosts
    BY <1>3 DEF Webhook!LookupAnswers, WebhookInv, WebhookChecked
  <2>. QED  BY <1>1, <1>2, <1>3, <2>1, WebhookAnswerCached, WebhookPinInv
<1>4. CASE pc[c] # "lookup"
  <2>1. UNCHANGED <<pc, pinned>>  BY <1>4 DEF Webhook!LookupAnswers
  <2>. QED  BY <1>1, <1>2, <2>1, WebhookAnswerCached, WebhookOnlyCache
<1>. QED  BY <1>3, <1>4

\* A lookup that fails, or is given up at its end, caches nothing.
LEMMA WebhookLookupFailsInv ==
  ASSUME WebhookInv, NEW c \in Calls, Webhook!LookupFails(c)
  PROVE  WebhookInv'
<1>1. asked' \in [Calls -> [host : Hosts, at : 0..MaxNow] \cup {Webhook!NoLookup}]
  BY DEF Webhook!LookupFails, WebhookInv, WebhookTypes, Webhook!TypeOK
<1>2. UNCHANGED <<clock, start, redirects, url, until, pinned, aborted, reply, posts, cache, idle, contacted>>
  BY DEF Webhook!LookupFails
<1>3. CASE UNCHANGED pc
  BY <1>1, <1>2, <1>3, WebhookOnlyCache
    DEF WebhookInv, WebhookTypes, Webhook!TypeOK, WebhookCached
<1>4. CASE pc[c] = "lookup" /\ Webhook!Ends(c, "dns_error")
  <2>1. WebhookPcIs(c, "dns_error")
    BY <1>4 DEF WebhookPcIs, Webhook!Ends, WebhookPcs, Webhook!Ended, Webhook!Failed
  <2>2. pc' \in [Calls -> WebhookPcs] /\ pc'[c] = "dns_error" /\ \A d \in Calls : d # c => pc'[d] = pc[d]
    BY <2>1, WebhookPcTypes
  <2>3. WebhookTypes'
    BY <1>1, <1>2, <2>2 DEF WebhookInv, WebhookTypes, Webhook!TypeOK, WebhookPcs
  <2>4. WebhookTimely'
    BY <1>2, <2>2 DEF WebhookInv, WebhookTimely, Webhook!Running, Webhook!Ended, Webhook!Failed
  <2>5. WebhookChecked'  BY <1>2, <2>2 DEF WebhookInv, WebhookChecked
  <2>6. WebhookHops'  BY <1>2, <2>2 DEF WebhookInv, WebhookHops, WebhookBefore
  <2>7. WebhookWhole'  BY <1>2, <2>2 DEF WebhookInv, WebhookWhole, WebhookCapped
  <2>8. WebhookCached'  BY <1>2 DEF WebhookInv, WebhookCached
  <2>. QED  BY <2>3, <2>4, <2>5, <2>6, <2>7, <2>8 DEF WebhookInv
<1>. QED  BY <1>3, <1>4 DEF Webhook!LookupFails

\* What is cached and fresh was checked.
LEMMA WebhookCacheHitInv ==
  ASSUME WebhookInv, NEW c \in Calls, Webhook!CacheHit(c)
  PROVE  WebhookInv'
<1>. DEFINE addresses == cache[url[c]].addresses
<1>1. /\ pc[c] = "resolve" /\ url[c] \in Hosts /\ Webhook!Pin(c, addresses)
      /\ UNCHANGED <<clock, start, redirects, url, until, asked, aborted, reply, posts, cache, idle, contacted>>
  BY DEF Webhook!CacheHit
<1>2. addresses \in SUBSET (Public \cup Private)
  BY DEF Webhook!CacheHit, Webhook!Fresh, WebhookInv, WebhookCached
<1>3. asked' \in [Calls -> [host : Hosts, at : 0..MaxNow] \cup {Webhook!NoLookup}]
  BY <1>1 DEF WebhookInv, WebhookTypes, Webhook!TypeOK
<1>4. /\ WebhookCached'
      /\ \A h \in DOMAIN cache' : h \in Hosts /\ cache'[h].expires \in 0..MaxNow + CacheTtl
  BY <1>1 DEF WebhookInv, WebhookCached, WebhookTypes, Webhook!TypeOK
<1>. HIDE DEF addresses
<1>. QED  BY <1>1, <1>2, <1>3, <1>4, WebhookPinInv

\* A call connects to an address that was checked, once for each hop.
LEMMA WebhookConnectInv ==
  ASSUME WebhookInv, NEW c \in Calls, Webhook!Connect(c)
  PROVE  WebhookInv'
<1>1. WebhookPcIs(c, "sent") /\ pc[c] = "connect"
  BY DEF Webhook!Connect, Webhook!Goes, WebhookPcIs, WebhookPcs
<1>2. pc' \in [Calls -> WebhookPcs] /\ pc'[c] = "sent" /\ \A d \in Calls : d # c => pc'[d] = pc[d]
  BY <1>1, WebhookPcTypes
<1>3. UNCHANGED <<clock, start, redirects, url, until, asked, aborted, cache>>
  BY DEF Webhook!Connect
<1>4. PICK a \in pinned[c] \cup {b \in Public \cup Private : <<url[c], b>> \in idle} :
        /\ contacted' = contacted \cup {a}
        /\ pinned' = [pinned EXCEPT ![c] = {a}]
        /\ idle' = idle \ {<<url[c], a>>}
  BY DEF Webhook!Connect
<1>5. a \in Public \cup Private /\ a \notin Private
  BY <1>1 DEF WebhookInv, WebhookTypes, Webhook!TypeOK, WebhookChecked
<1>6. /\ pinned' \in [Calls -> SUBSET (Public \cup Private)] /\ pinned'[c] = {a}
      /\ \A d \in Calls : d # c => pinned'[d] = pinned[d]
  BY <1>4, <1>5 DEF WebhookInv, WebhookTypes, Webhook!TypeOK
<1>7. /\ posts' \in [Calls -> Nat] /\ posts'[c] = posts[c] + 1
      /\ \A d \in Calls : d # c => posts'[d] = posts[d]
  BY DEF Webhook!Connect, WebhookInv, WebhookTypes
<1>8. Webhook!NoReply \in WebhookReply /\ Webhook!NoReply.kept = 0 /\ Webhook!NoReply.sent = 0
  BY RequestAssumption DEF Webhook!NoReply, WebhookReply
<1>9. reply' \in [Calls -> WebhookReply] /\ reply'[c] = Webhook!NoReply /\ \A d \in Calls : d # c => reply'[d] = reply[d]
  BY <1>8 DEF Webhook!Connect, WebhookInv, WebhookTypes, Webhook!TypeOK, WebhookReply
<1>10. WebhookTypes'
  BY <1>2, <1>3, <1>4, <1>6, <1>7, <1>9
    DEF WebhookInv, WebhookTypes, Webhook!TypeOK, WebhookPcs, WebhookReply
<1>11. WebhookTimely'
  <2>1. \A d \in Calls : Webhook!Running(d)' => Webhook!Running(d)
    BY <1>1, <1>2 DEF Webhook!Running, Webhook!Ended, Webhook!Failed
  <2>. QED  BY <1>2, <1>3, <2>1 DEF WebhookInv, WebhookTimely
<1>12. WebhookChecked'  BY <1>2, <1>3, <1>1, <1>4, <1>5, <1>6 DEF WebhookInv, WebhookChecked
<1>13. WebhookHops'
  BY <1>1, <1>2, <1>3, <1>7
    DEF WebhookInv, WebhookHops, WebhookBefore, WebhookTypes, Webhook!TypeOK
<1>14. WebhookWhole'
  BY <1>2, <1>8, <1>9, RequestAssumption DEF WebhookInv, WebhookWhole, WebhookCapped
<1>15. WebhookCached'  BY <1>3 DEF WebhookInv, WebhookCached
<1>. QED  BY <1>10, <1>11, <1>12, <1>13, <1>14, <1>15 DEF WebhookInv

\* A step that only reads what the receiver sends.
LEMMA WebhookOnlyReply ==
  ASSUME WebhookInv, NEW c \in Calls, WebhookPcIs(c, "receive"), pc[c] \in {"sent", "receive"},
         UNCHANGED <<clock, start, redirects, url, until, asked, pinned, aborted, posts, cache, idle, contacted>>,
         NEW v \in WebhookReply, v.kept = WebhookCapped(v.sent), reply' = [reply EXCEPT ![c] = v]
  PROVE  WebhookInv'
<1>1. pc' \in [Calls -> WebhookPcs] /\ pc'[c] = "receive" /\ \A d \in Calls : d # c => pc'[d] = pc[d]
  BY WebhookPcTypes
<1>2. reply' \in [Calls -> WebhookReply] /\ reply'[c] = v /\ \A d \in Calls : d # c => reply'[d] = reply[d]
  BY DEF WebhookInv, WebhookTypes, Webhook!TypeOK, WebhookReply
<1>3. WebhookTypes'
  BY <1>1, <1>2 DEF WebhookInv, WebhookTypes, Webhook!TypeOK, WebhookPcs, WebhookReply
<1>4. WebhookTimely'
  <2>1. \A d \in Calls : Webhook!Running(d)' => Webhook!Running(d)
    BY <1>1 DEF Webhook!Running, Webhook!Ended, Webhook!Failed
  <2>. QED  BY <1>1, <2>1 DEF WebhookInv, WebhookTimely
<1>5. WebhookChecked'  BY <1>1 DEF WebhookInv, WebhookChecked
<1>6. WebhookHops'  BY <1>1 DEF WebhookInv, WebhookHops, WebhookBefore
<1>7. WebhookWhole'  BY <1>1, <1>2 DEF WebhookInv, WebhookWhole, WebhookCapped
<1>8. WebhookCached'  BY DEF WebhookInv, WebhookCached
<1>. QED  BY <1>3, <1>4, <1>5, <1>6, <1>7, <1>8 DEF WebhookInv

\* A response begins: another hop if one is left.
LEMMA WebhookRespondsInv ==
  ASSUME WebhookInv, NEW c \in Calls, NEW redirect \in BOOLEAN, NEW location \in Webhook!Urls \cup {"none"},
         Webhook!RespondsWith(c, redirect, location)
  PROVE  WebhookInv'
<1>. DEFINE v == [reply[c] EXCEPT !.redirect = redirect, !.location = location]
<1>1. /\ WebhookPcIs(c, "receive") /\ pc[c] = "sent"
      /\ UNCHANGED <<clock, start, redirects, url, until, asked, pinned, aborted, posts, cache, idle, contacted>>
  BY DEF Webhook!RespondsWith, Webhook!Goes, WebhookPcIs, WebhookPcs
<1>2. reply[c] \in WebhookReply /\ reply[c].kept = WebhookCapped(reply[c].sent)
  BY DEF WebhookInv, WebhookTypes, Webhook!TypeOK, WebhookReply, WebhookWhole
<1>3. v \in WebhookReply /\ v.kept = reply[c].kept /\ v.sent = reply[c].sent
  BY <1>2 DEF WebhookReply
<1>4. reply' = [reply EXCEPT ![c] = v]
  BY <1>2 DEF Webhook!RespondsWith, WebhookInv, WebhookTypes, Webhook!TypeOK, WebhookReply
<1>. HIDE DEF v
<1>. QED  BY <1>1, <1>2, <1>3, <1>4, WebhookOnlyReply

\* Of the body no more than MaxBody is kept.
LEMMA WebhookDataInv ==
  ASSUME WebhookInv, NEW c \in Calls, NEW n \in 1..2, Webhook!Data(c, n)
  PROVE  WebhookInv'
<1>. DEFINE v == [reply[c] EXCEPT !.sent = @ + n, !.kept = Webhook!Kept(c, n)]
<1>1. /\ pc[c] = "receive" /\ UNCHANGED pc
      /\ UNCHANGED <<clock, start, redirects, url, until, asked, pinned, aborted, posts, cache, idle, contacted>>
  BY DEF Webhook!Data
<1>2. WebhookPcIs(c, "receive")
  BY <1>1 DEF WebhookPcIs, WebhookPcs, WebhookInv, WebhookTypes, Webhook!TypeOK
<1>3. reply[c] \in WebhookReply /\ reply[c].kept = WebhookCapped(reply[c].sent) /\ reply[c].sent + n <= MaxSent
      /\ reply[c].sent \in Nat /\ reply[c].kept \in Nat
  BY DEF Webhook!Data, WebhookInv, WebhookTypes, Webhook!TypeOK, WebhookReply, WebhookWhole
<1>4. Webhook!Kept(c, n) \in 0..MaxBody /\ reply[c].sent + n \in 0..MaxSent
      /\ Webhook!Kept(c, n) = WebhookCapped(reply[c].sent + n)
  BY <1>3, RequestAssumption DEF Webhook!Kept, WebhookCapped
<1>5. v \in WebhookReply /\ v.kept = Webhook!Kept(c, n) /\ v.sent = reply[c].sent + n
  BY <1>3, <1>4 DEF WebhookReply
<1>6. reply' = [reply EXCEPT ![c] = v]
  BY <1>3 DEF Webhook!Data, WebhookInv, WebhookTypes, Webhook!TypeOK, WebhookReply
<1>. HIDE DEF v
<1>. QED  BY <1>1, <1>2, <1>4, <1>5, <1>6, WebhookOnlyReply

\* The body has come to its end.
LEMMA WebhookEndInv == ASSUME WebhookInv, NEW c \in Calls, Webhook!End(c) PROVE WebhookInv'
<1>. DEFINE v == [reply[c] EXCEPT !.over = TRUE]
<1>1. /\ pc[c] = "receive" /\ idle' = idle \cup {<<url[c], a>> : a \in pinned[c]}
      /\ UNCHANGED <<clock, start, until, asked, pinned, aborted, posts, cache, contacted>>
  BY DEF Webhook!End
<1>2. PICK p \in {"returned", "too_many_redirects", "resolve"} :
        /\ WebhookPcIs(c, p)
        /\ p # "resolve" => UNCHANGED <<redirects, url>>
        /\ p = "resolve" => /\ Webhook!Followable(c) /\ redirects' = [redirects EXCEPT ![c] = @ + 1]
                            /\ reply[c].location # "none" /\ url' = [url EXCEPT ![c] = reply[c].location]
  BY
    DEF Webhook!End, Webhook!Ends, Webhook!Goes, WebhookPcIs, WebhookPcs, Webhook!Ended,
        Webhook!Failed
<1>3. pc' \in [Calls -> WebhookPcs] /\ pc'[c] = p /\ \A d \in Calls : d # c => pc'[d] = pc[d]
  BY <1>2, WebhookPcTypes
<1>4. reply[c] \in WebhookReply /\ reply[c].kept = WebhookCapped(reply[c].sent)
  BY DEF WebhookInv, WebhookTypes, Webhook!TypeOK, WebhookReply, WebhookWhole
<1>5. v \in WebhookReply /\ v.kept = reply[c].kept /\ v.sent = reply[c].sent /\ v.over
  BY <1>4 DEF WebhookReply
<1>6. reply' = [reply EXCEPT ![c] = v]
  BY <1>4 DEF Webhook!End, WebhookInv, WebhookTypes, Webhook!TypeOK, WebhookReply
<1>. HIDE DEF v
<1>7. reply' \in [Calls -> WebhookReply] /\ reply'[c] = v /\ \A d \in Calls : d # c => reply'[d] = reply[d]
  BY <1>5, <1>6 DEF WebhookInv, WebhookTypes, Webhook!TypeOK, WebhookReply
<1>8. url[c] \in Hosts /\ pinned[c] \subseteq Public \cup Private /\ pinned[c] \cap Private = {}
  BY <1>1 DEF WebhookInv, WebhookTypes, Webhook!TypeOK, WebhookChecked
<1>9. url' \in [Calls -> Webhook!Urls] /\ \A d \in Calls : d # c => url'[d] = url[d]
  <2>1. reply[c].location \in Webhook!Urls \cup {"none"}  BY <1>4 DEF WebhookReply
  <2>. QED  BY <1>2, <2>1 DEF WebhookInv, WebhookTypes, Webhook!TypeOK
<1>10. /\ redirects' \in [Calls -> Nat] /\ \A d \in Calls : d # c => redirects'[d] = redirects[d]
       /\ p = "resolve" => redirects'[c] = redirects[c] + 1 /\ redirects[c] < MaxRedirects
       /\ p # "resolve" => redirects'[c] = redirects[c]
  BY <1>2 DEF Webhook!Followable, WebhookInv, WebhookTypes, Webhook!TypeOK
<1>11. idle' \subseteq Hosts \X (Public \cup Private) /\ \A h \in Hosts, a \in Private : <<h, a>> \notin idle'
  BY <1>1, <1>8 DEF WebhookInv, WebhookTypes, Webhook!TypeOK, WebhookChecked
<1>12. WebhookTypes'
  BY <1>1, <1>3, <1>7, <1>9, <1>10, <1>11
    DEF WebhookInv, WebhookTypes, Webhook!TypeOK, WebhookPcs, WebhookReply
<1>13. WebhookTimely'
  <2>1. \A d \in Calls : Webhook!Running(d)' => Webhook!Running(d)
    BY <1>1, <1>3 DEF Webhook!Running, Webhook!Ended, Webhook!Failed
  <2>. QED  BY <1>1, <1>3, <2>1 DEF WebhookInv, WebhookTimely
<1>14. WebhookChecked'  BY <1>1, <1>3, <1>9, <1>11 DEF WebhookInv, WebhookChecked
<1>15. WebhookHops'
  <2>1. redirects[c] \in Nat /\ posts[c] \in Nat  BY DEF WebhookInv, WebhookTypes, Webhook!TypeOK
  <2>. QED
    BY <1>1, <1>3, <1>10, <2>1, RequestAssumption DEF WebhookInv, WebhookHops, WebhookBefore
<1>16. WebhookWhole'  BY <1>3, <1>4, <1>5, <1>7 DEF WebhookInv, WebhookWhole, WebhookCapped
<1>17. WebhookCached'  BY <1>1 DEF WebhookInv, WebhookCached
<1>. QED  BY <1>12, <1>13, <1>14, <1>15, <1>16, <1>17 DEF WebhookInv

\* The deadline aborts the call.
LEMMA WebhookAbortInv == ASSUME WebhookInv, NEW c \in Calls, Webhook!Abort(c) PROVE WebhookInv'
<1>1. UNCHANGED <<clock, pc, start, redirects, url, until, asked, pinned, reply, posts, cache, idle, contacted>>
  BY DEF Webhook!Abort
<1>2. WebhookTypes'  BY <1>1 DEF Webhook!Abort, WebhookInv, WebhookTypes, Webhook!TypeOK
<1>3. WebhookTimely' /\ WebhookHops'
  BY <1>1 DEF WebhookInv, WebhookTimely, Webhook!Running, WebhookHops
<1>4. WebhookChecked' /\ WebhookWhole' /\ WebhookCached'
  BY <1>1 DEF WebhookInv, WebhookChecked, WebhookWhole, WebhookCapped, WebhookCached
<1>. QED  BY <1>2, <1>3, <1>4 DEF WebhookInv

\* Connections that are kept may close.
LEMMA WebhookIdleClosesInv == ASSUME WebhookInv, Webhook!IdleCloses PROVE WebhookInv'
<1>1. UNCHANGED <<clock, pc, Webhook!callVars, cache, contacted>> /\ idle' \subseteq idle
  BY DEF Webhook!IdleCloses
<1>2. WebhookTypes'  BY <1>1 DEF WebhookInv, WebhookTypes, Webhook!TypeOK, Webhook!callVars
<1>3. WebhookTimely' /\ WebhookHops'
  BY <1>1 DEF WebhookInv, WebhookTimely, Webhook!Running, WebhookHops, Webhook!callVars
<1>4. WebhookChecked'  BY <1>1 DEF WebhookInv, WebhookChecked, Webhook!callVars
<1>5. WebhookWhole' /\ WebhookCached'
  BY <1>1 DEF WebhookInv, WebhookWhole, WebhookCapped, WebhookCached, Webhook!callVars
<1>. QED  BY <1>2, <1>3, <1>4, <1>5 DEF WebhookInv

\* Time moves on only when every call that runs has time left.
LEMMA WebhookTickInv == ASSUME WebhookInv, Webhook!Tick PROVE WebhookInv'
<1>1. UNCHANGED <<pc, Webhook!callVars, cache, idle, contacted>> /\ clock' = clock + 1 /\ clock < MaxNow
      /\ \A c \in Calls : ~Webhook!Overdue(c)
  BY DEF Webhook!Tick
<1>2. WebhookTypes'
  BY <1>1, RequestAssumption DEF WebhookInv, WebhookTypes, Webhook!TypeOK, Webhook!callVars
<1>3. WebhookTimely'
  <2>. SUFFICES ASSUME NEW c \in Calls, Webhook!Running(c) PROVE clock + 1 <= start[c] + Timeout
    BY <1>1 DEF WebhookInv, WebhookTimely, Webhook!Running, Webhook!callVars
  <2>1. clock \in Nat /\ start[c] \in Nat /\ until[c] \in Nat /\ pc[c] \in WebhookPcs /\ ~Webhook!Overdue(c)
    BY <1>1, RequestAssumption DEF WebhookInv, WebhookTypes, Webhook!TypeOK, WebhookPcs
  <2>2. pc[c] \in {"lookup", "sent", "receive"}
    BY <2>1 DEF Webhook!Running, Webhook!Overdue, WebhookPcs
  <2>3. CASE pc[c] = "lookup"
    <3>1. clock < until[c] /\ until[c] <= start[c] + Timeout
      BY <2>1, <2>3 DEF Webhook!Overdue, WebhookInv, WebhookTimely
    <3>. QED  BY <2>1, <3>1, RequestAssumption
  <2>4. CASE pc[c] \in {"sent", "receive"}
    <3>1. ~(clock >= start[c] + Timeout)  BY <2>1, <2>4 DEF Webhook!Overdue
    <3>. QED  BY <2>1, <3>1, RequestAssumption
  <2>. QED  BY <2>2, <2>3, <2>4
<1>4. WebhookChecked' /\ WebhookHops'
  BY <1>1 DEF WebhookInv, WebhookChecked, WebhookHops, Webhook!callVars
<1>5. WebhookWhole' /\ WebhookCached'
  BY <1>1 DEF WebhookInv, WebhookWhole, WebhookCapped, WebhookCached, Webhook!callVars
<1>. QED  BY <1>2, <1>3, <1>4, <1>5 DEF WebhookInv

\* Every step of the calls keeps the invariant.
LEMMA WebhookStepInv == WebhookInv /\ [Webhook!Next]_(Webhook!vars) => WebhookInv'
<1>. SUFFICES ASSUME WebhookInv, [Webhook!Next]_(Webhook!vars) PROVE WebhookInv'  OBVIOUS
<1>1. CASE UNCHANGED Webhook!vars
  <2>1. UNCHANGED <<clock, pc, start, redirects, url, until, asked, pinned, aborted, reply, posts,
                    cache, idle, contacted>>
    BY <1>1 DEF Webhook!vars, Webhook!callVars
  <2>. QED  BY <2>1, WebhookOnlyCache DEF WebhookInv, WebhookTypes, Webhook!TypeOK, WebhookCached
<1>2. ASSUME NEW c \in Calls, Webhook!OutOfTime(c) \/ Webhook!Refuse(c) \/ Webhook!LookupTimeout(c) \/ Webhook!Breaks(c) \/ Webhook!Aborted(c)
      PROVE  WebhookInv'
  <2>1. UNCHANGED <<clock, Webhook!callVars, cache, idle, contacted>>
    BY <1>2
      DEF Webhook!OutOfTime, Webhook!Refuse, Webhook!LookupTimeout, Webhook!Breaks,
          Webhook!Aborted
  <2>2. \E p \in Webhook!Failed : Webhook!Ends(c, p)
    BY <1>2
      DEF Webhook!OutOfTime, Webhook!Refuse, Webhook!LookupTimeout, Webhook!Breaks,
          Webhook!Aborted, Webhook!Failed
  <2>. QED  BY <2>1, <2>2, WebhookFailsInv
<1>3. ASSUME NEW c \in Calls, Webhook!Call(c) \/ Webhook!CacheHit(c) \/ Webhook!Lookup(c) \/ Webhook!LookupFails(c) PROVE WebhookInv'
  BY <1>3, WebhookCallInv, WebhookCacheHitInv, WebhookLookupInv, WebhookLookupFailsInv
<1>4. ASSUME NEW c \in Calls,
             \E addresses \in SUBSET (Public \cup Private) \ {{}} : Webhook!LookupAnswers(c, addresses)
      PROVE  WebhookInv'
  BY <1>4, WebhookLookupAnswersInv
<1>5. ASSUME NEW c \in Calls,
             \/ Webhook!Connect(c) \/ Webhook!End(c) \/ Webhook!Abort(c)
             \/ \E redirect \in BOOLEAN, location \in Webhook!Urls \cup {"none"} : Webhook!RespondsWith(c, redirect, location)
             \/ \E n \in 1..2 : Webhook!Data(c, n)
      PROVE  WebhookInv'
  BY <1>5, WebhookConnectInv, WebhookEndInv, WebhookAbortInv, WebhookRespondsInv, WebhookDataInv
<1>6. CASE Webhook!IdleCloses  BY <1>6, WebhookIdleClosesInv
<1>7. CASE Webhook!Tick  BY <1>7, WebhookTickInv
<1>. QED  BY <1>1, <1>2, <1>3, <1>4, <1>5, <1>6, <1>7 DEF Webhook!Next, Webhook!Step

\* The invariant is more than what bounds a call.
LEMMA WebhookInvBounded == WebhookInv => Webhook!CallIsBounded
<1>. SUFFICES ASSUME WebhookInv PROVE Webhook!CallIsBounded  OBVIOUS
<1>1. Webhook!DeadlineKept  BY DEF WebhookInv, WebhookTimely, Webhook!DeadlineKept
<1>2. Webhook!OnlyCheckedAddresses
  BY DEF WebhookInv, WebhookChecked, Webhook!OnlyCheckedAddresses
<1>3. Webhook!RedirectsBounded
  <2>1. \A c \in Calls : redirects[c] \in Nat /\ posts[c] \in Nat
    BY DEF WebhookInv, WebhookTypes, Webhook!TypeOK
  <2>. QED  BY <2>1, RequestAssumption DEF WebhookInv, WebhookHops, Webhook!RedirectsBounded
<1>4. Webhook!WholeAnswer  BY DEF WebhookInv, WebhookWhole, WebhookCapped, Webhook!WholeAnswer
<1>5. Webhook!CacheIsFresh
  <2>1. clock \in Nat  BY DEF WebhookInv, WebhookTypes, Webhook!TypeOK
  <2>. QED
    BY <2>1, RequestAssumption, WebhookCardinality
      DEF WebhookInv, WebhookCached, Webhook!CacheIsFresh, Webhook!Fresh
<1>. QED  BY <1>1, <1>2, <1>3, <1>4, <1>5 DEF Webhook!CallIsBounded

----------------------------------------------------------------------------
\* The console's specification keeps the invariant of each of these services.
ServicesInv ==
    /\ IInv
    /\ SweepInv /\ SweepTimes /\ LockHasToken
    /\ ShutdownInv
    /\ WebhookInv

\* At the start each has its invariant, and a step of the whole keeps all of them.
LEMMA ServicesInvHolds == ConsoleSpec => []ServicesInv
<1>1. ConsoleInit => ServicesInv
  BY ServicesStart, InitInv, SweepInitInv, SweepTimesInit, LockHasTokenInit, ShutdownInit, WebhookInitInv
  DEF ServicesInv
<1>2. ServicesInv /\ [ConsoleNext]_allVars => ServicesInv'
  <2>. SUFFICES ASSUME ServicesInv, [ConsoleNext]_allVars PROVE ServicesInv'  OBVIOUS
  <2>1. /\ [Next]_vars /\ [Sweeper!Next]_(Sweeper!vars)
        /\ [Process!Next]_(Process!vars) /\ [Webhook!Next]_(Webhook!vars)
    BY ServicesStep
  <2>2. IInv'  BY <2>1, InvStep DEF ServicesInv
  <2>3. SweepInv'  BY <2>1, SweepStepInv, LockAssumption DEF ServicesInv
  <2>4. SweepTimes'  BY <2>1, SweepTimesStep DEF ServicesInv
  <2>5. LockHasToken'  BY <2>1, <2>3, LockHasTokenStep, LockAssumption DEF ServicesInv
  <2>6. ShutdownInv'  BY <2>1, ShutdownStep DEF ServicesInv
  <2>7. WebhookInv'  BY <2>1, WebhookStepInv DEF ServicesInv
  <2>. QED  BY <2>2, <2>3, <2>4, <2>5, <2>6, <2>7 DEF ServicesInv
<1>. QED  BY <1>1, <1>2, PTL DEF ConsoleSpec

\* The variables of the services have their types.
THEOREM ServicesTyped == ConsoleSpec => []TypesOK
<1>1. ServicesInv => TypesOK
  <2>. SUFFICES ASSUME ServicesInv PROVE TypesOK  OBVIOUS
  <2>1. TypeOK  BY DEF ServicesInv, IInv
  <2>2. Sweeper!TypeOK
    <3>1. SweepLimited = [st: {"none", "asking", "acquired", "refused", "releasing"} \cup Sweeper!Running,
                          token: Tokens \cup {NoToken}, held: 0..LockTtl, left: 0..LockTtl, late: Nat]
      BY DEF SweepLimited, SweepStates, Sweeper!Running
    <3>. QED  BY <3>1 DEF ServicesInv, SweepInv, SweepTypes, SweepTimes, Sweeper!TypeOK
  <2>3. Process!TypeOK /\ Webhook!TypeOK  BY DEF ServicesInv, ShutdownInv, WebhookInv, WebhookTypes
  <2>. QED  BY <2>1, <2>2, <2>3 DEF TypesOK
<1>. QED  BY <1>1, ServicesInvHolds, PTL

\* Two processes sweep at once only when one has outlived its lock; at most one batch begins
\* after the deadline; after stopSweeper nothing of a sweep runs.
THEOREM SweepsAreApart == ConsoleSpec => []SweepsApart
<1>1. ServicesInv => SweepsApart  BY SweepInvGives DEF ServicesInv, SweepsApart
<1>. QED  BY <1>1, ServicesInvHolds, PTL

\* Work is waited for before queue, Postgres and Redis are closed, each is closed once, and
\* exit code 0 means that nothing failed or was cut off (shutdown() of both runtime.ts).
THEOREM ShutdownsEndInOrder == ConsoleSpec => []EndsInOrder
<1>1. ServicesInv => EndsInOrder  BY ShutdownInvGives DEF ServicesInv, EndsInOrder
<1>. QED  BY <1>1, ServicesInvHolds, PTL

\* A webhook call ends with its deadline, contacts only addresses that were checked within
\* the cache's life, follows a bounded number of redirects and keeps no torn answer.
THEOREM CallsAreBounded == ConsoleSpec => []CallIsBounded
<1>1. ServicesInv => CallIsBounded  BY WebhookInvBounded DEF ServicesInv, CallIsBounded
<1>. QED  BY <1>1, ServicesInvHolds, PTL
=============================================================================
