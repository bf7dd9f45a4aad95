------------------------------ MODULE FormsProofs ------------------------------
(***************************************************************************)
(* Theorems about the pages of the console that ask for one thing and show *)
(* the answer: SessionGate, LinkPages, SendEvent, SecretsOnce,             *)
(* TargetDialogs and DetailFetch, for any number of calls in flight and    *)
(* turns of the user. Each has its inductive invariant and, where a run    *)
(* checks one, the step lemma of its action property; ConsoleProofs lifts  *)
(* them all to the console's specification.                                *)
(*                                                                         *)
(* The gate: where a page sends its user depends on what the session was   *)
(* when it was rendered, and HopsLeft counts how many moves that can still *)
(* cause. The links: the call that may be taken asked about the link on    *)
(* the screen. Send event: a retry carries the body and the key of the     *)
(* post before it, so the event that key made is the one it would make.    *)
(* Secrets and dialogs: an answer may be late, but what it is put into is  *)
(* still, or again, about the same thing. The detail pages: of the calls   *)
(* in flight only the last may be taken, it is about the item on the       *)
(* screen, and after a replay it brings news of it.                        *)
(***************************************************************************)
EXTENDS ApiProofs

----------------------------------------------------------------------------
\* The session and its redirects (SessionGate).
GateAnyone == Gate!Roles \cup {Gate!NoOne}
GateVarTypes ==
    /\ who \in GateAnyone
    /\ session \in [as: GateAnyone, of: Nat] /\ session.of <= newest
    /\ loading \in BOOLEAN /\ error \in BOOLEAN
    /\ newest \in Gate!Requests
    /\ getMe \in [Gate!Requests -> [st: {"none", "sent", "answered", "failed"}, as: GateAnyone]]
    /\ path \in Gate!Protected \cup {"login"}
    /\ nav \in [banner: BOOLEAN, from: Gate!Protected \cup {"none"}, of: Nat]
    /\ handed \in BOOLEAN
    /\ request \in [kind: {"none", "login", "logout", "password", "workspace"},
                    st: {"none", "sent", "ok", "failed", "refresh"}, as: GateAnyone,
                    from: Gate!Protected \cup {"none"}, call: Nat]
    /\ hops \in Nat

\* The session loads while its last request is under way, and was told when neither it
\* loads nor there is an error.
GateLoadsFit ==
    /\ getMe[newest].st # "none" => loading
    /\ loading \/ error \/ session.of > 0

\* A banner is one of the login page; a refresh is of a request that was made.
GateFormsFit ==
    /\ nav.banner => path = "login"
    /\ request.st \in {"ok", "failed", "sent", "refresh"} => request.kind # "none"
    /\ request.st = "refresh" => request.kind # "password"

\* Where p is for nobody who is as he is.
GateWrong(p, as) == (p = "dashboard" /\ as = "platform") \/ (p = "admin" /\ as = "member")

\* The redirects that can still come from page p, when the session is as it is, when it
\* will be told once, when it is as it is and will be told once, when it will be told twice.
GateNow(p, from, as) ==
        IF p = "login"
        THEN IF as = Gate!NoOne THEN 0 ELSE IF from = "admin" /\ as = "member" THEN 2 ELSE 1
        ELSE IF as = Gate!NoOne \/ GateWrong(p, as) THEN 1 ELSE 0
GateOnce(p, from) == IF p = "login" /\ from = "admin" THEN 2 ELSE 1
GateNowAndOnce(p, from, as) ==
    IF as = Gate!NoOne
    THEN IF p = "login" THEN GateOnce(p, from) ELSE 1 + GateOnce("login", p)
    ELSE GateNow(p, from, as) + 1
GateTwice(p, from) == IF p = "admin" \/ (p = "login" /\ from = "admin") THEN 3 ELSE 2

\* The request under way will refresh the session.
GateExpected == request.st \in {"sent", "ok"} /\ request.kind # "password"

GateHopsLeft ==
    IF nav.banner THEN 0
    ELSE IF loading
         THEN IF GateExpected THEN GateTwice(path, nav.from) ELSE GateOnce(path, nav.from)
         ELSE IF GateExpected THEN GateNowAndOnce(path, nav.from, session.as)
                              ELSE GateNow(path, nav.from, session.as)
GateHopsBounded == hops + GateHopsLeft <= 3

GateInv == GateVarTypes /\ GateLoadsFit /\ GateFormsFit /\ GateHopsBounded

\* How the redirects compare that can still come.
LEMMA GateHopsCompare ==
  ASSUME NEW p \in Gate!Protected \cup {"login"}, NEW from \in Gate!Protected \cup {"none"},
           NEW as \in GateAnyone
  PROVE  /\ GateNow(p, from, as) \in 0..2 /\ GateOnce(p, from) \in 1..2
         /\ GateNowAndOnce(p, from, as) \in 1..3 /\ GateTwice(p, from) \in 2..3
         /\ GateNow(p, from, as) <= GateOnce(p, from) /\ GateNow(p, from, as) <= GateNowAndOnce(p,
              from, as)
         /\ GateOnce(p, from) <= GateNowAndOnce(p, from, as) /\ GateNowAndOnce(p, from,
              as) <= GateTwice(p, from)
         /\ GateOnce(p, from) <= GateTwice(p, from)
<1>1. GateOnce(p, from) \in {1, 2} /\ GateTwice(p, from) \in {2, 3} /\ GateNow(p, from, as) \in {0, 1,
        2}
  BY DEF GateNow, GateOnce, GateTwice
<1>2. ~(p = "login" /\ from = "admin" /\ as # Gate!NoOne) => GateNow(p, from, as) \in {0, 1}
  BY DEF GateNow
<1>3. GateOnce(p, from) = IF p = "login" /\ from = "admin" THEN 2 ELSE 1  BY DEF GateOnce
<1>4. GateTwice(p, from) = IF p = "admin" \/ (p = "login" /\ from = "admin") THEN 3 ELSE 2
  BY DEF GateTwice
<1>5. GateOnce("login", p) = IF p = "admin" THEN 2 ELSE 1  BY DEF GateOnce
<1>6. CASE as = Gate!NoOne
  <2>1. GateNowAndOnce(p, from, as) = IF p = "login" THEN GateOnce(p, from) ELSE 1 + GateOnce("login",
          p)
    BY <1>6 DEF GateNowAndOnce
  <2>2. GateNow(p, from, as) = IF p = "login" THEN 0 ELSE 1  BY <1>6 DEF GateNow
  <2>. QED  BY <1>1, <1>3, <1>4, <1>5, <2>1, <2>2
<1>7. CASE as # Gate!NoOne
  <2>1. GateNowAndOnce(p, from, as) = GateNow(p, from, as) + 1  BY <1>7 DEF GateNowAndOnce
  <2>2. p = "login" => GateNow(p, from, as) \in {1, 2}  BY <1>7 DEF GateNow
  <2>. DEFINE soon == GateNow(p, from, as)
              once == GateOnce(p, from)
              both == GateNowAndOnce(p, from, as)
              twice == GateTwice(p, from)
  <2>3. /\ soon \in {0, 1, 2} /\ (p = "login" => soon \in {1, 2}) /\ both = soon + 1
        /\ ~(p = "login" /\ from = "admin") => soon \in {0, 1}
        /\ once = IF p = "login" /\ from = "admin" THEN 2 ELSE 1
        /\ twice = IF p = "admin" \/ (p = "login" /\ from = "admin") THEN 3 ELSE 2
    BY <1>1, <1>2, <1>3, <1>4, <2>1, <2>2
  <2>. HIDE DEF soon, once, both, twice
  <2>4. /\ soon \in 0..2 /\ once \in 1..2 /\ both \in 1..3 /\ twice \in 2..3 /\ soon <= once
        /\ soon <= both
        /\ once <= both /\ both <= twice /\ once <= twice
    BY <2>3
  <2>. QED  BY <2>4 DEF soon, once, both, twice
<1>. QED  BY <1>6, <1>7

\* A redirect is one of those that could come.
LEMMA GateGuardSpends ==
  ASSUME NEW p \in Gate!Protected, NEW from \in Gate!Protected \cup {"none"}
  PROVE  /\ GateNow("login", p, Gate!NoOne) + 1 = GateNow(p, from, Gate!NoOne)
         /\ GateNowAndOnce("login", p, Gate!NoOne) + 1 = GateNowAndOnce(p, from, Gate!NoOne)
BY DEF Gate!Protected, GateNow, GateNowAndOnce, GateOnce, Gate!NoOne

\* Home from a page that is not for him is the redirect that could come.
LEMMA GateHomeSpends ==
  ASSUME NEW p \in Gate!Protected, NEW from \in Gate!Protected \cup {"none"}, NEW as \in Gate!Roles,
           GateWrong(p, as)
  PROVE  /\ GateNow(Gate!HomeOf(as), "none", as) + 1 = GateNow(p, from, as)
         /\ GateNowAndOnce(Gate!HomeOf(as), "none", as) + 1 = GateNowAndOnce(p, from, as)
<1>1. GateNow(Gate!HomeOf(as), "none", as) = 0 /\ GateNow(p, from, as) = 1
  BY DEF Gate!Protected, Gate!Roles, GateNow, GateWrong, Gate!HomeOf, Gate!NoOne
<1>2. as # Gate!NoOne  BY DEF Gate!Roles, Gate!NoOne
<1>3. /\ GateNowAndOnce(Gate!HomeOf(as), "none", as) = GateNow(Gate!HomeOf(as), "none", as) + 1
      /\ GateNowAndOnce(p, from, as) = GateNow(p, from, as) + 1
  BY <1>2 DEF GateNowAndOnce
<1>4. 0 + 1 = 1 /\ 1 + 1 = 2  OBVIOUS
<1>5. GateNowAndOnce(Gate!HomeOf(as), "none", as) = 1 /\ GateNowAndOnce(p, from, as) = 2
  BY <1>1, <1>3, <1>4, Zenon
<1>. QED  BY <1>1, <1>4, <1>5, Zenon

\* On from the login page is one of them too.
LEMMA GateLoginSpends ==
  ASSUME NEW from \in Gate!Protected \cup {"none"}, NEW as \in Gate!Roles
  PROVE  /\ Gate!PostLogin(from, as) \in Gate!Protected
         /\ GateNow(Gate!PostLogin(from, as), "none", as) + 1 = GateNow("login", from, as)
         /\ GateNowAndOnce(Gate!PostLogin(from, as), "none", as) + 1 = GateNowAndOnce("login", from, as)
<1>1. Gate!PostLogin(from, as) \in Gate!Protected /\ GateNow(Gate!PostLogin(from, as), "none",
        as) + 1 = GateNow("login", from, as)
  <2>1. Gate!PostLogin(from, as) \in Gate!Protected
    BY DEF Gate!Protected, Gate!Roles, Gate!PostLogin, Gate!HomeOf
  <2>2. Gate!PostLogin(from, as) # "login" /\ as # Gate!NoOne
    BY <2>1 DEF Gate!Protected, Gate!Roles, Gate!NoOne
  <2>3. GateNow(Gate!PostLogin(from, as), "none", as) = IF GateWrong(Gate!PostLogin(from, as),
          as) THEN 1 ELSE 0
    BY <2>2 DEF GateNow
  <2>4. GateWrong(Gate!PostLogin(from, as), as) <=> from = "admin" /\ as = "member"
    BY DEF Gate!Protected, Gate!Roles, GateWrong, Gate!PostLogin, Gate!HomeOf
  <2>5. GateNow("login", from, as) = IF from = "admin" /\ as = "member" THEN 2 ELSE 1
    BY <2>2 DEF GateNow
  <2>0. 0 + 1 = 1 /\ 1 + 1 = 2  OBVIOUS
  <2>6. CASE from = "admin" /\ as = "member"
    <3>1. GateNow(Gate!PostLogin(from, as), "none", as) = 1 /\ GateNow("login", from, as) = 2
      BY <2>3, <2>4, <2>5, <2>6
    <3>. QED  BY <2>1, <2>0, <3>1, Zenon
  <2>7. CASE ~(from = "admin" /\ as = "member")
    <3>1. GateNow(Gate!PostLogin(from, as), "none", as) = 0 /\ GateNow("login", from, as) = 1
      BY <2>3, <2>4, <2>5, <2>7
    <3>. QED  BY <2>1, <2>0, <3>1, Zenon
  <2>. QED  BY <2>6, <2>7
<1>2. as # Gate!NoOne  BY DEF Gate!Roles, Gate!NoOne
<1>3. /\ GateNowAndOnce(Gate!PostLogin(from, as), "none", as) = GateNow(Gate!PostLogin(from, as),
           "none", as) + 1
      /\ GateNowAndOnce("login", from, as) = GateNow("login", from, as) + 1
  BY <1>2 DEF GateNowAndOnce
<1>. QED  BY <1>1, <1>3

\* No more than three redirects can come, whatever the state.
LEMMA GateHopsLeftIs == ASSUME GateVarTypes PROVE GateHopsLeft \in 0..3
<1>1. path \in Gate!Protected \cup {"login"} /\ nav.from \in Gate!Protected \cup {"none"}
        /\ session.as \in GateAnyone
  BY DEF GateVarTypes
<1>2. /\ GateNow(path, nav.from, session.as) \in 0..2 /\ GateOnce(path, nav.from) \in 1..2
      /\ GateNowAndOnce(path, nav.from, session.as) \in 1..3 /\ GateTwice(path, nav.from) \in 2..3
  BY <1>1, GateHopsCompare
<1>. QED  BY <1>2 DEF GateHopsLeft

\* Where the user, or a form that is done, starts the count anew.
LEMMA GateRestarts == ASSUME GateVarTypes', hops' = 0 PROVE GateHopsBounded'
<1>1. GateHopsLeft' \in 0..3
  <2>1. path' \in Gate!Protected \cup {"login"} /\ nav'.from \in Gate!Protected \cup {"none"}
          /\ session'.as \in GateAnyone
    BY DEF GateVarTypes
  <2>2. /\ GateNow(path', nav'.from, session'.as) \in 0..2 /\ GateOnce(path', nav'.from) \in 1..2
        /\ GateNowAndOnce(path', nav'.from, session'.as) \in 1..3 /\ GateTwice(path',
             nav'.from) \in 2..3
    BY <2>1, GateHopsCompare
  <2>. QED  BY <2>2 DEF GateHopsLeft
<1>. DEFINE m == GateHopsLeft'
<1>2. m \in 0..3  BY <1>1
<1>. HIDE DEF m
<1>3. hops' + m <= 3  BY <1>2
<1>. QED  BY <1>3 DEF GateHopsBounded, m

\* Where no more redirects can come than before.
LEMMA GateNoMoreHops ==
  ASSUME GateInv, GateVarTypes', hops' = hops, GateHopsLeft' <= GateHopsLeft
  PROVE  GateHopsBounded'
<1>1. GateHopsLeft \in 0..3  BY GateHopsLeftIs DEF GateInv
<1>2. GateHopsLeft' \in 0..3
  <2>1. path' \in Gate!Protected \cup {"login"} /\ nav'.from \in Gate!Protected \cup {"none"}
          /\ session'.as \in GateAnyone
    BY DEF GateVarTypes
  <2>2. /\ GateNow(path', nav'.from, session'.as) \in 0..2 /\ GateOnce(path', nav'.from) \in 1..2
        /\ GateNowAndOnce(path', nav'.from, session'.as) \in 1..3 /\ GateTwice(path',
             nav'.from) \in 2..3
    BY <2>1, GateHopsCompare
  <2>. QED  BY <2>2 DEF GateHopsLeft
<1>3. hops \in Nat /\ hops + GateHopsLeft <= 3  BY DEF GateInv, GateVarTypes, GateHopsBounded
<1>. DEFINE m == GateHopsLeft'
            k == GateHopsLeft
<1>4. m \in 0..3 /\ k \in 0..3 /\ m <= k /\ hops + k <= 3  BY <1>1, <1>2, <1>3
<1>. HIDE DEF m, k
<1>5. hops' + m <= 3  BY <1>3, <1>4
<1>. QED  BY <1>5 DEF GateHopsBounded, m

\* The console is loaded: its session is asked for.
LEMMA GateInitInv == Gate!Init => GateInv
<1>. SUFFICES ASSUME Gate!Init PROVE GateInv  OBVIOUS
<1>1. /\ session = Gate!Unknown /\ loading = TRUE /\ error = FALSE /\ newest = 1
      /\ getMe = [n \in Gate!Requests |-> IF n = 1 THEN [Gate!NoCall EXCEPT !.st = "sent"]
           ELSE Gate!NoCall]
      /\ nav = Gate!NoNav /\ handed = FALSE /\ request = Gate!NoRequest /\ turns = 0 /\ hops = 0
  BY DEF Gate!Init
<1>2. path \in Gate!Protected \cup {"login"} /\ who \in GateAnyone  BY DEF Gate!Init, GateAnyone
<1>3. 1 \in Gate!Requests  BY GateAssumption DEF Gate!Requests
<1>4. GateVarTypes
  <2>1. session \in [as: GateAnyone, of: Nat] /\ session.of = 0 /\ session.of <= 1
    BY <1>1 DEF Gate!Unknown, GateAnyone
  <2>2. getMe \in [Gate!Requests -> [st: {"none", "sent", "answered", "failed"}, as: GateAnyone]]
    BY <1>1 DEF Gate!NoCall, GateAnyone
  <2>3. nav \in [banner: BOOLEAN, from: Gate!Protected \cup {"none"}, of: Nat]
    BY <1>1 DEF Gate!NoNav
  <2>4. request \in [kind: {"none", "login", "logout", "password", "workspace"},
                    st: {"none", "sent", "ok", "failed", "refresh"}, as: GateAnyone,
                    from: Gate!Protected \cup {"none"}, call: Nat]
    BY <1>1 DEF Gate!NoRequest, GateAnyone
  <2>. QED  BY <1>1, <1>2, <1>3, <2>1, <2>2, <2>3, <2>4 DEF GateVarTypes
<1>5. GateLoadsFit /\ GateFormsFit
  BY <1>1 DEF GateLoadsFit, GateFormsFit, Gate!NoNav, Gate!NoRequest
<1>6. GateHopsBounded
  <2>1. GateHopsLeft \in 0..3  BY <1>4, GateHopsLeftIs
  <2>. QED  BY <1>1, <2>1 DEF GateHopsBounded
<1>. QED  BY <1>4, <1>5, <1>6 DEF GateInv

\* refresh sends one more request.
LEMMA GateRefreshIs ==
  ASSUME GateInv, Gate!Refreshes
  PROVE  /\ newest' = newest + 1 /\ newest' \in Gate!Requests /\ newest \in Nat /\ loading' = TRUE
              /\ error' = FALSE
         /\ getMe' \in [Gate!Requests -> [st: {"none", "sent", "answered", "failed"}, as: GateAnyone]]
         /\ session.of <= newest'
<1>1. newest \in Nat  BY GateAssumption DEF GateInv, GateVarTypes, Gate!Requests
<1>. DEFINE m == newest + 1
<1>2. m \in Gate!Requests /\ getMe' = [getMe EXCEPT ![m].st = "sent"] /\ newest' = m
  BY DEF Gate!Refreshes
<1>. HIDE DEF m
<1>3. getMe' \in [Gate!Requests -> [st: {"none", "sent", "answered", "failed"}, as: GateAnyone]]
  BY <1>2 DEF GateInv, GateVarTypes
<1>4. session.of <= newest + 1  BY <1>1 DEF GateInv, GateVarTypes
<1>. QED  BY <1>1, <1>2, <1>3, <1>4 DEF Gate!Refreshes, m

\* A request for the session is answered, or lost.
LEMMA GateAnswersInv == ASSUME GateInv, NEW n \in Gate!Requests, Gate!Answers(n) PROVE GateInv'
<1>1. UNCHANGED <<who, session, loading, error, newest, path, nav, handed, request>> /\ hops' \in {0,
        hops}
      /\ getMe[n].st = "sent"
  BY DEF Gate!Answers, Gate!Quiet, Gate!Turn
<1>2. /\ getMe' \in [Gate!Requests -> [st: {"none", "sent", "answered", "failed"}, as: GateAnyone]]
      /\ \A k \in Gate!Requests : k # n => getMe'[k] = getMe[k]
  BY DEF Gate!Answers, GateInv, GateVarTypes
<1>3. GateVarTypes'  BY <1>1, <1>2 DEF GateInv, GateVarTypes
<1>4. GateLoadsFit'  BY <1>1, <1>2 DEF GateInv, GateVarTypes, GateLoadsFit
<1>5. GateFormsFit'  BY <1>1 DEF GateInv, GateFormsFit
<1>6. GateHopsLeft' = GateHopsLeft  BY <1>1 DEF GateHopsLeft, GateExpected
<1>7. GateHopsBounded'
  <2>1. CASE hops' = 0  BY <1>3, <2>1, GateRestarts
  <2>2. CASE hops' = hops
    <3>1. GateHopsLeft' <= GateHopsLeft  BY <1>6, GateHopsLeftIs DEF GateInv
    <3>. QED  BY <1>3, <2>2, <3>1, GateNoMoreHops
  <2>. QED  BY <1>1, <2>1, <2>2
<1>. QED  BY <1>3, <1>4, <1>5, <1>7 DEF GateInv

\* Its answer arrives.
LEMMA GateArrivesInv == ASSUME GateInv, NEW n \in Gate!Requests, Gate!Arrives(n) PROVE GateInv'
<1>1. /\ UNCHANGED <<who, newest, path, nav, handed, request, turns, hops>>
      /\ getMe' = [getMe EXCEPT ![n] = Gate!NoCall] /\ getMe[n].st \in {"answered", "failed"}
      /\ loading' = (loading /\ n # newest)
  BY DEF Gate!Arrives, Gate!EndsLoading, Gate!Superseded
<1>2. /\ n # newest => session' = session /\ error' = error
      /\ n = newest /\ getMe[n].st = "answered" => session' = [as |-> getMe[n].as, of |-> n]
           /\ error' = error
      /\ n = newest /\ getMe[n].st = "failed" => error' = TRUE /\ session' = session
  BY DEF Gate!Arrives, Gate!Superseded
<1>3. n \in Nat /\ n >= 1 /\ newest \in Nat /\ getMe[n].as \in GateAnyone
  BY GateAssumption DEF GateInv, GateVarTypes, Gate!Requests
<1>4. GateVarTypes'
  <2>1. session' \in [as: GateAnyone, of: Nat] /\ session'.of <= newest
    <3>1. CASE session' = session  BY <3>1 DEF GateInv, GateVarTypes
    <3>2. CASE session' = [as |-> getMe[n].as, of |-> n] /\ n = newest
      <4>1. session' \in [as: GateAnyone, of: Nat] /\ session'.of = n  BY <1>3, <3>2
      <4>. QED  BY <1>3, <3>2, <4>1
    <3>. QED  BY <1>1, <1>2, <3>1, <3>2
  <2>2. getMe' \in [Gate!Requests -> [st: {"none", "sent", "answered", "failed"}, as: GateAnyone]]
    BY <1>1 DEF GateInv, GateVarTypes, Gate!NoCall, GateAnyone
  <2>3. error' \in BOOLEAN /\ loading' \in BOOLEAN
    <3>1. error' \in BOOLEAN  BY <1>1, <1>2 DEF GateInv, GateVarTypes
    <3>. QED  BY <1>1, <3>1
  <2>. QED  BY <1>1, <2>1, <2>2, <2>3 DEF GateInv, GateVarTypes
<1>5. GateLoadsFit'
  <2>1. CASE n = newest
    <3>1. getMe'[newest'].st = "none"  BY <1>1, <2>1 DEF GateInv, GateVarTypes, Gate!NoCall
    <3>2. error' \/ session'.of > 0  BY <1>1, <1>2, <1>3, <2>1
    <3>. QED  BY <3>1, <3>2 DEF GateLoadsFit
  <2>2. CASE n # newest
    <3>1. getMe'[newest'] = getMe[newest]  BY <1>1, <2>2 DEF GateInv, GateVarTypes
    <3>2. loading' <=> loading  BY <1>1, <2>2
    <3>. QED  BY <1>2, <2>2, <3>1, <3>2 DEF GateInv, GateLoadsFit
  <2>. QED  BY <2>1, <2>2
<1>6. GateFormsFit'  BY <1>1 DEF GateInv, GateFormsFit
<1>7. GateHopsLeft' <= GateHopsLeft
  <2>1. path \in Gate!Protected \cup {"login"} /\ nav.from \in Gate!Protected \cup {"none"}
          /\ session.as \in GateAnyone
        /\ session'.as \in GateAnyone
    BY <1>4 DEF GateInv, GateVarTypes
  <2>2. /\ GateNow(path, nav.from, session'.as) \in 0..2 /\ GateOnce(path, nav.from) \in 1..2
        /\ GateNowAndOnce(path, nav.from, session'.as) \in 1..3 /\ GateTwice(path, nav.from) \in 2..3
        /\ GateNow(path, nav.from, session'.as) <= GateOnce(path, nav.from)
        /\ GateNowAndOnce(path, nav.from, session'.as) <= GateTwice(path, nav.from)
    BY <2>1, GateHopsCompare
  <2>3. n = newest => loading  BY <1>1 DEF GateInv, GateLoadsFit
  <2>4. GateHopsLeft \in 0..3  BY GateHopsLeftIs DEF GateInv
  <2>5. CASE n = newest
    <3>1. loading /\ ~loading'  BY <1>1, <2>3, <2>5
    <3>2. GateHopsLeft' = IF nav.banner THEN 0 ELSE IF GateExpected
                          THEN GateNowAndOnce(path, nav.from, session'.as) ELSE GateNow(path, nav.from,
                            session'.as)
      BY <1>1, <3>1 DEF GateHopsLeft, GateExpected
    <3>3. GateHopsLeft = IF nav.banner THEN 0 ELSE IF GateExpected THEN GateTwice(path, nav.from)
            ELSE GateOnce(path, nav.from)
      BY <3>1 DEF GateHopsLeft
    <3>. QED  BY <2>2, <3>2, <3>3
  <2>6. CASE n # newest
    <3>1. (loading' <=> loading) /\ session' = session  BY <1>1, <1>2, <2>6
    <3>2. GateHopsLeft' = GateHopsLeft  BY <1>1, <3>1 DEF GateHopsLeft, GateExpected
    <3>. QED  BY <2>4, <3>2
  <2>. QED  BY <2>5, <2>6
<1>8. GateHopsBounded'  BY <1>1, <1>4, <1>7, GateNoMoreHops
<1>. QED  BY <1>4, <1>5, <1>6, <1>8 DEF GateInv

\* One redirect of those that can come is spent.
LEMMA GateHopSpent ==
  ASSUME GateInv, GateVarTypes', ~nav.banner, ~nav'.banner, ~loading,
           hops' = IF hops < 4 THEN hops + 1 ELSE hops,
         UNCHANGED <<session, loading, request>>,
         GateNow(path', nav'.from, session.as) + 1 = GateNow(path, nav.from, session.as),
         GateNowAndOnce(path', nav'.from, session.as) + 1 = GateNowAndOnce(path, nav.from, session.as)
  PROVE  GateHopsBounded'
<1>1. GateHopsLeft = IF GateExpected THEN GateNowAndOnce(path, nav.from, session.as) ELSE GateNow(path,
        nav.from, session.as)
  BY DEF GateHopsLeft
<1>2. GateHopsLeft' = IF GateExpected THEN GateNowAndOnce(path', nav'.from, session.as)
        ELSE GateNow(path', nav'.from, session.as)
  BY DEF GateHopsLeft, GateExpected
<1>3. GateHopsLeft' + 1 = GateHopsLeft  BY <1>1, <1>2, Zenon
<1>4. GateHopsLeft \in 0..3  BY GateHopsLeftIs DEF GateInv
<1>5. GateHopsLeft' \in 0..3
  <2>1. path' \in Gate!Protected \cup {"login"} /\ nav'.from \in Gate!Protected \cup {"none"}
          /\ session'.as \in GateAnyone
    BY DEF GateVarTypes
  <2>2. /\ GateNow(path', nav'.from, session'.as) \in 0..2 /\ GateOnce(path', nav'.from) \in 1..2
        /\ GateNowAndOnce(path', nav'.from, session'.as) \in 1..3 /\ GateTwice(path',
             nav'.from) \in 2..3
    BY <2>1, GateHopsCompare
  <2>. QED  BY <2>2 DEF GateHopsLeft
<1>6. hops \in Nat /\ hops + GateHopsLeft <= 3  BY DEF GateInv, GateVarTypes, GateHopsBounded
<1>. DEFINE m == GateHopsLeft'
            k == GateHopsLeft
<1>7. m \in 0..3 /\ k \in 0..3 /\ m + 1 = k /\ hops + k <= 3  BY <1>3, <1>4, <1>5, <1>6
<1>. HIDE DEF m, k
<1>8. hops' + m <= 3  BY <1>6, <1>7
<1>. QED  BY <1>8 DEF GateHopsBounded, m

\* A guard or the login page redirects.
LEMMA GateRedirectsInv == ASSUME GateInv, Gate!Redirects PROVE GateInv'
<1>1. /\ UNCHANGED <<who, session, loading, error, newest, getMe, request, turns>>
      /\ hops' = IF hops < 4 THEN hops + 1 ELSE hops
  BY DEF Gate!Redirects
<1>2. session.as \in GateAnyone /\ path \in Gate!Protected \cup {"login"}
        /\ nav.from \in Gate!Protected \cup {"none"}
      /\ hops' \in Nat
  BY <1>1 DEF GateInv, GateVarTypes
<1>3. GateLoadsFit'  BY <1>1 DEF GateInv, GateLoadsFit
<1>4. CASE Gate!Guards
  <2>1. /\ path \in Gate!Protected /\ ~loading /\ session.as = Gate!NoOne /\ path' = "login"
        /\ nav' = [Gate!NoNav EXCEPT !.from = path] /\ handed' = FALSE
    BY <1>4 DEF Gate!Guards, Gate!Waits
  <2>2. nav' \in [banner: BOOLEAN, from: Gate!Protected \cup {"none"}, of: Nat]
          /\ nav'.banner = FALSE /\ nav'.from = path
    BY <2>1 DEF Gate!NoNav
  <2>3. GateVarTypes'  BY <1>1, <1>2, <2>1, <2>2 DEF GateInv, GateVarTypes
  <2>4. GateFormsFit'  BY <1>1, <2>2 DEF GateInv, GateFormsFit
  <2>5. ~nav.banner
    <3>1. path # "login"  BY <2>1 DEF Gate!Protected
    <3>. QED  BY <3>1 DEF GateInv, GateFormsFit
  <2>6. GateHopsBounded'  BY <1>1, <1>2, <2>1, <2>2, <2>3, <2>5, GateGuardSpends, GateHopSpent
  <2>. QED  BY <1>3, <2>3, <2>4, <2>6 DEF GateInv
<1>5. CASE Gate!SendsHome
  <2>1. /\ path \in Gate!Protected /\ ~loading /\ (Gate!Misplaced \/ Gate!NoAdmin)
             /\ path' = Gate!HomeOf(session.as)
        /\ nav' = Gate!NoNav /\ handed' = handed
    BY <1>5 DEF Gate!SendsHome, Gate!Waits
  <2>2. session.as \in Gate!Roles /\ GateWrong(path, session.as)
    BY <1>2, <2>1
      DEF Gate!Misplaced, Gate!NoAdmin, Gate!Admins, GateAnyone, Gate!Roles, Gate!NoOne, GateWrong
  <2>3. path' \in Gate!Protected  BY <2>1 DEF Gate!HomeOf, Gate!Protected
  <2>4. nav' \in [banner: BOOLEAN, from: Gate!Protected \cup {"none"}, of: Nat]
          /\ nav'.banner = FALSE /\ nav'.from = "none"
    BY <2>1 DEF Gate!NoNav
  <2>5. GateVarTypes'  BY <1>1, <1>2, <2>1, <2>3, <2>4 DEF GateInv, GateVarTypes
  <2>6. GateFormsFit'  BY <1>1, <2>4 DEF GateInv, GateFormsFit
  <2>7. ~nav.banner
    <3>1. path # "login"  BY <2>1 DEF Gate!Protected
    <3>. QED  BY <3>1 DEF GateInv, GateFormsFit
  <2>8. GateHopsBounded'
    BY <1>1, <1>2, <2>1, <2>2, <2>4, <2>5, <2>7, GateHomeSpends, GateHopSpent
  <2>. QED  BY <1>3, <2>5, <2>6, <2>8 DEF GateInv
<1>6. CASE Gate!Leaves
  <2>1. /\ path = "login" /\ ~loading /\ session.as # Gate!NoOne /\ ~nav.banner
        /\ path' = Gate!PostLogin(nav.from, session.as) /\ nav' = Gate!NoNav /\ handed' = handed
    BY <1>6 DEF Gate!Leaves, Gate!KeepsBanner
  <2>2. session.as \in Gate!Roles  BY <1>2, <2>1 DEF GateAnyone
  <2>3. path' \in Gate!Protected  BY <1>2, <2>1, <2>2, GateLoginSpends
  <2>4. nav' \in [banner: BOOLEAN, from: Gate!Protected \cup {"none"}, of: Nat]
          /\ nav'.banner = FALSE /\ nav'.from = "none"
    BY <2>1 DEF Gate!NoNav
  <2>5. GateVarTypes'  BY <1>1, <1>2, <2>1, <2>3, <2>4 DEF GateInv, GateVarTypes
  <2>6. GateFormsFit'  BY <1>1, <2>4 DEF GateInv, GateFormsFit
  <2>7. GateHopsBounded'  BY <1>1, <1>2, <2>1, <2>2, <2>4, <2>5, GateLoginSpends, GateHopSpent
  <2>. QED  BY <1>3, <2>5, <2>6, <2>7 DEF GateInv
<1>. QED  BY <1>4, <1>5, <1>6 DEF Gate!Redirects

\* The user sends a form or signs out, or a request is lost, or another tab acts.
LEMMA GateTurnsInv ==
  ASSUME GateInv,
         \/ \E op \in {"login", "logout", "password", "workspace"},
              role \in GateAnyone : Gate!Sends(op, role)
         \/ Gate!Loses \/ Gate!Elsewhere
  PROVE  GateInv'
<1>1. /\ UNCHANGED <<session, loading, error, newest, getMe, path, nav, handed>> /\ hops' = 0
      /\ who' \in GateAnyone
  BY DEF Gate!Sends, Gate!Loses, Gate!Elsewhere, Gate!Turn, GateInv, GateVarTypes, GateAnyone
<1>2. /\ request' \in [kind: {"none", "login", "logout", "password", "workspace"},
                    st: {"none", "sent", "ok", "failed", "refresh"}, as: GateAnyone,
                    from: Gate!Protected \cup {"none"}, call: Nat]
      /\ request'.st \in {"ok", "failed", "sent", "refresh"} => request'.kind # "none"
      /\ request'.st = "refresh" => request'.kind # "password"
  <2>1. ASSUME NEW op \in {"login", "logout", "password", "workspace"}, NEW role \in GateAnyone,
                 Gate!Sends(op, role)
        PROVE  <1>2!1 /\ <1>2!2 /\ <1>2!3
    <3>1. request' = [Gate!NoRequest EXCEPT !.kind = op, !.st = "sent", !.as = role, !.from = nav.from]
      BY <2>1 DEF Gate!Sends
    <3>2. nav.from \in Gate!Protected \cup {"none"}  BY DEF GateInv, GateVarTypes
    <3>. QED  BY <3>1, <3>2 DEF Gate!NoRequest
  <2>2. CASE Gate!Loses
    <3>1. request' = [request EXCEPT !.st = "failed"] /\ request.st = "sent"
      BY <2>2 DEF Gate!Loses
    <3>. QED  BY <3>1 DEF GateInv, GateVarTypes, GateFormsFit
  <2>3. CASE Gate!Elsewhere  BY <2>3 DEF Gate!Elsewhere, GateInv, GateVarTypes, GateFormsFit
  <2>. QED  BY <2>1, <2>2, <2>3
<1>3. GateVarTypes'  BY <1>1, <1>2 DEF GateInv, GateVarTypes
<1>4. GateLoadsFit' /\ GateFormsFit'  BY <1>1, <1>2 DEF GateInv, GateLoadsFit, GateFormsFit
<1>5. GateHopsBounded'  BY <1>1, <1>3, GateRestarts
<1>. QED  BY <1>3, <1>4, <1>5 DEF GateInv

\* The user asks again, goes elsewhere, or is sent away by the API.
LEMMA GateMovesInv ==
  ASSUME GateInv, Gate!TriesAgain \/ Gate!Unauthorized
           \/ \E p \in Gate!Protected \cup {"login"} : Gate!Goes(p)
  PROVE  GateInv'
<1>1. CASE Gate!TriesAgain
  <2>1. /\ UNCHANGED <<who, session, path, nav, handed, request>> /\ hops' = 0 /\ Gate!Refreshes
    BY <1>1 DEF Gate!TriesAgain, Gate!Turn
  <2>2. /\ newest' \in Gate!Requests /\ loading' = TRUE /\ error' = FALSE
        /\ getMe' \in [Gate!Requests -> [st: {"none", "sent", "answered", "failed"}, as: GateAnyone]]
        /\ session.of <= newest'
    BY <2>1, GateRefreshIs
  <2>3. GateVarTypes'  BY <2>1, <2>2 DEF GateInv, GateVarTypes
  <2>4. GateLoadsFit' /\ GateFormsFit'  BY <2>1, <2>2 DEF GateInv, GateLoadsFit, GateFormsFit
  <2>. QED  BY <2>1, <2>3, <2>4, GateRestarts DEF GateInv
<1>2. CASE Gate!Unauthorized
  <2>1. /\ session' = Gate!Unknown /\ loading' = TRUE /\ error' = FALSE /\ newest' = 1
        /\ getMe' = [n \in Gate!Requests |-> IF n = 1 THEN [Gate!NoCall EXCEPT !.st = "sent"]
             ELSE Gate!NoCall]
        /\ path' = "login" /\ nav' = [Gate!NoNav EXCEPT !.from = path] /\ handed' = FALSE
        /\ request' = Gate!NoRequest /\ hops' = 0 /\ who' = who /\ path \in Gate!Protected
    BY <1>2 DEF Gate!Unauthorized, Gate!Loaded, Gate!Turn, Gate!Shown
  <2>2. session' \in [as: GateAnyone, of: Nat] /\ session'.of <= 1
    BY <2>1 DEF Gate!Unknown, GateAnyone
  <2>3. getMe' \in [Gate!Requests -> [st: {"none", "sent", "answered", "failed"}, as: GateAnyone]]
    BY <2>1 DEF Gate!NoCall, GateAnyone
  <2>4. nav' \in [banner: BOOLEAN, from: Gate!Protected \cup {"none"}, of: Nat]
    BY <2>1 DEF Gate!NoNav
  <2>5. request' \in [kind: {"none", "login", "logout", "password", "workspace"},
                    st: {"none", "sent", "ok", "failed", "refresh"}, as: GateAnyone,
                    from: Gate!Protected \cup {"none"}, call: Nat] /\ request'.st = "none"
    BY <2>1 DEF Gate!NoRequest, GateAnyone
  <2>6. newest' \in Gate!Requests  BY <2>1, GateAssumption DEF Gate!Requests
  <2>7. GateVarTypes'  BY <2>1, <2>2, <2>3, <2>4, <2>5, <2>6 DEF GateInv, GateVarTypes
  <2>8. GateLoadsFit' /\ GateFormsFit'  BY <2>1, <2>5 DEF GateLoadsFit, GateFormsFit, Gate!NoNav
  <2>. QED  BY <2>1, <2>7, <2>8, GateRestarts DEF GateInv
<1>3. ASSUME NEW p \in Gate!Protected \cup {"login"}, Gate!Goes(p) PROVE GateInv'
  <2>1. /\ UNCHANGED <<who, session, loading, error, newest, getMe, request>> /\ hops' = 0
        /\ path' = p /\ nav' = Gate!NoNav /\ handed' = FALSE
    BY <1>3 DEF Gate!Goes, Gate!Turn
  <2>2. nav' \in [banner: BOOLEAN, from: Gate!Protected \cup {"none"}, of: Nat] /\ nav'.banner = FALSE
    BY <2>1 DEF Gate!NoNav
  <2>3. GateVarTypes'  BY <2>1, <2>2 DEF GateInv, GateVarTypes
  <2>4. GateLoadsFit' /\ GateFormsFit'  BY <2>1, <2>2 DEF GateInv, GateLoadsFit, GateFormsFit
  <2>. QED  BY <2>1, <2>3, <2>4, GateRestarts DEF GateInv
<1>. QED  BY <1>1, <1>2, <1>3

\* The API serves a request.
LEMMA GateServesInv == ASSUME GateInv, Gate!Serves PROVE GateInv'
<1>1. UNCHANGED <<session, loading, error, newest, getMe, path, nav, handed, turns, hops>>
        /\ request.st = "sent"
  BY DEF Gate!Serves
<1>2. who' \in GateAnyone
  <2>1. request.as \in GateAnyone /\ who \in GateAnyone  BY DEF GateInv, GateVarTypes
  <2>. QED  BY <2>1 DEF Gate!Serves, GateAnyone, Gate!Roles
<1>3. request' \in {[request EXCEPT !.st = "ok"], [request EXCEPT !.st = "failed"]}
  BY DEF Gate!Serves
<1>4. /\ request' \in [kind: {"none", "login", "logout", "password", "workspace"},
                    st: {"none", "sent", "ok", "failed", "refresh"}, as: GateAnyone,
                    from: Gate!Protected \cup {"none"}, call: Nat]
      /\ request'.kind = request.kind /\ request'.st \in {"ok", "failed"}
  BY <1>3 DEF GateInv, GateVarTypes
<1>5. GateVarTypes'  BY <1>1, <1>2, <1>4 DEF GateInv, GateVarTypes
<1>6. GateLoadsFit' /\ GateFormsFit'  BY <1>1, <1>4 DEF GateInv, GateLoadsFit, GateFormsFit
<1>7. GateHopsLeft' <= GateHopsLeft
  <2>1. path \in Gate!Protected \cup {"login"} /\ nav.from \in Gate!Protected \cup {"none"}
          /\ session.as \in GateAnyone
    BY DEF GateInv, GateVarTypes
  <2>2. /\ GateNow(path, nav.from, session.as) \in 0..2 /\ GateOnce(path, nav.from) \in 1..2
        /\ GateNowAndOnce(path, nav.from, session.as) \in 1..3 /\ GateTwice(path, nav.from) \in 2..3
        /\ GateNow(path, nav.from, session.as) <= GateNowAndOnce(path, nav.from, session.as)
        /\ GateOnce(path, nav.from) <= GateTwice(path, nav.from)
    BY <2>1, GateHopsCompare
  <2>3. GateExpected' => GateExpected  BY <1>1, <1>4 DEF GateExpected
  <2>4. GateHopsLeft' = IF nav.banner THEN 0
                        ELSE IF loading THEN IF GateExpected' THEN GateTwice(path, nav.from)
                          ELSE GateOnce(path, nav.from)
                        ELSE IF GateExpected' THEN GateNowAndOnce(path, nav.from, session.as)
                          ELSE GateNow(path, nav.from, session.as)
    BY <1>1 DEF GateHopsLeft
  <2>. QED  BY <2>2, <2>3, <2>4 DEF GateHopsLeft
<1>8. GateHopsBounded'  BY <1>1, <1>5, <1>7, GateNoMoreHops
<1>. QED  BY <1>5, <1>6, <1>8 DEF GateInv

\* Its answer arrives.
LEMMA GateAnsweredInv == ASSUME GateInv, Gate!Answered PROVE GateInv'
<1>0. path \in Gate!Protected \cup {"login"} /\ nav.from \in Gate!Protected \cup {"none"}
        /\ session.as \in GateAnyone
  BY DEF GateInv, GateVarTypes
<1>1. /\ GateNow(path, nav.from, session.as) \in 0..2 /\ GateOnce(path, nav.from) \in 1..2
      /\ GateNowAndOnce(path, nav.from, session.as) \in 1..3 /\ GateTwice(path, nav.from) \in 2..3
      /\ GateOnce(path, nav.from) <= GateNowAndOnce(path, nav.from, session.as)
      /\ GateOnce(path, nav.from) <= GateTwice(path, nav.from)
  BY <1>0, GateHopsCompare
<1>2. GateHopsLeft \in 0..3 /\ newest \in Nat
  BY GateHopsLeftIs, GateAssumption DEF GateInv, GateVarTypes, Gate!Requests
<1>3. CASE request.st = "ok" /\ request.kind # "password"
  <2>1. /\ UNCHANGED <<who, session, path, nav, handed, turns, hops>> /\ Gate!Refreshes
        /\ request' = [request EXCEPT !.st = "refresh", !.call = newest']
    BY <1>3 DEF Gate!Answered, Gate!Quiet
  <2>2. /\ newest' = newest + 1 /\ newest' \in Gate!Requests /\ loading' = TRUE /\ error' = FALSE
        /\ getMe' \in [Gate!Requests -> [st: {"none", "sent", "answered", "failed"}, as: GateAnyone]]
        /\ session.of <= newest'
    BY <2>1, GateRefreshIs
  <2>3. newest' \in Nat  BY <2>2, GateAssumption DEF Gate!Requests
  <2>4. /\ request' \in [kind: {"none", "login", "logout", "password", "workspace"},
                    st: {"none", "sent", "ok", "failed", "refresh"}, as: GateAnyone,
                    from: Gate!Protected \cup {"none"}, call: Nat]
        /\ request'.kind = request.kind /\ request'.st = "refresh"
    BY <2>1, <2>3 DEF GateInv, GateVarTypes
  <2>5. GateVarTypes'  BY <2>1, <2>2, <2>4 DEF GateInv, GateVarTypes
  <2>6. GateLoadsFit' /\ GateFormsFit'
    BY <1>3, <2>1, <2>2, <2>4 DEF GateInv, GateLoadsFit, GateFormsFit
  <2>7. GateHopsLeft' <= GateHopsLeft
    <3>1. GateHopsLeft' = IF nav.banner THEN 0 ELSE GateOnce(path, nav.from)
      BY <2>1, <2>2, <2>4 DEF GateHopsLeft, GateExpected
    <3>2. GateHopsLeft = IF nav.banner THEN 0
                         ELSE IF loading THEN GateTwice(path, nav.from) ELSE GateNowAndOnce(path,
                           nav.from, session.as)
      BY <1>3 DEF GateHopsLeft, GateExpected
    <3>. QED  BY <1>1, <3>1, <3>2
  <2>8. GateHopsBounded'  BY <2>1, <2>5, <2>7, GateNoMoreHops
  <2>. QED  BY <2>5, <2>6, <2>8 DEF GateInv
<1>4. CASE request.st = "ok" /\ request.kind = "password"
  <2>1. /\ path' = "login" /\ nav' = [banner |-> TRUE, from |-> "settings", of |-> newest]
        /\ handed' = FALSE
        /\ request' = Gate!NoRequest
        /\ UNCHANGED <<who, session, loading, error, newest, getMe, turns, hops>>
    BY <1>4 DEF Gate!Answered, Gate!Quiet
  <2>2. nav' \in [banner: BOOLEAN, from: Gate!Protected \cup {"none"}, of: Nat] /\ nav'.banner
    BY <1>2, <2>1 DEF Gate!Protected
  <2>3. request' \in [kind: {"none", "login", "logout", "password", "workspace"},
                    st: {"none", "sent", "ok", "failed", "refresh"}, as: GateAnyone,
                    from: Gate!Protected \cup {"none"}, call: Nat] /\ request'.st = "none"
    BY <2>1 DEF Gate!NoRequest, GateAnyone
  <2>4. GateVarTypes'  BY <2>1, <2>2, <2>3 DEF GateInv, GateVarTypes
  <2>5. GateLoadsFit' /\ GateFormsFit'  BY <2>1, <2>3 DEF GateInv, GateLoadsFit, GateFormsFit
  <2>6. GateHopsLeft' <= GateHopsLeft
    <3>1. GateHopsLeft' = 0  BY <2>2 DEF GateHopsLeft
    <3>. QED  BY <1>2, <3>1
  <2>7. GateHopsBounded'  BY <2>1, <2>4, <2>6, GateNoMoreHops
  <2>. QED  BY <2>4, <2>5, <2>7 DEF GateInv
<1>5. CASE request.st = "failed"
  <2>1. /\ request' = Gate!NoRequest
        /\ UNCHANGED <<who, session, loading, error, newest, getMe, path, nav, handed, turns, hops>>
    BY <1>5 DEF Gate!Answered, Gate!Quiet
  <2>3. request' \in [kind: {"none", "login", "logout", "password", "workspace"},
                    st: {"none", "sent", "ok", "failed", "refresh"}, as: GateAnyone,
                    from: Gate!Protected \cup {"none"}, call: Nat] /\ request'.st = "none"
    BY <2>1 DEF Gate!NoRequest, GateAnyone
  <2>4. GateVarTypes'  BY <2>1, <2>3 DEF GateInv, GateVarTypes
  <2>5. GateLoadsFit' /\ GateFormsFit'  BY <2>1, <2>3 DEF GateInv, GateLoadsFit, GateFormsFit
  <2>6. GateHopsLeft' <= GateHopsLeft
    <3>1. GateHopsLeft' = GateHopsLeft  BY <1>5, <2>1, <2>3 DEF GateHopsLeft, GateExpected
    <3>. QED  BY <1>2, <3>1
  <2>7. GateHopsBounded'  BY <2>1, <2>4, <2>6, GateNoMoreHops
  <2>. QED  BY <2>4, <2>5, <2>7 DEF GateInv
<1>. QED  BY <1>3, <1>4, <1>5 DEF Gate!Answered

\* The refresh after it ended.
LEMMA GateLandsInv == ASSUME GateInv, Gate!Lands PROVE GateInv'
<1>1. /\ UNCHANGED <<who, session, loading, error, newest, getMe, turns>>
      /\ nav' = Gate!NoNav /\ handed' = FALSE /\ request' = Gate!NoRequest /\ hops' = 0
      /\ request.st = "refresh"
  BY DEF Gate!Lands
<1>2. path' \in Gate!Protected \cup {"login"}
  <2>1. request.kind \in {"login", "logout", "workspace"}
    BY <1>1 DEF GateInv, GateVarTypes, GateFormsFit
  <2>2. Gate!PostLogin(request.from, request.as) \in Gate!Protected
    BY DEF Gate!PostLogin, Gate!HomeOf, Gate!Protected, GateInv, GateVarTypes
  <2>. QED  BY <2>1, <2>2 DEF Gate!Lands, Gate!Protected
<1>3. nav' \in [banner: BOOLEAN, from: Gate!Protected \cup {"none"}, of: Nat] /\ nav'.banner = FALSE
  BY <1>1 DEF Gate!NoNav
<1>4. request' \in [kind: {"none", "login", "logout", "password", "workspace"},
                    st: {"none", "sent", "ok", "failed", "refresh"}, as: GateAnyone,
                    from: Gate!Protected \cup {"none"}, call: Nat] /\ request'.st = "none"
  BY <1>1 DEF Gate!NoRequest, GateAnyone
<1>5. GateVarTypes'  BY <1>1, <1>2, <1>3, <1>4 DEF GateInv, GateVarTypes
<1>6. GateLoadsFit' /\ GateFormsFit'  BY <1>1, <1>3, <1>4 DEF GateInv, GateLoadsFit, GateFormsFit
<1>7. GateHopsBounded'  BY <1>1, <1>5, GateRestarts
<1>. QED  BY <1>5, <1>6, <1>7 DEF GateInv

\* The login page asks once after a new password.
LEMMA GateHandoffInv == ASSUME GateInv, Gate!Handoff PROVE GateInv'
<1>1. /\ UNCHANGED <<who, session, path, nav, request, turns, hops>> /\ handed' = TRUE /\ nav.banner
      /\ Gate!Refreshes
  BY DEF Gate!Handoff, Gate!HandsOver
<1>2. /\ newest' \in Gate!Requests /\ loading' = TRUE /\ error' = FALSE
      /\ getMe' \in [Gate!Requests -> [st: {"none", "sent", "answered", "failed"}, as: GateAnyone]]
      /\ session.of <= newest'
  BY <1>1, GateRefreshIs
<1>3. GateVarTypes'  BY <1>1, <1>2 DEF GateInv, GateVarTypes
<1>4. GateLoadsFit' /\ GateFormsFit'  BY <1>1, <1>2 DEF GateInv, GateLoadsFit, GateFormsFit
<1>5. GateHopsLeft' <= GateHopsLeft
  <2>1. GateHopsLeft' = 0 /\ GateHopsLeft = 0  BY <1>1 DEF GateHopsLeft
  <2>. QED  BY <2>1
<1>6. GateHopsBounded'  BY <1>1, <1>3, <1>5, GateNoMoreHops
<1>. QED  BY <1>3, <1>4, <1>6 DEF GateInv

\* What the user sends.
LEMMA GateUsersSend ==
  ASSUME GateInv, Gate!LogsOut \/ Gate!ChangesPassword \/ Gate!CreatesWorkspace
           \/ \E role \in Gate!Roles : Gate!LogsIn(role)
  PROVE  \E op \in {"login", "logout", "password", "workspace"}, role \in GateAnyone : Gate!Sends(op,
           role)
<1>1. session.as \in GateAnyone /\ Gate!NoOne \in GateAnyone
        /\ \A role \in Gate!Roles : role \in GateAnyone
  BY DEF GateInv, GateVarTypes, GateAnyone
<1>. QED  BY <1>1 DEF Gate!LogsOut, Gate!ChangesPassword, Gate!CreatesWorkspace, Gate!LogsIn

\* Every step keeps the invariant.
LEMMA GateStepInv == GateInv /\ [Gate!Next]_(Gate!vars) => GateInv'
<1>. SUFFICES ASSUME GateInv, [Gate!Next]_(Gate!vars) PROVE GateInv'  OBVIOUS
<1>1. CASE UNCHANGED Gate!vars
  BY <1>1
    DEF Gate!vars, GateInv, GateVarTypes, GateLoadsFit, GateFormsFit, GateHopsBounded,
        GateHopsLeft, GateExpected
<1>2. CASE Gate!Steps
  BY <1>2, GateRedirectsInv, GateServesInv, GateAnsweredInv, GateLandsInv, GateHandoffInv
    DEF Gate!Steps
<1>3. CASE Gate!LogsOut \/ Gate!ChangesPassword \/ Gate!CreatesWorkspace
             \/ \E role \in Gate!Roles : Gate!LogsIn(role)
  BY <1>3, GateUsersSend, GateTurnsInv
<1>4. CASE Gate!Loses \/ Gate!Elsewhere  BY <1>4, GateTurnsInv
<1>5. CASE Gate!TriesAgain \/ Gate!Unauthorized \/ \E p \in Gate!Protected \cup {"login"} : Gate!Goes(p)
  BY <1>5, GateMovesInv
<1>6. CASE \E n \in Gate!Requests : Gate!Answers(n) \/ Gate!Arrives(n)
  BY <1>6, GateAnswersInv, GateArrivesInv
<1>. QED  BY <1>1, <1>2, <1>3, <1>4, <1>5, <1>6 DEF Gate!Next

\* The type invariant of the console's session follows, and the bound on redirects.
LEMMA GateInvTypes == GateInv => Gate!TypeOK /\ Gate!FewHops
<1>. SUFFICES ASSUME GateInv PROVE Gate!TypeOK /\ Gate!FewHops  OBVIOUS
<1>1. session.of \in 0..newest
  <2>1. session.of \in Nat /\ newest \in Nat /\ session.of <= newest
    BY GateAssumption DEF GateInv, GateVarTypes, Gate!Requests
  <2>. QED  BY <2>1
<1>2. Gate!TypeOK  BY <1>1 DEF GateInv, GateVarTypes, Gate!TypeOK, GateAnyone
<1>3. Gate!FewHops
  <2>1. GateHopsLeft \in 0..3 /\ hops \in Nat /\ hops + GateHopsLeft <= 3
    BY GateHopsLeftIs DEF GateInv, GateVarTypes, GateHopsBounded
  <2>. DEFINE k == GateHopsLeft
  <2>2. k \in 0..3 /\ hops \in Nat /\ hops + k <= 3  BY <2>1
  <2>. HIDE DEF k
  <2>. QED  BY <2>2 DEF Gate!FewHops
<1>. QED  BY <1>2, <1>3

\* The session is never an older one, nobody is sent to the login page before the API
\* said so, and the word of a new password stays.
LEMMA GateStep ==
  GateInv /\ [Gate!Next]_(Gate!vars) => Gate!NeverOlder /\ Gate!NoFalseLogout /\ Gate!HandoffKept
    /\ Gate!FewHops'
<1>. SUFFICES ASSUME GateInv, [Gate!Next]_(Gate!vars) PROVE Gate!NeverOlder /\ Gate!NoFalseLogout
                       /\ Gate!HandoffKept /\ Gate!FewHops'  OBVIOUS
<1>1. GateInv' /\ Gate!FewHops'
  <2>1. GateInv'  BY GateStepInv
  <2>2. GateVarTypes'  BY <2>1 DEF GateInv
  <2>3. hops' + GateHopsLeft' <= 3  BY <2>1 DEF GateInv, GateHopsBounded
  <2>4. GateHopsLeft' \in 0..3
    <3>1. path' \in Gate!Protected \cup {"login"} /\ nav'.from \in Gate!Protected \cup {"none"}
            /\ session'.as \in GateAnyone
      BY <2>2 DEF GateVarTypes
    <3>2. /\ GateNow(path', nav'.from, session'.as) \in 0..2 /\ GateOnce(path', nav'.from) \in 1..2
          /\ GateNowAndOnce(path', nav'.from, session'.as) \in 1..3 /\ GateTwice(path',
               nav'.from) \in 2..3
      BY <3>1, GateHopsCompare
    <3>. QED  BY <3>2 DEF GateHopsLeft
  <2>5. hops' \in Nat  BY <2>2 DEF GateVarTypes
  <2>6. \A m \in 0..3, h \in Nat : h + m <= 3 => h <= 3  OBVIOUS
  <2>7. hops' <= 3  BY <2>3, <2>4, <2>5, <2>6, Zenon
  <2>. QED  BY <2>1, <2>7 DEF Gate!FewHops
<1>2. session.of \in Nat /\ newest \in Nat /\ session.of <= newest /\ hops \in Nat
  BY GateAssumption DEF GateInv, GateVarTypes, Gate!Requests
<1>3. Gate!NeverOlder
  <2>1. session' = session \/ session' = Gate!Unknown \/ \E n \in Gate!Requests : Gate!Arrives(n)
    BY
      DEF Gate!Next, Gate!Steps, Gate!vars, Gate!Redirects, Gate!Serves, Gate!Answered,
          Gate!Lands, Gate!Handoff, Gate!LogsOut, Gate!ChangesPassword,
           Gate!CreatesWorkspace, Gate!LogsIn, Gate!Sends, Gate!Loses, Gate!TriesAgain,
             Gate!Unauthorized, Gate!Loaded, Gate!Elsewhere, Gate!Goes, Gate!Answers
  <2>2. ASSUME NEW n \in Gate!Requests, Gate!Arrives(n) PROVE Gate!NeverOlder
    <3>1. session' = session \/ (n = newest /\ session' = [as |-> getMe[n].as, of |-> n])
      BY <2>2 DEF Gate!Arrives, Gate!Superseded, GateInv, GateVarTypes
    <3>2. CASE session' = session  BY <1>2, <3>2 DEF Gate!NeverOlder
    <3>3. CASE n = newest /\ session' = [as |-> getMe[n].as, of |-> n]
      <4>1. session'.of = newest  BY <3>3
      <4>. QED  BY <1>2, <4>1 DEF Gate!NeverOlder
    <3>. QED  BY <3>1, <3>2, <3>3
  <2>. QED  BY <1>2, <2>1, <2>2 DEF Gate!NeverOlder
<1>4. Gate!NoFalseLogout
  <2>. SUFFICES ASSUME path # "login", path' = "login", hops' > hops PROVE session.of > 0
    BY DEF Gate!NoFalseLogout
  <2>1. hops' # 0 /\ hops' # hops  BY <1>2
  <2>2. Gate!Redirects
    BY <2>1
      DEF Gate!Next, Gate!Steps, Gate!vars, Gate!Serves, Gate!Answered, Gate!Lands, Gate!Handoff,
          Gate!LogsOut, Gate!ChangesPassword, Gate!Quiet, Gate!Turn,
           Gate!CreatesWorkspace, Gate!LogsIn, Gate!Sends, Gate!Loses, Gate!TriesAgain,
             Gate!Unauthorized, Gate!Elsewhere, Gate!Goes, Gate!Answers, Gate!Arrives
  <2>3. Gate!Guards
    <3>1. ~Gate!SendsHome  BY DEF Gate!SendsHome, Gate!HomeOf
    <3>2. ~Gate!Leaves  BY DEF Gate!Leaves
    <3>. QED  BY <2>2, <3>1, <3>2 DEF Gate!Redirects
  <2>. QED  BY <2>3 DEF Gate!Guards, Gate!Waits, GateInv, GateLoadsFit
<1>5. Gate!HandoffKept
  <2>. SUFFICES ASSUME path = "login", nav.banner, path' # "login" \/ ~nav'.banner, hops' # 0,
                         request = Gate!NoRequest
                PROVE  FALSE
    BY DEF Gate!HandoffKept
  <2>1. request.st = "none"  BY DEF Gate!NoRequest
  <2>2. ~Gate!Redirects
    BY
      DEF Gate!Redirects, Gate!Guards, Gate!SendsHome, Gate!Leaves, Gate!KeepsBanner,
          Gate!Protected
  <2>3. ~(path' = path /\ nav' = nav)  OBVIOUS
  <2>. QED
    BY <2>1, <2>2, <2>3
    DEF Gate!Next, Gate!Steps, Gate!vars, Gate!Serves, Gate!Answered, Gate!Lands, Gate!Handoff,
        Gate!LogsOut, Gate!ChangesPassword, Gate!Quiet, Gate!Turn,
        Gate!CreatesWorkspace, Gate!LogsIn, Gate!Sends, Gate!Loses, Gate!TriesAgain, Gate!Unauthorized,
          Gate!Elsewhere, Gate!Goes, Gate!Answers, Gate!Arrives
<1>. QED  BY <1>1, <1>3, <1>4, <1>5

----------------------------------------------------------------------------
\* The pages of links (LinkPages).
LinkPlaces == Link!LinkPage \cup {"bootstrap", "login", "home"}
LinkSayings == {"none", "invite", "reset", "yes", "no", "error"}
LinkAskStates == {"none", "sent", "came"}
LinkPostStates == {"none", "sent", "ok", "gone", "failed"}

LinkVarTypes ==
    /\ link \in [Link!Links -> [kind: Link!LinkPage, open: BOOLEAN]]
    /\ page.at \in LinkPlaces
    /\ learnt.is \in {"none", "form", "error"}
    /\ ask \in Asks \cup {0} /\ due \in BOOLEAN
    /\ asks \in [Asks -> [st: LinkAskStates, at: LinkPlaces \cup {"none"},
         token: Link!Links \cup {"none"}, says: LinkSayings]]
    /\ linkPost \in [kind: LinkPlaces \cup {"none", "logout"}, st: LinkPostStates,
         token: Link!Links \cup {"none"}]
    /\ stored \in {"none", "yes", "no"}
    /\ page.token \in Link!Links \cup {"none"}

\* The question whose answer is awaited is about the page that is there.
LinkAsksOwn ==
    ask # 0 /\ asks[ask].st # "none" => asks[ask].at = page.at /\ asks[ask].token = page.token

\* What came about the setup is its status, or an error.
LinkSetupTold ==
    \A n \in Asks : asks[n].st = "came" /\ asks[n].at = "bootstrap" => asks[n].says \in {"yes", "no",
      "error"}

LinkInv == LinkVarTypes /\ LinkAsksOwn /\ LinkSetupTold /\ Link!LinkIsOwn

\* At the start nothing is known and nothing asked.
LEMMA LinkInitInv == Link!Init => LinkInv
<1>. SUFFICES ASSUME Link!Init PROVE LinkInv  OBVIOUS
<1>1. LinkVarTypes
  BY AskAssumption
    DEF Link!Init, LinkVarTypes, LinkPlaces, Link!LinkPage, Link!Links, Link!Page, Link!Blank,
        Link!NoAsk, Link!NoPost,
                       LinkAskStates, LinkPostStates, LinkSayings
<1>2. LinkAsksOwn /\ LinkSetupTold /\ Link!LinkIsOwn
  BY
    DEF Link!Init, LinkAsksOwn, LinkSetupTold, Link!LinkIsOwn, Link!ViewOfLink,
        Link!FieldsOfLink, Link!Blank, Link!NoAsk, Link!Page
<1>. QED  BY <1>1, <1>2 DEF LinkInv

\* Another page starts with nothing that belongs to the one before.
LEMMA LinkComesOwn ==
  ASSUME NEW to, Link!Comes(to), to.at \in LinkPlaces, to.token \in Link!Links \cup {"none"}
  PROVE  /\ page' = to /\ learnt'.is = "none" /\ typed' = "none" /\ ask' = 0 /\ due' \in BOOLEAN
         /\ LinkAsksOwn' /\ Link!LinkIsOwn'
<1>1. page' = to /\ learnt'.is = "none" /\ typed' = "none" /\ ask' = 0 /\ due' \in BOOLEAN
  BY DEF Link!Comes, Link!Clears, Link!Blank
<1>. QED  BY <1>1 DEF LinkAsksOwn, Link!LinkIsOwn, Link!ViewOfLink, Link!FieldsOfLink

\* The address of a page is one of the console.
LEMMA LinkPageIs ==
  ASSUME NEW at, NEW token
  PROVE  Link!Page(at, token).at = at /\ Link!Page(at, token).token = token
BY DEF Link!Page

\* A question is about the page that asks.
LEMMA LinkAsksAboutInv ==
  ASSUME LinkInv, NEW known \in {"none", "yes", "no"}, Link!AsksAbout(known), UNCHANGED <<link,
           linkPost, stored>>,
         known # "none" => page.at = "bootstrap"
  PROVE  LinkInv'
<1>1. PICK n \in Asks :
        /\ asks[n].st = "none"
        /\ asks' = [asks EXCEPT ![n] = [at |-> page.at, token |-> page.token, says |-> known,
                                        st |-> IF known = "none" THEN "sent" ELSE "came"]]
        /\ ask' = n /\ due' = FALSE /\ UNCHANGED <<page, learnt, learning, typed>>
  BY DEF Link!AsksAbout
<1>. DEFINE a == [at |-> page.at, token |-> page.token, says |-> known,
                  st |-> IF known = "none" THEN "sent" ELSE "came"]
<1>2. a \in [st: LinkAskStates, at: LinkPlaces \cup {"none"}, token: Link!Links \cup {"none"},
        says: LinkSayings]
  BY DEF LinkInv, LinkVarTypes, LinkAskStates, LinkSayings
<1>3. /\ a.at = page.at /\ a.token = page.token
      /\ a.st = "came" /\ a.at = "bootstrap" => a.says \in {"yes", "no", "error"}
  OBVIOUS
<1>4. asks' = [asks EXCEPT ![n] = a]  BY <1>1
<1>. HIDE DEF a
<1>5. /\ asks' \in [Asks -> [st: LinkAskStates, at: LinkPlaces \cup {"none"},
           token: Link!Links \cup {"none"}, says: LinkSayings]]
      /\ asks'[n] = a /\ \A m \in Asks : m # n => asks'[m] = asks[m]
  BY <1>2, <1>4 DEF LinkInv, LinkVarTypes
<1>6. LinkVarTypes'  BY <1>1, <1>5 DEF LinkInv, LinkVarTypes
<1>7. LinkAsksOwn' /\ LinkSetupTold'  BY <1>1, <1>3, <1>5 DEF LinkInv, LinkAsksOwn, LinkSetupTold
<1>8. Link!LinkIsOwn'  BY <1>1 DEF LinkInv, Link!LinkIsOwn, Link!ViewOfLink, Link!FieldsOfLink
<1>. QED  BY <1>6, <1>7, <1>8 DEF LinkInv

\* The effect of the page asks, waits or leaves.
LEMMA LinkEffectInv == ASSUME LinkInv, Link!Effect PROVE LinkInv'
<1>1. UNCHANGED <<link, linkPost, stored>>  BY DEF Link!Effect, Link!Outside
<1>2. CASE Link!AsksInvite \/ Link!AsksReset
  BY <1>1, <1>2, LinkAsksAboutInv DEF Link!AsksInvite, Link!AsksReset
<1>3. CASE Link!SetsUp
  <2>1. page.at = "bootstrap"  BY <1>3 DEF Link!SetsUp
  <2>2. CASE due' = FALSE /\ UNCHANGED <<page, learnt, learning, typed, asks, ask>>
    BY <1>1, <2>2
      DEF LinkInv, LinkVarTypes, LinkAsksOwn, LinkSetupTold, Link!LinkIsOwn, Link!ViewOfLink,
          Link!FieldsOfLink
  <2>3. CASE Link!Comes(Link!Page("home", "none")) /\ UNCHANGED asks
    BY <1>1, <2>3, LinkComesOwn, LinkPageIs DEF LinkInv, LinkVarTypes, LinkSetupTold, LinkPlaces
  <2>4. CASE Link!LoadsStatus
    BY <1>1, <2>1, <2>4, LinkAsksAboutInv DEF Link!LoadsStatus, LinkInv, LinkVarTypes
  <2>. QED  BY <1>3, <2>2, <2>3, <2>4 DEF Link!SetsUp
<1>. QED  BY <1>2, <1>3 DEF Link!Effect

\* The API answers a question, about a link or about the setup.
LEMMA LinkSaysWhat ==
  ASSUME LinkInv, NEW n \in Asks
  PROVE  /\ Link!Says(asks[n]) \in LinkSayings
         /\ asks[n].at = "bootstrap" => Link!Says(asks[n]) \in {"yes", "no"}
<1>. DEFINE a == asks[n]
<1>1. a.token \in Link!Links \cup {"none"}  BY DEF LinkInv, LinkVarTypes
<1>2. \A t \in Link!Links : link[t].kind \in {"invite", "reset"}
  BY DEF LinkInv, LinkVarTypes, Link!LinkPage
<1>. QED  BY <1>1, <1>2 DEF Link!Says, LinkSayings

\* An answer is on its way.
LEMMA LinkAnswersInv == ASSUME LinkInv, NEW n \in Asks, Link!Answers(n) PROVE LinkInv'
<1>1. UNCHANGED <<link, page, learnt, typed, ask, due, linkPost, stored>>
  BY DEF Link!Answers, Link!Outside, Link!Pages
<1>2. PICK says \in LinkSayings :
        /\ asks' = [asks EXCEPT ![n].st = "came", ![n].says = says]
        /\ asks[n].at = "bootstrap" => says \in {"yes", "no", "error"}
  BY LinkSaysWhat DEF Link!Answers, LinkSayings
<1>. DEFINE a == [asks[n] EXCEPT !.st = "came", !.says = says]
<1>3. asks[n] \in [st: LinkAskStates, at: LinkPlaces \cup {"none"}, token: Link!Links \cup {"none"},
        says: LinkSayings]
  BY DEF LinkInv, LinkVarTypes
<1>4. /\ a \in [st: LinkAskStates, at: LinkPlaces \cup {"none"}, token: Link!Links \cup {"none"},
           says: LinkSayings]
      /\ a.at = asks[n].at /\ a.token = asks[n].token /\ a.says = says
  BY <1>3 DEF LinkAskStates
<1>5. asks' = [asks EXCEPT ![n] = a]  BY <1>2
<1>. HIDE DEF a
<1>6. /\ asks' \in [Asks -> [st: LinkAskStates, at: LinkPlaces \cup {"none"},
           token: Link!Links \cup {"none"}, says: LinkSayings]]
      /\ asks'[n] = a /\ \A m \in Asks : m # n => asks'[m] = asks[m]
  BY <1>4, <1>5 DEF LinkInv, LinkVarTypes
<1>7. LinkVarTypes'  BY <1>1, <1>6 DEF LinkInv, LinkVarTypes
<1>8. asks[n].st = "sent"  BY DEF Link!Answers
<1>9. LinkAsksOwn'  BY <1>1, <1>4, <1>6, <1>8 DEF LinkInv, LinkVarTypes, LinkAsksOwn
<1>11. LinkSetupTold'  BY <1>2, <1>4, <1>6 DEF LinkInv, LinkSetupTold
<1>10. Link!LinkIsOwn'  BY <1>1 DEF LinkInv, Link!LinkIsOwn, Link!ViewOfLink, Link!FieldsOfLink
<1>. QED  BY <1>7, <1>9, <1>10, <1>11 DEF LinkInv

\* An answer that was not cancelled is about the page that is there.
LEMMA LinkArrivesInv == ASSUME LinkInv, NEW n \in Asks, Link!Arrives(n) PROVE LinkInv'
<1>. DEFINE a == asks[n]
<1>1. /\ a.st = "came" /\ asks' = [asks EXCEPT ![n] = Link!NoAsk] /\ stored' = Link!Remembers(a)
      /\ UNCHANGED <<link, linkPost>>
  BY DEF Link!Arrives, Link!Outside
<1>2. Link!NoAsk \in [st: LinkAskStates, at: LinkPlaces \cup {"none"}, token: Link!Links \cup {"none"},
        says: LinkSayings] /\ Link!NoAsk.st = "none"
  BY DEF Link!NoAsk, LinkAskStates, LinkSayings
<1>3. /\ asks' \in [Asks -> [st: LinkAskStates, at: LinkPlaces \cup {"none"},
           token: Link!Links \cup {"none"}, says: LinkSayings]]
      /\ asks'[n].st = "none" /\ \A m \in Asks : m # n => asks'[m] = asks[m]
  BY <1>1, <1>2 DEF LinkInv, LinkVarTypes
<1>4. stored' \in {"none", "yes", "no"}
  BY <1>1 DEF LinkInv, LinkVarTypes, LinkSetupTold, Link!Remembers
<1>5. LinkSetupTold'  BY <1>3 DEF LinkInv, LinkSetupTold
<1>6. a.token \in Link!Links \cup {"none"}  BY DEF LinkInv, LinkVarTypes
<1>7. CASE UNCHANGED Link!Pages
  <2>1. LinkVarTypes'  BY <1>1, <1>3, <1>4, <1>7 DEF LinkInv, LinkVarTypes, Link!Pages
  <2>2. LinkAsksOwn' /\ Link!LinkIsOwn'
    BY <1>3, <1>7
      DEF LinkInv, LinkVarTypes, LinkAsksOwn, Link!Pages, Link!LinkIsOwn, Link!ViewOfLink,
          Link!FieldsOfLink
  <2>. QED  BY <1>5, <2>1, <2>2 DEF LinkInv
<1>8. CASE ~Link!Cancelled(n) /\ (Link!Forwards(a) \/ Link!LeavesSetup(a))
  <2>. DEFINE to == IF a.at = "invite" THEN Link!Page("reset", a.token)
                    ELSE [Link!Page("login", "none") EXCEPT !.banner = "already_set_up"]
  <2>1. Link!Comes(to)  BY <1>8 DEF Link!Forwards, Link!LeavesSetup
  <2>2. to.at \in LinkPlaces /\ to.token \in Link!Links \cup {"none"}
    BY <1>6 DEF Link!Page, LinkPlaces, Link!LinkPage
  <2>. HIDE DEF to
  <2>3. /\ page' = to /\ learnt'.is = "none" /\ typed' = "none" /\ ask' = 0 /\ due' \in BOOLEAN
        /\ LinkAsksOwn' /\ Link!LinkIsOwn'
    BY <2>1, <2>2, LinkComesOwn
  <2>4. LinkVarTypes'  BY <1>1, <1>3, <1>4, <2>2, <2>3 DEF LinkInv, LinkVarTypes
  <2>. QED  BY <1>5, <2>3, <2>4 DEF LinkInv
<1>9. CASE ~Link!Cancelled(n) /\ Link!Judges(a)
  <2>1. learnt'.is \in {"form", "error"} /\ learnt'.of = a.token /\ learnt'.at = a.at
    BY <1>9 DEF Link!Judges, Link!Judged
  <2>2. UNCHANGED <<page, typed, ask, due>> /\ ask = n  BY <1>9 DEF Link!Judges, Link!Cancelled
  <2>3. n # 0  BY AskAssumption
  <2>4. a.at = page.at /\ a.token = page.token  BY <1>1, <2>2, <2>3 DEF LinkInv, LinkAsksOwn
  <2>5. LinkVarTypes'  BY <1>1, <1>3, <1>4, <2>1, <2>2 DEF LinkInv, LinkVarTypes
  <2>6. LinkAsksOwn' /\ Link!LinkIsOwn'
    BY <1>3, <2>1, <2>2, <2>4
      DEF LinkInv, LinkAsksOwn, Link!LinkIsOwn, Link!ViewOfLink, Link!FieldsOfLink
  <2>. QED  BY <1>5, <2>5, <2>6 DEF LinkInv
<1>. QED  BY <1>7, <1>8, <1>9 DEF Link!Arrives

\* The API's side of a form, and a lost answer, change nothing on the page.
LEMMA LinkServesInv == ASSUME LinkInv, Link!Serves PROVE LinkInv'
<1>1. UNCHANGED <<page, learnt, typed, ask, due, asks, stored>>  BY DEF Link!Serves, Link!Pages
<1>2. link' \in [Link!Links -> [kind: Link!LinkPage, open: BOOLEAN]]
  <2>1. CASE UNCHANGED link  BY <2>1 DEF LinkInv, LinkVarTypes
  <2>2. CASE link' = [link EXCEPT ![linkPost.token].open = FALSE]
    BY <2>2 DEF LinkInv, LinkVarTypes
  <2>. QED  BY <2>1, <2>2 DEF Link!Serves
<1>3. linkPost' \in [kind: LinkPlaces \cup {"none", "logout"}, st: LinkPostStates,
        token: Link!Links \cup {"none"}]
  <2>1. \E st \in LinkPostStates : linkPost' = [linkPost EXCEPT !.st = st]
    BY DEF Link!Serves, LinkPostStates
  <2>. QED  BY <2>1 DEF LinkInv, LinkVarTypes
<1>4. LinkVarTypes'  BY <1>1, <1>2, <1>3 DEF LinkInv, LinkVarTypes
<1>. QED
  BY <1>1, <1>4
    DEF LinkInv, LinkAsksOwn, LinkSetupTold, Link!LinkIsOwn, Link!ViewOfLink, Link!FieldsOfLink

\* The answer to a form leaves for the login page, wherever the user is.
LEMMA LinkAnsweredInv == ASSUME LinkInv, Link!Answered PROVE LinkInv'
<1>1. UNCHANGED <<link, asks>> /\ linkPost' = Link!NoPost  BY DEF Link!Answered, Link!Outside
<1>2. linkPost' \in [kind: LinkPlaces \cup {"none", "logout"}, st: LinkPostStates,
        token: Link!Links \cup {"none"}]
  BY <1>1 DEF Link!NoPost, LinkPostStates
<1>3. LinkSetupTold'  BY <1>1 DEF LinkInv, LinkSetupTold
<1>4. stored' \in {"none", "yes", "no"}  BY DEF Link!Answered, LinkInv, LinkVarTypes
<1>5. CASE Link!Comes([Link!Page("login", "none") EXCEPT !.banner = Link!Banner(linkPost.kind)])
  <2>. DEFINE to == [Link!Page("login", "none") EXCEPT !.banner = Link!Banner(linkPost.kind)]
  <2>1. to.at \in LinkPlaces /\ to.token \in Link!Links \cup {"none"}
    BY DEF Link!Page, LinkPlaces
  <2>2. Link!Comes(to)  BY <1>5
  <2>. HIDE DEF to
  <2>3. /\ page' = to /\ learnt'.is = "none" /\ typed' = "none" /\ ask' = 0 /\ due' \in BOOLEAN
        /\ LinkAsksOwn' /\ Link!LinkIsOwn'
    BY <2>1, <2>2, LinkComesOwn
  <2>4. LinkVarTypes'  BY <1>1, <1>2, <1>4, <2>1, <2>3 DEF LinkInv, LinkVarTypes
  <2>. QED  BY <1>3, <2>3, <2>4 DEF LinkInv
<1>6. CASE UNCHANGED <<page, learnt, learning, typed, due>> /\ ask' \in {0, ask}
  <2>1. LinkVarTypes'  BY <1>1, <1>2, <1>4, <1>6 DEF LinkInv, LinkVarTypes
  <2>2. LinkAsksOwn' /\ Link!LinkIsOwn'
    BY <1>1, <1>6 DEF LinkInv, LinkAsksOwn, Link!LinkIsOwn, Link!ViewOfLink, Link!FieldsOfLink
  <2>. QED  BY <1>3, <2>1, <2>2 DEF LinkInv
<1>. QED  BY <1>5, <1>6 DEF Link!Answered, Link!Refreshes, Link!Pages

\* What else happens asks and answers nothing about the link.
LEMMA LinkOtherStepsInv ==
  ASSUME LinkInv, UNCHANGED <<asks, stored>>,
         \/ Link!Told \/ Link!Types \/ Link!TriesAgain \/ Link!Submits \/ Link!Loses
              \/ Link!Elsewhere \/ UNCHANGED Link!vars
  PROVE  LinkInv'
<1>1. CASE Link!Told
  <2>1. UNCHANGED <<link, page, learnt, typed, linkPost>> /\ ask' \in {0, ask}
    BY <1>1 DEF Link!Told, Link!Outside
  <2>2. due' = (due \/ page.at = "bootstrap")  BY <1>1 DEF Link!Told
  <2>3. due' \in BOOLEAN  BY <2>2
  <2>4. LinkVarTypes'  BY <2>1, <2>3 DEF LinkInv, LinkVarTypes
  <2>. QED
    BY <2>1, <2>4
      DEF LinkInv, LinkAsksOwn, LinkSetupTold, Link!LinkIsOwn, Link!ViewOfLink, Link!FieldsOfLink
<1>2. CASE Link!Types
  <2>1. UNCHANGED <<link, page, learnt, linkPost, ask, due>> /\ typed' = page.token
    BY <1>2 DEF Link!Types, Link!Outside
  <2>2. LinkVarTypes'  BY <2>1 DEF LinkInv, LinkVarTypes
  <2>. QED
    BY <2>1, <2>2
      DEF LinkInv, LinkAsksOwn, LinkSetupTold, Link!LinkIsOwn, Link!ViewOfLink, Link!FieldsOfLink
<1>3. CASE Link!TriesAgain
  <2>1. UNCHANGED <<link, page, linkPost, typed>> /\ learnt' = Link!Blank /\ due' = TRUE /\ ask' = 0
    BY <1>3 DEF Link!TriesAgain, Link!Outside
  <2>2. LinkVarTypes'  BY <2>1 DEF LinkInv, LinkVarTypes, Link!Blank
  <2>. QED
    BY <2>1, <2>2
      DEF LinkInv, LinkAsksOwn, LinkSetupTold, Link!LinkIsOwn, Link!ViewOfLink,
          Link!FieldsOfLink, Link!Blank
<1>4. CASE Link!Submits \/ Link!Loses
  <2>1. UNCHANGED <<link, page, learnt, typed, ask, due>>
    BY <1>4 DEF Link!Submits, Link!Loses, Link!Outside, Link!Pages
  <2>2. linkPost' \in [kind: LinkPlaces \cup {"none", "logout"}, st: LinkPostStates,
          token: Link!Links \cup {"none"}]
    <3>1. CASE linkPost' = [kind |-> page.at, st |-> "sent", token |-> page.token]
      BY <3>1 DEF LinkInv, LinkVarTypes, LinkPostStates
    <3>2. CASE linkPost' = [Link!NoPost EXCEPT !.kind = "logout", !.st = "sent"]
      BY <3>2 DEF Link!NoPost, LinkPostStates
    <3>3. CASE linkPost' = [linkPost EXCEPT !.st = "failed"]
      BY <3>3 DEF LinkInv, LinkVarTypes, LinkPostStates
    <3>. QED  BY <1>4, <3>1, <3>2, <3>3 DEF Link!Submits, Link!Loses
  <2>3. LinkVarTypes'  BY <2>1, <2>2 DEF LinkInv, LinkVarTypes
  <2>. QED
    BY <2>1, <2>3
      DEF LinkInv, LinkAsksOwn, LinkSetupTold, Link!LinkIsOwn, Link!ViewOfLink, Link!FieldsOfLink
<1>5. CASE Link!Elsewhere
  <2>1. UNCHANGED <<page, learnt, typed, ask, due, linkPost>>
    BY <1>5 DEF Link!Elsewhere, Link!Pages
  <2>2. link' \in [Link!Links -> [kind: Link!LinkPage, open: BOOLEAN]]
    <3>1. CASE UNCHANGED link  BY <3>1 DEF LinkInv, LinkVarTypes
    <3>2. CASE \E t \in Link!Links : link' = [link EXCEPT ![t].open = FALSE]
      <4>1. PICK t \in Link!Links : link' = [link EXCEPT ![t] = [@ EXCEPT !.open = FALSE]]
        BY <3>2
      <4>2. [link[t] EXCEPT !.open = FALSE] \in [kind: Link!LinkPage, open: BOOLEAN]
        BY DEF LinkInv, LinkVarTypes
      <4>. QED  BY <4>1, <4>2 DEF LinkInv, LinkVarTypes
    <3>. QED  BY <1>5, <3>1, <3>2 DEF Link!Elsewhere
  <2>3. LinkVarTypes'  BY <2>1, <2>2 DEF LinkInv, LinkVarTypes
  <2>. QED
    BY <2>1, <2>3
      DEF LinkInv, LinkAsksOwn, LinkSetupTold, Link!LinkIsOwn, Link!ViewOfLink, Link!FieldsOfLink
<1>6. CASE UNCHANGED Link!vars
  BY <1>6
    DEF Link!vars, LinkInv, LinkVarTypes, LinkAsksOwn, LinkSetupTold, Link!LinkIsOwn,
        Link!ViewOfLink, Link!FieldsOfLink
<1>. QED  BY <1>1, <1>2, <1>3, <1>4, <1>5, <1>6

\* A visitor who moves on takes nothing along.
LEMMA LinkGoesInv ==
  ASSUME LinkInv, NEW at \in LinkPlaces, NEW token \in Link!Links \cup {"none"}, Link!Goes(at, token)
  PROVE  LinkInv'
<1>1. Link!Comes(Link!Page(at, token)) /\ UNCHANGED <<link, asks, linkPost, stored>>
  BY DEF Link!Goes, Link!Outside
<1>2. /\ page' = Link!Page(at, token) /\ learnt'.is = "none" /\ ask' = 0 /\ due' \in BOOLEAN
      /\ LinkAsksOwn' /\ Link!LinkIsOwn'
  BY <1>1, LinkComesOwn, LinkPageIs
<1>3. LinkVarTypes'  BY <1>1, <1>2, LinkPageIs DEF LinkInv, LinkVarTypes
<1>. QED  BY <1>1, <1>2, <1>3 DEF LinkInv, LinkSetupTold

\* Every step of a link's page keeps the invariant.
LEMMA LinkStepInv == LinkInv /\ [Link!Next]_(Link!vars) => LinkInv'
<1>. SUFFICES ASSUME LinkInv, [Link!Next]_(Link!vars) PROVE LinkInv'  OBVIOUS
<1>1. CASE Link!Effect  BY <1>1, LinkEffectInv
<1>2. CASE Link!Serves  BY <1>2, LinkServesInv
<1>3. CASE Link!Answered  BY <1>3, LinkAnsweredInv
<1>4. CASE \E n \in Asks : Link!Answers(n) \/ Link!Arrives(n)
  BY <1>4, LinkAnswersInv, LinkArrivesInv
<1>5. CASE \/ \E at \in Link!LinkPage, t \in Link!Links : Link!Goes(at, t)
           \/ Link!Goes("bootstrap", "none") \/ Link!Goes("login", "none")
  BY <1>5, LinkGoesInv DEF LinkPlaces
<1>6. CASE Link!Told \/ Link!Types \/ Link!TriesAgain \/ Link!Submits \/ Link!Loses
             \/ Link!Elsewhere \/ UNCHANGED Link!vars
  <2>1. UNCHANGED <<asks, stored>>
    BY <1>6
      DEF Link!Told, Link!Types, Link!TriesAgain, Link!Submits, Link!Loses, Link!Elsewhere,
          Link!vars
  <2>. QED  BY <1>6, <2>1, LinkOtherStepsInv
<1>. QED  BY <1>1, <1>2, <1>3, <1>4, <1>5, <1>6 DEF Link!Next, Link!Steps

\* The invariant types the variables.
LEMMA LinkInvTypes == LinkInv => Link!TypeOK
<1>. SUFFICES ASSUME LinkInv PROVE Link!TypeOK  OBVIOUS
<1>1. \A t \in Link!Links : link[t].kind \in Link!LinkPage /\ link[t].open \in BOOLEAN
  BY DEF LinkInv, LinkVarTypes
<1>2. \A n \in Asks : asks[n].st \in LinkAskStates  BY DEF LinkInv, LinkVarTypes
<1>3. linkPost.st \in LinkPostStates  BY DEF LinkInv, LinkVarTypes
<1>. QED
  BY <1>1, <1>2, <1>3
    DEF LinkInv, LinkVarTypes, Link!TypeOK, LinkAskStates, LinkPostStates, LinkPlaces

----------------------------------------------------------------------------
\* Send event (SendEvent).
SendEventRecord == [id: {0} \cup Send!Ids, ver: Nat, open: BOOLEAN]
SendCallStates == {"none", "sent", "ok", "failed"}
SendCallRecord == [st: SendCallStates, aborted: BOOLEAN, event: SendEventRecord]
SendPostRecord == [st: SendCallStates, mine: BOOLEAN, key: {0} \cup Send!Ids, body: Typed,
  event: SendEventRecord]
SendFormRecord == [key: Send!Ids, body: Typed, payloadError: BOOLEAN, submitError: BOOLEAN,
  submitting: BOOLEAN]

SendVarTypes ==
    /\ gate \in {"closed", "loading", "error", "none", "all_disabled", "ready"}
    /\ form \in SendFormRecord
    /\ result \in SendEventRecord /\ seen \in SendEventRecord
    /\ post \in SendPostRecord
    /\ status \in [Slots -> SendCallRecord]
    /\ checking \in {0} \cup Slots
    /\ events \in [Send!Ids -> [body: Typed, ver: Nat, open: BOOLEAN]]
    /\ targets \in {"none", "disabled", "active"}
    /\ sent \in {0, 1}

\* An event shown or answered is one of the API, as it was at some time.
SendIsPast(e) == e.id \in Send!Ids /\ e.ver > 0 /\ events[e.id].ver >= e.ver

\* The form waits for its own POST, with its own key.
SendPostOfForm ==
    /\ post.mine =>
         /\ post.st # "none" /\ form.submitting /\ post.key = form.key
         /\ ~form.submitError /\ ~form.payloadError
    /\ post.st # "none" => post.key \in Send!Ids
    /\ post.st = "ok" => SendIsPast(post.event)

\* What is made is of the key in the form; nothing is while the page is left.
SendMadeOfForm ==
    /\ sent = 1 => Send!Made(form.key)
    /\ gate = "closed" => sent = 0 /\ ~post.mine

\* The accepted event is shown with nothing under way, and it is followed.
SendResultIsPast ==
    /\ Send!AcceptedShown => SendIsPast(result)
    /\ result.open => Send!AcceptedShown
    /\ ~Send!AcceptedShown => result = Send!NoEvent
    /\ Send!AcceptedShown => ~form.submitting /\ ~form.submitError /\ ~form.payloadError

\* One call for the status at a time is not aborted, and it is no older than what is shown.
SendOneStatus ==
    /\ \A n \in Slots : status[n].st # "none" => SendIsPast(status[n].event)
    /\ \A n \in Slots : status[n].st # "none" /\ ~status[n].aborted => n = checking
    /\ \A n \in Slots : status[n].st # "none" /\ ~status[n].aborted /\ status[n].event.id = result.id
          => status[n].event.ver >= result.ver
    /\ ~seen.open => checking = 0

SendInv == SendVarTypes /\ SendPostOfForm /\ SendMadeOfForm /\ SendResultIsPast /\ SendOneStatus

\* Constant records have their types.
LEMMA SendValues ==
  /\ Send!NoEvent \in SendEventRecord /\ Send!NoEvent.id = 0 /\ Send!NoEvent.open = FALSE
  /\ Send!NoPost \in SendPostRecord /\ Send!NoPost.st = "none" /\ Send!NoPost.mine = FALSE
  /\ Send!NoCall \in SendCallRecord /\ Send!NoCall.st = "none"
  /\ 0 \notin Send!Ids /\ 0 \notin Slots
<1>1. 0 \notin Send!Ids /\ 0 \notin Slots  BY SendAssumption DEF Send!Ids
<1>2. Send!NoEvent \in SendEventRecord /\ Send!NoEvent.id = 0 /\ Send!NoEvent.open = FALSE
  BY DEF Send!NoEvent, SendEventRecord
<1>. HIDE DEF Send!NoEvent
<1>3. Send!NoPost \in SendPostRecord /\ Send!NoPost.st = "none" /\ Send!NoPost.mine = FALSE
  BY <1>2, SendAssumption DEF Send!NoPost, SendPostRecord, SendCallStates
<1>4. Send!NoCall \in SendCallRecord /\ Send!NoCall.st = "none"
  BY <1>2 DEF Send!NoCall, SendCallRecord, SendCallStates
<1>. QED  BY <1>1, <1>2, <1>3, <1>4

\* A new form is empty.
LEMMA SendInitialIs ==
  ASSUME NEW k \in Send!Ids
  PROVE  /\ Send!Initial(k) \in SendFormRecord /\ Send!Initial(k).key = k
         /\ ~Send!Initial(k).submitting /\ ~Send!Initial(k).submitError /\ ~Send!Initial(k).payloadError
<1>1. (CHOOSE b \in Typed \ {Broken} : TRUE) \in Typed  BY SendAssumption
<1>. QED  BY <1>1 DEF Send!Initial, SendFormRecord

\* At the start nothing was sent.
LEMMA SendInitInv == Send!Init => SendInv
<1>. SUFFICES ASSUME Send!Init PROVE SendInv  OBVIOUS
<1>1. 1 \in Send!Ids  BY SendAssumption DEF Send!Ids
<1>2. SendVarTypes
  <2>1. form \in SendFormRecord  BY <1>1, SendInitialIs DEF Send!Init
  <2>2. events \in [Send!Ids -> [body: Typed, ver: Nat, open: BOOLEAN]]
    BY SendAssumption DEF Send!Init
  <2>3. status \in [Slots -> SendCallRecord]  BY SendValues DEF Send!Init
  <2>. QED  BY <2>1, <2>2, <2>3, SendValues DEF Send!Init, SendVarTypes
<1>3. status = [n \in Slots |-> Send!NoCall]  BY DEF Send!Init
<1>4. \A n \in Slots : status[n].st = "none"  BY <1>3, SendValues
<1>5. SendOneStatus  BY <1>4 DEF Send!Init, SendOneStatus
<1>6. SendPostOfForm /\ SendMadeOfForm /\ SendResultIsPast
  BY SendValues
    DEF Send!Init, SendPostOfForm, SendMadeOfForm, SendResultIsPast, Send!AcceptedShown
<1>. QED  BY <1>2, <1>5, <1>6 DEF SendInv

\* The API forgets nothing of an event.
SendEventsGrow == \A k \in Send!Ids : events'[k].ver >= events[k].ver

\* A state the event has been in stays one it has been in.
LEMMA SendPastStays ==
  ASSUME SendVarTypes, SendVarTypes', SendEventsGrow, NEW e \in SendEventRecord, SendIsPast(e)
  PROVE  e.id \in Send!Ids /\ e.ver > 0 /\ events'[e.id].ver >= e.ver
<1>1. e.id \in Send!Ids /\ e.ver > 0 /\ events[e.id].ver >= e.ver  BY DEF SendIsPast
<1>2. events[e.id].ver \in Nat /\ events'[e.id].ver \in Nat /\ e.ver \in Nat
  BY <1>1 DEF SendVarTypes, SendEventRecord
<1>. QED  BY <1>1, <1>2 DEF SendEventsGrow

\* Steps that leave the page as it is, though the API may know more.
LEMMA SendEventsOnlyInv ==
  ASSUME SendInv, SendVarTypes', SendEventsGrow, post' = post \/ (post'.st = "failed"
           /\ post' = [post EXCEPT !.st = "failed"]),
         post' = post \/ post.st # "none",
         UNCHANGED <<gate, form, result, seen, status, checking, sent>>
  PROVE  SendInv'
<1>1. \A e \in SendEventRecord : SendIsPast(e) => e.id \in Send!Ids /\ e.ver > 0
        /\ events'[e.id].ver >= e.ver
  BY SendPastStays DEF SendInv
<1>2. /\ post.event \in SendEventRecord /\ result \in SendEventRecord
      /\ \A n \in Slots : status[n].event \in SendEventRecord
  BY DEF SendInv, SendVarTypes, SendPostRecord, SendCallRecord
<1>3. /\ post'.mine = post.mine /\ post'.key = post.key /\ post'.event = post.event
      /\ post'.st = post.st \/ (post'.st = "failed" /\ post.st # "none")
  BY DEF SendInv, SendVarTypes, SendPostRecord
<1>4. SendPostOfForm'  BY <1>1, <1>2, <1>3 DEF SendInv, SendPostOfForm, SendIsPast
<1>5. SendMadeOfForm'
  <2>1. form.key \in Send!Ids  BY DEF SendInv, SendVarTypes, SendFormRecord
  <2>2. events[form.key].ver \in Nat /\ events'[form.key].ver \in Nat
    BY <2>1 DEF SendInv, SendVarTypes
  <2>. QED  BY <1>3, <2>1, <2>2 DEF SendInv, SendMadeOfForm, Send!Made, SendEventsGrow
<1>6. SendResultIsPast'
  BY <1>1, <1>2 DEF SendInv, SendResultIsPast, Send!AcceptedShown, SendIsPast
<1>7. SendOneStatus'  BY <1>1, <1>2 DEF SendInv, SendOneStatus, SendIsPast
<1>. QED  BY <1>4, <1>5, <1>6, <1>7 DEF SendInv

\* What others do to the events: the worker finishes one, a replay opens it again.
LEMMA SendWorkerInv ==
  ASSUME SendInv, NEW k \in Send!Ids, Send!Finishes(k) \/ Send!Replays(k)
  PROVE  SendInv'
<1>1. UNCHANGED <<gate, form, result, seen, post, status, checking, targets, sent>>
  BY DEF Send!Finishes, Send!Replays
<1>2. PICK open \in BOOLEAN : events' = [events EXCEPT ![k].open = open, ![k].ver = @ + 1]
  BY DEF Send!Finishes, Send!Replays
<1>. DEFINE e == [events[k] EXCEPT !.open = open, !.ver = @ + 1]
<1>3. events[k] \in [body: Typed, ver: Nat, open: BOOLEAN]  BY DEF SendInv, SendVarTypes
<1>10. e.ver = events[k].ver + 1  BY <1>3
<1>11. events[k].ver + 1 \in Nat  BY <1>3
<1>4. e \in [body: Typed, ver: Nat, open: BOOLEAN] /\ e.ver = events[k].ver + 1
  BY <1>3, <1>10, <1>11
<1>5. events' = [events EXCEPT ![k] = e]  BY <1>2
<1>. HIDE DEF e
<1>6. /\ events' \in [Send!Ids -> [body: Typed, ver: Nat, open: BOOLEAN]] /\ events'[k] = e
      /\ \A j \in Send!Ids : j # k => events'[j] = events[j]
  BY <1>4, <1>5 DEF SendInv, SendVarTypes
<1>7. SendVarTypes'  BY <1>1, <1>6 DEF SendInv, SendVarTypes
<1>8. \A j \in Send!Ids : events[j].ver \in Nat  BY DEF SendInv, SendVarTypes
<1>9. SendEventsGrow  BY <1>3, <1>4, <1>6, <1>8 DEF SendEventsGrow
<1>. QED  BY <1>1, <1>7, <1>9, SendEventsOnlyInv

\* The answer is lost, or the last endpoint disabled: the events stay.
LEMMA SendLosesInv ==
  ASSUME SendInv, Send!Loses \/ Send!Disables \/ UNCHANGED Send!vars
  PROVE  SendInv'
<1>1. UNCHANGED <<gate, form, result, seen, status, checking, events, sent>>
  BY DEF Send!Loses, Send!Disables, Send!vars
<1>2. \A k \in Send!Ids : events[k].ver \in Nat  BY DEF SendInv, SendVarTypes
<1>3. SendEventsGrow  BY <1>1, <1>2 DEF SendEventsGrow
<1>4. CASE Send!Loses
  <2>1. post' = [post EXCEPT !.st = "failed"] /\ post.st # "none" /\ targets' = targets
    BY <1>4 DEF Send!Loses
  <2>2. post' \in SendPostRecord /\ post'.st = "failed"
    BY <2>1 DEF SendInv, SendVarTypes, SendPostRecord, SendCallStates
  <2>3. SendVarTypes'  BY <1>1, <2>1, <2>2 DEF SendInv, SendVarTypes
  <2>. QED  BY <1>1, <1>3, <2>1, <2>2, <2>3, SendEventsOnlyInv
<1>5. CASE Send!Disables \/ UNCHANGED Send!vars
  <2>1. post' = post /\ targets' \in {"disabled", targets}  BY <1>5 DEF Send!Disables, Send!vars
  <2>2. SendVarTypes'  BY <1>1, <2>1 DEF SendInv, SendVarTypes
  <2>. QED  BY <1>1, <1>3, <2>1, <2>2, SendEventsOnlyInv
<1>. QED  BY <1>4, <1>5

\* The API makes an event for a key once, and answers with it.
LEMMA SendIngestsInv == ASSUME SendInv, Send!Ingests PROVE SendInv'
<1>. DEFINE k == post.key
<1>1. post.st = "sent" /\ UNCHANGED <<gate, form, result, seen, status, checking, targets>>
  BY DEF Send!Ingests
<1>2. k \in Send!Ids /\ post \in SendPostRecord  BY <1>1 DEF SendInv, SendVarTypes, SendPostOfForm
<1>3. \A j \in Send!Ids : events[j] \in [body: Typed, ver: Nat, open: BOOLEAN]
  BY DEF SendInv, SendVarTypes
<1>4. \A j \in Send!Ids : events[j].ver \in Nat  BY <1>3
<1>5. CASE Send!Made(k) /\ post' = [post EXCEPT !.st = "failed"]
  <2>1. UNCHANGED <<events, sent>>  BY <1>5 DEF Send!Ingests
  <2>2. SendEventsGrow  BY <1>4, <2>1 DEF SendEventsGrow
  <2>3. post' \in SendPostRecord /\ post'.st = "failed"
    BY <1>2, <1>5 DEF SendPostRecord, SendCallStates
  <2>4. SendVarTypes'  BY <1>1, <2>1, <2>3 DEF SendInv, SendVarTypes
  <2>. QED  BY <1>1, <1>5, <2>1, <2>2, <2>3, <2>4, SendEventsOnlyInv
<1>6. CASE Send!Made(k) /\ post' = [post EXCEPT !.st = "ok", !.event = Send!Shown(k)]
  <2>1. UNCHANGED <<events, sent>>  BY <1>6 DEF Send!Ingests
  <2>2. Send!Shown(k) \in SendEventRecord /\ SendIsPast(Send!Shown(k))
    <3>1. events[k].ver > 0  BY <1>6 DEF Send!Made
    <3>. QED  BY <1>2, <1>3, <3>1 DEF Send!Shown, SendEventRecord, SendIsPast
  <2>. HIDE DEF k
  <2>3. /\ post' \in SendPostRecord /\ post'.st = "ok" /\ post'.event = Send!Shown(k)
        /\ post'.mine = post.mine /\ post'.key = post.key
    BY <1>2, <1>6, <2>2 DEF SendPostRecord, SendCallStates
  <2>4. SendVarTypes'  BY <1>1, <2>1, <2>3 DEF SendInv, SendVarTypes
  <2>5. SendIsPast(post.event)'  BY <2>1, <2>2, <2>3 DEF SendIsPast
  <2>6. SendPostOfForm' /\ SendMadeOfForm'
    BY <1>1, <2>1, <2>3, <2>5 DEF SendInv, SendPostOfForm, SendMadeOfForm, Send!Made
  <2>7. SendResultIsPast' /\ SendOneStatus'
    BY <1>1, <2>1 DEF SendInv, SendResultIsPast, SendOneStatus, Send!AcceptedShown, SendIsPast
  <2>. QED  BY <2>4, <2>6, <2>7 DEF SendInv
<1>7. CASE ~Send!Made(k)
  <2>. DEFINE open == targets = "active"
              e == [body |-> post.body, ver |-> 1, open |-> open]
              m == [id |-> k, ver |-> 1, open |-> open]
  <2>1. /\ events' = [events EXCEPT ![k] = e] /\ post' = [post EXCEPT !.st = "ok", !.event = m]
        /\ sent' = IF post.mine THEN sent + 1 ELSE sent
    BY <1>7 DEF Send!Ingests
  <2>2. e \in [body: Typed, ver: Nat, open: BOOLEAN] /\ e.ver = 1
    BY <1>2 DEF SendPostRecord
  <2>3. m \in SendEventRecord /\ m.id = k /\ m.ver = 1  BY <1>2 DEF SendEventRecord
  <2>. HIDE DEF e, m
  <2>4. /\ events' \in [Send!Ids -> [body: Typed, ver: Nat, open: BOOLEAN]] /\ events'[k] = e
        /\ \A j \in Send!Ids : j # k => events'[j] = events[j]
    BY <1>2, <2>1, <2>2 DEF SendInv, SendVarTypes
  <2>5. events[k].ver = 0  BY <1>2, <1>4, <1>7 DEF Send!Made
  <2>6. SendEventsGrow  BY <1>4, <2>2, <2>4, <2>5 DEF SendEventsGrow
  <2>7. /\ post' \in SendPostRecord /\ post'.st = "ok" /\ post'.event = m
        /\ post'.mine = post.mine /\ post'.key = post.key
    BY <1>2, <2>1, <2>3 DEF SendPostRecord, SendCallStates
  <2>8. post.mine => k = form.key /\ sent = 0
    <3>. SUFFICES ASSUME post.mine PROVE k = form.key /\ sent = 0  OBVIOUS
    <3>1. k = form.key  BY DEF SendInv, SendPostOfForm
    <3>. QED  BY <1>7, <3>1 DEF SendInv, SendVarTypes, SendMadeOfForm
  <2>9. sent' \in {0, 1} /\ (~post.mine => sent' = sent)  BY <2>1, <2>8 DEF SendInv, SendVarTypes
  <2>10. SendVarTypes'  BY <1>1, <2>4, <2>7, <2>9 DEF SendInv, SendVarTypes
  <2>11. \A x \in SendEventRecord : SendIsPast(x) => x.id \in Send!Ids /\ x.ver > 0
           /\ events'[x.id].ver >= x.ver
    BY <2>6, <2>10, SendPastStays DEF SendInv
  <2>12. SendPostOfForm'
    BY <1>1, <1>2, <2>2, <2>3, <2>4, <2>7 DEF SendInv, SendPostOfForm, SendIsPast
  <2>13. SendMadeOfForm'
    <3>1. events'[k].ver > 0  BY <2>2, <2>4
    <3>2. form.key \in Send!Ids  BY DEF SendInv, SendVarTypes, SendFormRecord
    <3>3. Send!Made(form.key) => events'[form.key].ver > 0
      BY <1>7, <2>4, <3>2 DEF Send!Made
    <3>. QED  BY <1>1, <2>7, <2>8, <2>9, <3>1, <3>3 DEF SendInv, SendMadeOfForm, Send!Made
  <2>14. result \in SendEventRecord /\ \A n \in Slots : status[n].event \in SendEventRecord
    BY DEF SendInv, SendVarTypes, SendCallRecord
  <2>15. SendResultIsPast' /\ SendOneStatus'
    BY <1>1, <2>11, <2>14
      DEF SendInv, SendResultIsPast, SendOneStatus, Send!AcceptedShown, SendIsPast
  <2>. QED  BY <2>10, <2>12, <2>13, <2>15 DEF SendInv
<1>. QED  BY <1>5, <1>6, <1>7 DEF Send!Ingests

\* The gate opens, or does not; the form is as it was.
LEMMA SendOpensInv == ASSUME SendInv, Send!Opens PROVE SendInv'
<1>1. UNCHANGED <<form, result, seen, post, status, checking, events, targets, sent>>
  BY DEF Send!Opens
<1>2. gate' \in {"ready", "all_disabled", "none", "error"}
  BY DEF Send!Opens, SendInv, SendVarTypes
<1>3. SendVarTypes'  BY <1>1, <1>2 DEF SendInv, SendVarTypes
<1>4. SendPostOfForm' /\ SendMadeOfForm'
  BY <1>1, <1>2 DEF SendInv, SendPostOfForm, SendMadeOfForm, SendIsPast, Send!Made
<1>5. SendResultIsPast' /\ SendOneStatus'
  BY <1>1 DEF SendInv, SendResultIsPast, SendOneStatus, Send!AcceptedShown, SendIsPast
<1>. QED  BY <1>3, <1>4, <1>5 DEF SendInv

\* A form that waits for nothing becomes f; what is counted starts anew.
LEMMA SendFormInv ==
  ASSUME SendInv, NEW f \in SendFormRecord, form' = f, Send!FormEnabled \/ Send!AcceptedShown,
         sent' = 0, UNCHANGED <<gate, seen, post, status, checking, events, targets>>,
         \/ result' = Send!NoEvent
         \/ /\ result' = result
            /\ Send!AcceptedShown => ~f.submitting /\ ~f.submitError /\ ~f.payloadError
  PROVE  SendInv'
<1>1. SendVarTypes'  BY SendValues DEF SendInv, SendVarTypes
<1>2. ~post.mine  BY DEF SendInv, SendPostOfForm, SendResultIsPast, Send!FormEnabled
<1>3. SendPostOfForm' /\ SendMadeOfForm'
  BY <1>2 DEF SendInv, SendPostOfForm, SendMadeOfForm, SendIsPast
<1>4. CASE result' = Send!NoEvent
  <2>1. SendResultIsPast'  BY <1>4, SendValues DEF SendResultIsPast, Send!AcceptedShown
  <2>2. \A n \in Slots : status[n].st # "none" => status[n].event.id # 0
    BY SendValues DEF SendInv, SendOneStatus, SendIsPast
  <2>3. SendOneStatus'  BY <1>4, <2>2, SendValues DEF SendInv, SendOneStatus, SendIsPast
  <2>. QED  BY <1>1, <1>3, <2>1, <2>3 DEF SendInv
<1>5. CASE /\ result' = result
           /\ Send!AcceptedShown => ~f.submitting /\ ~f.submitError /\ ~f.payloadError
  <2>1. SendResultIsPast' /\ SendOneStatus'
    BY <1>5 DEF SendInv, SendResultIsPast, SendOneStatus, Send!AcceptedShown, SendIsPast
  <2>. QED  BY <1>1, <1>3, <2>1 DEF SendInv
<1>. QED  BY <1>4, <1>5

\* The fields change while no POST is under way.
LEMMA SendEditsInv == ASSUME SendInv, Send!Edits PROVE SendInv'
<1>1. /\ Send!FormEnabled /\ sent' = 0
      /\ UNCHANGED <<gate, result, seen, post, status, checking, events, targets>>
  BY DEF Send!Edits
<1>2. form \in SendFormRecord  BY DEF SendInv, SendVarTypes
<1>3. CASE \E k \in {j \in Send!Ids : Send!Made(j)} \cup Send!Unused :
             form' = [form EXCEPT !.key = k, !.submitError = FALSE]
  <2>1. PICK k \in Send!Ids : form' = [form EXCEPT !.key = k, !.submitError = FALSE]
    BY <1>3 DEF Send!Unused
  <2>2. /\ form' \in SendFormRecord /\ form'.submitting = form.submitting
        /\ form'.submitError = FALSE /\ form'.payloadError = form.payloadError
    BY <1>2, <2>1 DEF SendFormRecord
  <2>. QED  BY <1>1, <2>2, SendFormInv DEF SendInv, SendResultIsPast
<1>4. CASE \E b \in Typed : form' = [form EXCEPT !.body = b, !.payloadError = FALSE,
                                                   !.submitError = FALSE]
  <2>1. /\ form' \in SendFormRecord /\ form'.submitting = form.submitting
        /\ form'.submitError = FALSE /\ form'.payloadError = FALSE
    BY <1>2, <1>4 DEF SendFormRecord
  <2>. QED  BY <1>1, <2>1, SendFormInv DEF SendInv, SendResultIsPast
<1>. QED  BY <1>3, <1>4 DEF Send!Edits

\* A reset starts with another key, and without the event that was accepted.
LEMMA SendResetsInv == ASSUME SendInv, Send!Resets PROVE SendInv'
<1>1. /\ Send!AcceptedShown \/ Send!FormEnabled
      /\ result' = Send!NoEvent /\ sent' = 0
      /\ UNCHANGED <<gate, seen, post, status, checking, events, targets>>
  BY DEF Send!Resets
<1>2. PICK k \in Send!Ids : form' = Send!Initial(k)  BY DEF Send!Resets, Send!Unused
<1>. QED  BY <1>1, <1>2, SendInitialIs, SendFormInv

\* A submission takes the form as it is.
LEMMA SendSubmitsInv == ASSUME SendInv, Send!Submits PROVE SendInv'
<1>1. /\ Send!Ready /\ Send!FormEnabled /\ post.st = "none" /\ result' = Send!NoEvent
      /\ UNCHANGED <<gate, seen, status, checking, events, targets, sent>>
  BY DEF Send!Submits, Send!Clears
<1>2. form \in SendFormRecord /\ ~post.mine  BY <1>1 DEF SendInv, SendVarTypes, SendPostOfForm
<1>3. SendResultIsPast'  BY <1>1, SendValues DEF SendResultIsPast, Send!AcceptedShown
<1>4. \A n \in Slots : status[n].st # "none" => status[n].event.id # 0
  BY SendValues DEF SendInv, SendOneStatus, SendIsPast
<1>5. SendOneStatus'  BY <1>1, <1>4, SendValues DEF SendInv, SendOneStatus, SendIsPast
<1>6. CASE form.body = Broken
  <2>1. form' = [form EXCEPT !.submitError = FALSE, !.payloadError = TRUE] /\ post' = post
    BY <1>6 DEF Send!Submits
  <2>2. form' \in SendFormRecord /\ form'.key = form.key  BY <1>2, <2>1 DEF SendFormRecord
  <2>3. SendVarTypes'  BY <1>1, <2>1, <2>2, SendValues DEF SendInv, SendVarTypes
  <2>4. SendPostOfForm' /\ SendMadeOfForm'
    BY <1>1, <1>2, <2>1, <2>2 DEF SendInv, SendPostOfForm, SendMadeOfForm, Send!Made
  <2>. QED  BY <1>3, <1>5, <2>3, <2>4 DEF SendInv
<1>7. CASE form.body # Broken
  <2>1. /\ form' = [form EXCEPT !.submitError = FALSE, !.payloadError = FALSE, !.submitting = TRUE]
        /\ post' = [Send!NoPost EXCEPT !.st = "sent", !.mine = TRUE, !.key = form.key,
             !.body = form.body]
    BY <1>7 DEF Send!Submits
  <2>2. /\ form' \in SendFormRecord /\ form'.key = form.key /\ form'.submitting
        /\ ~form'.submitError /\ ~form'.payloadError
    BY <1>2, <2>1 DEF SendFormRecord
  <2>3. form.key \in Send!Ids /\ form.body \in Typed  BY <1>2 DEF SendFormRecord
  <2>4. /\ post' \in SendPostRecord /\ post'.st = "sent" /\ post'.mine /\ post'.key = form.key
    BY <2>1, <2>3, SendValues DEF SendPostRecord, SendCallStates
  <2>5. SendVarTypes'  BY <1>1, <2>2, <2>4, SendValues DEF SendInv, SendVarTypes
  <2>6. SendPostOfForm'  BY <2>2, <2>3, <2>4 DEF SendPostOfForm
  <2>7. gate # "closed"  BY <1>1 DEF Send!Ready, Send!Shows, Send!Help
  <2>8. SendMadeOfForm'  BY <1>1, <2>2, <2>7 DEF SendInv, SendMadeOfForm, Send!Made
  <2>. QED  BY <1>3, <1>5, <2>5, <2>6, <2>8 DEF SendInv
<1>. QED  BY <1>6, <1>7

\* While nothing is accepted and no effect waits, no call for the status counts.
LEMMA SendQuietStatus ==
  ASSUME SendInv, ~Send!Pending, ~Send!AcceptedShown
  PROVE  checking = 0 /\ \A n \in Slots : status[n].st # "none" => status[n].aborted
<1>1. result.open = FALSE
  BY DEF SendInv, SendVarTypes, SendEventRecord, SendResultIsPast
<1>2. ~seen.open  BY <1>1 DEF Send!Pending
<1>. QED  BY <1>2, SendValues DEF SendInv, SendOneStatus

\* The answer to the form's POST is shown in the form that sent it.
LEMMA SendAnsweredInv == ASSUME SendInv, Send!Answered PROVE SendInv'
<1>1. /\ post.st \in {"ok", "failed"} /\ ~Send!Pending /\ post' = Send!NoPost
      /\ UNCHANGED <<gate, seen, status, checking, events, targets, sent>>
  BY DEF Send!Answered
<1>2. form \in SendFormRecord  BY DEF SendInv, SendVarTypes
<1>3. CASE ~post.mine
  <2>1. UNCHANGED <<form, result>>  BY <1>3 DEF Send!Answered
  <2>2. SendVarTypes'  BY <1>1, <2>1, SendValues DEF SendInv, SendVarTypes
  <2>3. SendPostOfForm' /\ SendMadeOfForm'
    BY <1>1, <2>1, SendValues DEF SendInv, SendPostOfForm, SendMadeOfForm, Send!Made
  <2>4. SendResultIsPast' /\ SendOneStatus'
    BY <1>1, <2>1 DEF SendInv, SendResultIsPast, SendOneStatus, Send!AcceptedShown, SendIsPast
  <2>. QED  BY <2>2, <2>3, <2>4 DEF SendInv
<1>4. CASE post.mine
  <2>1. ~Send!AcceptedShown  BY <1>4 DEF SendInv, SendPostOfForm, SendResultIsPast
  <2>2. checking = 0 /\ \A n \in Slots : status[n].st # "none" => status[n].aborted
    BY <1>1, <2>1, SendQuietStatus
  <2>3. SendOneStatus'  BY <1>1, <2>2 DEF SendInv, SendOneStatus, SendIsPast
  <2>4. CASE post.st = "ok"
    <3>1. result' = post.event /\ form' = [form EXCEPT !.submitting = FALSE]
      BY <1>4, <2>4 DEF Send!Answered
    <3>2. SendIsPast(post.event) /\ ~form.submitError /\ ~form.payloadError
      BY <1>4, <2>4 DEF SendInv, SendPostOfForm
    <3>3. /\ form' \in SendFormRecord /\ form'.key = form.key /\ ~form'.submitting
          /\ ~form'.submitError /\ ~form'.payloadError
      BY <1>2, <3>1, <3>2 DEF SendFormRecord
    <3>4. post.event \in SendEventRecord  BY DEF SendInv, SendVarTypes, SendPostRecord
    <3>5. SendVarTypes'  BY <1>1, <3>1, <3>3, <3>4, SendValues DEF SendInv, SendVarTypes
    <3>6. SendPostOfForm' /\ SendMadeOfForm'
      BY <1>1, <3>3, SendValues DEF SendInv, SendPostOfForm, SendMadeOfForm, Send!Made
    <3>7. SendResultIsPast'
      BY <1>1, <3>1, <3>2, <3>3, SendValues DEF SendResultIsPast, Send!AcceptedShown, SendIsPast
    <3>. QED  BY <2>3, <3>5, <3>6, <3>7 DEF SendInv
  <2>5. CASE post.st = "failed"
    <3>1. result' = result /\ form' = [form EXCEPT !.submitting = FALSE, !.submitError = TRUE]
      BY <1>4, <2>5 DEF Send!Answered, Send!Kept
    <3>2. form' \in SendFormRecord /\ form'.key = form.key  BY <1>2, <3>1 DEF SendFormRecord
    <3>3. SendVarTypes'  BY <1>1, <3>1, <3>2, SendValues DEF SendInv, SendVarTypes
    <3>4. SendPostOfForm' /\ SendMadeOfForm'
      BY <1>1, <3>2, SendValues DEF SendInv, SendPostOfForm, SendMadeOfForm, Send!Made
    <3>5. SendResultIsPast'
      BY <1>1, <2>1, <3>1 DEF SendInv, SendResultIsPast, Send!AcceptedShown
    <3>. QED  BY <2>3, <3>3, <3>4, <3>5 DEF SendInv
  <2>. QED  BY <1>1, <2>4, <2>5
<1>. QED  BY <1>3, <1>4 DEF SendInv, SendVarTypes, SendPostRecord

\* The calls for the status as they were, all aborted.
SendAllAborted(calls) ==
    /\ calls \in [Slots -> SendCallRecord]
    /\ \A n \in Slots :
         /\ calls[n].st = status[n].st /\ calls[n].event = status[n].event
         /\ calls[n].st # "none" => calls[n].aborted

\* Aborting the call that is held aborts all there are.
LEMMA SendAbortedIs == ASSUME SendInv PROVE SendAllAborted(Send!Aborted)
<1>1. status \in [Slots -> SendCallRecord]  BY DEF SendInv, SendVarTypes
<1>2. CASE checking = 0
  BY <1>1, <1>2, SendValues DEF Send!Aborted, SendAllAborted, SendInv, SendOneStatus
<1>3. CASE checking # 0
  <2>1. checking \in Slots  BY <1>3 DEF SendInv, SendVarTypes
  <2>. DEFINE c == [status[checking] EXCEPT !.aborted = TRUE]
  <2>2. Send!Aborted = [status EXCEPT ![checking] = c]  BY <1>3 DEF Send!Aborted
  <2>3. c \in SendCallRecord /\ c.st = status[checking].st /\ c.event = status[checking].event
          /\ c.aborted
    BY <1>1, <2>1 DEF SendCallRecord
  <2>. HIDE DEF c
  <2>. QED  BY <1>1, <2>1, <2>2, <2>3 DEF SendAllAborted, SendInv, SendOneStatus
<1>. QED  BY <1>2, <1>3

\* A new call asks for the event that is shown.
LEMMA SendAsksInv ==
  ASSUME SendInv, NEW calls, SendAllAborted(calls), Send!AsksStatus(calls), result.open,
         seen' = result, UNCHANGED <<gate, form, result, post, events, targets, sent>>
  PROVE  SendInv'
<1>. DEFINE c == [Send!NoCall EXCEPT !.st = "sent", !.event = result]
<1>1. Send!NewCall \in Slots  BY DEF Send!AsksStatus, Send!NewCall, Send!Free
<1>2. status' = [calls EXCEPT ![Send!NewCall] = c] /\ checking' = Send!NewCall
  BY DEF Send!AsksStatus
<1>3. c \in SendCallRecord /\ c.st = "sent" /\ c.event = result
  BY SendValues DEF SendCallRecord, SendCallStates, SendInv, SendVarTypes
<1>. HIDE DEF c
<1>4. /\ status' \in [Slots -> SendCallRecord] /\ status'[Send!NewCall] = c
      /\ \A n \in Slots : n # Send!NewCall => status'[n] = calls[n]
  BY <1>1, <1>2, <1>3 DEF SendAllAborted
<1>5. SendVarTypes'  BY <1>1, <1>2, <1>4 DEF SendInv, SendVarTypes
<1>6. SendIsPast(result)  BY DEF SendInv, SendResultIsPast
<1>7. SendPostOfForm' /\ SendMadeOfForm' /\ SendResultIsPast'
  BY
    DEF SendInv, SendPostOfForm, SendMadeOfForm, SendResultIsPast, Send!Made, Send!AcceptedShown,
        SendIsPast
<1>8. result.ver \in Nat  BY DEF SendInv, SendVarTypes, SendEventRecord
<1>9. SendOneStatus'
  <2>1. \A n \in Slots : n # Send!NewCall /\ status'[n].st # "none" =>
          /\ status'[n].aborted /\ status'[n].event = status[n].event
          /\ SendIsPast(status[n].event)
    BY <1>4 DEF SendInv, SendOneStatus, SendAllAborted
  <2>. QED  BY <1>1, <1>2, <1>3, <1>4, <1>6, <1>8, <2>1 DEF SendOneStatus, SendIsPast
<1>. QED  BY <1>5, <1>7, <1>9 DEF SendInv

\* The effects of another event abort the call for the one before.
LEMMA SendEffectsInv == ASSUME SendInv, Send!Effects PROVE SendInv'
<1>1. seen' = result /\ UNCHANGED <<gate, form, result, post, events, targets, sent>>
  BY DEF Send!Effects
<1>2. result.open \in BOOLEAN /\ seen.open \in BOOLEAN
  BY DEF SendInv, SendVarTypes, SendEventRecord
<1>3. ~seen.open => SendAllAborted(status)
  <2>1. ~seen.open => \A n \in Slots : status[n].st # "none" => status[n].aborted
    BY SendValues DEF SendInv, SendOneStatus
  <2>. QED  BY <2>1 DEF SendAllAborted, SendInv, SendVarTypes
<1>4. CASE result.open  BY <1>1, <1>3, <1>4, SendAbortedIs, SendAsksInv DEF Send!Effects
<1>5. CASE ~result.open
  <2>1. SendAllAborted(status') /\ checking' = 0
    BY <1>3, <1>5, SendAbortedIs DEF Send!Effects, SendInv, SendOneStatus
  <2>2. SendVarTypes'  BY <1>1, <2>1 DEF SendInv, SendVarTypes, SendAllAborted
  <2>3. SendPostOfForm' /\ SendMadeOfForm' /\ SendResultIsPast'
    BY <1>1
      DEF SendInv, SendPostOfForm, SendMadeOfForm, SendResultIsPast, Send!Made,
          Send!AcceptedShown, SendIsPast
  <2>4. SendOneStatus'  BY <1>1, <2>1 DEF SendInv, SendOneStatus, SendAllAborted, SendIsPast
  <2>. QED  BY <2>2, <2>3, <2>4 DEF SendInv
<1>. QED  BY <1>4, <1>5

\* The timer asks when no call is under way.
LEMMA SendPollsInv == ASSUME SendInv, Send!Polls PROVE SendInv'
<1>1. /\ Send!Ready /\ result.open /\ checking = 0 /\ Send!AsksStatus(status)
      /\ UNCHANGED <<gate, form, result, seen, post, events, targets, sent>>
  BY DEF Send!Polls, Send!Idle
<1>2. SendAllAborted(status)
  BY <1>1, SendValues DEF SendAllAborted, SendInv, SendVarTypes, SendOneStatus
<1>3. CASE seen = result  BY <1>1, <1>2, <1>3, SendAsksInv
<1>. DEFINE c == [Send!NoCall EXCEPT !.st = "sent", !.event = result]
<1>4. seen.open  BY <1>1 DEF Send!Ready, Send!Pending
<1>5. Send!NewCall \in Slots  BY <1>1 DEF Send!AsksStatus, Send!NewCall, Send!Free
<1>6. status' = [status EXCEPT ![Send!NewCall] = c] /\ checking' = Send!NewCall
  BY <1>1 DEF Send!AsksStatus
<1>7. c \in SendCallRecord /\ c.st = "sent" /\ c.event = result
  BY SendValues DEF SendCallRecord, SendCallStates, SendInv, SendVarTypes
<1>. HIDE DEF c
<1>8. /\ status' \in [Slots -> SendCallRecord] /\ status'[Send!NewCall] = c
      /\ \A n \in Slots : n # Send!NewCall => status'[n] = status[n]
  BY <1>5, <1>6, <1>7 DEF SendInv, SendVarTypes
<1>9. SendVarTypes'  BY <1>1, <1>5, <1>6, <1>8 DEF SendInv, SendVarTypes
<1>10. SendPostOfForm' /\ SendMadeOfForm' /\ SendResultIsPast'
  BY <1>1
    DEF SendInv, SendPostOfForm, SendMadeOfForm, SendResultIsPast, Send!Made, Send!AcceptedShown,
        SendIsPast
<1>11. result.ver \in Nat /\ SendIsPast(result)
  BY <1>1 DEF SendInv, SendVarTypes, SendEventRecord, SendResultIsPast
<1>12. SendOneStatus'
  BY <1>1, <1>2, <1>4, <1>5, <1>6, <1>7, <1>8, <1>11
    DEF SendInv, SendOneStatus, SendAllAborted, SendIsPast
<1>. QED  BY <1>9, <1>10, <1>12 DEF SendInv

\* The API tells the status as it is now.
LEMMA SendStatusAnswersInv ==
  ASSUME SendInv, NEW n \in Slots, Send!StatusAnswers(n)
  PROVE  SendInv'
<1>1. /\ status[n].st = "sent" /\ ~status[n].aborted
      /\ UNCHANGED <<gate, form, result, seen, post, checking, events, targets, sent>>
  BY DEF Send!StatusAnswers
<1>2. status[n] \in SendCallRecord /\ SendIsPast(status[n].event)
  BY <1>1 DEF SendInv, SendVarTypes, SendOneStatus
<1>. DEFINE e == status[n].event
<1>3. /\ Send!Shown(e.id) \in SendEventRecord /\ Send!Shown(e.id).id = e.id
      /\ SendIsPast(Send!Shown(e.id)) /\ Send!Shown(e.id).ver >= e.ver
      /\ result.id = e.id => Send!Shown(e.id).ver >= result.ver
  <2>1. /\ e.id \in Send!Ids /\ e.ver > 0 /\ events[e.id].ver >= e.ver /\ e.ver \in Nat
        /\ events[e.id] \in [body: Typed, ver: Nat, open: BOOLEAN]
    BY <1>2 DEF SendIsPast, SendInv, SendVarTypes, SendCallRecord, SendEventRecord
  <2>2. result.id = e.id => SendIsPast(result)
    BY <2>1, SendValues DEF SendInv, SendResultIsPast, Send!AcceptedShown
  <2>. QED  BY <2>1, <2>2 DEF Send!Shown, SendEventRecord, SendIsPast
<1>4. PICK c \in SendCallRecord :
        /\ status' = [status EXCEPT ![n] = c] /\ c.st \in {"ok", "failed"} /\ ~c.aborted
        /\ c.event \in {e, Send!Shown(e.id)}
  <2>1. CASE status' = [status EXCEPT ![n].st = "ok", ![n].event = Send!Shown(status[n].event.id)]
    <3>1. status' = [status EXCEPT ![n] = [status[n] EXCEPT !.st = "ok", !.event = Send!Shown(e.id)]]
      BY <2>1 DEF SendInv, SendVarTypes
    <3>2. [status[n] EXCEPT !.st = "ok", !.event = Send!Shown(e.id)] \in SendCallRecord
      BY <1>2, <1>3 DEF SendCallRecord, SendCallStates
    <3>. QED  BY <1>1, <1>2, <3>1, <3>2 DEF SendCallRecord
  <2>2. CASE status' = [status EXCEPT ![n].st = "failed"]
    <3>1. [status[n] EXCEPT !.st = "failed"] \in SendCallRecord
      BY <1>2 DEF SendCallRecord, SendCallStates
    <3>. QED  BY <1>1, <1>2, <2>2, <3>1 DEF SendCallRecord
  <2>. QED  BY <2>1, <2>2 DEF Send!StatusAnswers
<1>5. /\ status' \in [Slots -> SendCallRecord] /\ status'[n] = c
      /\ \A m \in Slots : m # n => status'[m] = status[m]
  BY <1>4 DEF SendInv, SendVarTypes
<1>6. SendVarTypes'  BY <1>1, <1>5 DEF SendInv, SendVarTypes
<1>7. SendPostOfForm' /\ SendMadeOfForm' /\ SendResultIsPast'
  BY <1>1
    DEF SendInv, SendPostOfForm, SendMadeOfForm, SendResultIsPast, Send!Made, Send!AcceptedShown,
        SendIsPast
<1>8. /\ c.event.id = e.id /\ SendIsPast(c.event)
      /\ e.id = result.id => c.event.ver >= result.ver
  <2>1. e.id = result.id => e.ver >= result.ver  BY <1>1 DEF SendInv, SendOneStatus
  <2>. QED  BY <1>2, <1>3, <1>4, <2>1
<1>. HIDE DEF e
<1>9. n = checking  BY <1>1 DEF SendInv, SendOneStatus
<1>10. SendOneStatus'  BY <1>1, <1>4, <1>5, <1>8, <1>9 DEF SendInv, SendOneStatus, SendIsPast
<1>. QED  BY <1>6, <1>7, <1>10 DEF SendInv

\* A status is taken for the event it is of, when it was not aborted.
LEMMA SendStatusArrivesInv ==
  ASSUME SendInv, NEW n \in Slots, Send!StatusArrives(n)
  PROVE  SendInv'
<1>. DEFINE c == status[n]
<1>1. /\ c.st # "none" /\ status' = [status EXCEPT ![n] = Send!NoCall]
      /\ checking' = IF checking = n THEN 0 ELSE checking
      /\ UNCHANGED <<gate, form, seen, post, events, targets, sent>>
  BY DEF Send!StatusArrives, Send!Releases
<1>2. /\ status' \in [Slots -> SendCallRecord] /\ status'[n].st = "none"
      /\ \A m \in Slots : m # n => status'[m] = status[m]
  BY <1>1, SendValues DEF SendInv, SendVarTypes
<1>3. SendIsPast(c.event) /\ c.event \in SendEventRecord
  BY <1>1 DEF SendInv, SendOneStatus, SendVarTypes, SendCallRecord
<1>4. \/ result' = result
      \/ result' = c.event /\ c.event.id = result.id /\ ~c.aborted
  BY DEF Send!StatusArrives
<1>5. SendVarTypes'  BY <1>1, <1>2, <1>3, <1>4 DEF SendInv, SendVarTypes
<1>6. SendPostOfForm' /\ SendMadeOfForm'
  BY <1>1 DEF SendInv, SendPostOfForm, SendMadeOfForm, Send!Made, SendIsPast
<1>7. SendResultIsPast'
  <2>1. result'.id = result.id  BY <1>4
  <2>2. Send!AcceptedShown => SendIsPast(result')  BY <1>3, <1>4 DEF SendInv, SendResultIsPast
  <2>3. result'.open => Send!AcceptedShown'
    BY <1>3, <1>4, SendValues DEF SendInv, SendResultIsPast, Send!AcceptedShown, SendIsPast
  <2>4. ~Send!AcceptedShown => result' = Send!NoEvent
    BY <1>3, <1>4, SendValues DEF SendInv, SendResultIsPast, Send!AcceptedShown, SendIsPast
  <2>. QED
    BY <1>1, <2>1, <2>2, <2>3, <2>4 DEF SendInv, SendResultIsPast, Send!AcceptedShown, SendIsPast
<1>8. SendOneStatus'
  <2>1. CASE result' = result  BY <1>1, <1>2, <2>1 DEF SendInv, SendOneStatus, SendIsPast
  <2>2. CASE result' = c.event /\ ~c.aborted
    <3>1. checking = n  BY <1>1, <2>2 DEF SendInv, SendOneStatus
    <3>2. \A m \in Slots : m # n /\ status[m].st # "none" => status[m].aborted
      BY <3>1 DEF SendInv, SendOneStatus
    <3>. QED  BY <1>1, <1>2, <3>1, <3>2 DEF SendInv, SendOneStatus, SendIsPast
  <2>. QED  BY <1>4, <2>1, <2>2
<1>. QED  BY <1>5, <1>6, <1>7, <1>8 DEF SendInv

\* Who leaves aborts the call; the POST goes on without the form.
LEMMA SendLeavesInv == ASSUME SendInv, Send!Leaves PROVE SendInv'
<1>1. /\ gate' = "closed" /\ result' = Send!NoEvent /\ seen' = Send!NoEvent /\ checking' = 0
      /\ sent' = 0
      /\ status' = Send!Aborted /\ post' = [post EXCEPT !.mine = FALSE]
      /\ UNCHANGED <<form, events, targets>>
  BY DEF Send!Leaves
<1>2. /\ post' \in SendPostRecord /\ ~post'.mine /\ post'.st = post.st /\ post'.key = post.key
      /\ post'.event = post.event
  BY <1>1 DEF SendInv, SendVarTypes, SendPostRecord
<1>3. SendAllAborted(Send!Aborted)  BY SendAbortedIs
<1>4. SendVarTypes'  BY <1>1, <1>2, <1>3, SendValues DEF SendInv, SendVarTypes, SendAllAborted
<1>5. SendPostOfForm' /\ SendMadeOfForm' /\ SendResultIsPast'
  BY <1>1, <1>2, SendValues
    DEF SendInv, SendPostOfForm, SendMadeOfForm, SendResultIsPast, Send!AcceptedShown, SendIsPast
<1>6. SendOneStatus'  BY <1>1, <1>3 DEF SendInv, SendOneStatus, SendAllAborted, SendIsPast
<1>. QED  BY <1>4, <1>5, <1>6 DEF SendInv

\* Who comes back finds a new form.
LEMMA SendEntersInv == ASSUME SendInv, Send!Enters PROVE SendInv'
<1>1. /\ gate = "closed" /\ gate' = "loading"
      /\ UNCHANGED <<result, seen, post, status, checking, events, targets, sent>>
  BY DEF Send!Enters
<1>2. PICK k \in Send!Ids : form' = Send!Initial(k)  BY DEF Send!Enters, Send!Unused
<1>3. /\ form' \in SendFormRecord /\ ~form'.submitting /\ ~form'.submitError /\ ~form'.payloadError
  BY <1>2, SendInitialIs
<1>4. SendVarTypes'  BY <1>1, <1>3 DEF SendInv, SendVarTypes
<1>5. SendPostOfForm' /\ SendMadeOfForm'
  BY <1>1, <1>3 DEF SendInv, SendPostOfForm, SendMadeOfForm, SendIsPast
<1>6. SendResultIsPast' /\ SendOneStatus'
  BY <1>1, <1>3 DEF SendInv, SendResultIsPast, SendOneStatus, Send!AcceptedShown, SendIsPast
<1>. QED  BY <1>4, <1>5, <1>6 DEF SendInv

\* Every step of the page keeps the invariant.
LEMMA SendStepInv == SendInv /\ [Send!Next]_(Send!vars) => SendInv'
<1>. SUFFICES ASSUME SendInv, [Send!Next]_(Send!vars) PROVE SendInv'  OBVIOUS
<1>1. CASE Send!Opens \/ Send!Edits \/ Send!Resets \/ Send!Submits
  BY <1>1, SendOpensInv, SendEditsInv, SendResetsInv, SendSubmitsInv
<1>2. CASE Send!Posts  BY <1>2, SendIngestsInv, SendAnsweredInv DEF Send!Posts
<1>3. CASE Send!Loses \/ Send!Disables \/ UNCHANGED Send!vars  BY <1>3, SendLosesInv
<1>4. CASE Send!Effects \/ Send!Polls \/ Send!Leaves \/ Send!Enters
  BY <1>4, SendEffectsInv, SendPollsInv, SendLeavesInv, SendEntersInv
<1>5. CASE \E n \in Slots : Send!StatusAnswers(n) \/ Send!StatusArrives(n)
  BY <1>5, SendStatusAnswersInv, SendStatusArrivesInv
<1>6. CASE \E k \in Send!Ids : Send!Finishes(k) \/ Send!Replays(k)  BY <1>6, SendWorkerInv
<1>. QED  BY <1>1, <1>2, <1>3, <1>4, <1>5, <1>6 DEF Send!Next

\* The invariant types the variables.
LEMMA SendInvTypes == SendInv => Send!TypeOK
<1>. SUFFICES ASSUME SendInv PROVE Send!TypeOK  OBVIOUS
<1>1. /\ form \in SendFormRecord /\ result \in SendEventRecord /\ seen \in SendEventRecord
      /\ post \in SendPostRecord
      /\ status \in [Slots -> SendCallRecord] /\ events \in [Send!Ids -> [body: Typed, ver: Nat,
           open: BOOLEAN]]
  BY DEF SendInv, SendVarTypes
<1>2. form.key \in Send!Ids /\ form.body \in Typed  BY <1>1 DEF SendFormRecord
<1>3. result.id \in {0} \cup Send!Ids /\ seen.id \in {0} \cup Send!Ids
  BY <1>1 DEF SendEventRecord
<1>4. post.st \in SendCallStates  BY <1>1 DEF SendPostRecord
<1>5. \A n \in Slots : status[n].st \in SendCallStates  BY <1>1 DEF SendCallRecord
<1>6. \A k \in Send!Ids : events[k].body \in Typed  BY <1>1
<1>. QED  BY <1>2, <1>3, <1>4, <1>5, <1>6 DEF SendInv, SendVarTypes, Send!TypeOK, SendCallStates

\* One event at most for what the user did not touch, and the one that is shown is the last.
LEMMA SendInvGives == SendInv => Send!RetryMakesNoSecond /\ Send!ShownIsLast
<1>1. SendInv => Send!RetryMakesNoSecond  BY DEF SendInv, SendVarTypes, Send!RetryMakesNoSecond
<1>2. SendInv => Send!ShownIsLast  BY DEF SendInv, SendResultIsPast, Send!ShownIsLast, SendIsPast
<1>. QED  BY <1>1, <1>2

\* The status shown of an event gets no older.
LEMMA SendNeverOlderStep == ASSUME SendInv, [Send!Next]_(Send!vars) PROVE Send!NeverOlder
<1>1. result.ver \in Nat  BY DEF SendInv, SendVarTypes, SendEventRecord
<1>2. CASE result' = result  BY <1>1, <1>2 DEF Send!NeverOlder
<1>3. CASE result' = Send!NoEvent
  <2>1. Send!AcceptedShown => result'.id # result.id  BY <1>3, SendValues DEF Send!AcceptedShown
  <2>2. ~Send!AcceptedShown => result' = result  BY <1>3 DEF SendInv, SendResultIsPast
  <2>. QED  BY <1>2, <2>1, <2>2 DEF Send!NeverOlder
<1>4. CASE Send!Answered /\ result' = post.event /\ post.mine /\ post.st = "ok"
  <2>1. result.id = 0 /\ post.event.id # 0
    BY <1>4, SendValues
      DEF SendInv, SendPostOfForm, SendResultIsPast, Send!AcceptedShown, SendIsPast
  <2>. QED  BY <1>4, <2>1 DEF Send!NeverOlder
<1>5. ASSUME NEW n \in Slots, Send!StatusArrives(n) PROVE Send!NeverOlder
  <2>1. CASE status[n].st = "ok" /\ ~status[n].aborted /\ result.id = status[n].event.id
    <3>1. result' = status[n].event  BY <1>5, <2>1 DEF Send!StatusArrives
    <3>2. status[n].event.ver >= result.ver  BY <2>1 DEF SendInv, SendOneStatus
    <3>. QED  BY <3>1, <3>2 DEF Send!NeverOlder
  <2>2. CASE ~(status[n].st = "ok" /\ ~status[n].aborted /\ result.id = status[n].event.id)
    BY <1>2, <1>5, <2>2 DEF Send!StatusArrives
  <2>. QED  BY <2>1, <2>2
<1>6. CASE Send!Answered
  BY <1>2, <1>4, <1>6 DEF Send!Answered
<1>7. CASE Send!Resets \/ Send!Submits \/ Send!Leaves
  BY <1>3, <1>7 DEF Send!Resets, Send!Submits, Send!Clears, Send!Leaves
<1>8. CASE \/ Send!Opens \/ Send!Edits \/ Send!Ingests \/ Send!Loses \/ Send!Effects \/ Send!Polls
                \/ Send!Enters \/ Send!Disables \/ UNCHANGED Send!vars
           \/ \E n \in Slots : Send!StatusAnswers(n)
           \/ \E k \in Send!Ids : Send!Finishes(k) \/ Send!Replays(k)
  BY <1>2, <1>8
    DEF Send!Opens, Send!Edits, Send!Ingests, Send!Loses, Send!Effects, Send!Polls, Send!Enters,
        Send!Disables, Send!vars,
                    Send!StatusAnswers, Send!Finishes, Send!Replays
<1>. QED  BY <1>5, <1>6, <1>7, <1>8 DEF Send!Next, Send!Posts

----------------------------------------------------------------------------
\* Secrets that are shown once (SecretsOnce).
SecretRequests == {"create", "rotate", "invite", "revoke"}
SecretIssues == {"create", "rotate", "invite"}
SecretFlightRecord ==
    [panel: Secret!Panels, op: SecretRequests \cup {"reload"}, of: Nat, no: Nat,
     st: {"sent", "ok", "failed"}, gave: Nat, rows: SUBSET Nat]

SecretVarTypes ==
    /\ issued \in Nat /\ issued >= 2 /\ turns \in 0..SecretTurns
    /\ secrets \subseteq 1..issued /\ secretRows \subseteq 1..issued
    /\ secretOf \in [Secret!Secured -> Nat]
    /\ secretFlights \subseteq SecretFlightRecord /\ IsFiniteSet(secretFlights)
    /\ shown \in [Secret!Panels -> Nat] /\ \A p \in Secret!Panels : shown[p] <= issued
    /\ saved \in [Secret!Panels -> BOOLEAN] /\ ticked \in [Secret!Panels -> Nat]
    /\ secretBusy \in [Secret!Panels -> Nat] /\ secretTarget \in [Secret!Panels -> Nat]
    /\ revoking \in Nat

\* Requests that may still issue a secret were turns of the user.
SecretIssuing == {f \in secretFlights : f.st = "sent" /\ f.op \in SecretIssues}
SecretIssuedInTurns == issued + Cardinality(SecretIssuing) <= 2 + turns

\* What a request is for, and what its answer gave.
SecretFlightsFit ==
    \A f \in secretFlights :
      /\ f.op = "reload" \/ f.op = f.panel \/ (f.panel = "key" /\ f.op \in {"create", "rotate",
           "revoke"})
      /\ f.gave <= issued /\ f.rows \subseteq 1..issued
      /\ f.st = "ok" /\ f.op \in SecretIssues => f.gave > 0

\* One revocation at a time, whose dialog stays.
SecretRevocationStays ==
    /\ secretTarget["key"] <= issued
    /\ \A f \in secretFlights : f.op = "revoke" =>
         /\ f.of # 0 /\ revoking = f.of /\ secretTarget["key"] = f.of
         /\ f.st = "ok" => f.of \notin secrets
    /\ \A f, g \in secretFlights : f.op = "revoke" /\ g.op = "revoke" => f = g

\* One rotation of an endpoint's secret at a time, until the list was loaded.
SecretRotationStays ==
    "rotate" \in Secret!Panels =>
      /\ secretTarget["rotate"] \in {0} \cup Secret!Secured
      /\ shown["rotate"] # 0 => secretTarget["rotate"] = 0
      /\ \A f \in secretFlights : f.panel = "rotate" => secretBusy["rotate"] # 0
      /\ \A f, g \in secretFlights : f.panel = "rotate" /\ g.panel = "rotate" => f = g
      /\ \A f \in secretFlights : f.panel = "rotate" /\ f.op = "rotate" =>
           /\ secretTarget["rotate"] # 0 /\ f.of \in Secret!Secured
           /\ f.st = "ok" => secretOf[f.of] = f.gave \/ f.gave \in foreign

\* A tick is for the secret that is shown.
SecretTicksFit == \A p \in Secret!Panels : saved[p] => ticked[p] = shown[p]

SecretInv ==
    /\ SecretVarTypes /\ SecretIssuedInTurns /\ SecretFlightsFit /\ SecretRevocationStays
    /\ SecretRotationStays
    /\ SecretTicksFit /\ Secret!ShownIsCurrent

\* A request as it is sent.
LEMMA SecretFlightIs ==
  ASSUME NEW p \in Secret!Panels, NEW op \in SecretRequests \cup {"reload"}, NEW of \in Nat,
           NEW no \in Nat
  PROVE  LET x == [Secret!Flight(p, op, of) EXCEPT !.no = no] IN
         /\ x \in SecretFlightRecord /\ x.panel = p /\ x.op = op /\ x.of = of /\ x.no = no
         /\ x.st = "sent" /\ x.gave = 0 /\ x.rows = {}
BY DEF Secret!Flight, SecretFlightRecord

\* A request without a number.
LEMMA SecretFlightIsPlain ==
  ASSUME NEW p \in Secret!Panels, NEW op \in SecretRequests \cup {"reload"}, NEW of \in Nat
  PROVE  LET x == Secret!Flight(p, op, of) IN
         /\ x \in SecretFlightRecord /\ x.panel = p /\ x.op = op /\ x.of = of
         /\ x.st = "sent" /\ x.gave = 0 /\ x.rows = {}
BY DEF Secret!Flight, SecretFlightRecord

\* There are finitely many requests that may issue a secret.
LEMMA SecretIssuingIs ==
  ASSUME IsFiniteSet(secretFlights)
  PROVE  IsFiniteSet(SecretIssuing) /\ Cardinality(SecretIssuing) \in Nat
BY FS_Subset, FS_CardinalityType DEF SecretIssuing

\* At the start there are two keys and nothing is shown.
LEMMA SecretInitInv == Secret!Init => SecretInv
<1>. SUFFICES ASSUME Secret!Init PROVE SecretInv  OBVIOUS
<1>1. secretFlights = {} /\ issued = 2 /\ turns = 0  BY DEF Secret!Init
<1>2. IsFiniteSet(secretFlights)  BY <1>1, FS_EmptySet
<1>3. SecretVarTypes
  BY <1>1, <1>2, SecretAssumption DEF Secret!Init, SecretVarTypes, Secret!Secured
<1>4. SecretIssuing = {}  BY <1>1 DEF SecretIssuing
<1>5. SecretIssuedInTurns  BY <1>1, <1>4, FS_EmptySet DEF SecretIssuedInTurns
<1>6. SecretFlightsFit /\ SecretRevocationStays /\ SecretRotationStays /\ SecretTicksFit
        /\ Secret!ShownIsCurrent
  BY
    DEF Secret!Init, SecretFlightsFit, SecretRevocationStays, SecretRotationStays,
        SecretTicksFit, Secret!ShownIsCurrent, Secret!Panels
<1>. QED  BY <1>3, <1>5, <1>6 DEF SecretInv

\* A turn is counted.
LEMMA SecretTurnIs ==
  ASSUME SecretInv, Secret!Turn
  PROVE  turns' \in 0..SecretTurns /\ turns' = turns + 1
BY SecretAssumption DEF Secret!Turn, SecretInv, SecretVarTypes

\* Where no request that issues is added, the count is kept.
LEMMA SecretCountKept ==
  ASSUME SecretInv, SecretIssuing' \subseteq SecretIssuing, issued' = issued, turns' \in Nat,
           turns' >= turns
  PROVE  SecretIssuedInTurns'
<1>1. IsFiniteSet(SecretIssuing) /\ Cardinality(SecretIssuing) \in Nat
  BY SecretIssuingIs DEF SecretInv, SecretVarTypes
<1>2. IsFiniteSet(SecretIssuing') /\ Cardinality(SecretIssuing') \in Nat
        /\ Cardinality(SecretIssuing') <= Cardinality(SecretIssuing)
  BY <1>1, FS_Subset, FS_CardinalityType
<1>3. issued \in Nat /\ turns \in Nat  BY DEF SecretInv, SecretVarTypes
<1>4. issued + Cardinality(SecretIssuing) <= 2 + turns  BY DEF SecretInv, SecretIssuedInTurns
<1>. QED  BY <1>1, <1>2, <1>3, <1>4 DEF SecretIssuedInTurns

\* A request x is sent in a turn of the user.
LEMMA SecretSendsInv ==
  ASSUME SecretInv, Secret!Turn, NEW x \in SecretFlightRecord, secretFlights' = secretFlights \cup {x},
         x.st = "sent", x.gave = 0, x.rows = {},
         x.op = "reload" \/ x.op = x.panel \/ (x.panel = "key" /\ x.op \in {"create", "rotate",
           "revoke"}),
         secretBusy' \in [Secret!Panels -> Nat], revoking' \in Nat,
         IF x.op = "revoke"
         THEN revoking = 0 /\ x.of # 0 /\ revoking' = x.of /\ secretTarget["key"] = x.of
         ELSE revoking' = revoking,
         IF x.panel = "rotate"
         THEN secretBusy["rotate"] = 0 /\ secretBusy'["rotate"] # 0 /\ secretTarget["rotate"] # 0
           /\ x.of = secretTarget["rotate"]
         ELSE "rotate" \in Secret!Panels => secretBusy'["rotate"] = secretBusy["rotate"],
         UNCHANGED <<Secret!Api, Secret!Dialogs, Secret!List>>
  PROVE  SecretInv'
<1>1. UNCHANGED <<secrets, secretOf, issued, foreign, shown, saved, ticked, secretTarget, secretRows>>
  BY DEF Secret!Api, Secret!Dialogs, Secret!List
<1>2. turns' \in 0..SecretTurns /\ turns' = turns + 1  BY SecretTurnIs
<1>3. IsFiniteSet(secretFlights')  BY FS_AddElement DEF SecretInv, SecretVarTypes
<1>4. SecretVarTypes'  BY <1>1, <1>2, <1>3 DEF SecretInv, SecretVarTypes
<1>5. SecretIssuedInTurns'
  <2>1. IsFiniteSet(SecretIssuing) /\ Cardinality(SecretIssuing) \in Nat
    BY SecretIssuingIs DEF SecretInv, SecretVarTypes
  <2>2. SecretIssuing' \in {SecretIssuing, SecretIssuing \cup {x}}  BY DEF SecretIssuing
  <2>3. Cardinality(SecretIssuing') \in Nat
          /\ Cardinality(SecretIssuing') <= Cardinality(SecretIssuing) + 1
    <3>1. CASE SecretIssuing' = SecretIssuing
      <4>1. Cardinality(SecretIssuing') = Cardinality(SecretIssuing)  BY <3>1
      <4>. QED  BY <2>1, <4>1
    <3>2. CASE SecretIssuing' = SecretIssuing \cup {x}
      <4>. DEFINE S == SecretIssuing
      <4>1. /\ IsFiniteSet(S \cup {x})
            /\ Cardinality(S \cup {x}) = IF x \in S THEN Cardinality(S) ELSE Cardinality(S) + 1
        BY <2>1, FS_AddElement
      <4>2. Cardinality(SecretIssuing') = Cardinality(S \cup {x})  BY <3>2
      <4>. QED  BY <2>1, <4>1, <4>2
    <3>. QED  BY <2>2, <3>1, <3>2
  <2>4. issued + Cardinality(SecretIssuing) <= 2 + turns /\ issued \in Nat /\ turns \in Nat
    BY DEF SecretInv, SecretIssuedInTurns, SecretVarTypes
  <2>. QED  BY <1>1, <1>2, <2>1, <2>3, <2>4 DEF SecretIssuedInTurns
<1>6. SecretFlightsFit'  BY <1>1 DEF SecretInv, SecretFlightsFit, SecretVarTypes
<1>7. SecretRevocationStays'
  <2>1. x.op = "revoke" => \A f \in secretFlights : f.op # "revoke"
    BY DEF SecretInv, SecretRevocationStays
  <2>. QED  BY <1>1, <2>1 DEF SecretInv, SecretRevocationStays
<1>8. SecretRotationStays'
  <2>1. x.panel = "rotate" => \A f \in secretFlights : f.panel # "rotate"
    BY DEF SecretInv, SecretRotationStays, SecretFlightRecord
  <2>2. x.panel = "rotate" => x.of \in Secret!Secured
    BY DEF SecretInv, SecretRotationStays, SecretFlightRecord
  <2>. QED  BY <1>1, <2>1, <2>2 DEF SecretInv, SecretRotationStays
<1>9. SecretTicksFit' /\ Secret!ShownIsCurrent'
  BY <1>1 DEF SecretInv, SecretTicksFit, Secret!ShownIsCurrent
<1>. QED  BY <1>4, <1>5, <1>6, <1>7, <1>8, <1>9 DEF SecretInv

\* "Create" and "Rotate" of the keys send at once.
LEMMA SecretKeyButtonsInv ==
  ASSUME SecretInv, Secret!CreatesKey \/ \E k \in Secret!Ids : Secret!RotatesKey(k)
  PROVE  SecretInv'
<1>1. "key" \in Secret!Panels  BY DEF Secret!Panels
<1>2. CASE Secret!CreatesKey
  <2>. DEFINE x == Secret!Flight("key", "create", 0)
  <2>1. /\ x \in SecretFlightRecord /\ x.panel = "key" /\ x.op = "create" /\ x.of = 0
        /\ x.st = "sent" /\ x.gave = 0 /\ x.rows = {}
    BY <1>1, SecretFlightIsPlain DEF SecretRequests
  <2>2. Secret!Turn /\ secretFlights' = secretFlights \cup {x} /\ UNCHANGED <<Secret!Api,
          Secret!Dialogs, secretBusy, revoking, Secret!List>>
    BY <1>2 DEF Secret!CreatesKey
  <2>. HIDE DEF x
  <2>3. secretBusy' \in [Secret!Panels -> Nat] /\ revoking' \in Nat
    BY <2>2 DEF SecretInv, SecretVarTypes
  <2>. QED  BY <2>1, <2>2, <2>3, SecretSendsInv
<1>3. ASSUME NEW k \in Secret!Ids, Secret!RotatesKey(k) PROVE SecretInv'
  <2>. DEFINE x == Secret!Flight("key", "rotate", k)
  <2>1. k \in Nat  BY SecretAssumption DEF Secret!Ids
  <2>2. /\ x \in SecretFlightRecord /\ x.panel = "key" /\ x.op = "rotate" /\ x.of = k
        /\ x.st = "sent" /\ x.gave = 0 /\ x.rows = {}
    BY <1>1, <2>1, SecretFlightIsPlain DEF SecretRequests
  <2>3. /\ Secret!Turn /\ secretFlights' = secretFlights \cup {x}
        /\ secretBusy' = [secretBusy EXCEPT !["key"] = k]
        /\ UNCHANGED <<Secret!Api, Secret!Dialogs, revoking, Secret!List>>
    BY <1>3 DEF Secret!RotatesKey
  <2>. HIDE DEF x
  <2>4. /\ secretBusy' \in [Secret!Panels -> Nat] /\ revoking' \in Nat
        /\ "rotate" \in Secret!Panels => secretBusy'["rotate"] = secretBusy["rotate"]
    BY <2>1, <2>3 DEF SecretInv, SecretVarTypes
  <2>. QED  BY <2>2, <2>3, <2>4, SecretSendsInv
<1>. QED  BY <1>2, <1>3

\* A dialog that asked first sends, when it is not busy.
LEMMA SecretConfirmsInv ==
  ASSUME SecretInv, NEW p \in Secret!Panels, Secret!Confirms(p)
  PROVE  SecretInv'
<1>1. /\ secretTarget[p] # 0 /\ Secret!MayCancel(p) /\ Secret!Turn /\ UNCHANGED <<Secret!Api,
           Secret!Dialogs, Secret!List>>
      /\ secretTarget[p] \in Nat /\ turns \in Nat
  BY DEF Secret!Confirms, SecretInv, SecretVarTypes
<1>2. CASE p = "key"
  <2>. DEFINE x == Secret!Flight("key", "revoke", secretTarget["key"])
  <2>1. /\ x \in SecretFlightRecord /\ x.panel = "key" /\ x.op = "revoke" /\ x.of = secretTarget["key"]
        /\ x.st = "sent" /\ x.gave = 0 /\ x.rows = {}
    BY <1>1, <1>2, SecretFlightIsPlain DEF SecretRequests
  <2>2. secretFlights' = secretFlights \cup {x} /\ secretBusy' = secretBusy
          /\ revoking' = secretTarget["key"]
    BY <1>2 DEF Secret!Confirms, Secret!Revokes
  <2>. HIDE DEF x
  <2>3. revoking = 0  BY <1>1, <1>2 DEF Secret!MayCancel, Secret!RevokeFree
  <2>4. secretBusy' \in [Secret!Panels -> Nat] /\ revoking' \in Nat
    BY <1>1, <1>2, <2>2 DEF SecretInv, SecretVarTypes
  <2>. QED  BY <1>1, <1>2, <2>1, <2>2, <2>3, <2>4, SecretSendsInv
<1>3. CASE p # "key"
  <2>. DEFINE x == [Secret!Flight(p, p, secretTarget[p]) EXCEPT !.no = turns]
  <2>0. p \in {"rotate", "create", "invite"}  BY <1>3, SecretAssumption DEF Secret!Panels
  <2>1. /\ x \in SecretFlightRecord /\ x.panel = p /\ x.op = p /\ x.of = secretTarget[p]
        /\ x.st = "sent" /\ x.gave = 0 /\ x.rows = {}
    BY <1>1, <2>0, SecretFlightIs DEF SecretRequests
  <2>2. /\ secretFlights' = secretFlights \cup {x}
        /\ secretBusy' = [secretBusy EXCEPT ![p] = secretTarget[p]]
        /\ revoking' = revoking
    BY <1>3 DEF Secret!Confirms, Secret!Sends
  <2>. HIDE DEF x
  <2>3. p = "rotate" => secretBusy["rotate"] = 0  BY <1>1 DEF Secret!MayCancel, Secret!RotateFree
  <2>4. /\ secretBusy' \in [Secret!Panels -> Nat] /\ revoking' \in Nat
        /\ secretBusy'[p] = secretTarget[p]
        /\ p # "rotate" /\ "rotate" \in Secret!Panels => secretBusy'["rotate"] = secretBusy["rotate"]
    BY <1>1, <2>2 DEF SecretInv, SecretVarTypes
  <2>. QED  BY <1>1, <2>0, <2>1, <2>2, <2>3, <2>4, SecretSendsInv
<1>. QED  BY <1>2, <1>3

\* A dialog opens that asks first.
LEMMA SecretOpensInv ==
  ASSUME SecretInv, NEW p \in Secret!Panels, NEW of \in Secret!Ids, Secret!Opens(p, of)
  PROVE  SecretInv'
<1>1. UNCHANGED <<secrets, secretOf, issued, foreign, secretFlights, shown, saved, ticked, secretBusy,
        revoking, secretRows>>
  BY DEF Secret!Opens, Secret!Api, Secret!List
<1>2. turns' \in 0..SecretTurns /\ turns' = turns + 1  BY SecretTurnIs DEF Secret!Opens
<1>3. of \in Nat /\ of # 0 /\ secretTarget' = [secretTarget EXCEPT ![p] = of]
  BY SecretAssumption DEF Secret!Opens, Secret!Ids
<1>4. SecretVarTypes'  BY <1>1, <1>2, <1>3 DEF SecretInv, SecretVarTypes
<1>5. SecretIssuedInTurns'
  <2>1. SecretIssuing' \subseteq SecretIssuing  BY <1>1 DEF SecretIssuing
  <2>. QED  BY <1>1, <1>2, <2>1, SecretCountKept DEF SecretInv, SecretVarTypes
<1>6. SecretFlightsFit' /\ SecretTicksFit' /\ Secret!ShownIsCurrent'
  BY <1>1 DEF SecretInv, SecretFlightsFit, SecretTicksFit, Secret!ShownIsCurrent
<1>7. SecretRevocationStays'
  <2>1. secretTarget["key"] = 0 /\ "key" \in Secret!Panels
    BY DEF Secret!Opens, Secret!Modal, Secret!Panels
  <2>2. \A f \in secretFlights : f.op # "revoke"  BY <2>1 DEF SecretInv, SecretRevocationStays
  <2>3. secretTarget'["key"] <= issued
    <3>1. CASE p = "key"
      <4>1. of \in secretRows  BY <3>1 DEF Secret!Opens, Secret!RevokeEnabled
      <4>. QED  BY <1>3, <2>1, <3>1, <4>1 DEF SecretInv, SecretVarTypes
    <3>2. CASE p # "key"  BY <1>3, <2>1, <3>2 DEF SecretInv, SecretVarTypes, SecretRevocationStays
    <3>. QED  BY <3>1, <3>2
  <2>. QED  BY <1>1, <2>2, <2>3 DEF SecretRevocationStays
<1>8. SecretRotationStays'
  <2>1. "rotate" \in Secret!Panels => shown["rotate"] = 0
    BY DEF Secret!Opens, Secret!Modal, Secret!EndpointShown, Secret!Panels
  <2>2. p = "rotate" => of \in Secret!Secured  BY DEF Secret!Opens
  <2>3. "rotate" \in Secret!Panels => secretTarget["rotate"] \in Nat
          /\ secretTarget'["rotate"] = IF p = "rotate" THEN of ELSE secretTarget["rotate"]
    BY <1>3 DEF SecretInv, SecretVarTypes
  <2>. QED  BY <1>1, <1>3, <2>1, <2>2, <2>3 DEF SecretInv, SecretRotationStays
<1>. QED  BY <1>4, <1>5, <1>6, <1>7, <1>8 DEF SecretInv

\* It is left again, when it is not busy.
LEMMA SecretCancelsInv ==
  ASSUME SecretInv, NEW p \in Secret!Panels, Secret!Cancels(p)
  PROVE  SecretInv'
<1>1. UNCHANGED <<secrets, secretOf, issued, foreign, secretFlights, shown, saved, ticked, secretBusy,
        revoking, secretRows, turns>>
  BY DEF Secret!Cancels, Secret!Api, Secret!List
<1>2. secretTarget' = [secretTarget EXCEPT ![p] = 0]  BY DEF Secret!Cancels
<1>4. SecretVarTypes'  BY <1>1, <1>2 DEF SecretInv, SecretVarTypes
<1>5. SecretIssuedInTurns'
  <2>1. SecretIssuing' \subseteq SecretIssuing  BY <1>1 DEF SecretIssuing
  <2>. QED  BY <1>1, <2>1, SecretCountKept DEF SecretInv, SecretVarTypes
<1>6. SecretFlightsFit' /\ SecretTicksFit' /\ Secret!ShownIsCurrent'
  BY <1>1 DEF SecretInv, SecretFlightsFit, SecretTicksFit, Secret!ShownIsCurrent
<1>7. SecretRevocationStays'
  <2>1. "key" \in Secret!Panels  BY DEF Secret!Panels
  <2>2. secretTarget'["key"] = IF p = "key" THEN 0 ELSE secretTarget["key"]
    BY <1>2, <2>1 DEF SecretInv, SecretVarTypes
  <2>3. p = "key" => \A f \in secretFlights : f.op # "revoke"
    BY DEF Secret!Cancels, Secret!MayCancel, Secret!RevokeFree, SecretInv, SecretRevocationStays
  <2>. QED  BY <1>1, <2>2, <2>3 DEF SecretInv, SecretRevocationStays, SecretVarTypes
<1>8. SecretRotationStays'
  <2>1. "rotate" \in Secret!Panels => secretTarget'["rotate"] = IF p = "rotate" THEN 0
          ELSE secretTarget["rotate"]
    BY <1>2 DEF SecretInv, SecretVarTypes
  <2>2. p = "rotate" => \A f \in secretFlights : f.panel # "rotate"
    BY DEF Secret!Cancels, Secret!MayCancel, Secret!RotateFree, SecretInv, SecretRotationStays
  <2>. QED  BY <1>1, <2>1, <2>2 DEF SecretInv, SecretRotationStays
<1>. QED  BY <1>4, <1>5, <1>6, <1>7, <1>8 DEF SecretInv

\* The user ticks that the secret is saved, or closes its dialog.
LEMMA SecretSavesInv ==
  ASSUME SecretInv, NEW p \in Secret!Panels, Secret!Ticks(p) \/ Secret!Closes(p)
  PROVE  SecretInv'
<1>1. UNCHANGED <<secrets, secretOf, issued, foreign, secretFlights, secretTarget, secretBusy,
        revoking, secretRows, turns>>
  BY DEF Secret!Ticks, Secret!Closes, Secret!Api, Secret!List
<1>2. /\ shown' \in [Secret!Panels -> Nat] /\ \A q \in Secret!Panels : shown'[q] \in {0, shown[q]}
      /\ saved' \in [Secret!Panels -> BOOLEAN] /\ ticked' \in [Secret!Panels -> Nat]
  <2>1. CASE Secret!Ticks(p)  BY <2>1 DEF Secret!Ticks, SecretInv, SecretVarTypes
  <2>2. CASE Secret!Closes(p)  BY <2>2 DEF Secret!Closes, SecretInv, SecretVarTypes
  <2>. QED  BY <2>1, <2>2
<1>3. SecretVarTypes'
  <2>1. \A q \in Secret!Panels : shown'[q] <= issued  BY <1>2 DEF SecretInv, SecretVarTypes
  <2>. QED  BY <1>1, <1>2, <2>1 DEF SecretInv, SecretVarTypes
<1>4. SecretIssuedInTurns'
  <2>1. SecretIssuing' \subseteq SecretIssuing  BY <1>1 DEF SecretIssuing
  <2>. QED  BY <1>1, <2>1, SecretCountKept DEF SecretInv, SecretVarTypes
<1>5. SecretFlightsFit' /\ SecretRevocationStays'
  BY <1>1 DEF SecretInv, SecretFlightsFit, SecretRevocationStays
<1>6. SecretRotationStays' /\ Secret!ShownIsCurrent'
  BY <1>1, <1>2 DEF SecretInv, SecretRotationStays, Secret!ShownIsCurrent
<1>7. SecretTicksFit'
  <2>1. CASE Secret!Ticks(p)
    <3>. SUFFICES ASSUME NEW q \in Secret!Panels, saved'[q] PROVE ticked'[q] = shown'[q]
      BY DEF SecretTicksFit
    <3>1. shown' = shown  BY <2>1 DEF Secret!Ticks
    <3>2. CASE q = p
      <4>1. saved'[p] = ~saved[p] /\ ticked'[p] = IF saved[p] THEN 0 ELSE shown[p]
        BY <2>1 DEF Secret!Ticks, SecretInv, SecretVarTypes
      <4>. QED  BY <3>1, <3>2, <4>1
    <3>3. CASE q # p
      <4>1. saved'[q] = saved[q] /\ ticked'[q] = ticked[q]
        BY <2>1, <3>3 DEF Secret!Ticks, SecretInv, SecretVarTypes
      <4>. QED  BY <3>1, <4>1 DEF SecretInv, SecretTicksFit
    <3>. QED  BY <3>2, <3>3
  <2>2. CASE Secret!Closes(p)
    BY <2>2 DEF Secret!Closes, SecretInv, SecretVarTypes, SecretTicksFit
  <2>. QED  BY <2>1, <2>2
<1>. QED  BY <1>3, <1>4, <1>5, <1>6, <1>7 DEF SecretInv

\* Something is revoked or rotated elsewhere.
LEMMA SecretElsewhereInv == ASSUME SecretInv, Secret!Elsewhere PROVE SecretInv'
<1>1. UNCHANGED <<secretFlights, shown, saved, ticked, secretTarget, secretBusy, revoking, secretRows>>
  BY DEF Secret!Elsewhere, Secret!Dialogs, Secret!List
<1>2. turns' \in 0..SecretTurns /\ turns' = turns + 1  BY SecretTurnIs DEF Secret!Elsewhere
<1>3. IsFiniteSet(SecretIssuing) /\ Cardinality(SecretIssuing) \in Nat
  BY SecretIssuingIs DEF SecretInv, SecretVarTypes
<1>4. Cardinality(SecretIssuing') = Cardinality(SecretIssuing)  BY <1>1 DEF SecretIssuing
<1>5. issued \in Nat /\ turns \in Nat /\ issued + Cardinality(SecretIssuing) <= 2 + turns
  BY DEF SecretInv, SecretVarTypes, SecretIssuedInTurns
<1>6. SecretFlightsFit' /\ SecretRevocationStays' /\ SecretRotationStays' /\ Secret!ShownIsCurrent'
        /\ SecretVarTypes' /\ issued' <= issued + 1 /\ issued' \in Nat
  <2>1. ASSUME NEW k \in secrets, secrets' = secrets \ {k}, foreign' = foreign \cup {k},
                 UNCHANGED <<secretOf, issued>>
        PROVE  SecretFlightsFit' /\ SecretRevocationStays' /\ SecretRotationStays'
                 /\ Secret!ShownIsCurrent' /\ SecretVarTypes' /\ issued' <= issued + 1
                 /\ issued' \in Nat
    <3>1. SecretVarTypes' /\ SecretFlightsFit'
      BY <1>1, <1>2, <2>1 DEF SecretInv, SecretVarTypes, SecretFlightsFit
    <3>2. SecretRevocationStays' /\ SecretRotationStays' /\ Secret!ShownIsCurrent'
      BY <1>1, <2>1
        DEF SecretInv, SecretRevocationStays, SecretRotationStays, Secret!ShownIsCurrent
    <3>. QED  BY <1>5, <2>1, <3>1, <3>2
  <2>2. ASSUME NEW e \in Secret!Secured, issued' = issued + 1,
                 secretOf' = [secretOf EXCEPT ![e] = issued + 1],
               foreign' = foreign \cup {secretOf[e]}, UNCHANGED secrets
        PROVE  SecretFlightsFit' /\ SecretRevocationStays' /\ SecretRotationStays'
                 /\ Secret!ShownIsCurrent' /\ SecretVarTypes' /\ issued' <= issued + 1
                 /\ issued' \in Nat
    <3>0. issued' \in Nat /\ issued' >= issued /\ issued' <= issued + 1  BY <1>5, <2>2
    <3>1. secretOf' \in [Secret!Secured -> Nat]
            /\ \A d \in Secret!Secured : secretOf'[d] = secretOf[d] \/ secretOf[d] \in foreign'
      BY <1>5, <2>2 DEF SecretInv, SecretVarTypes
    <3>2. SecretVarTypes'
      <4>1. 1..issued \subseteq 1..issued'  BY <1>5, <3>0
      <4>2. secrets' \subseteq 1..issued' /\ secretRows' \subseteq 1..issued'
        BY <1>1, <2>2, <4>1 DEF SecretInv, SecretVarTypes
      <4>3. \A p \in Secret!Panels : shown'[p] <= issued'
        BY <1>1, <1>5, <3>0 DEF SecretInv, SecretVarTypes
      <4>. QED  BY <1>1, <1>2, <3>0, <3>1, <4>2, <4>3 DEF SecretInv, SecretVarTypes
    <3>3. SecretFlightsFit'
      <4>. SUFFICES ASSUME NEW f \in secretFlights PROVE f.gave <= issued'
                             /\ f.rows \subseteq 1..issued'
        BY <1>1 DEF SecretInv, SecretFlightsFit
      <4>1. f.gave \in Nat  BY DEF SecretInv, SecretVarTypes, SecretFlightRecord
      <4>2. f.gave <= issued /\ f.rows \subseteq 1..issued  BY DEF SecretInv, SecretFlightsFit
      <4>. QED  BY <1>5, <3>0, <4>1, <4>2
    <3>4. SecretRevocationStays'
      <4>1. secretTarget["key"] \in Nat /\ secretTarget["key"] <= issued
        BY DEF SecretInv, SecretVarTypes, SecretRevocationStays, Secret!Panels
      <4>2. secretTarget'["key"] <= issued'  BY <1>1, <1>5, <3>0, <4>1
      <4>. QED  BY <1>1, <2>2, <4>2 DEF SecretInv, SecretRevocationStays
    <3>5. SecretRotationStays'  BY <1>1, <2>2, <3>1 DEF SecretInv, SecretRotationStays
    <3>6. Secret!ShownIsCurrent'  BY <1>1, <2>2, <3>1 DEF SecretInv, Secret!ShownIsCurrent
    <3>. QED  BY <3>0, <3>2, <3>3, <3>4, <3>5, <3>6
  <2>. QED  BY <2>1, <2>2 DEF Secret!Elsewhere
<1>7. SecretIssuedInTurns'  BY <1>2, <1>3, <1>4, <1>5, <1>6 DEF SecretIssuedInTurns
<1>8. SecretTicksFit'  BY <1>1 DEF SecretInv, SecretTicksFit
<1>. QED  BY <1>6, <1>7, <1>8 DEF SecretInv

\* A request f is answered: it goes on as g.
LEMMA SecretAnswersInv ==
  ASSUME SecretInv, NEW f \in secretFlights, NEW g \in SecretFlightRecord,
         g.panel = f.panel, g.op = f.op, g.of = f.of, g.st # "sent",
         secretFlights' = (secretFlights \ {f}) \cup {g},
         issued' \in Nat, issued' >= issued, secrets' \subseteq 1..issued',
           secrets' \subseteq secrets \cup {issued + 1},
         turns' \in 0..SecretTurns, SecretIssuedInTurns',
         g.gave <= issued', g.rows \subseteq 1..issued', g.st = "ok" /\ g.op \in SecretIssues
           => g.gave > 0,
         g.op = "revoke" /\ g.st = "ok" => g.of \notin secrets',
         secretOf' \in [Secret!Secured -> Nat], secretOf' = secretOf \/ (f.panel = "rotate"
           /\ f.op = "rotate"),
         g.panel = "rotate" /\ g.op = "rotate" /\ g.st = "ok" => secretOf'[g.of] = g.gave
           \/ g.gave \in foreign,
         UNCHANGED <<foreign, Secret!Dialogs, secretBusy, revoking, secretRows>>
  PROVE  SecretInv'
<1>1. UNCHANGED <<foreign, shown, saved, ticked, secretTarget, secretBusy, revoking, secretRows>>
  BY DEF Secret!Dialogs
<1>2. issued \in Nat /\ 1..issued \subseteq 1..issued'  BY DEF SecretInv, SecretVarTypes
<1>3. SecretVarTypes'
  <2>1. secretFlights' \subseteq SecretFlightRecord  BY DEF SecretInv, SecretVarTypes
  <2>2. IsFiniteSet(secretFlights')
    <3>1. IsFiniteSet(secretFlights \ {f})  BY FS_Subset DEF SecretInv, SecretVarTypes
    <3>. QED  BY <3>1, FS_AddElement
  <2>3. secretRows' \subseteq 1..issued' /\ \A p \in Secret!Panels : shown'[p] <= issued'
    BY <1>1, <1>2 DEF SecretInv, SecretVarTypes
  <2>4. issued' >= 2  BY <1>2 DEF SecretInv, SecretVarTypes
  <2>. QED  BY <1>1, <2>1, <2>2, <2>3, <2>4 DEF SecretInv, SecretVarTypes
<1>4. SecretFlightsFit'
  <2>1. \A h \in secretFlights : h.gave <= issued' /\ h.rows \subseteq 1..issued'
    BY <1>2 DEF SecretInv, SecretVarTypes, SecretFlightsFit, SecretFlightRecord
  <2>2. \A h \in secretFlights :
          /\ h.op = "reload" \/ h.op = h.panel \/ (h.panel = "key" /\ h.op \in {"create", "rotate",
               "revoke"})
          /\ h.st = "ok" /\ h.op \in SecretIssues => h.gave > 0
    BY DEF SecretInv, SecretFlightsFit
  <2>. QED  BY <2>1, <2>2 DEF SecretFlightsFit
<1>5. SecretRevocationStays'
  <2>1. secretTarget["key"] \in Nat /\ secretTarget["key"] <= issued
    BY DEF SecretInv, SecretVarTypes, SecretRevocationStays, Secret!Panels
  <2>2. secretTarget'["key"] <= issued'  BY <1>1, <1>2, <2>1
  <2>3. secretTarget["key"] # issued + 1  BY <1>2, <2>1
  <2>4. \A h \in secretFlights' : h.op = "revoke" =>
           /\ h.of # 0 /\ revoking = h.of /\ secretTarget["key"] = h.of
           /\ h.st = "ok" => h.of \notin secrets'
    <3>. SUFFICES ASSUME NEW h \in secretFlights', h.op = "revoke"
                  PROVE  /\ h.of # 0 /\ revoking = h.of /\ secretTarget["key"] = h.of
                         /\ h.st = "ok" => h.of \notin secrets'
      OBVIOUS
    <3>1. CASE h = g  BY <3>1 DEF SecretInv, SecretRevocationStays
    <3>2. CASE h \in secretFlights  BY <2>3, <3>2 DEF SecretInv, SecretRevocationStays
    <3>. QED  BY <3>1, <3>2
  <2>5. \A h, k \in secretFlights' : h.op = "revoke" /\ k.op = "revoke" => h = k
    BY DEF SecretInv, SecretRevocationStays
  <2>. QED  BY <1>1, <2>2, <2>4, <2>5 DEF SecretRevocationStays
<1>6. SecretRotationStays'
  <2>. SUFFICES ASSUME "rotate" \in Secret!Panels PROVE SecretRotationStays'
    BY DEF SecretRotationStays
  <2>1. \A h, k \in secretFlights' : h.panel = "rotate" /\ k.panel = "rotate" => h = k
    BY DEF SecretInv, SecretRotationStays
  <2>2. \A h \in secretFlights' : h.panel = "rotate" => secretBusy["rotate"] # 0
    BY DEF SecretInv, SecretRotationStays
  <2>3. \A h \in secretFlights' : h.panel = "rotate" /\ h.op = "rotate" =>
           /\ secretTarget["rotate"] # 0 /\ h.of \in Secret!Secured
           /\ h.st = "ok" => secretOf'[h.of] = h.gave \/ h.gave \in foreign
    <3>. SUFFICES ASSUME NEW h \in secretFlights', h.panel = "rotate", h.op = "rotate"
                  PROVE  /\ secretTarget["rotate"] # 0 /\ h.of \in Secret!Secured
                         /\ h.st = "ok" => secretOf'[h.of] = h.gave \/ h.gave \in foreign
      OBVIOUS
    <3>1. CASE h = g  BY <3>1 DEF SecretInv, SecretRotationStays
    <3>2. CASE h # g
      <4>1. h \in secretFlights /\ h # f  BY <3>2
      <4>2. f.panel # "rotate"  BY <4>1 DEF SecretInv, SecretRotationStays
      <4>. QED  BY <4>1, <4>2 DEF SecretInv, SecretRotationStays
    <3>. QED  BY <3>1, <3>2
  <2>4. secretTarget["rotate"] \in {0} \cup Secret!Secured /\ (shown["rotate"] # 0
          => secretTarget["rotate"] = 0)
    BY DEF SecretInv, SecretRotationStays
  <2>. QED  BY <1>1, <2>1, <2>2, <2>3, <2>4 DEF SecretRotationStays
<1>7. Secret!ShownIsCurrent'
  <2>. SUFFICES ASSUME "rotate" \in Secret!Panels, shown["rotate"] # 0 PROVE Secret!ShownIsCurrent'
    BY <1>1 DEF Secret!ShownIsCurrent
  <2>1. secretTarget["rotate"] = 0  BY DEF SecretInv, SecretRotationStays
  <2>2. ~(f.panel = "rotate" /\ f.op = "rotate")  BY <2>1 DEF SecretInv, SecretRotationStays
  <2>. QED  BY <1>1, <2>2 DEF SecretInv, Secret!ShownIsCurrent
<1>8. SecretTicksFit'  BY <1>1 DEF SecretInv, SecretTicksFit
<1>. QED  BY <1>3, <1>4, <1>5, <1>6, <1>7, <1>8 DEF SecretInv

\* The API serves a request that issues a secret.
LEMMA SecretIssuesInv ==
  ASSUME SecretInv, NEW f \in secretFlights, f.st = "sent", f.op \in SecretIssues,
         secretFlights' = (secretFlights \ {f}) \cup {[f EXCEPT !.st = "ok", !.gave = issued + 1]},
         issued' = issued + 1, turns' = turns, secrets' \subseteq secrets \cup {issued + 1},
         IF f.panel = "rotate"
         THEN secretOf' = [secretOf EXCEPT ![f.of] = issued + 1] ELSE secretOf' = secretOf,
         UNCHANGED <<foreign, Secret!Dialogs, secretBusy, revoking, secretRows>>
  PROVE  SecretInv'
<1>. DEFINE g == [f EXCEPT !.st = "ok", !.gave = issued + 1]
<1>1. issued \in Nat /\ f \in SecretFlightRecord /\ secrets \subseteq 1..issued
        /\ turns \in 0..SecretTurns
  BY DEF SecretInv, SecretVarTypes
<1>2. /\ g \in SecretFlightRecord /\ g.panel = f.panel /\ g.op = f.op /\ g.of = f.of
      /\ g.st = "ok" /\ g.gave = issued + 1 /\ g.rows = f.rows
  <2>. DEFINE new == issued + 1
  <2>1. new \in Nat  BY <1>1
  <2>. HIDE DEF new
  <2>2. g = [f EXCEPT !.st = "ok", !.gave = new]  BY DEF new
  <2>3. /\ g \in SecretFlightRecord /\ g.panel = f.panel /\ g.op = f.op /\ g.of = f.of
        /\ g.st = "ok" /\ g.gave = new /\ g.rows = f.rows
    BY <1>1, <2>1, <2>2 DEF SecretFlightRecord
  <2>. QED  BY <2>3 DEF new
<1>. HIDE DEF g
<1>3. secretFlights' = (secretFlights \ {f}) \cup {g}  BY DEF g
<1>4. f.panel = "rotate" => f.op = "rotate"  BY DEF SecretInv, SecretFlightsFit, SecretIssues
<1>5. f.panel = "rotate" => f.of \in Secret!Secured /\ "rotate" \in Secret!Panels
  BY <1>1, <1>4 DEF SecretInv, SecretRotationStays, SecretFlightRecord
<1>6. secretOf \in [Secret!Secured -> Nat]  BY DEF SecretInv, SecretVarTypes
<1>7. secretOf' \in [Secret!Secured -> Nat]  BY <1>1, <1>5, <1>6
<1>8. SecretIssuedInTurns'
  <2>1. IsFiniteSet(SecretIssuing) /\ Cardinality(SecretIssuing) \in Nat
    BY SecretIssuingIs DEF SecretInv, SecretVarTypes
  <2>2. f \in SecretIssuing  BY DEF SecretIssuing
  <2>3. SecretIssuing' = SecretIssuing \ {f}  BY <1>2, <1>3 DEF SecretIssuing
  <2>. DEFINE S == SecretIssuing
  <2>4. Cardinality(S \ {f}) = Cardinality(S) - 1  BY <2>1, <2>2, FS_RemoveElement
  <2>5. Cardinality(SecretIssuing') = Cardinality(SecretIssuing) - 1  BY <2>3, <2>4
  <2>6. issued + Cardinality(SecretIssuing) <= 2 + turns  BY DEF SecretInv, SecretIssuedInTurns
  <2>. QED  BY <1>1, <2>1, <2>5, <2>6 DEF SecretIssuedInTurns
<1>9. issued' \in Nat /\ issued' >= issued /\ secrets' \subseteq 1..issued' /\ g.gave <= issued'
        /\ g.gave > 0
  BY <1>1, <1>2
<1>10. g.rows \subseteq 1..issued'
  <2>1. f.rows \subseteq 1..issued  BY DEF SecretInv, SecretFlightsFit
  <2>. QED  BY <1>1, <1>2, <2>1
<1>11. g.op # "revoke" /\ g.st # "sent"  BY <1>2 DEF SecretIssues
<1>12. secretOf' = secretOf \/ (f.panel = "rotate" /\ f.op = "rotate")  BY <1>4
<1>13. g.panel = "rotate" => secretOf'[g.of] = g.gave  BY <1>2, <1>5, <1>6
<1>14. turns' \in 0..SecretTurns  BY <1>1
<1>. QED
  BY <1>2, <1>3, <1>7, <1>8, <1>9, <1>10, <1>11, <1>12, <1>13, <1>14, SecretAnswersInv

\* Where a request is answered without a secret, the count is kept.
LEMMA SecretCountWithout ==
  ASSUME SecretInv, NEW f \in secretFlights, NEW g, g.st # "sent",
           secretFlights' = (secretFlights \ {f}) \cup {g},
         issued' = issued, turns' \in Nat, turns' >= turns
  PROVE  SecretIssuedInTurns'
<1>1. SecretIssuing' \subseteq SecretIssuing  BY DEF SecretIssuing
<1>. QED  BY <1>1, SecretCountKept

\* The API serves a request.
LEMMA SecretServesInv ==
  ASSUME SecretInv, NEW f \in secretFlights, Secret!Serves(f)
  PROVE  SecretInv'
<1>1. f.st = "sent" /\ UNCHANGED <<foreign, Secret!Dialogs, secretBusy, revoking, secretRows>>
        /\ turns' = turns
  BY DEF Secret!Serves, Secret!List
<1>2. issued \in Nat /\ f \in SecretFlightRecord /\ secrets \subseteq 1..issued
        /\ turns \in 0..SecretTurns
      /\ secretOf \in [Secret!Secured -> Nat]
  BY DEF SecretInv, SecretVarTypes
<1>3. f.op = "reload" \/ f.op = f.panel \/ (f.panel = "key" /\ f.op \in {"create", "rotate", "revoke"})
  BY DEF SecretInv, SecretFlightsFit
<1>4. turns' \in Nat /\ turns' >= turns /\ turns' \in 0..SecretTurns
  BY <1>1, <1>2, SecretAssumption
<1>5. CASE f.op \in {"create", "invite"}
  <2>1. /\ secretFlights' = (secretFlights \ {f}) \cup {[f EXCEPT !.st = "ok", !.gave = issued + 1]}
        /\ issued' = issued + 1 /\ secrets' \subseteq secrets \cup {issued + 1} /\ secretOf' = secretOf
    BY <1>5 DEF Secret!Serves
  <2>2. f.panel # "rotate" /\ f.op \in SecretIssues  BY <1>3, <1>5 DEF SecretIssues
  <2>. QED  BY <1>1, <2>1, <2>2, SecretIssuesInv
<1>6. CASE f.op = "rotate" /\ f.panel = "rotate"
  <2>1. /\ secretFlights' = (secretFlights \ {f}) \cup {[f EXCEPT !.st = "ok", !.gave = issued + 1]}
        /\ issued' = issued + 1 /\ secrets' \subseteq secrets \cup {issued + 1}
        /\ secretOf' = [secretOf EXCEPT ![f.of] = issued + 1]
    BY <1>6 DEF Secret!Serves
  <2>2. f.op \in SecretIssues  BY <1>6 DEF SecretIssues
  <2>. QED  BY <1>1, <1>6, <2>1, <2>2, SecretIssuesInv
<1>7. CASE f.op = "rotate" /\ f.panel = "key" /\ f.of \in secrets
  <2>1. /\ secretFlights' = (secretFlights \ {f}) \cup {[f EXCEPT !.st = "ok", !.gave = issued + 1]}
        /\ issued' = issued + 1 /\ secrets' \subseteq secrets \cup {issued + 1} /\ secretOf' = secretOf
    BY <1>7 DEF Secret!Serves
  <2>2. f.panel # "rotate" /\ f.op \in SecretIssues  BY <1>7 DEF SecretIssues
  <2>. QED  BY <1>1, <2>1, <2>2, SecretIssuesInv
<1>8. CASE f.op = "revoke" /\ f.of \in secrets
  <2>. DEFINE g == [f EXCEPT !.st = "ok", !.gave = 0]
  <2>1. /\ secretFlights' = (secretFlights \ {f}) \cup {g} /\ secrets' = secrets \ {f.of}
        /\ UNCHANGED <<secretOf, issued>>
    BY <1>8 DEF Secret!Serves
  <2>2. /\ g \in SecretFlightRecord /\ g.panel = f.panel /\ g.op = f.op /\ g.of = f.of
        /\ g.st = "ok" /\ g.gave = 0 /\ g.rows = f.rows
    BY <1>2 DEF SecretFlightRecord
  <2>. HIDE DEF g
  <2>3. SecretIssuedInTurns'  BY <1>4, <2>1, <2>2, SecretCountWithout
  <2>4. g.gave <= issued' /\ g.rows \subseteq 1..issued' /\ secrets' \subseteq 1..issued'
          /\ g.op \notin SecretIssues
    <3>1. f.rows \subseteq 1..issued  BY DEF SecretInv, SecretFlightsFit
    <3>2. 0 <= issued' /\ secrets' \subseteq 1..issued'
      <4>1. issued' = issued /\ secrets' \subseteq secrets  BY <2>1
      <4>. QED  BY <1>2, <4>1
    <3>. QED  BY <1>8, <2>1, <2>2, <3>1, <3>2 DEF SecretIssues
  <2>5. g.panel # "rotate" /\ g.of \notin secrets'  BY <1>3, <1>8, <2>1, <2>2
  <2>6. issued' \in Nat /\ issued' >= issued  BY <1>2, <2>1
  <2>7. secrets' \subseteq secrets \cup {issued + 1} /\ secretOf' \in [Secret!Secured -> Nat]
          /\ secretOf' = secretOf
    BY <1>2, <2>1
  <2>. QED  BY <1>1, <1>4, <2>1, <2>2, <2>3, <2>4, <2>5, <2>6, <2>7, SecretAnswersInv
<1>9. CASE f.op \in {"rotate", "revoke"} /\ f.panel = "key" /\ f.of \notin secrets
  <2>. DEFINE g == [f EXCEPT !.st = "failed"]
  <2>1. /\ secretFlights' = (secretFlights \ {f}) \cup {g} /\ UNCHANGED <<secrets, secretOf, issued>>
    BY <1>9 DEF Secret!Serves
  <2>2. /\ g \in SecretFlightRecord /\ g.panel = f.panel /\ g.op = f.op /\ g.of = f.of
        /\ g.st = "failed" /\ g.gave = f.gave /\ g.rows = f.rows
    BY <1>2 DEF SecretFlightRecord
  <2>. HIDE DEF g
  <2>3. SecretIssuedInTurns'  BY <1>4, <2>1, <2>2, SecretCountWithout
  <2>4. g.gave <= issued' /\ g.rows \subseteq 1..issued' /\ secrets' \subseteq 1..issued'
    BY <1>2, <2>1, <2>2 DEF SecretInv, SecretFlightsFit
  <2>6. issued' \in Nat /\ issued' >= issued  BY <1>2, <2>1
  <2>7. secrets' \subseteq secrets \cup {issued + 1} /\ secretOf' \in [Secret!Secured -> Nat]
          /\ secretOf' = secretOf
    BY <1>2, <2>1
  <2>. QED  BY <1>1, <1>4, <2>1, <2>2, <2>3, <2>4, <2>6, <2>7, SecretAnswersInv
<1>10. CASE f.op = "reload"
  <2>. DEFINE g == [f EXCEPT !.st = "ok", !.rows = secrets]
  <2>1. /\ secretFlights' = (secretFlights \ {f}) \cup {g} /\ UNCHANGED <<secrets, secretOf, issued>>
    BY <1>10 DEF Secret!Serves
  <2>2. /\ g \in SecretFlightRecord /\ g.panel = f.panel /\ g.op = f.op /\ g.of = f.of
        /\ g.st = "ok" /\ g.gave = f.gave /\ g.rows = secrets
    <3>1. secrets \in SUBSET Nat  BY <1>2
    <3>. QED  BY <1>2, <3>1 DEF SecretFlightRecord
  <2>. HIDE DEF g
  <2>3. SecretIssuedInTurns'  BY <1>4, <2>1, <2>2, SecretCountWithout
  <2>4. /\ g.gave <= issued' /\ g.rows \subseteq 1..issued' /\ secrets' \subseteq 1..issued'
        /\ g.op \notin SecretIssues /\ g.op # "revoke" /\ g.op # "rotate"
    BY <1>2, <1>10, <2>1, <2>2 DEF SecretInv, SecretFlightsFit, SecretIssues
  <2>6. issued' \in Nat /\ issued' >= issued  BY <1>2, <2>1
  <2>7. secrets' \subseteq secrets \cup {issued + 1} /\ secretOf' \in [Secret!Secured -> Nat]
          /\ secretOf' = secretOf
    BY <1>2, <2>1
  <2>. QED  BY <1>1, <1>4, <2>1, <2>2, <2>3, <2>4, <2>6, <2>7, SecretAnswersInv
<1>. QED
  <2>1. f.op \in SecretRequests \cup {"reload"} /\ f.panel \in {"key", "rotate", "create", "invite"}
    BY <1>2, SecretAssumption DEF SecretFlightRecord, Secret!Panels
  <2>. QED  BY <1>3, <1>5, <1>6, <1>7, <1>8, <1>9, <1>10, <2>1 DEF SecretRequests

\* A request or its answer is lost.
LEMMA SecretFailsInv ==
  ASSUME SecretInv, NEW f \in secretFlights, Secret!Fails(f)
  PROVE  SecretInv'
<1>. DEFINE g == [f EXCEPT !.st = "failed"]
<1>1. /\ secretFlights' = (secretFlights \ {f}) \cup {g} /\ UNCHANGED <<secrets, secretOf, issued,
           foreign, Secret!Dialogs, secretBusy, revoking, secretRows>>
  BY DEF Secret!Fails, Secret!Api, Secret!List
<1>2. issued \in Nat /\ f \in SecretFlightRecord /\ secrets \subseteq 1..issued
        /\ secretOf \in [Secret!Secured -> Nat] /\ turns \in Nat
  BY DEF SecretInv, SecretVarTypes
<1>3. /\ g \in SecretFlightRecord /\ g.panel = f.panel /\ g.op = f.op /\ g.of = f.of
      /\ g.st = "failed" /\ g.gave = f.gave /\ g.rows = f.rows
  BY <1>2 DEF SecretFlightRecord
<1>. HIDE DEF g
<1>4. turns' \in 0..SecretTurns /\ turns' = turns + 1  BY SecretTurnIs DEF Secret!Fails
<1>5. SecretIssuedInTurns'  BY <1>1, <1>2, <1>3, <1>4, SecretCountWithout
<1>6. g.gave <= issued' /\ g.rows \subseteq 1..issued' /\ secrets' \subseteq 1..issued'
  BY <1>1, <1>2, <1>3 DEF SecretInv, SecretFlightsFit
<1>7. issued' \in Nat /\ issued' >= issued  BY <1>1, <1>2
<1>8. secrets' \subseteq secrets \cup {issued + 1} /\ secretOf' \in [Secret!Secured -> Nat]
        /\ secretOf' = secretOf
  BY <1>1, <1>2
<1>. QED  BY <1>1, <1>3, <1>4, <1>5, <1>6, <1>7, <1>8, SecretAnswersInv

\* What remains of the requests when f is done.
LEMMA SecretFollowsIs ==
  ASSUME SecretInv, NEW f \in secretFlights, f.op \in SecretRequests
  PROVE  /\ Secret!Follows(f) \subseteq SecretFlightRecord /\ IsFiniteSet(Secret!Follows(f))
         /\ \A h \in Secret!Follows(f) :
              \/ h \in secretFlights /\ h # f /\ ~(h.panel = f.panel /\ h.op = "reload"
                   /\ f.op # "invite")
              \/ /\ h.op = "reload" /\ h.panel = f.panel /\ h.gave = 0 /\ h.rows = {} /\ h.st = "sent"
                 /\ f.op # "invite"
<1>. DEFINE others == secretFlights \ {f}
            x == Secret!Flight(f.panel, "reload", f.of)
            kept == {g \in others : ~(g.panel = f.panel /\ g.op = "reload")}
<1>1. others \subseteq SecretFlightRecord /\ IsFiniteSet(others) /\ f \in SecretFlightRecord
  BY FS_Subset DEF SecretInv, SecretVarTypes
<1>2. kept \subseteq SecretFlightRecord /\ IsFiniteSet(kept)
  <2>1. kept \subseteq others  OBVIOUS
  <2>. QED  BY <1>1, <2>1, FS_Subset
<1>3. f.panel \in Secret!Panels /\ f.of \in Nat  BY <1>1 DEF SecretFlightRecord
<1>4. /\ x \in SecretFlightRecord /\ x.panel = f.panel /\ x.op = "reload" /\ x.gave = 0
      /\ x.rows = {} /\ x.st = "sent"
  <2>1. x = [panel |-> f.panel, op |-> "reload", of |-> f.of, no |-> 0, st |-> "sent",
             gave |-> 0, rows |-> {}]
    BY DEF Secret!Flight
  <2>. HIDE DEF x
  <2>. QED  BY <1>3, <2>1 DEF SecretFlightRecord
<1>5. IsFiniteSet(kept \cup {x})  BY <1>2, FS_AddElement
<1>. HIDE DEF x
<1>6. CASE f.op = "invite"
  <2>1. Secret!Follows(f) = others  BY <1>6 DEF Secret!Follows, Secret!ReloadsAfter
  <2>. QED  BY <1>1, <1>6, <2>1
<1>7. CASE f.op # "invite"
  <2>1. Secret!Follows(f) = kept \cup {x}  BY <1>7 DEF Secret!Follows, Secret!ReloadsAfter, x
  <2>. HIDE DEF others
  <2>2. \A h \in kept : h \in secretFlights /\ h # f /\ ~(h.panel = f.panel /\ h.op = "reload")
    BY DEF others
  <2>. HIDE DEF kept
  <2>. QED  BY <1>2, <1>4, <1>5, <1>7, <2>1, <2>2
<1>. QED  BY <1>6, <1>7

\* What becomes of the busy panels when f is done.
LEMMA SecretReleasedIs ==
  ASSUME SecretInv, NEW f \in secretFlights
  PROVE  /\ Secret!Released(f) \in [Secret!Panels -> Nat]
         /\ \A p \in Secret!Panels : p # f.panel => Secret!Released(f)[p] = secretBusy[p]
         /\ f.op \in SecretIssues /\ f.panel = "rotate" /\ f.st # "failed"
              => Secret!Released(f)["rotate"] = secretBusy["rotate"]
<1>1. f.panel \in Secret!Panels /\ secretBusy \in [Secret!Panels -> Nat]
  BY DEF SecretInv, SecretVarTypes, SecretFlightRecord
<1>2. Secret!Released(f) \in {secretBusy, [secretBusy EXCEPT ![f.panel] = 0]}
  BY DEF Secret!Released
<1>3. f.op \in SecretIssues /\ f.panel = "rotate" /\ f.st # "failed" => Secret!Released(f) = secretBusy
  <2>1. f.panel = "rotate" /\ f.op \in SecretIssues => f.op = "rotate"
    BY DEF SecretInv, SecretFlightsFit, SecretIssues
  <2>. QED  BY <2>1 DEF Secret!Released
<1>. QED  BY <1>1, <1>2, <1>3

\* An answer arrives after which f is under way no more, and at most the list is
\* loaded again.
LEMMA SecretLandsKeeps ==
  ASSUME SecretInv, NEW f \in secretFlights, Secret!Lands(f),
           secretFlights' \subseteq SecretFlightRecord, IsFiniteSet(secretFlights'),
         \A h \in secretFlights' :
              \/ h \in secretFlights /\ h # f
              \/ /\ h.op = "reload" /\ h.panel = f.panel /\ h.gave = 0 /\ h.rows = {} /\ h.st = "sent"
  PROVE  /\ SecretIssuedInTurns' /\ SecretFlightsFit'
         /\ \A h \in secretFlights' : h.op = "revoke" => h \in secretFlights /\ h # f
         /\ \A h \in secretFlights' : h.op = "rotate" => h \in secretFlights /\ h # f
<1>1. UNCHANGED <<secrets, secretOf, issued, foreign, turns>>  BY DEF Secret!Lands, Secret!Api
<1>2. issued \in Nat /\ turns \in 0..SecretTurns  BY DEF SecretInv, SecretVarTypes
<1>3. SecretIssuing' \subseteq SecretIssuing  BY DEF SecretIssuing, SecretIssues
<1>4. SecretIssuedInTurns'  BY <1>1, <1>2, <1>3, SecretCountKept
<1>5. SecretFlightsFit'
  <2>. SUFFICES ASSUME NEW h \in secretFlights'
                PROVE  /\ h.op = "reload" \/ h.op = h.panel \/ (h.panel = "key" /\ h.op \in {"create",
                            "rotate", "revoke"})
                       /\ h.gave <= issued' /\ h.rows \subseteq 1..issued'
                       /\ h.st = "ok" /\ h.op \in SecretIssues => h.gave > 0
    BY DEF SecretFlightsFit
  <2>1. CASE h \in secretFlights  BY <1>1, <2>1 DEF SecretInv, SecretFlightsFit
  <2>2. CASE h.op = "reload" /\ h.gave = 0 /\ h.rows = {} /\ h.st = "sent"  BY <1>1, <1>2, <2>2
  <2>. QED  BY <2>1, <2>2
<1>. QED  BY <1>4, <1>5

\* A list came or did not come, or a request failed.
LEMMA SecretEndsInv ==
  ASSUME SecretInv, NEW f \in secretFlights, Secret!Lands(f), Secret!Reloaded(f) \/ Secret!Failed(f)
  PROVE  SecretInv'
<1>1. /\ UNCHANGED <<secrets, secretOf, issued, foreign, turns, shown, saved, ticked, secretTarget>>
      /\ secretFlights' = secretFlights \ {f} /\ secretBusy' = Secret!Released(f)
      /\ revoking' = IF f.op = "revoke" THEN 0 ELSE revoking
  BY DEF Secret!Lands, Secret!Api, Secret!Reloaded, Secret!Failed, Secret!Dialogs
<1>2. secretFlights' \subseteq SecretFlightRecord /\ IsFiniteSet(secretFlights')
  BY <1>1, FS_Subset DEF SecretInv, SecretVarTypes
<1>3. \A h \in secretFlights' : h \in secretFlights /\ h # f  BY <1>1
<1>4. SecretIssuedInTurns' /\ SecretFlightsFit'  BY <1>2, <1>3, SecretLandsKeeps
<1>5. secretBusy' \in [Secret!Panels -> Nat] /\ \A p \in Secret!Panels : p # f.panel
        => secretBusy'[p] = secretBusy[p]
  BY <1>1, SecretReleasedIs
<1>6. SecretVarTypes'
  <2>1. secretRows' \subseteq 1..issued
    BY DEF Secret!Reloaded, Secret!Failed, SecretInv, SecretVarTypes, SecretFlightsFit
  <2>2. revoking' \in Nat  BY <1>1 DEF SecretInv, SecretVarTypes
  <2>. QED  BY <1>1, <1>2, <1>5, <2>1, <2>2 DEF SecretInv, SecretVarTypes
<1>7. SecretRevocationStays'  BY <1>1, <1>3 DEF SecretInv, SecretRevocationStays
<1>8. SecretRotationStays'
  <2>1. f.panel = "rotate" => \A h \in secretFlights' : h.panel # "rotate"
    BY <1>3 DEF SecretInv, SecretRotationStays, SecretVarTypes, SecretFlightRecord
  <2>. QED  BY <1>1, <1>3, <1>5, <2>1 DEF SecretInv, SecretRotationStays
<1>9. SecretTicksFit' /\ Secret!ShownIsCurrent'
  BY <1>1 DEF SecretInv, SecretTicksFit, Secret!ShownIsCurrent
<1>. QED  BY <1>4, <1>6, <1>7, <1>8, <1>9 DEF SecretInv

\* A key was revoked.
LEMMA SecretRevokedInv ==
  ASSUME SecretInv, NEW f \in secretFlights, Secret!Lands(f), Secret!Revoked(f)
  PROVE  SecretInv'
<1>1. /\ UNCHANGED <<secrets, secretOf, issued, foreign, turns, shown, saved, ticked, secretRows>>
      /\ secretFlights' = Secret!Follows(f) /\ secretBusy' = Secret!Released(f)
      /\ revoking' = 0 /\ f.op = "revoke" /\ secretTarget' = [secretTarget EXCEPT !["key"] = 0]
  BY DEF Secret!Lands, Secret!Api, Secret!Revoked, Secret!List
<1>2. f.op \in SecretRequests /\ "key" \in Secret!Panels /\ f.panel = "key"
  <2>1. f.panel = "key"
    <3>1. f.panel = "key" \/ f.panel = "revoke"  BY <1>1 DEF SecretInv, SecretFlightsFit
    <3>. QED
      BY <3>1, SecretAssumption DEF SecretInv, SecretVarTypes, SecretFlightRecord, Secret!Panels
  <2>. QED  BY <1>1, <2>1 DEF SecretRequests, Secret!Panels
<1>3. /\ secretFlights' \subseteq SecretFlightRecord /\ IsFiniteSet(secretFlights')
      /\ \A h \in secretFlights' :
              \/ h \in secretFlights /\ h # f
              \/ /\ h.op = "reload" /\ h.panel = f.panel /\ h.gave = 0 /\ h.rows = {} /\ h.st = "sent"
  BY <1>1, <1>2, SecretFollowsIs
<1>4. /\ SecretIssuedInTurns' /\ SecretFlightsFit'
      /\ \A h \in secretFlights' : h.op = "revoke" => h \in secretFlights /\ h # f
      /\ \A h \in secretFlights' : h.op = "rotate" => h \in secretFlights /\ h # f
  BY <1>3, SecretLandsKeeps
<1>5. secretBusy' \in [Secret!Panels -> Nat] /\ \A p \in Secret!Panels : p # f.panel
        => secretBusy'[p] = secretBusy[p]
  BY <1>1, SecretReleasedIs
<1>6. secretTarget' \in [Secret!Panels -> Nat] /\ secretTarget'["key"] = 0
        /\ \A p \in Secret!Panels : p # "key" => secretTarget'[p] = secretTarget[p]
  BY <1>1, <1>2 DEF SecretInv, SecretVarTypes
<1>7. SecretVarTypes'  BY <1>1, <1>3, <1>5, <1>6 DEF SecretInv, SecretVarTypes
<1>8. SecretRevocationStays'
  <2>1. \A h \in secretFlights' : h.op # "revoke"
    BY <1>1, <1>4 DEF SecretInv, SecretRevocationStays
  <2>2. secretTarget'["key"] <= issued'  BY <1>1, <1>6 DEF SecretInv, SecretVarTypes
  <2>. QED  BY <2>1, <2>2 DEF SecretRevocationStays
<1>9. SecretRotationStays'
  <2>1. \A h \in secretFlights' : h.panel = "rotate" => h \in secretFlights  BY <1>2, <1>3
  <2>. QED  BY <1>1, <1>2, <1>5, <1>6, <2>1 DEF SecretInv, SecretRotationStays
<1>10. SecretTicksFit' /\ Secret!ShownIsCurrent'
  BY <1>1 DEF SecretInv, SecretTicksFit, Secret!ShownIsCurrent
<1>. QED  BY <1>4, <1>7, <1>8, <1>9, <1>10 DEF SecretInv

\* What was made is shown.
LEMMA SecretGivesInv ==
  ASSUME SecretInv, NEW f \in secretFlights, Secret!Lands(f), Secret!Gives(f)
  PROVE  SecretInv'
<1>1. /\ UNCHANGED <<secrets, secretOf, issued, foreign, turns, ticked, secretRows>>
      /\ secretFlights' = Secret!Follows(f) /\ secretBusy' = Secret!Released(f)
      /\ shown' = [shown EXCEPT ![f.panel] = f.gave]
      /\ saved' = [saved EXCEPT ![f.panel] = Secret!Resets(f.panel, f.gave)]
      /\ secretTarget' = IF f.panel = "key" THEN secretTarget ELSE [secretTarget EXCEPT ![f.panel] = 0]
  BY DEF Secret!Lands, Secret!Api, Secret!Gives, Secret!List
<1>2. /\ f \in SecretFlightRecord /\ f.panel \in Secret!Panels /\ f.op \in SecretRequests
      /\ f.op # "revoke" /\ f.op # "reload"
      /\ f.op \in SecretIssues /\ f.st = "ok" /\ f.gave \in Nat
  BY DEF SecretInv, SecretVarTypes, SecretFlightRecord, Secret!Gives, SecretRequests, SecretIssues
<1>3. revoking' = revoking /\ "key" \in Secret!Panels  BY <1>2 DEF Secret!Lands, Secret!Panels
<1>4. /\ secretFlights' \subseteq SecretFlightRecord /\ IsFiniteSet(secretFlights')
      /\ \A h \in secretFlights' :
              \/ h \in secretFlights /\ h # f /\ ~(h.panel = f.panel /\ h.op = "reload"
                   /\ f.op # "invite")
              \/ /\ h.op = "reload" /\ h.panel = f.panel /\ h.gave = 0 /\ h.rows = {} /\ h.st = "sent"
                 /\ f.op # "invite"
  BY <1>1, <1>2, SecretFollowsIs
<1>5. /\ SecretIssuedInTurns' /\ SecretFlightsFit'
      /\ \A h \in secretFlights' : h.op = "revoke" => h \in secretFlights /\ h # f
      /\ \A h \in secretFlights' : h.op = "rotate" => h \in secretFlights /\ h # f
  BY <1>4, SecretLandsKeeps
<1>6. /\ secretBusy' \in [Secret!Panels -> Nat] /\ \A p \in Secret!Panels : p # f.panel
           => secretBusy'[p] = secretBusy[p]
      /\ f.panel = "rotate" => secretBusy'["rotate"] = secretBusy["rotate"]
  BY <1>1, <1>2, SecretReleasedIs
<1>7. /\ shown' \in [Secret!Panels -> Nat] /\ shown'[f.panel] = f.gave
      /\ \A p \in Secret!Panels : p # f.panel => shown'[p] = shown[p] /\ saved'[p] = saved[p]
      /\ saved' \in [Secret!Panels -> BOOLEAN] /\ saved'[f.panel] = (saved[f.panel]
           /\ shown[f.panel] = f.gave)
  BY <1>1, <1>2 DEF SecretInv, SecretVarTypes, Secret!Resets
<1>8. /\ secretTarget' \in [Secret!Panels -> Nat] /\ secretTarget'["key"] = secretTarget["key"]
      /\ \A p \in Secret!Panels : p # f.panel => secretTarget'[p] = secretTarget[p]
      /\ f.panel # "key" => secretTarget'[f.panel] = 0
  BY <1>1, <1>2, <1>3 DEF SecretInv, SecretVarTypes
<1>9. SecretVarTypes'
  <2>1. \A p \in Secret!Panels : shown'[p] <= issued
    BY <1>2, <1>7 DEF SecretInv, SecretVarTypes, SecretFlightsFit
  <2>. QED  BY <1>1, <1>3, <1>4, <1>6, <1>7, <1>8, <2>1 DEF SecretInv, SecretVarTypes
<1>10. SecretRevocationStays'  BY <1>1, <1>3, <1>5, <1>8 DEF SecretInv, SecretRevocationStays
<1>11. f.panel = "rotate" => f.op = "rotate"
  BY <1>2 DEF SecretInv, SecretFlightsFit, SecretIssues
<1>12. SecretRotationStays'
  <2>. SUFFICES ASSUME "rotate" \in Secret!Panels PROVE SecretRotationStays'
    BY DEF SecretRotationStays
  <2>1. CASE f.panel = "rotate"
    <3>1. secretBusy'["rotate"] # 0  BY <1>6, <2>1 DEF SecretInv, SecretRotationStays
    <3>2. secretTarget'["rotate"] = 0  BY <1>8, <2>1
    <3>3. \A h \in secretFlights' : h.panel = "rotate" => h.op = "reload"
            /\ h \notin secretFlights \ {f}
      BY <1>4, <2>1 DEF SecretInv, SecretRotationStays
    <3>4. \A h, k \in secretFlights' : h.panel = "rotate" /\ k.panel = "rotate" => h = k
      <4>1. secretFlights' = {g \in secretFlights \ {f} : ~(g.panel = f.panel /\ g.op = "reload")}
                               \cup {Secret!Flight(f.panel, "reload", f.of)}
        BY <1>1, <1>11, <2>1 DEF Secret!Follows, Secret!ReloadsAfter
      <4>. QED  BY <2>1, <3>3, <4>1
    <3>. QED  BY <3>1, <3>2, <3>3, <3>4 DEF SecretRotationStays
  <2>2. CASE f.panel # "rotate"
    <3>1. \A h \in secretFlights' : h.panel = "rotate" => h \in secretFlights  BY <1>4, <2>2
    <3>2. secretBusy'["rotate"] = secretBusy["rotate"]
            /\ secretTarget'["rotate"] = secretTarget["rotate"] /\ shown'["rotate"] = shown["rotate"]
      BY <1>6, <1>7, <1>8, <2>2
    <3>. QED  BY <1>1, <3>1, <3>2 DEF SecretInv, SecretRotationStays
  <2>. QED  BY <2>1, <2>2
<1>13. SecretTicksFit'
  <2>. SUFFICES ASSUME NEW p \in Secret!Panels, saved'[p] PROVE ticked'[p] = shown'[p]
    BY DEF SecretTicksFit
  <2>1. CASE p = f.panel  BY <1>1, <1>7, <2>1 DEF SecretInv, SecretTicksFit
  <2>2. CASE p # f.panel  BY <1>1, <1>7, <2>2 DEF SecretInv, SecretTicksFit
  <2>. QED  BY <2>1, <2>2
<1>14. Secret!ShownIsCurrent'
  <2>1. CASE f.panel = "rotate"
    <3>1. f.of \in Secret!Secured /\ (secretOf[f.of] = f.gave \/ f.gave \in foreign)
      BY <1>2, <1>11, <2>1 DEF SecretInv, SecretRotationStays
    <3>. QED  BY <1>1, <1>7, <2>1, <3>1 DEF Secret!ShownIsCurrent
  <2>2. CASE f.panel # "rotate"
    <3>1. "rotate" \in Secret!Panels => shown'["rotate"] = shown["rotate"]  BY <1>7, <2>2
    <3>. QED  BY <1>1, <3>1 DEF SecretInv, Secret!ShownIsCurrent
  <2>. QED  BY <2>1, <2>2
<1>. QED  BY <1>5, <1>9, <1>10, <1>12, <1>13, <1>14 DEF SecretInv

\* Every step keeps the invariant.
LEMMA SecretStepInv == SecretInv /\ [Secret!Next]_(Secret!vars) => SecretInv'
<1>. SUFFICES ASSUME SecretInv, [Secret!Next]_(Secret!vars) PROVE SecretInv'  OBVIOUS
<1>1. CASE UNCHANGED Secret!vars
  BY <1>1
    DEF Secret!vars, SecretInv, SecretVarTypes, SecretIssuedInTurns, SecretIssuing,
        SecretFlightsFit, SecretRevocationStays, SecretRotationStays,
              SecretTicksFit, Secret!ShownIsCurrent
<1>2. CASE Secret!CreatesKey \/ \E k \in Secret!Ids : Secret!RotatesKey(k)
  BY <1>2, SecretKeyButtonsInv
<1>3. CASE Secret!Elsewhere  BY <1>3, SecretElsewhereInv
<1>4. ASSUME NEW p \in Secret!Panels, Secret!Cancels(p) \/ Secret!Confirms(p) \/ Secret!Ticks(p)
               \/ Secret!Closes(p) PROVE SecretInv'
  BY <1>4, SecretCancelsInv, SecretConfirmsInv, SecretSavesInv
<1>5. ASSUME NEW p \in Secret!Panels, NEW of \in Secret!Ids, Secret!Opens(p, of) PROVE SecretInv'
  BY <1>5, SecretOpensInv
<1>6. ASSUME NEW f \in secretFlights, Secret!Serves(f) \/ Secret!Fails(f) PROVE SecretInv'
  BY <1>6, SecretServesInv, SecretFailsInv
<1>7. ASSUME NEW f \in secretFlights, Secret!Lands(f) PROVE SecretInv'
  <2>1. Secret!Reloaded(f) \/ Secret!Failed(f) \/ Secret!Revoked(f) \/ Secret!Gives(f)
    BY <1>7 DEF Secret!Lands
  <2>. QED  BY <1>7, <2>1, SecretEndsInv, SecretRevokedInv, SecretGivesInv
<1>. QED  BY <1>1, <1>2, <1>3, <1>4, <1>5, <1>6, <1>7 DEF Secret!Next

\* The type invariant of the page follows.
LEMMA SecretInvTypes == SecretInv => Secret!TypeOK
<1>. SUFFICES ASSUME SecretInv PROVE Secret!TypeOK  OBVIOUS
<1>1. issued \in Secret!Ids
  <2>1. IsFiniteSet(SecretIssuing) /\ Cardinality(SecretIssuing) \in Nat
    BY SecretIssuingIs DEF SecretInv, SecretVarTypes
  <2>2. issued \in Nat /\ issued >= 2 /\ turns \in 0..SecretTurns
          /\ issued + Cardinality(SecretIssuing) <= 2 + turns
    BY DEF SecretInv, SecretVarTypes, SecretIssuedInTurns
  <2>. QED  BY <2>1, <2>2, SecretAssumption DEF Secret!Ids
<1>2. \A p \in Secret!Panels : shown[p] \in 0..issued /\ saved[p] \in BOOLEAN
  BY DEF SecretInv, SecretVarTypes
<1>. QED  BY <1>1, <1>2 DEF Secret!TypeOK, SecretInv, SecretVarTypes, SecretFlightRecord

\* No secret is put away unticked, and a revocation closes no dialog but its own.
LEMMA SecretStep == SecretInv /\ [Secret!Next]_(Secret!vars) => Secret!CloseOnlySaved
  /\ Secret!RevokeClosesOwn
<1>. SUFFICES ASSUME SecretInv, [Secret!Next]_(Secret!vars) PROVE Secret!CloseOnlySaved
                       /\ Secret!RevokeClosesOwn  OBVIOUS
<1>0. "key" \in Secret!Panels /\ shown \in [Secret!Panels -> Nat]
        /\ secretTarget \in [Secret!Panels -> Nat]
  BY DEF Secret!Panels, SecretInv, SecretVarTypes
<1>1. CASE UNCHANGED Secret!vars
  BY <1>1 DEF Secret!vars, Secret!CloseOnlySaved, Secret!RevokeClosesOwn
<1>2. CASE Secret!CreatesKey \/ \E k \in Secret!Ids : Secret!RotatesKey(k)
  BY <1>2
    DEF Secret!CreatesKey, Secret!RotatesKey, Secret!Dialogs, Secret!CloseOnlySaved,
        Secret!RevokeClosesOwn
<1>3. CASE Secret!Elsewhere
  BY <1>3 DEF Secret!Elsewhere, Secret!Dialogs, Secret!CloseOnlySaved, Secret!RevokeClosesOwn
<1>4. ASSUME NEW p \in Secret!Panels, Secret!Cancels(p) \/ Secret!Confirms(p)
               PROVE Secret!CloseOnlySaved /\ Secret!RevokeClosesOwn
  <2>1. CASE Secret!Cancels(p)
    BY <2>1 DEF Secret!Cancels, Secret!CloseOnlySaved, Secret!RevokeClosesOwn
  <2>2. CASE Secret!Confirms(p)
    BY <2>2 DEF Secret!Confirms, Secret!Dialogs, Secret!CloseOnlySaved, Secret!RevokeClosesOwn
  <2>. QED  BY <1>4, <2>1, <2>2
<1>5. ASSUME NEW p \in Secret!Panels, Secret!Ticks(p) \/ Secret!Closes(p)
               PROVE Secret!CloseOnlySaved /\ Secret!RevokeClosesOwn
  <2>1. CASE Secret!Ticks(p)
    BY <2>1 DEF Secret!Ticks, Secret!CloseOnlySaved, Secret!RevokeClosesOwn
  <2>2. CASE Secret!Closes(p)
    BY <1>0, <2>2
      DEF Secret!Closes, Secret!CloseOnlySaved, Secret!RevokeClosesOwn, SecretInv, SecretTicksFit
  <2>. QED  BY <1>5, <2>1, <2>2
<1>6. ASSUME NEW p \in Secret!Panels, NEW of \in Secret!Ids, Secret!Opens(p, of)
               PROVE Secret!CloseOnlySaved /\ Secret!RevokeClosesOwn
  BY <1>6 DEF Secret!Opens, Secret!CloseOnlySaved, Secret!RevokeClosesOwn
<1>7. ASSUME NEW f \in secretFlights, Secret!Serves(f) \/ Secret!Fails(f)
               PROVE Secret!CloseOnlySaved /\ Secret!RevokeClosesOwn
  BY <1>7
    DEF Secret!Serves, Secret!Fails, Secret!Dialogs, Secret!CloseOnlySaved, Secret!RevokeClosesOwn
<1>8. ASSUME NEW f \in secretFlights, Secret!Lands(f) PROVE Secret!CloseOnlySaved
               /\ Secret!RevokeClosesOwn
  <2>1. CASE Secret!Reloaded(f) \/ Secret!Failed(f)
    BY <2>1
      DEF Secret!Reloaded, Secret!Failed, Secret!Dialogs, Secret!CloseOnlySaved,
          Secret!RevokeClosesOwn
  <2>2. CASE Secret!Revoked(f)
    <3>1. f.of \notin secrets /\ secretTarget["key"] = f.of
      BY <2>2 DEF Secret!Revoked, SecretInv, SecretRevocationStays
    <3>. QED  BY <2>2, <3>1 DEF Secret!Revoked, Secret!CloseOnlySaved, Secret!RevokeClosesOwn
  <2>3. CASE Secret!Gives(f)
    <3>1. f.gave > 0 /\ f.gave \in Nat
      BY <2>3
        DEF Secret!Gives, SecretInv, SecretVarTypes, SecretFlightsFit, SecretFlightRecord,
            SecretRequests, SecretIssues
    <3>2. Secret!CloseOnlySaved  BY <1>0, <2>3, <3>1 DEF Secret!Gives, Secret!CloseOnlySaved
    <3>3. secretTarget'["key"] = secretTarget["key"]  BY <1>0, <2>3 DEF Secret!Gives
    <3>. QED  BY <3>2, <3>3 DEF Secret!RevokeClosesOwn
  <2>. QED  BY <1>8, <2>1, <2>2, <2>3 DEF Secret!Lands
<1>. QED  BY <1>1, <1>2, <1>3, <1>4, <1>5, <1>6, <1>7, <1>8 DEF Secret!Next

----------------------------------------------------------------------------
\* Dialogs about one row (TargetDialogs).
DialogStates == {"sent", "ok", "failed", "reload"}
DialogFlight == [kind: Kinds, of: Dialog!Things, text: 0..DialogTurns, st: DialogStates]

DialogVarTypes ==
    /\ text \in [Dialog!Things -> Dialog!Gone..DialogTurns]
    /\ rows \in [Dialog!Things -> Dialog!Gone..DialogTurns]
    /\ target \in [Kinds -> Dialog!Things \cup {0}]
    /\ opening \in [Kinds -> 0..DialogTurns] /\ field \in [Kinds -> 0..DialogTurns]
    /\ busy \in [Kinds -> BOOLEAN]
    /\ flights \subseteq DialogFlight
    /\ turns \in 0..DialogTurns

\* A field is filled in an opening that was.
DialogFieldsFilled == \A k \in Kinds : field[k] <= opening[k]

\* A deletion under way.
DialogDeletes(f) == f.kind \in {"delete", "remove"} /\ f.st # "reload"

\* It is one of its kind, its dialog stays, and what it deleted is gone.
DialogDeletionsStay ==
    /\ \A f \in flights : DialogDeletes(f) =>
         /\ busy[f.kind] /\ target[f.kind] = f.of
         /\ f.st = "ok" => text[f.of] = Dialog!Gone
    /\ \A f, g \in flights : DialogDeletes(f) /\ DialogDeletes(g) /\ f.kind = g.kind => f = g

DialogInv == DialogVarTypes /\ DialogFieldsFilled /\ Dialog!TextOfOpening /\ DialogDeletionsStay

\* At the start no dialog is open.
LEMMA DialogInitInv == Dialog!Init => DialogInv
<1>. SUFFICES ASSUME Dialog!Init PROVE DialogInv  OBVIOUS
<1>1. 0 \in 0..DialogTurns /\ 0 \in Dialog!Gone..DialogTurns  BY DialogAssumption DEF Dialog!Gone
<1>2. DialogVarTypes  BY <1>1 DEF Dialog!Init, DialogVarTypes
<1>3. DialogFieldsFilled /\ Dialog!TextOfOpening /\ DialogDeletionsStay
  BY DEF Dialog!Init, DialogFieldsFilled, Dialog!TextOfOpening, DialogDeletionsStay
<1>. QED  BY <1>2, <1>3 DEF DialogInv

\* A turn is counted.
LEMMA DialogTurnIs ==
  ASSUME DialogInv, Dialog!Turn
  PROVE  turns' \in 0..DialogTurns /\ turns' = turns + 1
BY DialogAssumption DEF Dialog!Turn, DialogInv, DialogVarTypes

\* A dialog opens while no other is there, with its own field.
LEMMA DialogOpensInv ==
  ASSUME DialogInv, NEW k \in Kinds, NEW i \in Dialog!Things, Dialog!Opens(k, i)
  PROVE  DialogInv'
<1>1. /\ ~Dialog!Modal /\ turns' \in 0..DialogTurns
      /\ target' = [target EXCEPT ![k] = i] /\ opening' = [opening EXCEPT ![k] = turns']
      /\ field' = [field EXCEPT ![k] = Dialog!Fills(k)]
      /\ busy' = IF k = "edit" THEN [busy EXCEPT ![k] = FALSE] ELSE busy
      /\ UNCHANGED <<text, rows, flights>>
  BY DialogTurnIs DEF Dialog!Opens
<1>2. Dialog!Fills(k) \in {0, turns'} /\ 0 \in 0..DialogTurns
  BY DialogAssumption DEF Dialog!Fills
<1>3. target' \in [Kinds -> Dialog!Things \cup {0}] /\ opening' \in [Kinds -> 0..DialogTurns]
  BY <1>1 DEF DialogInv, DialogVarTypes
<1>4. field' \in [Kinds -> 0..DialogTurns]  BY <1>1, <1>2 DEF DialogInv, DialogVarTypes
<1>5. busy' \in [Kinds -> BOOLEAN]  BY <1>1 DEF DialogInv, DialogVarTypes
<1>6. DialogVarTypes'  BY <1>1, <1>3, <1>4, <1>5 DEF DialogInv, DialogVarTypes
<1>7. opening'[k] = turns' /\ field'[k] \in {0, turns'}
  BY <1>1, <1>2 DEF DialogInv, DialogVarTypes
<1>8. \A j \in Kinds : j # k => opening'[j] = opening[j] /\ field'[j] = field[j]
        /\ target'[j] = target[j]
  BY <1>1 DEF DialogInv, DialogVarTypes
<1>9. DialogFieldsFilled'  BY <1>1, <1>7, <1>8 DEF DialogInv, DialogFieldsFilled
<1>10. Dialog!TextOfOpening'  BY <1>7, <1>8 DEF DialogInv, Dialog!TextOfOpening
<1>11. \A f \in flights : ~DialogDeletes(f)
  BY <1>1
    DEF Dialog!Modal, DialogInv, DialogVarTypes, DialogFlight, Dialog!Things, DialogDeletionsStay
<1>12. DialogDeletionsStay'  BY <1>1, <1>11 DEF DialogDeletionsStay, DialogDeletes
<1>. QED  BY <1>6, <1>9, <1>10, <1>12 DEF DialogInv

\* The name is typed for the opening that is.
LEMMA DialogTypesInv == ASSUME DialogInv, NEW k \in Kinds, Dialog!Types(k) PROVE DialogInv'
<1>1. /\ field' = [field EXCEPT ![k] = opening[k]]
      /\ UNCHANGED <<text, rows, target, opening, busy, flights, turns>>
  BY DEF Dialog!Types
<1>2. field' \in [Kinds -> 0..DialogTurns]  BY <1>1 DEF DialogInv, DialogVarTypes
<1>3. DialogVarTypes'  BY <1>1, <1>2 DEF DialogInv, DialogVarTypes
<1>4. field'[k] = opening[k] /\ \A j \in Kinds : j # k => field'[j] = field[j]
  BY <1>1 DEF DialogInv, DialogVarTypes
<1>5. opening[k] \in 0..DialogTurns  BY DEF DialogInv, DialogVarTypes
<1>6. DialogFieldsFilled'  BY <1>1, <1>4, <1>5 DEF DialogInv, DialogFieldsFilled
<1>7. Dialog!TextOfOpening' /\ DialogDeletionsStay'
  BY <1>1, <1>4 DEF DialogInv, Dialog!TextOfOpening, DialogDeletionsStay, DialogDeletes
<1>. QED  BY <1>3, <1>6, <1>7 DEF DialogInv

\* A dialog that is busy deleting cannot be left.
LEMMA DialogLeavesInv == ASSUME DialogInv, NEW k \in Kinds, Dialog!Leaves(k) PROVE DialogInv'
<1>1. /\ Dialog!MayLeave(k) /\ target' = [target EXCEPT ![k] = 0]
      /\ field' \in {field, [field EXCEPT ![k] = 0]}
      /\ UNCHANGED <<text, rows, opening, busy, flights, turns>>
  BY DEF Dialog!Leaves
<1>2. 0 \in 0..DialogTurns  BY DialogAssumption
<1>3. /\ target' \in [Kinds -> Dialog!Things \cup {0}] /\ field' \in [Kinds -> 0..DialogTurns]
      /\ target'[k] = 0 /\ field'[k] \in {0, field[k]}
      /\ \A j \in Kinds : j # k => target'[j] = target[j] /\ field'[j] = field[j]
  BY <1>1, <1>2 DEF DialogInv, DialogVarTypes
<1>4. DialogVarTypes'  BY <1>1, <1>3 DEF DialogInv, DialogVarTypes
<1>5. \A j \in Kinds : opening[j] \in 0..DialogTurns  BY DEF DialogInv, DialogVarTypes
<1>6. DialogFieldsFilled' /\ Dialog!TextOfOpening'
  BY <1>1, <1>3, <1>5 DEF DialogInv, DialogFieldsFilled, Dialog!TextOfOpening
<1>7. \A f \in flights : DialogDeletes(f) => f.kind # k
  BY <1>1
    DEF Dialog!MayLeave, Dialog!DeleteStays, Dialog!RemoveStays, DialogInv, DialogDeletionsStay,
        DialogDeletes
<1>8. \A f \in flights : f.kind \in Kinds  BY DEF DialogInv, DialogVarTypes, DialogFlight
<1>9. DialogDeletionsStay'
  BY <1>1, <1>3, <1>7, <1>8 DEF DialogInv, DialogDeletionsStay, DialogDeletes
<1>. QED  BY <1>4, <1>6, <1>9 DEF DialogInv

\* A deletion is submitted while none of its kind is under way.
LEMMA DialogSubmitsInv == ASSUME DialogInv, NEW k \in Kinds, Dialog!Submits(k) PROVE DialogInv'
<1>. DEFINE f == [kind |-> k, of |-> target[k], text |-> field[k], st |-> "sent"]
<1>1. /\ target[k] # 0 /\ Dialog!Enabled(k) /\ turns' \in 0..DialogTurns
      /\ busy' = [busy EXCEPT ![k] = TRUE] /\ flights' = flights \cup {f}
      /\ UNCHANGED <<text, rows, target, field, opening>>
  BY DialogTurnIs DEF Dialog!Submits
<1>2. f \in DialogFlight /\ f.kind = k /\ f.of = target[k] /\ f.st = "sent"
  BY <1>1 DEF DialogFlight, DialogStates, DialogInv, DialogVarTypes
<1>. HIDE DEF f
<1>3. busy' \in [Kinds -> BOOLEAN] /\ busy'[k] /\ \A j \in Kinds : j # k => busy'[j] = busy[j]
  BY <1>1 DEF DialogInv, DialogVarTypes
<1>4. DialogVarTypes'  BY <1>1, <1>2, <1>3 DEF DialogInv, DialogVarTypes
<1>5. k \in {"delete", "remove"} => ~busy[k]
  BY <1>1 DEF Dialog!Enabled, Dialog!DeleteEnabled, Dialog!RemoveEnabled
<1>6. \A g \in flights : DialogDeletes(g) => g.kind # k
  BY <1>5 DEF DialogInv, DialogDeletionsStay, DialogDeletes
<1>7. \A g \in flights : g.kind \in Kinds  BY DEF DialogInv, DialogVarTypes, DialogFlight
<1>8. DialogDeletionsStay'
  <2>1. \A g \in flights' : DialogDeletes(g) =>
          /\ busy'[g.kind] /\ target'[g.kind] = g.of
          /\ g.st = "ok" => text'[g.of] = Dialog!Gone
    BY <1>1, <1>2, <1>3, <1>6, <1>7 DEF DialogInv, DialogDeletionsStay
  <2>2. \A g, h \in flights' : DialogDeletes(g) /\ DialogDeletes(h) /\ g.kind = h.kind => g = h
    BY <1>1, <1>2, <1>6 DEF DialogInv, DialogDeletionsStay
  <2>. QED  BY <2>1, <2>2 DEF DialogDeletionsStay, DialogDeletes
<1>9. DialogFieldsFilled' /\ Dialog!TextOfOpening'
  BY <1>1 DEF DialogInv, DialogFieldsFilled, Dialog!TextOfOpening
<1>. QED  BY <1>4, <1>8, <1>9 DEF DialogInv

\* A request becomes one of another state; what is gone stays gone.
LEMMA DialogBecomesInv ==
  ASSUME DialogInv, NEW f \in flights, NEW st \in {"ok", "failed"}, Dialog!Becomes(f, st),
           f.st # "reload",
         text' \in [Dialog!Things -> Dialog!Gone..DialogTurns], turns' \in 0..DialogTurns,
         \A i \in Dialog!Things : text[i] = Dialog!Gone => text'[i] = Dialog!Gone,
         DialogDeletes(f) /\ st = "ok" => text'[f.of] = Dialog!Gone,
         UNCHANGED <<rows, target, field, opening, busy>>
  PROVE  DialogInv'
<1>. DEFINE g == [f EXCEPT !.st = st]
<1>1. f \in DialogFlight  BY DEF DialogInv, DialogVarTypes
<1>2. g \in DialogFlight /\ g.kind = f.kind /\ g.of = f.of /\ g.st = st
  BY <1>1 DEF DialogFlight, DialogStates
<1>3. flights' = (flights \ {f}) \cup {g}  BY DEF Dialog!Becomes
<1>. HIDE DEF g
<1>4. DialogVarTypes'  BY <1>2, <1>3 DEF DialogInv, DialogVarTypes
<1>5. DialogDeletes(g) <=> DialogDeletes(f)  BY <1>2 DEF DialogDeletes
<1>6. \A h \in flights : h.of \in Dialog!Things  BY DEF DialogInv, DialogVarTypes, DialogFlight
<1>7. \A h \in flights' : DialogDeletes(h) =>
          /\ busy'[h.kind] /\ target'[h.kind] = h.of
          /\ h.st = "ok" => text'[h.of] = Dialog!Gone
  BY <1>2, <1>3, <1>5, <1>6 DEF DialogInv, DialogDeletionsStay
<1>8. \A h, e \in flights' : DialogDeletes(h) /\ DialogDeletes(e) /\ h.kind = e.kind => h = e
  BY <1>2, <1>3, <1>5 DEF DialogInv, DialogDeletionsStay
<1>9. DialogDeletionsStay'  BY <1>7, <1>8 DEF DialogDeletionsStay, DialogDeletes
<1>10. DialogFieldsFilled' /\ Dialog!TextOfOpening'
  BY DEF DialogInv, DialogFieldsFilled, Dialog!TextOfOpening
<1>. QED  BY <1>4, <1>9, <1>10 DEF DialogInv

\* The API serves a request, or its answer is lost.
LEMMA DialogServesInv ==
  ASSUME DialogInv, NEW f \in flights, Dialog!Serves(f) \/ Dialog!Fails(f)
  PROVE  DialogInv'
<1>1. /\ f \in DialogFlight /\ f.st \in {"sent", "ok"} /\ UNCHANGED <<rows, target, field, opening,
           busy>>
      /\ text \in [Dialog!Things -> Dialog!Gone..DialogTurns] /\ turns \in 0..DialogTurns
  BY DEF Dialog!Serves, Dialog!Fails, DialogInv, DialogVarTypes
<1>2. f.of \in Dialog!Things /\ f.text \in 0..DialogTurns /\ f.kind \in Kinds
  BY <1>1 DEF DialogFlight
<1>3. CASE Dialog!Becomes(f, "failed") /\ UNCHANGED text
  <2>1. turns' \in 0..DialogTurns  BY <1>1, DialogTurnIs DEF Dialog!Serves, Dialog!Fails
  <2>. QED  BY <1>1, <1>3, <2>1, DialogBecomesInv
<1>4. CASE /\ Dialog!Serves(f) /\ text[f.of] # Dialog!Gone
  <2>. DEFINE t == IF f.kind \in {"edit", "rename"} THEN f.text ELSE Dialog!Gone
  <2>1. Dialog!Becomes(f, "ok") /\ text' = [text EXCEPT ![f.of] = t] /\ turns' = turns
    BY <1>4 DEF Dialog!Serves
  <2>2. t \in Dialog!Gone..DialogTurns /\ (DialogDeletes(f) => t = Dialog!Gone)
    BY <1>2, DialogAssumption DEF Dialog!Gone, DialogDeletes
  <2>. HIDE DEF t
  <2>3. /\ text' \in [Dialog!Things -> Dialog!Gone..DialogTurns] /\ text'[f.of] = t
        /\ \A i \in Dialog!Things : i # f.of => text'[i] = text[i]
    BY <1>1, <1>2, <2>1, <2>2
  <2>. QED  BY <1>1, <1>2, <1>4, <2>1, <2>2, <2>3, DialogBecomesInv
<1>. QED  BY <1>3, <1>4 DEF Dialog!Serves, Dialog!Fails

\* The answer closes the dialog of its kind, the only one of a deletion.
LEMMA DialogLandsInv == ASSUME DialogInv, NEW f \in flights, Dialog!Lands(f) PROVE DialogInv'
<1>1. /\ f.st \in {"ok", "failed"} /\ f \in DialogFlight
      /\ busy' = IF Dialog!Releases(f) THEN [busy EXCEPT ![f.kind] = FALSE] ELSE busy
      /\ UNCHANGED <<text, rows, opening, turns>>
  BY DEF Dialog!Lands, DialogInv, DialogVarTypes
<1>. DEFINE k == f.kind
<1>2. k \in Kinds /\ 0 \in 0..DialogTurns  BY <1>1, DialogAssumption DEF DialogFlight
<1>3. /\ target' \in {target, [target EXCEPT ![k] = 0]}
      /\ field' = field \/ (field' = [field EXCEPT ![k] = 0] /\ target' = [target EXCEPT ![k] = 0])
      /\ flights' = flights \ {f} \/ flights' = (flights \ {f}) \cup {[f EXCEPT !.st = "reload"]}
      /\ target' # target => f.st = "ok"
  BY DEF Dialog!Lands, Dialog!ReloadsAfter
<1>4. /\ target' \in [Kinds -> Dialog!Things \cup {0}] /\ field' \in [Kinds -> 0..DialogTurns]
      /\ busy' \in [Kinds -> BOOLEAN]
      /\ target'[k] \in {0, target[k]} /\ field'[k] \in {0, field[k]}
      /\ \A j \in Kinds : j # k =>
            target'[j] = target[j] /\ field'[j] = field[j] /\ busy'[j] = busy[j]
  BY <1>1, <1>2, <1>3 DEF DialogInv, DialogVarTypes
<1>5. \A g \in flights' : (g \in flights /\ g # f) \/ (g \in DialogFlight /\ ~DialogDeletes(g))
  <2>1. [f EXCEPT !.st = "reload"] \in DialogFlight /\ ~DialogDeletes([f EXCEPT !.st = "reload"])
    BY <1>1 DEF DialogFlight, DialogStates, DialogDeletes
  <2>. QED  BY <1>3, <2>1
<1>6. DialogVarTypes'  BY <1>1, <1>4, <1>5 DEF DialogInv, DialogVarTypes
<1>7. \A j \in Kinds : opening[j] \in 0..DialogTurns  BY DEF DialogInv, DialogVarTypes
<1>8. DialogFieldsFilled' /\ Dialog!TextOfOpening'
  BY <1>1, <1>4, <1>7 DEF DialogInv, DialogFieldsFilled, Dialog!TextOfOpening
<1>9. \A g \in flights' : DialogDeletes(g) => g \in flights /\ g.kind \in Kinds /\ g # f
  BY <1>5 DEF DialogInv, DialogVarTypes, DialogFlight
<1>10. CASE k \in {"delete", "remove"}
  <2>1. DialogDeletes(f)  BY <1>1, <1>10 DEF DialogDeletes
  <2>2. \A g \in flights' : DialogDeletes(g) => g.kind # k
    BY <1>9, <2>1 DEF DialogInv, DialogDeletionsStay
  <2>3. DialogDeletionsStay'
    BY <1>1, <1>4, <1>9, <2>2 DEF DialogInv, DialogDeletionsStay, DialogDeletes
  <2>. QED  BY <1>6, <1>8, <2>3 DEF DialogInv
<1>11. CASE k \notin {"delete", "remove"}
  <2>1. \A g \in flights' : DialogDeletes(g) => g.kind # k  BY <1>11 DEF DialogDeletes
  <2>2. DialogDeletionsStay'
    BY <1>1, <1>4, <1>9, <2>1 DEF DialogInv, DialogDeletionsStay, DialogDeletes
  <2>. QED  BY <1>6, <1>8, <2>2 DEF DialogInv
<1>. QED  BY <1>10, <1>11

\* The list comes; only the dialog of a label was waiting for it.
LEMMA DialogReloadsInv == ASSUME DialogInv, NEW f \in flights, Dialog!Reloads(f) PROVE DialogInv'
<1>1. /\ f.st = "reload" /\ flights' = flights \ {f}
      /\ busy' = IF f.kind = "edit" THEN [busy EXCEPT ![f.kind] = FALSE] ELSE busy
      /\ rows' \in {rows, text} /\ UNCHANGED <<text, target, field, opening>>
      /\ turns' \in 0..DialogTurns
  BY DialogTurnIs DEF Dialog!Reloads, DialogInv, DialogVarTypes
<1>2. /\ busy' \in [Kinds -> BOOLEAN]
      /\ \A j \in Kinds : j # "edit" => busy'[j] = busy[j]
  BY <1>1 DEF DialogInv, DialogVarTypes
<1>3. DialogVarTypes'  BY <1>1, <1>2 DEF DialogInv, DialogVarTypes
<1>4. \A g \in flights' : g \in flights /\ g.kind \in Kinds
  BY <1>1 DEF DialogInv, DialogVarTypes, DialogFlight
<1>5. DialogDeletionsStay'  BY <1>1, <1>2, <1>4 DEF DialogInv, DialogDeletionsStay, DialogDeletes
<1>6. DialogFieldsFilled' /\ Dialog!TextOfOpening'
  BY <1>1 DEF DialogInv, DialogFieldsFilled, Dialog!TextOfOpening
<1>. QED  BY <1>3, <1>5, <1>6 DEF DialogInv

\* Every step of a dialog keeps the invariant.
LEMMA DialogStepInv == DialogInv /\ [Dialog!Next]_(Dialog!vars) => DialogInv'
<1>. SUFFICES ASSUME DialogInv, [Dialog!Next]_(Dialog!vars) PROVE DialogInv'  OBVIOUS
<1>1. ASSUME NEW k \in Kinds, Dialog!Types(k) \/ Dialog!Leaves(k) \/ Dialog!Submits(k)
               \/ \E i \in Dialog!Things : Dialog!Opens(k, i)
      PROVE  DialogInv'
  BY <1>1, DialogTypesInv, DialogLeavesInv, DialogSubmitsInv, DialogOpensInv
<1>2. ASSUME NEW f \in flights, Dialog!Serves(f) \/ Dialog!Fails(f) \/ Dialog!Lands(f)
               \/ Dialog!Reloads(f)
      PROVE  DialogInv'
  BY <1>2, DialogServesInv, DialogLandsInv, DialogReloadsInv
<1>3. CASE UNCHANGED Dialog!vars
  BY <1>3
    DEF Dialog!vars, DialogInv, DialogVarTypes, DialogFieldsFilled, Dialog!TextOfOpening,
        DialogDeletionsStay, DialogDeletes
<1>. QED  BY <1>1, <1>2, <1>3 DEF Dialog!Next

\* The invariant types the variables.
LEMMA DialogInvTypes == DialogInv => Dialog!TypeOK
<1>. SUFFICES ASSUME DialogInv PROVE Dialog!TypeOK  OBVIOUS
<1>1. \A k \in Kinds : opening[k] \in 0..DialogTurns /\ field[k] \in 0..DialogTurns
        /\ field[k] <= opening[k]
  BY DEF DialogInv, DialogVarTypes, DialogFieldsFilled
<1>2. \A k \in Kinds : field[k] \in 0..opening[k]  BY <1>1
<1>3. \A f \in flights : f.kind \in Kinds /\ f.st \in DialogStates
  BY DEF DialogInv, DialogVarTypes, DialogFlight
<1>. QED  BY <1>2, <1>3 DEF DialogInv, DialogVarTypes, Dialog!TypeOK, DialogStates

\* The dialog that a deletion closes is the one it was sent from.
LEMMA DeletionStep == ASSUME DialogInv, [Dialog!Next]_(Dialog!vars) PROVE Dialog!DeletionClosesOwn
<1>. SUFFICES ASSUME NEW k \in Kinds \ {"edit", "rename"},
                     target[k] # 0, target'[k] = 0, flights' # flights
              PROVE  text[target[k]] = Dialog!Gone
  BY DEF Dialog!DeletionClosesOwn
<1>1. k \in {"delete", "remove"}  BY DialogAssumption
<1>2. target' # target  OBVIOUS
<1>3. \A j \in Kinds, i \in Dialog!Things : ~Dialog!Opens(j, i)
  <2>. SUFFICES ASSUME NEW j \in Kinds, NEW i \in Dialog!Things, Dialog!Opens(j, i) PROVE FALSE  OBVIOUS
  <2>. QED  BY DEF Dialog!Opens
<1>4. \A j \in Kinds : ~(Dialog!Types(j) \/ Dialog!Leaves(j) \/ Dialog!Submits(j))
  BY <1>2 DEF Dialog!Types, Dialog!Leaves, Dialog!Submits
<1>5. \A f \in flights : ~(Dialog!Serves(f) \/ Dialog!Fails(f) \/ Dialog!Reloads(f))
  BY <1>2 DEF Dialog!Serves, Dialog!Fails, Dialog!Reloads
<1>6. PICK f \in flights : Dialog!Lands(f)  BY <1>2, <1>3, <1>4, <1>5 DEF Dialog!Next, Dialog!vars
<1>7. f.st = "ok" /\ target' = [target EXCEPT ![f.kind] = 0]  BY <1>2, <1>6 DEF Dialog!Lands
<1>8. f.kind = k  BY <1>7 DEF DialogInv, DialogVarTypes
<1>9. DialogDeletes(f)  BY <1>1, <1>7, <1>8 DEF DialogDeletes
<1>. QED  BY <1>7, <1>8, <1>9 DEF DialogInv, DialogDeletionsStay

----------------------------------------------------------------------------
\* The detail pages (DetailFetch).
DetailItemShown == [id: {0} \cup Items, st: {"none", "pending", "failed", "done"}, ver: Nat,
  active: BOOLEAN]
DetailFetchRecord ==
    [st: {"none", "sent", "ok", "failed"}, id: {0} \cup Items, by: {"none", "effect", "poll", "replay"},
     aborted: BOOLEAN, live: BOOLEAN, item: DetailItemShown]
DetailViewRecord ==
    [id: Items, seen: {0} \cup Items, data: DetailItemShown, loading: BOOLEAN, refreshing: BOOLEAN,
     error: BOOLEAN, dialog: BOOLEAN, replaying: BOOLEAN, awaiting: {0} \cup Items]
DetailVarTypes ==
    /\ kind \in {"delivery", "event"}
    /\ view \in DetailViewRecord
    /\ fetches \in [Slots -> DetailFetchRecord]
    /\ current \in {0} \cup Slots /\ detailHeld \in {0} \cup Slots
    /\ replays \in [Items -> [st: {"none", "sent", "ok", "failed"}, live: BOOLEAN, ver: Nat]]
    /\ items \in [Items -> [st: {"pending", "failed", "done"}, ver: Nat]]
    /\ replayable \in BOOLEAN
    /\ detailTold \in [Items -> Nat]

\* The one call that is not aborted is the last of the item on the screen, and its
\* answer is news of all that the page was told before.
DetailLoadIsNews ==
    \A n \in Slots : fetches[n].st # "none" /\ ~fetches[n].aborted =>
      /\ n = detailHeld /\ n = current
      /\ fetches[n].id = view.seen /\ view.seen \in Items
      /\ fetches[n].st = "ok" =>
           /\ fetches[n].item.id = view.seen
           /\ fetches[n].item.ver <= items[view.seen].ver
           /\ fetches[n].item.ver >= detailTold[view.seen]
           /\ view.data.id = view.seen => fetches[n].item.ver >= view.data.ver

\* The item on the screen, and the replay that it waits for.
DetailShownFits ==
    /\ view.data.id \in {0, view.seen} /\ view.awaiting \in {0, view.seen}
    /\ view.data.id = 0 => view.data = Detail!NoItem
    /\ view.data.id # 0 =>
         /\ view.data.ver <= items[view.data.id].ver
         /\ view.awaiting # view.seen => view.data.ver >= detailTold[view.seen]

\* Replays of the item on the screen, and what they changed.
DetailReplaysFit ==
    \A i \in Items :
      /\ detailTold[i] <= items[i].ver
      /\ replays[i].live => i = view.seen
      /\ replays[i].st = "ok" => replays[i].ver <= items[i].ver

DetailInv == DetailVarTypes /\ DetailLoadIsNews /\ DetailShownFits /\ DetailReplaysFit

\* A call is begun: every other one is aborted.
LEMMA DetailLoadsIs ==
  ASSUME DetailInv, NEW by \in {"effect", "poll", "replay"}, NEW v \in DetailViewRecord,
           Detail!LoadsItem(by, v)
  PROVE  /\ fetches' \in [Slots -> DetailFetchRecord] /\ current' \in Slots /\ detailHeld' = current'
         /\ \A n \in Slots : fetches'[n].st # "none" /\ ~fetches'[n].aborted =>
              n = detailHeld' /\ n = current' /\ fetches'[n].id = v.id /\ fetches'[n].st = "sent"
         /\ view' = IF by = "effect"
                    THEN [v EXCEPT !.data = Detail!NoItem, !.loading = TRUE, !.refreshing = FALSE]
                    ELSE [v EXCEPT !.refreshing = TRUE]
<1>. DEFINE m == Detail!NewFetch
            new == [Detail!NoFetch EXCEPT !.st = "sent", !.id = v.id, !.by = by, !.live = by = "replay"]
<1>1. m \in Slots
  <2>1. Detail!Free # {}  BY DEF Detail!LoadsItem
  <2>. QED  BY <2>1 DEF Detail!NewFetch, Detail!Free
<1>2. fetches' = [Detail!Forgotten(by) EXCEPT ![m] = new] /\ current' = m /\ detailHeld' = m
  BY DEF Detail!LoadsItem
<1>3. new \in DetailFetchRecord /\ new.id = v.id /\ new.st = "sent"
  <2>1. v.id \in Items  BY DEF DetailViewRecord
  <2>2. Detail!NoItem \in DetailItemShown  BY DEF Detail!NoItem, DetailItemShown
  <2>3. (by = "replay") \in BOOLEAN  OBVIOUS
  <2>. QED  BY <2>1, <2>2, <2>3 DEF Detail!NoFetch, DetailFetchRecord
<1>. HIDE DEF m, new
<1>4. fetches \in [Slots -> DetailFetchRecord] /\ detailHeld \in {0} \cup Slots
  BY DEF DetailInv, DetailVarTypes
<1>5. Detail!Aborted \in [Slots -> DetailFetchRecord]
      /\ \A n \in Slots : /\ Detail!Aborted[n].st = fetches[n].st
                          /\ n = detailHeld => Detail!Aborted[n].aborted
                          /\ n # detailHeld => Detail!Aborted[n] = fetches[n]
  <2>1. CASE detailHeld = 0  BY <1>4, <2>1, DetailAssumption DEF Detail!Aborted
  <2>2. CASE detailHeld # 0
    <3>1. Detail!Aborted = [fetches EXCEPT ![detailHeld].aborted = TRUE] /\ detailHeld \in Slots
      BY <1>4, <2>2 DEF Detail!Aborted
    <3>. QED  BY <1>4, <3>1 DEF DetailFetchRecord
  <2>. QED  BY <2>1, <2>2
<1>6. Detail!Forgotten(by) \in [Slots -> DetailFetchRecord]
      /\ \A n \in Slots : /\ Detail!Forgotten(by)[n].st = fetches[n].st
                          /\ Detail!Forgotten(by)[n].aborted = Detail!Aborted[n].aborted
  <2>1. ASSUME NEW n \in Slots
        PROVE  /\ [Detail!Aborted[n] EXCEPT !.live = @ /\ by # "effect"] \in DetailFetchRecord
               /\ [Detail!Aborted[n] EXCEPT !.live = @ /\ by # "effect"].st = fetches[n].st
               /\ [Detail!Aborted[n] EXCEPT !.live = @
                    /\ by # "effect"].aborted = Detail!Aborted[n].aborted
    <3>1. Detail!Aborted[n] \in DetailFetchRecord /\ Detail!Aborted[n].st = fetches[n].st  BY <1>5
    <3>2. (Detail!Aborted[n].live /\ by # "effect") \in BOOLEAN  OBVIOUS
    <3>. QED  BY <3>1, <3>2 DEF DetailFetchRecord
  <2>. QED  BY <2>1 DEF Detail!Forgotten
<1>7. fetches' \in [Slots -> DetailFetchRecord]  BY <1>1, <1>2, <1>3, <1>6
<1>8. ASSUME NEW n \in Slots, fetches'[n].st # "none", ~fetches'[n].aborted
      PROVE  n = m /\ fetches'[n].id = v.id /\ fetches'[n].st = "sent"
  <2>1. CASE n = m  BY <1>1, <1>2, <1>3, <1>6, <2>1
  <2>2. CASE n # m
    <3>1. fetches'[n] = Detail!Forgotten(by)[n]  BY <1>1, <1>2, <1>6, <2>2
    <3>2. fetches[n].st # "none" /\ ~Detail!Aborted[n].aborted  BY <1>6, <1>8, <3>1
    <3>3. n # detailHeld /\ ~fetches[n].aborted  BY <1>5, <3>2
    <3>. QED  BY <3>2, <3>3 DEF DetailInv, DetailLoadIsNews
  <2>. QED  BY <2>1, <2>2
<1>. QED  BY <1>1, <1>2, <1>7, <1>8 DEF Detail!LoadsItem

\* The page is opened on item 1.
LEMMA DetailInitInv == Detail!Init => DetailInv
<1>. SUFFICES ASSUME Detail!Init PROVE DetailInv  OBVIOUS
<1>1. /\ kind \in {"delivery", "event"} /\ view = Detail!Opened(1)
      /\ fetches = [n \in Slots |-> Detail!NoFetch] /\ current = 0 /\ detailHeld = 0
      /\ replays = [i \in Items |-> Detail!NoReplay] /\ replayable = TRUE
      /\ detailTold = [i \in Items |-> 0]
  BY DEF Detail!Init
<1>2. Detail!NoItem \in DetailItemShown /\ Detail!NoItem.id = 0
  BY DEF Detail!NoItem, DetailItemShown
<1>3. view \in DetailViewRecord /\ view.seen = 0 /\ view.data = Detail!NoItem /\ view.awaiting = 0
  BY <1>1, <1>2, DetailAssumption DEF Detail!Opened, DetailViewRecord
<1>4. Detail!NoFetch \in DetailFetchRecord /\ Detail!NoFetch.st = "none"
  BY <1>2 DEF Detail!NoFetch, DetailFetchRecord
<1>5. PICK st \in {"pending", "failed"} : items = [i \in Items |-> [st |-> IF i = 1 THEN st
        ELSE "failed", ver |-> 0]]
  BY DEF Detail!Init
<1>6. items \in [Items -> [st: {"pending", "failed", "done"}, ver: Nat]]  BY <1>5
<1>7. DetailVarTypes  BY <1>1, <1>3, <1>4, <1>6 DEF DetailVarTypes, Detail!NoReplay
<1>8. DetailLoadIsNews  BY <1>1, <1>4 DEF DetailLoadIsNews
<1>9. DetailShownFits  BY <1>2, <1>3 DEF DetailShownFits
<1>10. DetailReplaysFit
  <2>1. \A i \in Items : detailTold[i] = 0 /\ ~replays[i].live /\ replays[i].st # "ok"
    BY <1>1 DEF Detail!NoReplay
  <2>2. \A i \in Items : items[i].ver = 0  BY <1>5
  <2>3. 0 <= 0  OBVIOUS
  <2>. QED  BY <2>1, <2>2, <2>3, Zenon DEF DetailReplaysFit
<1>. QED  BY <1>7, <1>8, <1>9, <1>10 DEF DetailInv

\* The effects of another id load it.
LEMMA DetailEffectsInv == ASSUME DetailInv, Detail!Effects PROVE DetailInv'
<1>. DEFINE v == [view EXCEPT !.seen = view.id, !.awaiting = 0, !.replaying = FALSE, !.dialog = FALSE]
<1>1. Detail!LoadsItem("effect", v) /\ UNCHANGED <<kind, items, replayable, turns, detailTold>>
      /\ replays' = [i \in Items |-> [replays[i] EXCEPT !.live = FALSE]]
  BY DEF Detail!Effects
<1>2. view \in DetailViewRecord  BY DEF DetailInv, DetailVarTypes
<1>3. v \in DetailViewRecord /\ v.id = view.id /\ v.seen = view.id /\ v.awaiting = 0 /\ v.id \in Items
  BY <1>2 DEF DetailViewRecord
<1>. HIDE DEF v
<1>4. /\ fetches' \in [Slots -> DetailFetchRecord] /\ current' \in Slots /\ detailHeld' = current'
      /\ \A n \in Slots : fetches'[n].st # "none" /\ ~fetches'[n].aborted =>
              n = detailHeld' /\ n = current' /\ fetches'[n].id = v.id /\ fetches'[n].st = "sent"
      /\ view' = [v EXCEPT !.data = Detail!NoItem, !.loading = TRUE, !.refreshing = FALSE]
  BY <1>1, <1>3, DetailLoadsIs
<1>5. view' \in DetailViewRecord /\ view'.seen = v.seen /\ view'.data = Detail!NoItem
        /\ view'.awaiting = 0
  BY <1>3, <1>4 DEF DetailViewRecord, Detail!NoItem, DetailItemShown
<1>6. replays' \in [Items -> [st: {"none", "sent", "ok", "failed"}, live: BOOLEAN, ver: Nat]]
      /\ \A i \in Items : ~replays'[i].live /\ replays'[i].st = replays[i].st
           /\ replays'[i].ver = replays[i].ver
  BY <1>1 DEF DetailInv, DetailVarTypes
<1>7. DetailVarTypes'  BY <1>1, <1>4, <1>5, <1>6 DEF DetailInv, DetailVarTypes
<1>8. DetailLoadIsNews'  BY <1>3, <1>4, <1>5 DEF DetailLoadIsNews
<1>9. DetailShownFits'  BY <1>5 DEF DetailShownFits, Detail!NoItem
<1>10. DetailReplaysFit'  BY <1>1, <1>6 DEF DetailInv, DetailReplaysFit
<1>. QED  BY <1>7, <1>8, <1>9, <1>10 DEF DetailInv

\* A load of the page for the item on the screen.
LEMMA DetailPollsInv == ASSUME DetailInv, Detail!Polls PROVE DetailInv'
<1>1. /\ Detail!LoadsItem("poll", view) /\ UNCHANGED <<kind, replays, items, replayable, turns,
           detailTold>> /\ view.id = view.seen
  BY DEF Detail!Polls, Detail!Pending
<1>2. view \in DetailViewRecord  BY DEF DetailInv, DetailVarTypes
<1>4. /\ fetches' \in [Slots -> DetailFetchRecord] /\ current' \in Slots /\ detailHeld' = current'
      /\ \A n \in Slots : fetches'[n].st # "none" /\ ~fetches'[n].aborted =>
              n = detailHeld' /\ n = current' /\ fetches'[n].id = view.id /\ fetches'[n].st = "sent"
      /\ view' = [view EXCEPT !.refreshing = TRUE]
  BY <1>1, <1>2, DetailLoadsIs
<1>5. view' \in DetailViewRecord /\ view'.seen = view.seen /\ view'.data = view.data
        /\ view'.awaiting = view.awaiting
      /\ view'.seen \in Items
  BY <1>1, <1>2, <1>4 DEF DetailViewRecord
<1>7. DetailVarTypes'  BY <1>1, <1>4, <1>5 DEF DetailInv, DetailVarTypes
<1>8. DetailLoadIsNews'  BY <1>1, <1>4, <1>5 DEF DetailLoadIsNews
<1>9. DetailShownFits' /\ DetailReplaysFit'
  BY <1>1, <1>5 DEF DetailInv, DetailShownFits, DetailReplaysFit
<1>. QED  BY <1>7, <1>8, <1>9 DEF DetailInv

\* The answer of a replay: one of the item on the screen waits for its news.
LEMMA DetailReplayedInv == ASSUME DetailInv, NEW i \in Items, Detail!Replayed(i) PROVE DetailInv'
<1>1. /\ replays[i].st = "ok" /\ view.id = view.seen /\ UNCHANGED <<kind, items, replayable, turns>>
      /\ replays' = [replays EXCEPT ![i] = Detail!NoReplay]
  BY DEF Detail!Replayed, Detail!Pending
<1>2. replays' \in [Items -> [st: {"none", "sent", "ok", "failed"}, live: BOOLEAN, ver: Nat]]
      /\ \A j \in Items : /\ replays'[j].live => replays[j].live
                          /\ replays'[j].st = "ok" => replays[j].st = "ok"
                               /\ replays'[j].ver = replays[j].ver
  BY <1>1 DEF DetailInv, DetailVarTypes, Detail!NoReplay
<1>3. view \in DetailViewRecord  BY DEF DetailInv, DetailVarTypes
<1>4. CASE ~replays[i].live
  <2>1. UNCHANGED <<view, fetches, current, detailHeld, detailTold>>  BY <1>4 DEF Detail!Replayed
  <2>2. DetailVarTypes'  BY <1>1, <1>2, <2>1 DEF DetailInv, DetailVarTypes
  <2>3. DetailLoadIsNews' /\ DetailShownFits'
    BY <1>1, <2>1 DEF DetailInv, DetailLoadIsNews, DetailShownFits
  <2>4. DetailReplaysFit'  BY <1>1, <1>2, <2>1 DEF DetailInv, DetailReplaysFit
  <2>. QED  BY <2>2, <2>3, <2>4 DEF DetailInv
<1>5. CASE replays[i].live
  <2>. DEFINE v == Detail!Waits(view, i)
  <2>1. Detail!LoadsItem("replay", v) /\ detailTold' = [detailTold EXCEPT ![i] = replays[i].ver]
    BY <1>5 DEF Detail!Replayed
  <2>2. i = view.seen  BY <1>5 DEF DetailInv, DetailReplaysFit
  <2>3. /\ v \in DetailViewRecord /\ v.id = view.id /\ v.seen = view.seen /\ v.awaiting = i
        /\ v.data = view.data
    BY <1>3 DEF DetailViewRecord, Detail!Waits
  <2>. HIDE DEF v
  <2>4. /\ fetches' \in [Slots -> DetailFetchRecord] /\ current' \in Slots /\ detailHeld' = current'
        /\ \A n \in Slots : fetches'[n].st # "none" /\ ~fetches'[n].aborted =>
              n = detailHeld' /\ n = current' /\ fetches'[n].id = v.id /\ fetches'[n].st = "sent"
        /\ view' = [v EXCEPT !.refreshing = TRUE]
    BY <2>1, <2>3, DetailLoadsIs
  <2>5. /\ view' \in DetailViewRecord /\ view'.seen = view.seen /\ view'.awaiting = i
        /\ view'.data = view.data
        /\ view'.seen \in Items
    BY <2>2, <2>3, <2>4 DEF DetailViewRecord
  <2>6. /\ detailTold' \in [Items -> Nat] /\ detailTold'[i] = replays[i].ver
        /\ replays[i].ver <= items[i].ver
        /\ \A j \in Items : j # i => detailTold'[j] = detailTold[j]
    BY <1>1, <2>1 DEF DetailInv, DetailVarTypes, DetailReplaysFit
  <2>7. DetailVarTypes'  BY <1>1, <1>2, <2>4, <2>5, <2>6 DEF DetailInv, DetailVarTypes
  <2>8. DetailLoadIsNews'  BY <1>1, <2>3, <2>4, <2>5 DEF DetailLoadIsNews
  <2>9. DetailShownFits'  BY <1>1, <2>2, <2>5 DEF DetailInv, DetailShownFits
  <2>10. DetailReplaysFit'
    <3>. SUFFICES ASSUME NEW j \in Items
                  PROVE  /\ detailTold'[j] <= items'[j].ver
                         /\ replays'[j].live => j = view'.seen
                         /\ replays'[j].st = "ok" => replays'[j].ver <= items'[j].ver
      BY DEF DetailReplaysFit
    <3>1. detailTold'[j] <= items'[j].ver  BY <1>1, <2>6 DEF DetailInv, DetailReplaysFit
    <3>. QED  BY <1>1, <1>2, <2>5, <3>1 DEF DetailInv, DetailReplaysFit
  <2>. QED  BY <2>7, <2>8, <2>9, <2>10 DEF DetailInv
<1>. QED  BY <1>4, <1>5

\* The API answers a call.
LEMMA DetailAnswersInv == ASSUME DetailInv, NEW n \in Slots, Detail!Answers(n) PROVE DetailInv'
<1>1. UNCHANGED <<kind, view, current, detailHeld, replays, items, replayable, detailTold>>
      /\ fetches[n].st = "sent" /\ ~fetches[n].aborted
  BY DEF Detail!Answers
<1>2. fetches[n].id = view.seen /\ view.seen \in Items /\ n = detailHeld /\ n = current
  BY <1>1 DEF DetailInv, DetailLoadIsNews
<1>. DEFINE i == fetches[n].id
            read == [id |-> i, st |-> items[i].st, ver |-> items[i].ver, active |-> replayable]
<1>3. read \in DetailItemShown /\ read.id = view.seen /\ read.ver = items[view.seen].ver
  BY <1>2 DEF DetailInv, DetailVarTypes, DetailItemShown
<1>4. /\ fetches' \in [Slots -> DetailFetchRecord]
      /\ \A k \in Slots : k # n => fetches'[k] = fetches[k]
      /\ fetches'[n].id = fetches[n].id
      /\ fetches'[n].st = "ok" => fetches'[n].item = read
  <2>0. fetches \in [Slots -> DetailFetchRecord] /\ fetches[n] \in DetailFetchRecord
    BY DEF DetailInv, DetailVarTypes
  <2>1. ASSUME NEW g \in DetailFetchRecord, fetches' = [fetches EXCEPT ![n] = g], g.id = fetches[n].id,
               g.st = "ok" => g.item = read
        PROVE  <1>4!1 /\ <1>4!2 /\ <1>4!3 /\ <1>4!4
    BY <2>0, <2>1
  <2>. HIDE DEF read
  <2>2. CASE fetches' = [fetches EXCEPT ![n].st = "ok", ![n].item = read]
    <3>. DEFINE g == [fetches[n] EXCEPT !.st = "ok", !.item = read]
    <3>1. g \in DetailFetchRecord /\ g.id = fetches[n].id /\ g.item = read
      BY <1>3, <2>0 DEF DetailFetchRecord
    <3>2. fetches' = [fetches EXCEPT ![n] = g]  BY <2>0, <2>2
    <3>. HIDE DEF g
    <3>. QED  BY <2>1, <3>1, <3>2
  <2>3. CASE fetches' = [fetches EXCEPT ![n].st = "failed"]
    <3>. DEFINE g == [fetches[n] EXCEPT !.st = "failed"]
    <3>1. g \in DetailFetchRecord /\ g.id = fetches[n].id /\ g.st = "failed"
      BY <2>0 DEF DetailFetchRecord
    <3>2. fetches' = [fetches EXCEPT ![n] = g]  BY <2>0, <2>3
    <3>. HIDE DEF g
    <3>. QED  BY <2>1, <3>1, <3>2
  <2>. QED  BY <2>2, <2>3 DEF Detail!Answers, read
<1>. HIDE DEF i, read
<1>5. DetailVarTypes'  BY <1>1, <1>4 DEF DetailInv, DetailVarTypes
<1>6. DetailLoadIsNews'
  <2>. SUFFICES ASSUME NEW k \in Slots, fetches'[k].st # "none", ~fetches'[k].aborted
                PROVE  /\ k = detailHeld /\ k = current
                       /\ fetches'[k].id = view.seen /\ view.seen \in Items
                       /\ fetches'[k].st = "ok" =>
                            /\ fetches'[k].item.id = view.seen
                            /\ fetches'[k].item.ver <= items[view.seen].ver
                            /\ fetches'[k].item.ver >= detailTold[view.seen]
                            /\ view.data.id = view.seen => fetches'[k].item.ver >= view.data.ver
    BY <1>1 DEF DetailLoadIsNews
  <2>1. CASE k # n  BY <1>4, <2>1 DEF DetailInv, DetailLoadIsNews
  <2>2. CASE k = n
    <3>1. items[view.seen].ver \in Nat /\ detailTold[view.seen] \in Nat /\ view.data.ver \in Nat
      BY <1>2 DEF DetailInv, DetailVarTypes, DetailViewRecord, DetailItemShown
    <3>2. detailTold[view.seen] <= items[view.seen].ver  BY <1>2 DEF DetailInv, DetailReplaysFit
    <3>3. view.data.id = view.seen => view.data.ver <= items[view.seen].ver
      <4>1. view.seen # 0  BY <1>2, DetailAssumption
      <4>. QED  BY <4>1 DEF DetailInv, DetailShownFits
    <3>. QED  BY <1>2, <1>3, <1>4, <2>2, <3>1, <3>2, <3>3
  <2>. QED  BY <2>1, <2>2
<1>7. DetailShownFits' /\ DetailReplaysFit'
  BY <1>1 DEF DetailInv, DetailShownFits, DetailReplaysFit
<1>. QED  BY <1>5, <1>6, <1>7 DEF DetailInv

\* The answer arrives.
LEMMA DetailArrivesInv ==
  ASSUME DetailInv, NEW n \in Slots, Detail!Arrives(n)
  PROVE  DetailInv' /\ Detail!NeverOlder
<1>. DEFINE f == fetches[n]
            waited == [view EXCEPT !.replaying = @ /\ ~f.live]
            screen == IF Detail!EndsLoading(n)
                      THEN [waited EXCEPT !.loading = FALSE, !.refreshing = FALSE]
                      ELSE waited
<1>1. /\ UNCHANGED <<kind, current, replays, items, replayable, turns, detailTold>>
      /\ fetches' = [fetches EXCEPT ![n] = Detail!NoFetch]
      /\ detailHeld' = IF detailHeld = n THEN 0 ELSE detailHeld
      /\ f.st \in {"ok", "failed"} \/ (f.st = "sent" /\ f.aborted)
  BY DEF Detail!Arrives
<1>2. view' = CASE Detail!Stale(n) \/ f.st = "sent" -> screen
                 [] ~Detail!Stale(n) /\ f.st = "failed" -> [screen EXCEPT !.error = TRUE]
                 [] OTHER -> [screen EXCEPT !.data = f.item, !.error = FALSE,
                                            !.awaiting = IF Detail!EndsWait(n) THEN 0 ELSE @]
  BY DEF Detail!Arrives
<1>3. view \in DetailViewRecord /\ f \in DetailFetchRecord  BY DEF DetailInv, DetailVarTypes
<1>4. /\ screen \in DetailViewRecord /\ screen.id = view.id /\ screen.seen = view.seen
      /\ screen.data = view.data
      /\ screen.awaiting = view.awaiting
  <2>1. (view.replaying /\ ~f.live) \in BOOLEAN  OBVIOUS
  <2>2. /\ waited \in DetailViewRecord /\ waited.id = view.id /\ waited.seen = view.seen
        /\ waited.data = view.data
        /\ waited.awaiting = view.awaiting
    BY <1>3, <2>1 DEF DetailViewRecord
  <2>. HIDE DEF waited
  <2>. QED  BY <2>2 DEF DetailViewRecord
<1>. HIDE DEF screen
<1>5. Detail!NoFetch \in DetailFetchRecord /\ Detail!NoFetch.st = "none"
  BY DEF Detail!NoFetch, DetailFetchRecord, Detail!NoItem, DetailItemShown
<1>6. /\ fetches' \in [Slots -> DetailFetchRecord] /\ detailHeld' \in {0} \cup Slots
      /\ \A k \in Slots : fetches'[k].st # "none" => k # n /\ fetches'[k] = fetches[k]
  BY <1>1, <1>5 DEF DetailInv, DetailVarTypes
<1>7. DetailReplaysFit' <=> \A i \in Items :
                              /\ detailTold[i] <= items[i].ver
                              /\ replays[i].live => i = view'.seen
                              /\ replays[i].st = "ok" => replays[i].ver <= items[i].ver
  BY <1>1 DEF DetailReplaysFit
<1>8. CASE Detail!Stale(n) \/ f.st \in {"sent", "failed"}
  <2>1. /\ view' \in DetailViewRecord /\ view'.id = view.id /\ view'.seen = view.seen
        /\ view'.data = view.data
        /\ view'.awaiting = view.awaiting
    <3>1. view' \in {screen, [screen EXCEPT !.error = TRUE]}  BY <1>2, <1>8
    <3>. QED  BY <1>4, <3>1 DEF DetailViewRecord
  <2>2. DetailVarTypes'  BY <1>1, <1>6, <2>1 DEF DetailInv, DetailVarTypes
  <2>3. DetailLoadIsNews'
    <3>. SUFFICES ASSUME NEW k \in Slots, fetches'[k].st # "none", ~fetches'[k].aborted
                  PROVE  /\ k = detailHeld' /\ k = current'
                         /\ fetches'[k].id = view'.seen /\ view'.seen \in Items
                         /\ fetches'[k].st = "ok" =>
                              /\ fetches'[k].item.id = view'.seen
                              /\ fetches'[k].item.ver <= items'[view'.seen].ver
                              /\ fetches'[k].item.ver >= detailTold'[view'.seen]
                              /\ view'.data.id = view'.seen => fetches'[k].item.ver >= view'.data.ver
      BY DEF DetailLoadIsNews
    <3>1. k # n /\ fetches'[k] = fetches[k]  BY <1>6
    <3>2. k = detailHeld /\ detailHeld' = detailHeld
      BY <1>1, <3>1 DEF DetailInv, DetailLoadIsNews
    <3>. QED  BY <1>1, <2>1, <3>1, <3>2 DEF DetailInv, DetailLoadIsNews
  <2>4. DetailShownFits'  BY <1>1, <2>1 DEF DetailInv, DetailShownFits
  <2>5. DetailReplaysFit'  BY <1>7, <2>1 DEF DetailInv, DetailReplaysFit
  <2>6. Detail!NeverOlder
    <3>1. view.data.ver \in Nat  BY <1>3 DEF DetailViewRecord, DetailItemShown
    <3>. QED  BY <2>1, <3>1 DEF Detail!NeverOlder
  <2>. QED  BY <2>2, <2>3, <2>4, <2>5, <2>6 DEF DetailInv
<1>9. CASE ~Detail!Stale(n) /\ f.st = "ok"
  <2>1. view' = [screen EXCEPT !.data = f.item, !.error = FALSE,
          !.awaiting = IF Detail!EndsWait(n) THEN 0 ELSE @]
    BY <1>2, <1>9
  <2>2. f.item \in DetailItemShown  BY <1>3 DEF DetailFetchRecord
  <2>3. /\ view' \in DetailViewRecord /\ view'.id = view.id /\ view'.seen = view.seen
        /\ view'.data = f.item
        /\ view'.awaiting = IF Detail!EndsWait(n) THEN 0 ELSE view.awaiting
    BY <1>4, <2>1, <2>2 DEF DetailViewRecord
  <2>4. /\ n = detailHeld /\ n = current /\ f.id = view.seen /\ view.seen \in Items
        /\ f.item.id = view.seen /\ f.item.ver <= items[view.seen].ver
        /\ f.item.ver >= detailTold[view.seen]
        /\ view.data.id = view.seen => f.item.ver >= view.data.ver
    BY <1>9 DEF DetailInv, DetailLoadIsNews, Detail!Stale
  <2>5. DetailVarTypes'  BY <1>1, <1>6, <2>3 DEF DetailInv, DetailVarTypes
  <2>6. DetailLoadIsNews'
    <3>1. ASSUME NEW k \in Slots, fetches'[k].st # "none", ~fetches'[k].aborted PROVE FALSE
      <4>1. k # n /\ fetches'[k] = fetches[k]  BY <1>6, <3>1
      <4>2. k = detailHeld  BY <3>1, <4>1 DEF DetailInv, DetailLoadIsNews
      <4>. QED  BY <2>4, <4>1, <4>2
    <3>. QED  BY <3>1 DEF DetailLoadIsNews
  <2>7. DetailShownFits'
    <3>1. view.seen # 0 /\ view.awaiting \in {0, view.seen}
      BY <2>4, DetailAssumption DEF DetailInv, DetailShownFits
    <3>2. view'.data.id = view.seen /\ view'.awaiting \in {0, view.seen}  BY <2>3, <2>4, <3>1
    <3>. QED  BY <1>1, <2>3, <2>4, <3>1, <3>2 DEF DetailShownFits
  <2>8. DetailReplaysFit'  BY <1>7, <2>3 DEF DetailInv, DetailReplaysFit
  <2>9. Detail!NeverOlder
    <3>. SUFFICES ASSUME view'.data.id = view.data.id PROVE view'.data.ver >= view.data.ver
      BY DEF Detail!NeverOlder
    <3>. QED  BY <2>3, <2>4
  <2>. QED  BY <2>5, <2>6, <2>7, <2>8, <2>9 DEF DetailInv
<1>. QED  BY <1>1, <1>8, <1>9

\* The steps that leave what is shown, and the calls, alone.
LEMMA DetailScreenInv ==
  ASSUME DetailInv, (\E id \in Items : Detail!Goes(id)) \/ Detail!Opens \/ Detail!Cancels
           \/ Detail!Disables
  PROVE  DetailInv'
<1>1. UNCHANGED <<kind, fetches, current, detailHeld, replays, items, detailTold>>
  BY DEF Detail!Goes, Detail!Opens, Detail!Cancels, Detail!Disables
<1>2. /\ view' \in DetailViewRecord /\ view'.seen = view.seen /\ view'.data = view.data
      /\ view'.awaiting = view.awaiting
  <2>1. view \in DetailViewRecord  BY DEF DetailInv, DetailVarTypes
  <2>. QED
    BY <2>1 DEF Detail!Goes, Detail!Opens, Detail!Cancels, Detail!Disables, DetailViewRecord
<1>3. replayable' \in BOOLEAN
  BY DEF Detail!Goes, Detail!Opens, Detail!Cancels, Detail!Disables, DetailInv, DetailVarTypes
<1>4. DetailVarTypes'  BY <1>1, <1>2, <1>3 DEF DetailInv, DetailVarTypes
<1>5. DetailLoadIsNews' /\ DetailShownFits' /\ DetailReplaysFit'
  BY <1>1, <1>2 DEF DetailInv, DetailLoadIsNews, DetailShownFits, DetailReplaysFit
<1>. QED  BY <1>4, <1>5 DEF DetailInv

\* A replay is asked for.
LEMMA DetailReplaysInv == ASSUME DetailInv, Detail!Replays PROVE DetailInv'
<1>1. /\ UNCHANGED <<kind, fetches, current, detailHeld, items, replayable, detailTold>>
      /\ view.id = view.seen
      /\ view' = [view EXCEPT !.replaying = TRUE]
      /\ replays' = [replays EXCEPT ![view.id] = [Detail!NoReplay EXCEPT !.st = "sent", !.live = TRUE]]
  BY DEF Detail!Replays, Detail!Pending
<1>2. /\ view' \in DetailViewRecord /\ view'.seen = view.seen /\ view'.data = view.data
      /\ view'.awaiting = view.awaiting
      /\ view.id \in Items
  BY <1>1 DEF DetailInv, DetailVarTypes, DetailViewRecord
<1>3. /\ replays' \in [Items -> [st: {"none", "sent", "ok", "failed"}, live: BOOLEAN, ver: Nat]]
      /\ \A j \in Items : /\ j # view.id => replays'[j] = replays[j]
                          /\ j = view.id => replays'[j].st = "sent"
  BY <1>1, <1>2 DEF DetailInv, DetailVarTypes, Detail!NoReplay
<1>4. DetailVarTypes'  BY <1>1, <1>2, <1>3 DEF DetailInv, DetailVarTypes
<1>5. DetailLoadIsNews' /\ DetailShownFits'
  BY <1>1, <1>2 DEF DetailInv, DetailLoadIsNews, DetailShownFits
<1>6. DetailReplaysFit'  BY <1>1, <1>2, <1>3 DEF DetailInv, DetailReplaysFit
<1>. QED  BY <1>4, <1>5, <1>6 DEF DetailInv

\* The API, the worker and lost answers: an item only goes on to a newer state.
LEMMA DetailItemsInv ==
  ASSUME DetailInv, NEW i \in Items, Detail!Accepts(i) \/ Detail!Loses(i) \/ Detail!ReplayFails(i)
           \/ Detail!Finishes(i)
  PROVE  DetailInv'
<1>1. UNCHANGED <<kind, fetches, current, detailHeld, replayable, detailTold>>
  BY DEF Detail!Accepts, Detail!Loses, Detail!ReplayFails, Detail!Finishes
<1>2. /\ view' \in DetailViewRecord /\ view'.seen = view.seen /\ view'.data = view.data
      /\ view'.awaiting = view.awaiting
  <2>1. view \in DetailViewRecord  BY DEF DetailInv, DetailVarTypes
  <2>2. view' \in {view, [view EXCEPT !.replaying = FALSE]}
    BY DEF Detail!Accepts, Detail!Loses, Detail!ReplayFails, Detail!Finishes
  <2>. QED  BY <2>1, <2>2 DEF DetailViewRecord
<1>0. items[i].ver \in Nat /\ items[i].ver + 1 \in Nat  BY DEF DetailInv, DetailVarTypes
<1>3. /\ items' \in [Items -> [st: {"pending", "failed", "done"}, ver: Nat]]
      /\ \A j \in Items : j # i => items'[j] = items[j]
      /\ items'[i].ver \in {items[i].ver, items[i].ver + 1}
  <2>. DEFINE w == items[i].ver + 1
  <2>1. items' = items \/ \E st \in {"pending", "failed",
          "done"} : items' = [items EXCEPT ![i] = [st |-> st, ver |-> w]]
    BY DEF Detail!Accepts, Detail!Loses, Detail!ReplayFails, Detail!Finishes
  <2>2. w \in Nat  BY <1>0
  <2>. HIDE DEF w
  <2>3. items' \in [Items -> [st: {"pending", "failed", "done"}, ver: Nat]]
        /\ (\A j \in Items : j # i => items'[j] = items[j]) /\ items'[i].ver \in {items[i].ver, w}
    BY <2>1, <2>2 DEF DetailInv, DetailVarTypes
  <2>. QED  BY <2>3 DEF w
<1>4. /\ replays' \in [Items -> [st: {"none", "sent", "ok", "failed"}, live: BOOLEAN, ver: Nat]]
      /\ \A j \in Items : /\ replays'[j].live => replays[j].live
                          /\ replays'[j].st = "ok" => replays'[j].ver <= items'[j].ver
  <2>1. CASE Detail!Accepts(i)
    <3>. DEFINE w == items[i].ver + 1
    <3>1. CASE items[i].st = "failed" /\ replayable
      <4>1. /\ items' = [items EXCEPT ![i] = [st |-> "pending", ver |-> w]]
            /\ replays' = [replays EXCEPT ![i].st = "ok", ![i].ver = w]
        BY <2>1, <3>1 DEF Detail!Accepts
      <4>2. w \in Nat  BY <1>0
      <4>. HIDE DEF w
      <4>3. items'[i].ver = w /\ \A j \in Items : j # i => items'[j] = items[j]
        BY <4>1 DEF DetailInv, DetailVarTypes
      <4>4. /\ replays' \in [Items -> [st: {"none", "sent", "ok", "failed"}, live: BOOLEAN, ver: Nat]]
            /\ \A j \in Items : replays'[j].live => replays[j].live
            /\ \A j \in Items : j # i => replays'[j] = replays[j]
            /\ replays'[i].ver = w
        BY <4>1, <4>2 DEF DetailInv, DetailVarTypes
      <4>5. \A j \in Items : replays'[j].st = "ok" => replays'[j].ver <= items'[j].ver
        <5>. SUFFICES ASSUME NEW j \in Items, replays'[j].st = "ok"
                               PROVE replays'[j].ver <= items'[j].ver
          OBVIOUS
        <5>1. CASE j = i  BY <4>2, <4>3, <4>4, <5>1
        <5>2. CASE j # i  BY <4>3, <4>4, <5>2 DEF DetailInv, DetailReplaysFit
        <5>. QED  BY <5>1, <5>2
      <4>. QED  BY <4>4, <4>5
    <3>2. CASE ~(items[i].st = "failed" /\ replayable)
      <4>1. items' = items /\ replays' = [replays EXCEPT ![i].st = "failed"]
        BY <2>1, <3>2 DEF Detail!Accepts
      <4>2. /\ replays' \in [Items -> [st: {"none", "sent", "ok", "failed"}, live: BOOLEAN, ver: Nat]]
            /\ \A j \in Items : replays'[j].live => replays[j].live
            /\ \A j \in Items : replays'[j].st = "ok" => replays'[j] = replays[j]
        BY <4>1 DEF DetailInv, DetailVarTypes
      <4>. QED  BY <4>1, <4>2 DEF DetailInv, DetailReplaysFit
    <3>. QED  BY <3>1, <3>2
  <2>2. CASE Detail!Loses(i)
    BY <2>2 DEF Detail!Loses, DetailInv, DetailVarTypes, DetailReplaysFit
  <2>3. CASE Detail!ReplayFails(i)
    BY <2>3 DEF Detail!ReplayFails, DetailInv, DetailVarTypes, DetailReplaysFit, Detail!NoReplay
  <2>4. CASE Detail!Finishes(i)
    <3>1. replays' = replays  BY <2>4 DEF Detail!Finishes
    <3>2. \A j \in Items : replays[j].st = "ok" => replays[j].ver <= items'[j].ver
      BY <1>0, <1>3 DEF DetailInv, DetailVarTypes, DetailReplaysFit
    <3>. QED  BY <3>1, <3>2 DEF DetailInv, DetailVarTypes
  <2>. QED  BY <2>1, <2>2, <2>3, <2>4
<1>5. \A j \in Items : items[j].ver \in Nat /\ items'[j].ver \in Nat /\ items[j].ver <= items'[j].ver
  BY <1>0, <1>3 DEF DetailInv, DetailVarTypes
<1>6. DetailVarTypes'  BY <1>1, <1>2, <1>3, <1>4 DEF DetailInv, DetailVarTypes
<1>7. DetailLoadIsNews'
  <2>. SUFFICES ASSUME NEW k \in Slots, fetches[k].st # "none", ~fetches[k].aborted
                PROVE  /\ k = detailHeld /\ k = current
                       /\ fetches[k].id = view.seen /\ view.seen \in Items
                       /\ fetches[k].st = "ok" =>
                            /\ fetches[k].item.id = view.seen
                            /\ fetches[k].item.ver <= items'[view.seen].ver
                            /\ fetches[k].item.ver >= detailTold[view.seen]
                            /\ view.data.id = view.seen => fetches[k].item.ver >= view.data.ver
    BY <1>1, <1>2 DEF DetailLoadIsNews
  <2>1. fetches[k].item.ver \in Nat
    BY DEF DetailInv, DetailVarTypes, DetailFetchRecord, DetailItemShown
  <2>. QED  BY <1>5, <2>1 DEF DetailInv, DetailLoadIsNews
<1>8. DetailShownFits'
  <2>1. view.data.id # 0 => view.data.id \in Items /\ view.data.ver \in Nat
    BY DEF DetailInv, DetailVarTypes, DetailViewRecord, DetailItemShown
  <2>2. view.data.id # 0 => view.data.ver <= items'[view.data.id].ver
    BY <1>5, <2>1 DEF DetailInv, DetailShownFits
  <2>. QED  BY <1>1, <1>2, <2>2 DEF DetailInv, DetailShownFits
<1>9. DetailReplaysFit'
  <2>1. \A j \in Items : detailTold[j] <= items'[j].ver
    BY <1>5 DEF DetailInv, DetailVarTypes, DetailReplaysFit
  <2>. QED  BY <1>1, <1>2, <1>4, <2>1 DEF DetailInv, DetailReplaysFit
<1>. QED  BY <1>6, <1>7, <1>8, <1>9 DEF DetailInv

\* Every step keeps the invariant.
LEMMA DetailStepInv == DetailInv /\ [Detail!Next]_(Detail!vars) => DetailInv'
<1>. SUFFICES ASSUME DetailInv, [Detail!Next]_(Detail!vars) PROVE DetailInv'  OBVIOUS
<1>1. CASE UNCHANGED Detail!vars
  BY <1>1
    DEF Detail!vars, DetailInv, DetailVarTypes, DetailLoadIsNews, DetailShownFits,
        DetailReplaysFit
<1>2. CASE \E n \in Slots : Detail!Answers(n) \/ Detail!Arrives(n)
  BY <1>2, DetailAnswersInv, DetailArrivesInv
<1>3. CASE \E i \in Items : Detail!Accepts(i) \/ Detail!Loses(i) \/ Detail!Replayed(i)
             \/ Detail!ReplayFails(i) \/ Detail!Finishes(i)
  BY <1>3, DetailReplayedInv, DetailItemsInv
<1>4. CASE (\E id \in Items : Detail!Goes(id)) \/ Detail!Opens \/ Detail!Cancels \/ Detail!Disables
  BY <1>4, DetailScreenInv
<1>5. CASE Detail!Effects \/ Detail!Replays \/ Detail!Polls
  BY <1>5, DetailEffectsInv, DetailReplaysInv, DetailPollsInv
<1>. QED  BY <1>1, <1>2, <1>3, <1>4, <1>5 DEF Detail!Next

\* The type invariant of the page follows, and what it shows is what it should.
LEMMA DetailInvTypes == DetailInv => Detail!TypeOK /\ Detail!DetailIsHonest
<1>. SUFFICES ASSUME DetailInv PROVE Detail!TypeOK /\ Detail!DetailIsHonest  OBVIOUS
<1>1. Detail!TypeOK
  BY
    DEF DetailInv, DetailVarTypes, Detail!TypeOK, DetailViewRecord, DetailItemShown,
        DetailFetchRecord
<1>2. Detail!ShownIsOfRoute
  BY
    DEF Detail!ShownIsOfRoute, Detail!Pending, Detail!DeliveryPage, Detail!EventPage, DetailInv,
        DetailShownFits
<1>3. Detail!OfferedOnNews
  <2>. SUFFICES ASSUME view.id = view.seen, Detail!ReplayOffered
                         PROVE view.data.ver >= detailTold[view.id]
    BY DEF Detail!OfferedOnNews, Detail!Pending, Detail!DeliveryPage
  <2>1. view.awaiting # view.seen /\ view.data.st = "failed"
    BY DEF Detail!ReplayOffered, Detail!AwaitingReplay
  <2>2. view.data.id # 0  BY <2>1 DEF DetailInv, DetailShownFits, Detail!NoItem
  <2>. QED  BY <2>1, <2>2 DEF DetailInv, DetailShownFits
<1>. QED  BY <1>1, <1>2, <1>3 DEF Detail!DetailIsHonest

\* The item on the screen never goes back to an older state.
LEMMA DetailStep == DetailInv /\ [Detail!Next]_(Detail!vars) => Detail!NeverOlder
<1>. SUFFICES ASSUME DetailInv, [Detail!Next]_(Detail!vars) PROVE Detail!NeverOlder  OBVIOUS
<1>1. view \in DetailViewRecord /\ view.data.ver \in Nat
  BY DEF DetailInv, DetailVarTypes, DetailViewRecord, DetailItemShown
<1>2. CASE \E n \in Slots : Detail!Arrives(n)  BY <1>2, DetailArrivesInv
<1>3. CASE Detail!Effects
  <2>. DEFINE v == [view EXCEPT !.seen = view.id, !.awaiting = 0, !.replaying = FALSE, !.dialog = FALSE]
  <2>1. view' = [v EXCEPT !.data = Detail!NoItem, !.loading = TRUE, !.refreshing = FALSE]
    BY <1>3 DEF Detail!Effects, Detail!LoadsItem
  <2>2. v \in DetailViewRecord  BY <1>1 DEF DetailViewRecord
  <2>. HIDE DEF v
  <2>3. view'.data = Detail!NoItem  BY <2>1, <2>2 DEF DetailViewRecord
  <2>4. view.data.id = 0 => view.data.ver = 0  BY DEF DetailInv, DetailShownFits, Detail!NoItem
  <2>. QED  BY <2>3, <2>4 DEF Detail!NeverOlder, Detail!NoItem
<1>4. CASE ~Detail!Effects /\ ~(\E n \in Slots : Detail!Arrives(n))
  <2>1. view'.data = view.data
    <3>1. CASE UNCHANGED Detail!vars  BY <3>1 DEF Detail!vars
    <3>2. CASE \E i \in Items : Detail!Replayed(i)
      <4>1. PICK i \in Items : Detail!Replayed(i)  BY <3>2
      <4>2. CASE ~replays[i].live  BY <4>1, <4>2 DEF Detail!Replayed
      <4>3. CASE replays[i].live
        <5>1. view' = [Detail!Waits(view, i) EXCEPT !.refreshing = TRUE]
          BY <4>1, <4>3 DEF Detail!Replayed, Detail!LoadsItem
        <5>2. Detail!Waits(view, i) \in DetailViewRecord /\ Detail!Waits(view, i).data = view.data
          BY <1>1 DEF DetailViewRecord, Detail!Waits
        <5>. QED  BY <5>1, <5>2 DEF DetailViewRecord
      <4>. QED  BY <4>2, <4>3
    <3>3. CASE Detail!Polls
      <4>1. view' = [view EXCEPT !.refreshing = TRUE]  BY <3>3 DEF Detail!Polls, Detail!LoadsItem
      <4>. QED  BY <1>1, <4>1 DEF DetailViewRecord
    <3>4. CASE Detail!Replays
      <4>1. view' = [view EXCEPT !.replaying = TRUE]  BY <3>4 DEF Detail!Replays
      <4>. QED  BY <1>1, <4>1 DEF DetailViewRecord
    <3>5. CASE \/ \E n \in Slots : Detail!Answers(n)
               \/ \E i \in Items : Detail!Goes(i) \/ Detail!Accepts(i) \/ Detail!Loses(i)
                    \/ Detail!ReplayFails(i) \/ Detail!Finishes(i)
               \/ Detail!Opens \/ Detail!Cancels \/ Detail!Disables
      BY <1>1, <3>5
        DEF DetailViewRecord, Detail!Answers, Detail!Goes, Detail!Accepts, Detail!Loses,
            Detail!ReplayFails, Detail!Finishes, Detail!Opens, Detail!Cancels, Detail!Disables
    <3>. QED  BY <1>4, <3>1, <3>2, <3>3, <3>4, <3>5 DEF Detail!Next
  <2>. QED  BY <1>1, <2>1 DEF Detail!NeverOlder
<1>. QED  BY <1>2, <1>3, <1>4

=============================================================================
