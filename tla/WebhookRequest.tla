--------------------------- MODULE WebhookRequest ---------------------------
(***************************************************************************)
(* The HTTP client of the worker: postWithTimeout resolves the name of the *)
(* url, refuses private addresses, posts to the addresses it checked and    *)
(* follows redirects, under one deadline.  Several calls share a cache of   *)
(* name lookups and the idle connections of the agents.                    *)
(***************************************************************************)
EXTENDS Naturals, FiniteSets

CONSTANTS Calls, Hosts,
          Refused,       \* urls refused before any lookup: not https, with credentials, a blocked name
          Public, Private,
          Timeout, CacheTtl, CacheMax, MaxRedirects, MaxBody,
          MaxSent, MaxNow     \* bounds of the model

VARIABLES
    now,
    pc,         \* [Calls -> where postWithTimeout is]
    start, redirects,
    url,        \* the url of this hop
    until,      \* when the timer of the lookup fires
    asked,      \* the lookup in flight, which outlives its call: its host and time
    pinned,     \* the addresses this hop may connect to
    aborted,    \* the signal of the call
    reply,      \* the response being read
    cache,      \* host -> addresses and expiry
    idle,       \* kept-alive connections
    contacted,  \* ghost: addresses that were sent a request
    posts       \* ghost: [Calls -> number of requests]

callVars == <<start, redirects, url, until, asked, pinned, aborted, reply, posts>>
vars == <<now, pc, callVars, cache, idle, contacted>>

NoLookup == [host |-> "none", at |-> 0]
NoReply == [redirect |-> FALSE, location |-> "none", sent |-> 0, kept |-> 0, over |-> FALSE]
Urls == Hosts \cup Refused
Failed == {"timeout", "blocked_url", "dns_error", "network", "too_many_redirects"}
Ended == Failed \cup {"returned"}
Running(c) == pc[c] \notin Ended \cup {"idle"}

TypeOK ==
    /\ now \in 0..MaxNow
    /\ pc \in [Calls -> {"idle", "resolve", "lookup", "connect", "sent", "receive"} \cup Ended]
    /\ start \in [Calls -> 0..MaxNow] /\ until \in [Calls -> 0..MaxNow + Timeout]
    /\ redirects \in [Calls -> Nat]
    /\ url \in [Calls -> Urls]
    /\ asked \in [Calls -> [host : Hosts, at : 0..MaxNow] \cup {NoLookup}]
    /\ pinned \in [Calls -> SUBSET (Public \cup Private)]
    /\ aborted \in [Calls -> BOOLEAN]
    /\ reply \in [Calls -> [redirect : BOOLEAN, location : Urls \cup {"none"},
                            sent : 0..MaxSent, kept : 0..MaxBody, over : BOOLEAN]]
    /\ \A h \in DOMAIN cache : h \in Hosts /\ cache[h].expires \in 0..MaxNow + CacheTtl
    /\ idle \subseteq Hosts \X (Public \cup Private)

Init ==
    /\ now = 0
    /\ pc = [c \in Calls |-> "idle"] /\ start = [c \in Calls |-> 0]
    /\ redirects = [c \in Calls |-> 0] /\ until = [c \in Calls |-> 0]
    /\ url \in [Calls -> Hosts]
    /\ asked = [c \in Calls |-> NoLookup] /\ pinned = [c \in Calls |-> {}]
    /\ aborted = [c \in Calls |-> FALSE] /\ reply = [c \in Calls |-> NoReply]
    /\ cache = [h \in {} |-> NoLookup] /\ idle = {}
    /\ contacted = {} /\ posts = [c \in Calls |-> 0]

Ends(c, how) == pc' = [pc EXCEPT ![c] = how]
Goes(c, to) == pc' = [pc EXCEPT ![c] = to]

----------------------------------------------------------------------------
\* postWithTimeout: the deadline of all hops starts here.
Call(c) ==
    /\ pc[c] = "idle" /\ now + Timeout <= MaxNow
    /\ start' = [start EXCEPT ![c] = now]
    /\ Goes(c, "resolve")
    /\ UNCHANGED <<now, redirects, url, until, asked, pinned, aborted, reply, posts, cache, idle, contacted>>

\* What is left of the deadline.
Remaining(c) == IF now < start[c] + Timeout THEN start[c] + Timeout - now ELSE 0

OutOfTime(c) ==
    /\ pc[c] = "resolve" /\ Remaining(c) = 0
    /\ Ends(c, "timeout")
    /\ UNCHANGED <<now, callVars, cache, idle, contacted>>

Refuse(c) ==
    /\ pc[c] = "resolve" /\ Remaining(c) > 0 /\ url[c] \in Refused
    /\ Ends(c, "blocked_url")
    /\ UNCHANGED <<now, callVars, cache, idle, contacted>>

Fresh(h) == h \in DOMAIN cache /\ cache[h].expires > now

\* Faulty: one public address among those of the name is enough.
PinAny(c, addresses) ==
    IF addresses \cap Public = {}
    THEN Ends(c, "blocked_url") /\ UNCHANGED pinned
    ELSE Goes(c, "connect") /\ pinned' = [pinned EXCEPT ![c] = addresses]

\* Every address of the name is checked before the connection is pinned to them.
Pin(c, addresses) ==
    IF addresses \cap Private # {}
    THEN Ends(c, "blocked_url") /\ UNCHANGED pinned
    ELSE Goes(c, "connect") /\ pinned' = [pinned EXCEPT ![c] = addresses]

CacheHit(c) ==
    /\ pc[c] = "resolve" /\ Remaining(c) > 0 /\ url[c] \in Hosts /\ Fresh(url[c])
    /\ Pin(c, cache[url[c]].addresses)
    /\ UNCHANGED <<now, start, redirects, url, until, asked, aborted, reply, posts, cache, idle, contacted>>

Lookup(c) ==
    /\ pc[c] = "resolve" /\ Remaining(c) > 0 /\ url[c] \in Hosts /\ ~Fresh(url[c])
    /\ asked[c] = NoLookup
    /\ asked' = [asked EXCEPT ![c] = [host |-> url[c], at |-> now]]
    /\ until' = [until EXCEPT ![c] = now + Remaining(c)]
    /\ Goes(c, "lookup")
    /\ UNCHANGED <<now, start, redirects, url, pinned, aborted, reply, posts, cache, idle, contacted>>

\* A full cache is emptied before an entry is added.
Room == IF Cardinality(DOMAIN cache) >= CacheMax THEN [h \in {} |-> NoLookup] ELSE cache

\* An answer is kept from when it was asked for.
Expiry(c) == asked[c].at + CacheTtl

\* The answer is cached even if the call that asked has ended.
LookupAnswers(c, addresses) ==
    /\ asked[c] # NoLookup
    /\ LET entry == [addresses |-> addresses, expires |-> Expiry(c), given |-> asked[c].at]
       IN cache' = [h \in DOMAIN Room \cup {asked[c].host} |-> IF h = asked[c].host THEN entry ELSE Room[h]]
    /\ asked' = [asked EXCEPT ![c] = NoLookup]
    /\ IF pc[c] = "lookup" THEN Pin(c, addresses) ELSE UNCHANGED <<pc, pinned>>
    /\ UNCHANGED <<now, start, redirects, url, until, aborted, reply, posts, idle, contacted>>

LookupFails(c) ==
    /\ asked[c] # NoLookup
    /\ asked' = [asked EXCEPT ![c] = NoLookup]
    /\ IF pc[c] = "lookup" THEN Ends(c, "dns_error") ELSE UNCHANGED pc
    /\ UNCHANGED <<now, start, redirects, url, until, pinned, aborted, reply, posts, cache, idle, contacted>>

LookupTimeout(c) ==
    /\ pc[c] = "lookup" /\ now >= until[c]
    /\ Ends(c, "timeout")
    /\ UNCHANGED <<now, callVars, cache, idle, contacted>>

----------------------------------------------------------------------------
\* requestOnce: a kept connection to the host, or a new one to a pinned address.
Connect(c) ==
    /\ pc[c] = "connect" /\ ~aborted[c]
    /\ \E a \in pinned[c] \cup {b \in Public \cup Private : <<url[c], b>> \in idle} :
         /\ contacted' = contacted \cup {a}
         /\ pinned' = [pinned EXCEPT ![c] = {a}]
         /\ idle' = idle \ {<<url[c], a>>}
    /\ posts' = [posts EXCEPT ![c] = @ + 1]
    /\ reply' = [reply EXCEPT ![c] = NoReply]
    /\ Goes(c, "sent")
    /\ UNCHANGED <<now, start, redirects, url, until, asked, aborted, cache>>

RespondsWith(c, redirect, location) ==
    /\ pc[c] = "sent" /\ ~aborted[c]
    /\ reply' = [reply EXCEPT ![c].redirect = redirect, ![c].location = location]
    /\ Goes(c, "receive")
    /\ UNCHANGED <<now, start, redirects, url, until, asked, pinned, aborted, posts, cache, idle, contacted>>

\* What is kept of a chunk of n bytes.
Kept(c, n) == IF reply[c].kept + n > MaxBody THEN MaxBody ELSE reply[c].kept + n

Data(c, n) ==
    /\ pc[c] = "receive" /\ ~aborted[c] /\ reply[c].sent + n <= MaxSent
    /\ reply' = [reply EXCEPT ![c].sent = @ + n, ![c].kept = Kept(c, n)]
    /\ UNCHANGED <<now, pc, start, redirects, url, until, asked, pinned, aborted, posts, cache, idle, contacted>>

Followable(c) == redirects[c] < MaxRedirects

\* 'end', which may have been queued when the signal fires: an answer, or the next hop.
End(c) ==
    /\ pc[c] = "receive"
    /\ idle' = idle \cup {<<url[c], a>> : a \in pinned[c]}
    /\ reply' = [reply EXCEPT ![c].over = TRUE]
    /\ \/ ~(reply[c].redirect /\ reply[c].location # "none")
          /\ Ends(c, "returned") /\ UNCHANGED <<redirects, url>>
       \/ reply[c].redirect /\ reply[c].location # "none" /\ ~Followable(c)
          /\ Ends(c, "too_many_redirects") /\ UNCHANGED <<redirects, url>>
       \/ reply[c].redirect /\ reply[c].location # "none" /\ Followable(c)
          /\ redirects' = [redirects EXCEPT ![c] = @ + 1]
          /\ url' = [url EXCEPT ![c] = reply[c].location]
          /\ Goes(c, "resolve")
    /\ UNCHANGED <<now, start, until, asked, pinned, aborted, posts, cache, contacted>>

\* 'error' of the request or the response, or 'close' before 'end'.
Breaks(c) ==
    /\ pc[c] \in {"sent", "receive"}
    /\ Ends(c, IF aborted[c] THEN "timeout" ELSE "network")
    /\ UNCHANGED <<now, callVars, cache, idle, contacted>>

\* The signal: it ends a request in flight, and one that is begun after it.
Abort(c) ==
    /\ Running(c) /\ ~aborted[c] /\ now >= start[c] + Timeout
    /\ aborted' = [aborted EXCEPT ![c] = TRUE]
    /\ UNCHANGED <<now, pc, start, redirects, url, until, asked, pinned, reply, posts, cache, idle, contacted>>

Aborted(c) ==
    /\ pc[c] \in {"connect", "sent", "receive"} /\ aborted[c]
    /\ Ends(c, "timeout")
    /\ UNCHANGED <<now, callVars, cache, idle, contacted>>

IdleCloses ==
    /\ \E i \in idle : idle' = idle \ {i}
    /\ UNCHANGED <<now, pc, callVars, cache, contacted>>

\* Timers fire and the steps of the event loop happen before time moves on.
Overdue(c) ==
    \/ pc[c] \in {"resolve", "connect"}
    \/ pc[c] = "lookup" /\ now >= until[c]
    \/ pc[c] \in {"sent", "receive"} /\ now >= start[c] + Timeout /\ ~aborted[c]
    \/ pc[c] \in {"connect", "sent", "receive"} /\ aborted[c]

Tick ==
    /\ now < MaxNow /\ \A c \in Calls : ~Overdue(c)
    /\ now' = now + 1
    /\ UNCHANGED <<pc, callVars, cache, idle, contacted>>

Step(c) ==
    \/ Call(c) \/ OutOfTime(c) \/ Refuse(c) \/ CacheHit(c) \/ Lookup(c)
    \/ \E addresses \in SUBSET (Public \cup Private) \ {{}} : LookupAnswers(c, addresses)
    \/ LookupFails(c) \/ LookupTimeout(c) \/ Connect(c)
    \/ \E redirect \in BOOLEAN, location \in Urls \cup {"none"} : RespondsWith(c, redirect, location)
    \/ \E n \in 1..2 : Data(c, n)
    \/ End(c) \/ Breaks(c) \/ Abort(c) \/ Aborted(c)

Next == (\E c \in Calls : Step(c)) \/ IdleCloses \/ Tick

\* The event loop takes its steps and the clock goes on. Nothing is assumed of
\* name servers and receivers.
Progress(c) ==
    \/ OutOfTime(c) \/ Refuse(c) \/ CacheHit(c) \/ Lookup(c) \/ Connect(c)
    \/ LookupTimeout(c) \/ Abort(c) \/ Aborted(c)
Fairness == WF_vars((\E c \in Calls : Running(c)) /\ Tick) /\ \A c \in Calls : WF_vars(Progress(c))
Spec == Init /\ [][Next]_vars /\ Fairness

----------------------------------------------------------------------------
\* The deadline holds for the sum of all lookups, hops and bodies of a call.
DeadlineKept == \A c \in Calls : Running(c) => now <= start[c] + Timeout

\* No request goes to a private address, whatever name, redirect, cached
\* lookup or kept connection led there.
OnlyCheckedAddresses == contacted \cap Private = {}

\* One call posts to at most MaxRedirects + 1 places.
RedirectsBounded == \A c \in Calls : posts[c] <= MaxRedirects + 1

\* What is returned is a response that came to its end, up to MaxBody bytes of it.
WholeAnswer ==
    \A c \in Calls : pc[c] = "returned" =>
      /\ reply[c].over
      /\ reply[c].kept = IF reply[c].sent > MaxBody THEN MaxBody ELSE reply[c].sent

\* An entry that may be used is of a lookup begun less than CacheTtl ago, and the
\* cache is bounded.
CacheIsFresh ==
    /\ Cardinality(DOMAIN cache) <= CacheMax
    /\ \A h \in DOMAIN cache : Fresh(h) => now < cache[h].given + CacheTtl

\* What the worker relies on: a bounded call of a checked address, and a whole answer.
CallIsBounded ==
    DeadlineKept /\ OnlyCheckedAddresses /\ RedirectsBounded /\ WholeAnswer /\ CacheIsFresh

\* Again and again: a call ends, even if name server and receiver are silent.
CallsEnded == \A c \in Calls : ~Running(c)
=============================================================================
