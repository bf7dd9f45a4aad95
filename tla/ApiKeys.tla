------------------------------- MODULE ApiKeys -------------------------------
(***************************************************************************)
(* The API keys of a tenant: created, revoked and rotated by the console,   *)
(* read by ingest, which also notes when a key was last used.  Every        *)
(* request is a sequence of statements; its UPDATE may run much later than   *)
(* the SELECT that led to it.                                               *)
(***************************************************************************)
EXTENDS Integers, FiniteSets

CONSTANTS Requests,
          Interval,        \* LAST_USED_AT_UPDATE_INTERVAL_MS
          MaxKey, MaxHour  \* bounds of the model

VARIABLES keys, hour, req

vars == <<keys, hour, req>>

Keys == 1..MaxKey
Never == -100

\* revokedBy and parent (the key it replaces) are ghosts.
Absent == [st |-> "absent", lastUsed |-> Never, revokedBy |-> "nobody", parent |-> 0]
Active(parent) == [Absent EXCEPT !.st = "active", !.parent = parent]
Idle == [pc |-> "idle", key |-> 0, at |-> 0]

TypeOK ==
    /\ hour \in 0..MaxHour
    /\ \A k \in Keys :
         /\ keys[k].st \in {"absent", "active", "revoked"}
         /\ keys[k].lastUsed \in {Never} \cup 0..hour
    /\ \A r \in Requests : req[r].key \in {0} \cup Keys /\ req[r].at \in 0..hour

Init ==
    /\ keys = [k \in Keys |-> IF k = 1 THEN Active(0) ELSE Absent]
    /\ hour = 0
    /\ req = [r \in Requests |-> Idle]

At(r, pc) == req[r].pc = pc
Ends(r) == req' = [req EXCEPT ![r].pc = "ended"]
Room == \E k \in Keys : keys[k].st = "absent"
NextKey == CHOOSE k \in Keys : keys[k].st = "absent"

\* A rotation has updated the row, and holds its lock until it commits.
RowFree(k) == \A r \in Requests : ~(At(r, "insert") /\ req[r].key = k)

----------------------------------------------------------------------------
\* createApiKey
Creates(r) ==
    /\ At(r, "idle") /\ Room
    /\ keys' = [keys EXCEPT ![NextKey] = Active(0)]
    /\ Ends(r)
    /\ UNCHANGED hour

\* revokeApiKey and rotateApiKey read the row: 404, or 409 when it is revoked.
Reads(r, k, what) ==
    /\ At(r, "idle")
    /\ IF keys[k].st = "active"
       THEN req' = [req EXCEPT ![r] = [Idle EXCEPT !.pc = what, !.key = k]]
       ELSE Ends(r)
    /\ UNCHANGED <<keys, hour>>

\* Faulty: the update trusts the row that was read.
StillActiveAlways(k) == TRUE

\* WHERE revoked_at IS NULL
StillActive(k) == keys[k].st = "active"

Revokes(r) ==
    LET k == req[r].key IN
    /\ At(r, "revoke") /\ RowFree(k)
    /\ keys' = IF StillActive(k)
               THEN [keys EXCEPT ![k].st = "revoked", ![k].revokedBy = "revoke"]
               ELSE keys
    /\ Ends(r)
    /\ UNCHANGED hour

\* The transaction of a rotation: 409 when somebody else revoked the key.
Rotates(r) ==
    LET k == req[r].key IN
    /\ At(r, "rotate") /\ RowFree(k)
    /\ IF StillActive(k) THEN req' = [req EXCEPT ![r].pc = "insert"] ELSE Ends(r)
    /\ UNCHANGED <<keys, hour>>

Commits(r) ==
    LET k == req[r].key IN
    /\ At(r, "insert") /\ Room
    /\ keys' = [keys EXCEPT ![k].st = "revoked", ![k].revokedBy = "rotate", ![NextKey] = Active(k)]
    /\ Ends(r)
    /\ UNCHANGED hour

----------------------------------------------------------------------------
\* last_used_at is unset or older than the cutoff.
Due(lastUsed, at) == lastUsed < at - Interval

\* authenticateApiKeyForIngest: the caller is let in at once, and the key is
\* touched by a statement nobody waits for.
Authenticates(r, k) ==
    /\ At(r, "idle")
    /\ IF keys[k].st = "active" /\ keys[k].lastUsed < hour - Interval
       THEN req' = [req EXCEPT ![r] = [pc |-> "touch", key |-> k, at |-> hour]]
       ELSE Ends(r)
    /\ UNCHANGED <<keys, hour>>

\* touchLastUsedAt: the time and the cutoff are those of the call.
Touches(r) ==
    LET k == req[r].key IN
    /\ At(r, "touch") /\ RowFree(k)
    /\ keys' = IF Due(keys[k].lastUsed, req[r].at)
               THEN [keys EXCEPT ![k].lastUsed = req[r].at]
               ELSE keys
    /\ Ends(r)
    /\ UNCHANGED hour

\* The connection is lost: a rotation is rolled back, a touch only logged.
Fails(r) ==
    /\ req[r].pc \notin {"idle", "ended"}
    /\ Ends(r)
    /\ UNCHANGED <<keys, hour>>

Tick ==
    /\ hour < MaxHour
    /\ hour' = hour + 1
    /\ UNCHANGED <<keys, req>>

Next ==
    \/ \E r \in Requests :
         \/ Creates(r) \/ Revokes(r) \/ Rotates(r) \/ Commits(r) \/ Touches(r) \/ Fails(r)
         \/ \E k \in Keys : Authenticates(r, k) \/ \E what \in {"revoke", "rotate"} : Reads(r, k, what)
    \/ Tick

Spec == Init /\ [][Next]_vars

----------------------------------------------------------------------------
\* A key that a rotation revoked has one successor, and no other key has any:
\* of rotations and revocations that race for a key one wins, and a rotation
\* that fails half way leaves the key in use.
RotatedOnce ==
    \A k \in Keys : Cardinality({s \in Keys : keys[s].parent = k})
                    = IF keys[k].revokedBy = "rotate" THEN 1 ELSE 0

\* However late the updates run, last_used_at moves forward, and by more than the
\* interval each time.
TouchedSparingly ==
    \A k \in Keys : keys'[k].lastUsed # keys[k].lastUsed
      => keys'[k].lastUsed > keys[k].lastUsed + Interval
=============================================================================
