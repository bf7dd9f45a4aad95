------------------------------ MODULE Sessions ------------------------------
(***************************************************************************)
(* One account, its sessions and its password.  A session stores the        *)
(* fingerprint of the password hash that its login verified, and is refused *)
(* once that is no longer the current one.  Requests are handled            *)
(* concurrently; express-session loads the row at their start and may write *)
(* it again at their end.                                                   *)
(***************************************************************************)
EXTENDS Naturals, FiniteSets

CONSTANTS Requests,
          ResetTokens,            \* reset links that were issued
          MaxHash, MaxSid         \* bounds of the model

VARIABLES
    hash,       \* users.password_hash: the n-th hash of the account
    workspace,  \* users.tenant_id, 0 for none
    workspaces, \* tenants the account made
    locked,     \* SELECT ... FOR UPDATE of the users row
    sessions,   \* the sessions table: sid -> what is stored in the row
    nextSid,
    resets,     \* reset links that can be used
    req,        \* [Requests -> the request and its req.session]
    resetCount, \* ghost: resets that were done
    lost        \* ghost: a change replaced another password than it verified

vars == <<hash, workspace, workspaces, locked, sessions, nextSid, resets, req, resetCount, lost>>

Sids == 1..MaxSid
Hashes == 1..MaxHash
NoRow == [hash |-> 0, workspace |-> 0, proof |-> 0]
Nobody == "nobody"

\* fingerprint of a hash, workspace; proof is a ghost: the password the user
\* who owns this session had to know.
Rows == [hash : Hashes, workspace : Nat, proof : Hashes]

Idle == [pc |-> "idle", sid |-> 0, session |-> NoRow, loaded |-> NoRow, verified |-> 0, at |-> 0]

TypeOK ==
    /\ hash \in Hashes /\ workspace \in 0..workspaces /\ workspaces \in Nat
    /\ locked \in Requests \cup {Nobody}
    /\ sessions \in [Sids -> Rows \cup {NoRow}]
    /\ nextSid \in 1..MaxSid + 1
    /\ resets \subseteq ResetTokens
    /\ resetCount \in Nat /\ lost \in BOOLEAN
    /\ \A r \in Requests : req[r].session \in Rows \cup {NoRow} /\ req[r].sid \in 0..MaxSid

\* The account is logged in once.
Init ==
    /\ hash = 1 /\ workspace = 0 /\ workspaces = 0 /\ locked = Nobody
    /\ sessions = [s \in Sids |-> IF s = 1 THEN [hash |-> 1, workspace |-> 0, proof |-> 1] ELSE NoRow]
    /\ nextSid = 2
    /\ resets = ResetTokens
    /\ req = [r \in Requests |-> Idle]
    /\ resetCount = 0 /\ lost = FALSE

At(r, pc) == req[r].pc = pc
Answers(r) == req' = [req EXCEPT ![r] = [Idle EXCEPT !.pc = "ended"]]
Without(sid) == IF sid = 0 THEN sessions ELSE [sessions EXCEPT ![sid] = NoRow]
NewHash == hash < MaxHash /\ hash' = hash + 1

\* express-session writes a session that was changed at the end of its request,
\* also when its row is gone.
WrittenBack(r) ==
    IF req[r].session = req[r].loaded THEN sessions
    ELSE [sessions EXCEPT ![req[r].sid] = req[r].session]

\* revokeUserSessions
Revoked == [s \in Sids |-> NoRow]

----------------------------------------------------------------------------
\* login: any password the account has had, checked against the hash just read.
LoginReads(r) ==
    /\ At(r, "idle")
    /\ \E known \in 1..hash, sid \in 0..MaxSid :
         req' = [req EXCEPT ![r] =
                   IF known = hash
                   THEN [Idle EXCEPT !.pc = "login_regenerate", !.sid = sid, !.verified = hash,
                                     !.session = [hash |-> hash, workspace |-> workspace, proof |-> known]]
                   ELSE [Idle EXCEPT !.pc = "ended"]]
    /\ UNCHANGED <<hash, workspace, workspaces, locked, sessions, nextSid, resets, resetCount, lost>>

\* req.session.regenerate deletes the row of the old session id.
Regenerates(r) ==
    /\ req[r].pc \in {"login_regenerate", "workspace_regenerate"}
    /\ sessions' = Without(req[r].sid)
    /\ req' = [req EXCEPT ![r].pc = IF @ = "login_regenerate" THEN "login_save" ELSE "workspace_save"]
    /\ UNCHANGED <<hash, workspace, workspaces, locked, nextSid, resets, resetCount, lost>>

\* Faulty: the fingerprint of the hash that is current when the session is saved.
FingerprintCurrent(r) == hash

\* The fingerprint of the hash that was verified, or the one of the session
\* that made the request.
Fingerprint(r) == req[r].session.hash

Saves(r) ==
    /\ req[r].pc \in {"login_save", "workspace_save"} /\ nextSid <= MaxSid
    /\ sessions' = [sessions EXCEPT ![nextSid] =
                      [req[r].session EXCEPT !.hash = Fingerprint(r)]]
    /\ nextSid' = nextSid + 1
    /\ Answers(r)
    /\ UNCHANGED <<hash, workspace, workspaces, locked, resets, resetCount, lost>>

\* express-session loads the row of the cookie's session id.
LoadsSession(r, sid) ==
    /\ At(r, "idle") /\ sessions[sid] # NoRow
    /\ req' = [req EXCEPT ![r] = [Idle EXCEPT !.pc = "attach", !.sid = sid,
                                  !.session = sessions[sid], !.loaded = sessions[sid]]]
    /\ UNCHANGED <<hash, workspace, workspaces, locked, sessions, nextSid, resets, resetCount, lost>>

Accepted(r) == req[r].session.hash = hash

\* attachSessionUser: the user is read again, and the session refreshed from it.
Attaches(r) ==
    /\ At(r, "attach")
    /\ IF Accepted(r)
       THEN req' = [req EXCEPT ![r].pc = "accepted", ![r].at = hash, ![r].session.workspace = workspace]
       ELSE Answers(r)
    /\ UNCHANGED <<hash, workspace, workspaces, locked, sessions, nextSid, resets, resetCount, lost>>

\* me, and every other request
Serves(r) ==
    /\ At(r, "accepted")
    /\ sessions' = WrittenBack(r)
    /\ Answers(r)
    /\ UNCHANGED <<hash, workspace, workspaces, locked, nextSid, resets, resetCount, lost>>

\* logout, and the end of changePassword
LogsOut(r) ==
    /\ req[r].pc \in {"accepted", "change_destroy"}
    /\ sessions' = Without(req[r].sid)
    /\ Answers(r)
    /\ UNCHANGED <<hash, workspace, workspaces, locked, nextSid, resets, resetCount, lost>>

----------------------------------------------------------------------------
\* changePassword: the current password is verified against the hash read now.
ChangeVerifies(r) ==
    /\ At(r, "accepted")
    /\ req' = [req EXCEPT ![r].pc = "change", ![r].verified = hash]
    /\ UNCHANGED <<hash, workspace, workspaces, locked, sessions, nextSid, resets, resetCount, lost>>

\* UPDATE ... WHERE password_hash = the verified one
UnchangedSince(r) == hash = req[r].verified

\* Somebody changed the password meanwhile: 401, and no session is revoked.
TooLate(r) == sessions' = WrittenBack(r) /\ Answers(r) /\ UNCHANGED <<hash, lost>>

ChangeCommits(r) ==
    /\ At(r, "change") /\ locked = Nobody
    /\ \/ /\ UnchangedSince(r)
          /\ NewHash
          /\ lost' = (lost \/ req[r].verified # hash)
          /\ sessions' = Revoked
          /\ req' = [req EXCEPT ![r].pc = "change_destroy"]
       \/ ~UnchangedSince(r) /\ TooLate(r)
    /\ UNCHANGED <<workspace, workspaces, locked, nextSid, resets, resetCount>>

\* resetPassword: the link is looked up, and consumed with the change.
ResetReads(r, token) ==
    /\ At(r, "idle") /\ token \in resets
    /\ req' = [req EXCEPT ![r] = [Idle EXCEPT !.pc = "reset", !.verified = token]]
    /\ UNCHANGED <<hash, workspace, workspaces, locked, sessions, nextSid, resets, resetCount, lost>>

Usable(r) == req[r].verified \in resets

ResetCommits(r) ==
    /\ At(r, "reset") /\ locked = Nobody
    /\ \/ /\ Usable(r)
          /\ NewHash
          /\ resets' = resets \ {req[r].verified} /\ resetCount' = resetCount + 1
          /\ sessions' = Revoked
       \/ ~Usable(r) /\ UNCHANGED <<hash, resets, resetCount, sessions>>
    /\ Answers(r)
    /\ UNCHANGED <<workspace, workspaces, locked, nextSid, lost>>

----------------------------------------------------------------------------
LockFree(r) == locked = Nobody

\* createMyWorkspace: the users row is locked, then read.
WorkspaceLocks(r) ==
    /\ At(r, "accepted") /\ LockFree(r)
    /\ locked' = r
    /\ req' = [req EXCEPT ![r].pc = "workspace", ![r].verified = workspace]
    /\ UNCHANGED <<hash, workspace, workspaces, sessions, nextSid, resets, resetCount, lost>>

\* An existing workspace is returned; otherwise one is made, and the sessions
\* that do not know of it are revoked.
WorkspaceCommits(r) ==
    /\ At(r, "workspace")
    /\ IF req[r].verified # 0
       THEN /\ req' = [req EXCEPT ![r].pc = "workspace_regenerate", ![r].session.workspace = req[r].verified]
            /\ UNCHANGED <<workspace, workspaces, sessions>>
       ELSE /\ workspaces' = workspaces + 1 /\ workspace' = workspaces + 1
            /\ sessions' = Revoked
            /\ req' = [req EXCEPT ![r].pc = "workspace_regenerate", ![r].session.workspace = workspaces + 1]
    /\ locked' = IF locked = r THEN Nobody ELSE locked
    /\ UNCHANGED <<hash, nextSid, resets, resetCount, lost>>

Next ==
    \E r \in Requests :
      \/ LoginReads(r) \/ Regenerates(r) \/ Saves(r)
      \/ \E sid \in Sids : LoadsSession(r, sid)
      \/ Attaches(r) \/ Serves(r) \/ LogsOut(r)
      \/ ChangeVerifies(r) \/ ChangeCommits(r)
      \/ \E token \in resets : ResetReads(r, token)
      \/ ResetCommits(r)
      \/ WorkspaceLocks(r) \/ WorkspaceCommits(r)

Spec == Init /\ [][Next]_vars

----------------------------------------------------------------------------
\* A request is accepted only for a session whose owner had to know the password
\* that is current, whichever logins, changes and resets ran meanwhile.
AcceptedKnowsPassword ==
    \A r \in Requests : req[r].at # 0 => req[r].session.proof = req[r].at

\* A password change never replaces a password it has not verified: a reset that
\* came between is not undone.
NoPasswordLost == ~lost

\* A reset link changes the password once.
ResetsOnce == resetCount + Cardinality(resets) = Cardinality(ResetTokens)

\* One account gets one workspace, and every request for it the same.
OneWorkspace ==
    /\ workspaces <= 1
    /\ \A r \in Requests : At(r, "workspace_save") => req[r].session.workspace = workspace

\* Of one account, whatever requests interleave.
PasswordRules == AcceptedKnowsPassword /\ NoPasswordLost /\ ResetsOnce /\ OneWorkspace

\* A session for the current password ends only with the password, with a new
\* workspace, or by a request that holds it.
CurrentSessionsKept ==
    \A s \in Sids : sessions[s].hash = hash /\ sessions'[s] = NoRow
      => \/ hash' # hash \/ workspace' # workspace
         \/ \E r \in Requests : req[r].sid = s /\ req'[r] # req[r]
=============================================================================
