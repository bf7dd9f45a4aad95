------------------------------- MODULE ApiProofs -------------------------------
(***************************************************************************)
(* Theorems about the requests of the API's clients as MCConsole runs      *)
(* them: Sessions, Accounts, ApiKeys and TenantIngest, for any number of   *)
(* requests, addresses, keys, links, bodies and endpoints. Each has its    *)
(* inductive invariant, lifted to the console's specification as in        *)
(* ServicesProofs.                                                         *)
(*                                                                         *)
(* Sessions: a stored session carries the hash its owner has verified, and *)
(* whoever makes the workspace holds the row of the user from its read on. *)
(* Accounts: a transaction keeps what it has read of the invites and       *)
(* users, because it holds their rows, the advisory lock of their address  *)
(* or the lock of their tenant. ApiKeys: a key is rotated by the one       *)
(* request that holds its row until the successor is there. TenantIngest:  *)
(* one request at a time inserts the first body under a key, and each      *)
(* knows, from its read of the endpoints on, all that have been active     *)
(* since it began.                                                         *)
(***************************************************************************)
EXTENDS ServicesProofs

----------------------------------------------------------------------------
\* Passwords, sessions and workspaces (Sessions).
\* What the constants of the login are.
LEMMA LoginBounds ==
    /\ MaxHash \in Nat \ {0} /\ MaxSid \in Nat \ {0}
    /\ IsFiniteSet(ResetTokens) /\ Login!Nobody \notin LoginRequests
BY LoginAssumption DEF Login!Nobody

\* Cardinality is that of FiniteSets.
LEMMA LoginCardinality == \A S : Login!Cardinality(S) = Cardinality(S)
BY DEF Cardinality, Login!Cardinality

LoginPc == {"idle", "ended", "login_regenerate", "login_save", "attach", "accepted", "change",
            "change_destroy", "reset", "workspace", "workspace_regenerate", "workspace_save"}
LoginStored == Login!Rows \cup {Login!NoRow}
LoginCall == [pc: LoginPc, sid: 0..MaxSid, session: LoginStored, loaded: LoginStored,
              verified: Nat \cup ResetTokens, at: Nat]

LoginTypes ==
    /\ hash \in Login!Hashes /\ workspace \in Nat /\ workspaces \in Nat
    /\ locked \in LoginRequests \cup {Login!Nobody}
    /\ sessions \in [Login!Sids -> LoginStored]
    /\ nextSid \in 1..MaxSid + 1
    /\ resets \subseteq ResetTokens
    /\ resetCount \in Nat /\ lost \in BOOLEAN
    /\ loginReq \in [LoginRequests -> LoginCall]

\* The owner of a stored session knew the password whose fingerprint it carries.
LoginRowsHonest == \A s \in Login!Sids : sessions[s].hash = sessions[s].proof

\* What a request c of r carries: a session as honest, that of the current password
\* once it is accepted, and the workspace of the account when it has asked for it.
LoginCarries(r, c, holder, space) ==
    /\ c.session.hash = c.session.proof
    /\ c.pc \notin {"idle", "ended", "reset"} => c.session \in Login!Rows
    /\ c.at # 0 => c.session.hash = c.at
    /\ c.pc = "workspace" => holder = r /\ c.verified = space
    /\ c.pc \in {"workspace_regenerate", "workspace_save"}
         => space = 1 /\ c.session.workspace = 1
LoginSound(r, c) == LoginCarries(r, c, locked, workspace)

LoginCallsSound == \A r \in LoginRequests : LoginSound(r, loginReq[r])

LoginWorkspaces == workspace = workspaces /\ workspaces \in {0, 1}
LoginCounts == Login!ResetsOnce /\ ~lost

LoginInv == LoginTypes /\ LoginRowsHonest /\ LoginCallsSound /\ LoginWorkspaces /\ LoginCounts

\* The rows of sessions are not the empty one.
LEMMA LoginValues ==
  /\ Login!NoRow \in LoginStored /\ Login!NoRow.hash = 0 /\ Login!NoRow.proof = 0
  /\ \A s \in LoginStored : s.hash \in Nat /\ s.proof \in Nat /\ s.workspace \in Nat
  /\ \A s \in Login!Rows : s.hash \in Login!Hashes /\ s.hash # 0
  /\ \A s \in LoginStored : s.hash # 0 => s \in Login!Rows
  /\ Login!NoRow \notin Login!Rows
<1>1. Login!NoRow \in LoginStored /\ Login!NoRow.hash = 0 /\ Login!NoRow.proof = 0 /\ Login!NoRow.workspace = 0
  BY DEF Login!NoRow, LoginStored
<1>2. \A s \in Login!Rows : s.hash \in Login!Hashes /\ s.hash # 0 /\ s.hash \in Nat /\ s.proof \in Nat /\ s.workspace \in Nat
  BY DEF Login!Rows, Login!Hashes
<1>3. \A s \in LoginStored : s \in Login!Rows \/ s = Login!NoRow  BY DEF LoginStored
<1>. QED  BY <1>1, <1>2, <1>3

\* An idle request carries no session.
LEMMA LoginIdleCall ==
  /\ Login!Idle \in LoginCall /\ Login!Idle.pc = "idle" /\ Login!Idle.session = Login!NoRow /\ Login!Idle.at = 0 /\ Login!Idle.sid = 0
  /\ \A p \in LoginPc : LET c == [Login!Idle EXCEPT !.pc = p] IN
       c \in LoginCall /\ c.pc = p /\ c.session = Login!NoRow /\ c.at = 0
<1>1. Login!NoRow \in LoginStored  BY LoginValues
<1>2. Login!Idle \in LoginCall /\ Login!Idle.pc = "idle" /\ Login!Idle.session = Login!NoRow /\ Login!Idle.at = 0 /\ Login!Idle.sid = 0
  BY <1>1, LoginBounds DEF Login!Idle, LoginCall, LoginPc
<1>. QED  BY <1>2 DEF LoginCall

\* At the start the account has one session, of its first password.
LEMMA LoginInitInv == Login!Init => LoginInv
<1>. SUFFICES ASSUME Login!Init PROVE LoginInv  OBVIOUS
<1>. DEFINE first == [hash |-> 1, workspace |-> 0, proof |-> 1]
<1>1. first \in Login!Rows /\ first.hash = first.proof
  BY LoginBounds DEF Login!Rows, Login!Hashes
<1>2. sessions = [s \in Login!Sids |-> IF s = 1 THEN first ELSE Login!NoRow]  BY DEF Login!Init
<1>. HIDE DEF first
<1>3. sessions \in [Login!Sids -> LoginStored] /\ LoginRowsHonest
  BY <1>1, <1>2, LoginValues DEF LoginStored, LoginRowsHonest
<1>4. LoginTypes
  <2>1. 1 \in Login!Hashes /\ 2 \in 1..MaxSid + 1  BY LoginBounds DEF Login!Hashes
  <2>. QED  BY <1>3, <2>1, LoginIdleCall DEF Login!Init, LoginTypes
<1>5. LoginCallsSound
  BY LoginIdleCall, LoginValues DEF Login!Init, LoginCallsSound, LoginSound, LoginCarries
<1>6. LoginWorkspaces /\ LoginCounts
  <2>1. Cardinality(ResetTokens) \in Nat  BY LoginBounds, FS_CardinalityType
  <2>. QED
    BY <2>1, LoginCardinality DEF Login!Init, LoginWorkspaces, LoginCounts, Login!ResetsOnce
<1>. QED  BY <1>3, <1>4, <1>5, <1>6 DEF LoginInv

\* Request r becomes c.
LoginBecomes(r, c) ==
    /\ c \in LoginCall /\ loginReq' \in [LoginRequests -> LoginCall] /\ loginReq'[r] = c
    /\ \A s \in LoginRequests : s # r => loginReq'[s] = loginReq[s]

\* A request that answers carries nothing any more.
LEMMA LoginAnswersBecomes ==
  ASSUME LoginTypes, NEW r \in LoginRequests, Login!Answers(r)
  PROVE  \E c \in LoginCall : LoginBecomes(r, c) /\ c.pc = "ended" /\ LoginSound(r, c)
<1>. DEFINE c == [Login!Idle EXCEPT !.pc = "ended"]
<1>1. c \in LoginCall /\ c.pc = "ended" /\ c.session = Login!NoRow /\ c.at = 0
  BY LoginIdleCall DEF LoginPc
<1>2. loginReq' = [loginReq EXCEPT ![r] = c]  BY DEF Login!Answers
<1>. HIDE DEF c
<1>3. LoginBecomes(r, c)  BY <1>1, <1>2 DEF LoginBecomes, LoginTypes
<1>4. LoginSound(r, c) /\ LoginCarries(r, c, locked', workspace')
  BY <1>1, LoginValues DEF LoginSound, LoginCarries
<1>. QED  BY <1>1, <1>3, <1>4

\* A step of r that leaves the lock and the workspace.
LEMMA LoginOneCall ==
  ASSUME LoginInv, NEW r \in LoginRequests, NEW c \in LoginCall, LoginBecomes(r, c), LoginSound(r, c),
         UNCHANGED <<locked, workspace>>
  PROVE  LoginCallsSound'
BY DEF LoginInv, LoginCallsSound, LoginBecomes, LoginSound, LoginCarries

\* The sessions after a request has ended its own, or written it back.
LEMMA LoginSessionsAfter ==
  ASSUME LoginInv, NEW r \in LoginRequests
  PROVE  /\ \A S \in {Login!Without(loginReq[r].sid), Login!WrittenBack(r), Login!Revoked} :
              S \in [Login!Sids -> LoginStored] /\ \A s \in Login!Sids : S[s].hash = S[s].proof
<1>1. loginReq[r] \in LoginCall /\ loginReq[r].session \in LoginStored /\ loginReq[r].session.hash = loginReq[r].session.proof
  BY DEF LoginInv, LoginTypes, LoginCallsSound, LoginSound, LoginCarries, LoginCall
<1>2. sessions \in [Login!Sids -> LoginStored] /\ \A s \in Login!Sids : sessions[s].hash = sessions[s].proof
  BY DEF LoginInv, LoginTypes, LoginRowsHonest
<1>3. ASSUME NEW S, S = Login!Without(loginReq[r].sid)
      PROVE  S \in [Login!Sids -> LoginStored] /\ \A s \in Login!Sids : S[s].hash = S[s].proof
  BY <1>2, <1>3, LoginValues DEF Login!Without
<1>4. ASSUME NEW S, S = Login!WrittenBack(r)
      PROVE  S \in [Login!Sids -> LoginStored] /\ \A s \in Login!Sids : S[s].hash = S[s].proof
  BY <1>1, <1>2, <1>4 DEF Login!WrittenBack
<1>5. ASSUME NEW S, S = Login!Revoked
      PROVE  S \in [Login!Sids -> LoginStored] /\ \A s \in Login!Sids : S[s].hash = S[s].proof
  BY <1>5, LoginValues DEF Login!Revoked
<1>. QED  BY <1>3, <1>4, <1>5

loginRest == <<hash, workspace, workspaces, locked, nextSid, resets, resetCount, lost>>

\* A step that concerns a request and the sessions only.
LEMMA LoginOnlySessions ==
  ASSUME LoginInv, NEW r \in LoginRequests, NEW c \in LoginCall, LoginBecomes(r, c), LoginSound(r, c),
         UNCHANGED loginRest,
         sessions' \in {sessions, Login!Without(loginReq[r].sid), Login!WrittenBack(r), Login!Revoked}
  PROVE  LoginInv'
<1>1. sessions' \in [Login!Sids -> LoginStored] /\ \A s \in Login!Sids : sessions'[s].hash = sessions'[s].proof
  BY LoginSessionsAfter DEF LoginInv, LoginTypes, LoginRowsHonest
<1>2. LoginCallsSound'  BY LoginOneCall DEF loginRest
<1>3. LoginTypes'  BY <1>1 DEF LoginInv, LoginTypes, LoginBecomes, loginRest
<1>4. LoginWorkspaces' /\ LoginCounts'
  BY LoginCardinality DEF LoginInv, LoginWorkspaces, LoginCounts, Login!ResetsOnce, loginRest
<1>. QED  BY <1>1, <1>2, <1>3, <1>4 DEF LoginInv, LoginRowsHonest

\* A login that has verified the password carries the hash it read.
LEMMA LoginReadsInv ==
  ASSUME LoginInv, NEW r \in LoginRequests, Login!LoginReads(r)
  PROVE  LoginInv'
<1>1. PICK known \in 1..hash, sid \in 0..MaxSid :
        loginReq' = [loginReq EXCEPT ![r] =
                       IF known = hash
                       THEN [Login!Idle EXCEPT !.pc = "login_regenerate", !.sid = sid, !.verified = hash,
                                               !.session = [hash |-> hash, workspace |-> workspace, proof |-> known]]
                       ELSE [Login!Idle EXCEPT !.pc = "ended"]]
  BY DEF Login!LoginReads
<1>2. UNCHANGED loginRest /\ UNCHANGED sessions  BY DEF Login!LoginReads, loginRest
<1>3. CASE known = hash
  <2>. DEFINE row == [hash |-> hash, workspace |-> workspace, proof |-> known]
              c == [Login!Idle EXCEPT !.pc = "login_regenerate", !.sid = sid, !.verified = hash, !.session = row]
  <2>1. hash \in Login!Hashes /\ workspace \in Nat /\ hash \in Nat
    BY DEF LoginInv, LoginTypes, Login!Hashes
  <2>2. row \in Login!Rows /\ row.hash = row.proof  BY <1>3, <2>1 DEF Login!Rows
  <2>. HIDE DEF row
  <2>3. row \in LoginStored  BY <2>2 DEF LoginStored
  <2>4. c \in LoginCall /\ c.pc = "login_regenerate" /\ c.session = row /\ c.at = 0
    <3>1. "login_regenerate" \in LoginPc  BY DEF LoginPc
    <3>. QED  BY <2>1, <2>3, <3>1, LoginIdleCall DEF LoginCall
  <2>5. loginReq' = [loginReq EXCEPT ![r] = c]  BY <1>1, <1>3 DEF row
  <2>. HIDE DEF c
  <2>6. LoginBecomes(r, c) /\ LoginSound(r, c)
    BY <2>2, <2>4, <2>5 DEF LoginBecomes, LoginSound, LoginCarries, LoginInv, LoginTypes
  <2>. QED  BY <1>2, <2>4, <2>6, LoginOnlySessions
<1>4. CASE known # hash
  <2>1. Login!Answers(r)  BY <1>1, <1>4 DEF Login!Answers
  <2>. QED  BY <1>2, <2>1, LoginAnswersBecomes, LoginOnlySessions DEF LoginInv
<1>. QED  BY <1>3, <1>4

\* A new session id loses the stored row of the old one.
LEMMA LoginRegeneratesInv ==
  ASSUME LoginInv, NEW r \in LoginRequests, Login!Regenerates(r)
  PROVE  LoginInv'
<1>. DEFINE p == IF loginReq[r].pc = "login_regenerate" THEN "login_save" ELSE "workspace_save"
            c == [loginReq[r] EXCEPT !.pc = p]
<1>1. loginReq[r] \in LoginCall /\ LoginSound(r, loginReq[r])
  BY DEF LoginInv, LoginTypes, LoginCallsSound
<1>2. p \in LoginPc /\ loginReq[r].pc \notin {"idle", "ended", "reset"}
      /\ (p = "workspace_save" => loginReq[r].pc = "workspace_regenerate")
      /\ p \in {"login_save", "workspace_save"}
  BY DEF Login!Regenerates, LoginPc
<1>3. loginReq' = [loginReq EXCEPT ![r] = c] /\ UNCHANGED loginRest /\ sessions' = Login!Without(loginReq[r].sid)
  BY <1>1 DEF Login!Regenerates, loginRest, LoginInv, LoginTypes, LoginCall
<1>. HIDE DEF p
<1>4. c \in LoginCall /\ c.pc = p /\ c.session = loginReq[r].session /\ c.at = loginReq[r].at /\ c.verified = loginReq[r].verified
  BY <1>1, <1>2 DEF LoginCall
<1>. HIDE DEF c
<1>5. LoginBecomes(r, c)  BY <1>3, <1>4 DEF LoginBecomes, LoginInv, LoginTypes
<1>6. LoginSound(r, c)  BY <1>1, <1>2, <1>4 DEF LoginSound, LoginCarries
<1>. QED  BY <1>3, <1>4, <1>5, <1>6, LoginOnlySessions

\* A saved session carries the hash its request has verified.
LEMMA LoginSavesInv == ASSUME LoginInv, NEW r \in LoginRequests, Login!Saves(r) PROVE LoginInv'
<1>. DEFINE row == [loginReq[r].session EXCEPT !.hash = Login!Fingerprint(r)]
<1>1. loginReq[r] \in LoginCall /\ loginReq[r].session \in Login!Rows /\ loginReq[r].session.hash = loginReq[r].session.proof
  BY DEF LoginInv, LoginTypes, LoginCallsSound, LoginSound, LoginCarries, Login!Saves
<1>2. row = loginReq[r].session  BY <1>1 DEF Login!Fingerprint, Login!Rows
<1>3. /\ sessions' = [sessions EXCEPT ![nextSid] = row] /\ nextSid' = nextSid + 1 /\ Login!Answers(r)
      /\ nextSid <= MaxSid
      /\ UNCHANGED <<hash, workspace, workspaces, locked, resets, resetCount, lost>>
  BY DEF Login!Saves
<1>. HIDE DEF row
<1>4. PICK c \in LoginCall : LoginBecomes(r, c) /\ c.pc = "ended" /\ LoginSound(r, c)
  BY <1>3, LoginAnswersBecomes DEF LoginInv
<1>5. LoginCallsSound'  BY <1>3, <1>4, LoginOneCall
<1>6. sessions' \in [Login!Sids -> LoginStored] /\ LoginRowsHonest'
  BY <1>1, <1>2, <1>3 DEF LoginInv, LoginTypes, LoginRowsHonest, LoginStored
<1>7. nextSid' \in 1..MaxSid + 1  BY <1>3, LoginBounds DEF LoginInv, LoginTypes
<1>8. LoginTypes'  BY <1>3, <1>4, <1>6, <1>7 DEF LoginInv, LoginTypes, LoginBecomes
<1>9. LoginWorkspaces' /\ LoginCounts'
  BY <1>3, LoginCardinality DEF LoginInv, LoginWorkspaces, LoginCounts, Login!ResetsOnce
<1>. QED  BY <1>5, <1>6, <1>8, <1>9 DEF LoginInv

\* A request loads a stored session as it is.
LEMMA LoginLoadsSessionInv ==
  ASSUME LoginInv, NEW r \in LoginRequests, NEW sid \in Login!Sids, Login!LoadsSession(r, sid) PROVE LoginInv'
<1>. DEFINE row == sessions[sid]
            c == [Login!Idle EXCEPT !.pc = "attach", !.sid = sid, !.session = row, !.loaded = row]
<1>1. row \in LoginStored /\ row \in Login!Rows /\ row.hash = row.proof
  BY DEF Login!LoadsSession, LoginInv, LoginTypes, LoginRowsHonest, LoginStored
<1>2. loginReq' = [loginReq EXCEPT ![r] = c] /\ UNCHANGED loginRest /\ UNCHANGED sessions
  BY DEF Login!LoadsSession, loginRest
<1>. HIDE DEF row
<1>3. "attach" \in LoginPc /\ sid \in 0..MaxSid  BY DEF LoginPc, Login!Sids
<1>4. c \in LoginCall /\ c.pc = "attach" /\ c.session = row /\ c.at = 0
  BY <1>1, <1>3, LoginIdleCall DEF LoginCall
<1>. HIDE DEF c
<1>5. LoginBecomes(r, c) /\ LoginSound(r, c)
  BY <1>1, <1>2, <1>4 DEF LoginBecomes, LoginSound, LoginCarries, LoginInv, LoginTypes
<1>. QED  BY <1>2, <1>4, <1>5, LoginOnlySessions

\* attachUser accepts a session of the current hash only.
LEMMA LoginAttachesInv ==
  ASSUME LoginInv, NEW r \in LoginRequests, Login!Attaches(r)
  PROVE  LoginInv'
<1>1. UNCHANGED loginRest /\ UNCHANGED sessions  BY DEF Login!Attaches, loginRest
<1>2. CASE Login!Answers(r)  BY <1>1, <1>2, LoginAnswersBecomes, LoginOnlySessions DEF LoginInv
<1>3. CASE ~Login!Answers(r)
  <2>. DEFINE row == [loginReq[r].session EXCEPT !.workspace = workspace]
              c == [loginReq[r] EXCEPT !.pc = "accepted", !.at = hash, !.session = row]
  <2>1. /\ loginReq[r] \in LoginCall /\ loginReq[r].session \in Login!Rows /\ loginReq[r].session.hash = loginReq[r].session.proof
        /\ hash \in Nat /\ workspace \in Nat /\ loginReq[r].session.hash = hash
    BY <1>3
      DEF LoginInv, LoginTypes, LoginCallsSound, LoginSound, LoginCarries, Login!Attaches,
          Login!At, Login!Hashes, Login!Accepted
  <2>2. row \in Login!Rows /\ row.hash = hash /\ row.proof = hash  BY <2>1 DEF Login!Rows
  <2>3. loginReq' = [loginReq EXCEPT ![r] = c]
    BY <1>3, <2>1 DEF Login!Attaches, LoginInv, LoginTypes, LoginCall
  <2>. HIDE DEF row
  <2>4. "accepted" \in LoginPc /\ row \in LoginStored  BY <2>2 DEF LoginPc, LoginStored
  <2>5. c \in LoginCall /\ c.pc = "accepted" /\ c.session = row /\ c.at = hash
    BY <2>1, <2>4 DEF LoginCall
  <2>. HIDE DEF c
  <2>6. LoginBecomes(r, c) /\ LoginSound(r, c)
    BY <2>2, <2>3, <2>5 DEF LoginBecomes, LoginSound, LoginCarries, LoginInv, LoginTypes
  <2>. QED  BY <1>1, <2>5, <2>6, LoginOnlySessions
<1>. QED  BY <1>2, <1>3

\* A request that was accepted is served.
LEMMA LoginServesInv ==
  ASSUME LoginInv, NEW r \in LoginRequests, Login!Serves(r) \/ Login!LogsOut(r)
  PROVE  LoginInv'
<1>1. UNCHANGED loginRest /\ sessions' \in {Login!Without(loginReq[r].sid), Login!WrittenBack(r)} /\ Login!Answers(r)
  BY DEF Login!Serves, Login!LogsOut, loginRest
<1>. QED  BY <1>1, LoginAnswersBecomes, LoginOnlySessions DEF LoginInv

\* A change of password remembers the hash it has verified.
LEMMA LoginChangeVerifiesInv ==
  ASSUME LoginInv, NEW r \in LoginRequests, Login!ChangeVerifies(r)
  PROVE  LoginInv'
<1>. DEFINE c == [loginReq[r] EXCEPT !.pc = "change", !.verified = hash]
<1>1. loginReq[r] \in LoginCall /\ LoginSound(r, loginReq[r]) /\ hash \in Nat /\ loginReq[r].pc = "accepted"
  BY DEF LoginInv, LoginTypes, LoginCallsSound, Login!Hashes, Login!ChangeVerifies, Login!At
<1>2. loginReq' = [loginReq EXCEPT ![r] = c] /\ UNCHANGED loginRest /\ UNCHANGED sessions
  BY <1>1 DEF Login!ChangeVerifies, loginRest, LoginInv, LoginTypes, LoginCall
<1>3. "change" \in LoginPc  BY DEF LoginPc
<1>4. c \in LoginCall /\ c.pc = "change" /\ c.session = loginReq[r].session /\ c.at = loginReq[r].at
  BY <1>1, <1>3 DEF LoginCall
<1>. HIDE DEF c
<1>5. LoginBecomes(r, c) /\ LoginSound(r, c)
  BY <1>1, <1>2, <1>4 DEF LoginBecomes, LoginSound, LoginCarries, LoginInv, LoginTypes
<1>. QED  BY <1>2, <1>4, <1>5, LoginOnlySessions

\* A change of password commits against the hash it has verified.
LEMMA LoginChangeCommitsInv ==
  ASSUME LoginInv, NEW r \in LoginRequests, Login!ChangeCommits(r)
  PROVE  LoginInv'
<1>1. CASE ~Login!UnchangedSince(r) /\ Login!TooLate(r)
  <2>1. UNCHANGED loginRest /\ sessions' = Login!WrittenBack(r) /\ Login!Answers(r)
    BY <1>1 DEF Login!ChangeCommits, Login!TooLate, loginRest
  <2>. QED  BY <2>1, LoginAnswersBecomes, LoginOnlySessions DEF LoginInv
<1>2. CASE Login!UnchangedSince(r)
  <2>. DEFINE c == [loginReq[r] EXCEPT !.pc = "change_destroy"]
  <2>1. /\ loginReq[r] \in LoginCall /\ LoginSound(r, loginReq[r]) /\ loginReq[r].pc = "change"
        /\ Login!NewHash /\ lost' = (lost \/ loginReq[r].verified # hash) /\ sessions' = Login!Revoked
        /\ loginReq[r].verified = hash
        /\ UNCHANGED <<workspace, workspaces, locked, nextSid, resets, resetCount>>
    BY <1>2
      DEF LoginInv, LoginTypes, LoginCallsSound, Login!ChangeCommits, Login!At,
          Login!UnchangedSince
  <2>2. loginReq' = [loginReq EXCEPT ![r] = c]
    BY <1>2, <2>1 DEF Login!ChangeCommits, LoginInv, LoginTypes, LoginCall
  <2>3. "change_destroy" \in LoginPc  BY DEF LoginPc
  <2>4. c \in LoginCall /\ c.pc = "change_destroy" /\ c.session = loginReq[r].session /\ c.at = loginReq[r].at
    BY <2>1, <2>3 DEF LoginCall
  <2>. HIDE DEF c
  <2>5. LoginBecomes(r, c) /\ LoginSound(r, c)
    BY <2>1, <2>2, <2>4 DEF LoginBecomes, LoginSound, LoginCarries, LoginInv, LoginTypes
  <2>6. hash' \in Login!Hashes
    BY <2>1, LoginBounds DEF Login!NewHash, LoginInv, LoginTypes, Login!Hashes
  <2>7. sessions' \in [Login!Sids -> LoginStored] /\ LoginRowsHonest'
    BY <2>1, LoginSessionsAfter DEF LoginRowsHonest
  <2>8. lost' = FALSE  BY <2>1 DEF LoginInv, LoginCounts
  <2>9. LoginCallsSound'  BY <2>1, <2>4, <2>5, LoginOneCall
  <2>10. LoginTypes'  BY <2>1, <2>5, <2>6, <2>7, <2>8 DEF LoginInv, LoginTypes, LoginBecomes
  <2>11. LoginWorkspaces' /\ LoginCounts'
    BY <2>1, <2>8, LoginCardinality DEF LoginInv, LoginWorkspaces, LoginCounts, Login!ResetsOnce
  <2>. QED  BY <2>7, <2>9, <2>10, <2>11 DEF LoginInv
<1>. QED  BY <1>1, <1>2 DEF Login!ChangeCommits

\* A reset reads a link that is open.
LEMMA LoginResetReadsInv ==
  ASSUME LoginInv, NEW r \in LoginRequests, NEW token \in resets, Login!ResetReads(r, token) PROVE LoginInv'
<1>. DEFINE c == [Login!Idle EXCEPT !.pc = "reset", !.verified = token]
<1>1. "reset" \in LoginPc /\ token \in ResetTokens  BY DEF LoginPc, LoginInv, LoginTypes
<1>2. c \in LoginCall /\ c.pc = "reset" /\ c.session = Login!NoRow /\ c.at = 0
  BY <1>1, LoginIdleCall DEF LoginCall
<1>3. loginReq' = [loginReq EXCEPT ![r] = c] /\ UNCHANGED loginRest /\ UNCHANGED sessions
  BY DEF Login!ResetReads, loginRest
<1>. HIDE DEF c
<1>4. LoginBecomes(r, c) /\ LoginSound(r, c)
  BY <1>2, <1>3, LoginValues DEF LoginBecomes, LoginSound, LoginCarries, LoginInv, LoginTypes
<1>. QED  BY <1>2, <1>3, <1>4, LoginOnlySessions

\* A link that works is used up: it takes one of the resets that are left.
LEMMA LoginResetCommitsInv ==
  ASSUME LoginInv, NEW r \in LoginRequests, Login!ResetCommits(r)
  PROVE  LoginInv'
<1>1. Login!Answers(r) /\ UNCHANGED <<workspace, workspaces, locked, nextSid, lost>>
  BY DEF Login!ResetCommits
<1>2. CASE ~Login!Usable(r) /\ UNCHANGED <<hash, resets, resetCount, sessions>>
  <2>1. UNCHANGED loginRest  BY <1>1, <1>2 DEF loginRest
  <2>. QED  BY <1>1, <1>2, <2>1, LoginAnswersBecomes, LoginOnlySessions DEF LoginInv
<1>3. CASE Login!Usable(r)
  <2>1. /\ loginReq[r].verified \in resets /\ Login!NewHash /\ sessions' = Login!Revoked
        /\ resets' = resets \ {loginReq[r].verified} /\ resetCount' = resetCount + 1
    BY <1>3 DEF Login!ResetCommits, Login!Usable
  <2>2. PICK c \in LoginCall : LoginBecomes(r, c) /\ c.pc = "ended" /\ LoginSound(r, c)
    BY <1>1, LoginAnswersBecomes DEF LoginInv
  <2>3. LoginCallsSound'  BY <1>1, <2>2, LoginOneCall
  <2>4. hash' \in Login!Hashes
    BY <2>1, LoginBounds DEF Login!NewHash, LoginInv, LoginTypes, Login!Hashes
  <2>5. sessions' \in [Login!Sids -> LoginStored] /\ LoginRowsHonest'
    BY <2>1, LoginSessionsAfter DEF LoginRowsHonest
  <2>6. LoginTypes'  BY <1>1, <2>1, <2>2, <2>4, <2>5 DEF LoginInv, LoginTypes, LoginBecomes
  <2>7. IsFiniteSet(resets)  BY LoginBounds, FS_Subset DEF LoginInv, LoginTypes
  <2>8. Cardinality(resets') = Cardinality(resets) - 1 /\ Cardinality(resets) \in Nat
    BY <2>1, <2>7, FS_RemoveElement, FS_CardinalityType
  <2>9. resetCount + Cardinality(resets) = Cardinality(ResetTokens) /\ resetCount \in Nat
    BY LoginCardinality DEF LoginInv, LoginCounts, Login!ResetsOnce, LoginTypes
  <2>10. resetCount' + Cardinality(resets') = Cardinality(ResetTokens)  BY <2>1, <2>8, <2>9
  <2>11. LoginWorkspaces' /\ LoginCounts'
    BY <1>1, <2>10, LoginCardinality DEF LoginInv, LoginWorkspaces, LoginCounts, Login!ResetsOnce
  <2>. QED  BY <2>3, <2>5, <2>6, <2>11 DEF LoginInv
<1>. QED  BY <1>2, <1>3 DEF Login!ResetCommits

\* The row of the user is locked before its workspace is made.
LEMMA LoginWorkspaceLocksInv ==
  ASSUME LoginInv, NEW r \in LoginRequests, Login!WorkspaceLocks(r)
  PROVE  LoginInv'
<1>. DEFINE c == [loginReq[r] EXCEPT !.pc = "workspace", !.verified = workspace]
<1>1. /\ loginReq[r] \in LoginCall /\ LoginSound(r, loginReq[r]) /\ workspace \in Nat /\ loginReq[r].pc = "accepted"
      /\ locked = Login!Nobody /\ locked' = r
      /\ UNCHANGED <<hash, workspace, workspaces, sessions, nextSid, resets, resetCount, lost>>
  BY DEF LoginInv, LoginTypes, LoginCallsSound, Login!WorkspaceLocks, Login!At, Login!LockFree
<1>2. loginReq' = [loginReq EXCEPT ![r] = c]
  BY <1>1 DEF Login!WorkspaceLocks, LoginInv, LoginTypes, LoginCall
<1>3. "workspace" \in LoginPc  BY DEF LoginPc
<1>4. /\ c \in LoginCall /\ c.pc = "workspace" /\ c.session = loginReq[r].session /\ c.at = loginReq[r].at
      /\ c.verified = workspace
  BY <1>1, <1>3 DEF LoginCall
<1>. HIDE DEF c
<1>5. LoginBecomes(r, c) /\ LoginCarries(r, c, locked', workspace')
  BY <1>1, <1>2, <1>4 DEF LoginBecomes, LoginSound, LoginCarries, LoginInv, LoginTypes
<1>6. LoginCallsSound'
  <2>1. \A s \in LoginRequests : loginReq[s].pc # "workspace"
    BY <1>1, LoginBounds DEF LoginInv, LoginCallsSound, LoginSound, LoginCarries
  <2>. QED
    BY <1>1, <1>4, <1>5, <2>1
      DEF LoginInv, LoginCallsSound, LoginBecomes, LoginSound, LoginCarries
<1>7. LoginTypes'  BY <1>1, <1>5 DEF LoginInv, LoginTypes, LoginBecomes
<1>8. LoginRowsHonest' /\ LoginWorkspaces' /\ LoginCounts'
  BY <1>1, LoginCardinality
    DEF LoginInv, LoginRowsHonest, LoginWorkspaces, LoginCounts, Login!ResetsOnce
<1>. QED  BY <1>6, <1>7, <1>8 DEF LoginInv

\* The lock keeps the account from getting another workspace meanwhile.
LEMMA LoginWorkspaceCommitsInv ==
  ASSUME LoginInv, NEW r \in LoginRequests, Login!WorkspaceCommits(r)
  PROVE  LoginInv'
<1>1. /\ loginReq[r] \in LoginCall /\ LoginSound(r, loginReq[r]) /\ loginReq[r].pc = "workspace" /\ locked = r
      /\ loginReq[r].verified = workspace /\ locked' = Login!Nobody /\ loginReq[r].session \in Login!Rows
      /\ UNCHANGED <<hash, nextSid, resets, resetCount, lost>>
  BY
    DEF LoginInv, LoginTypes, LoginCallsSound, LoginSound, LoginCarries, Login!WorkspaceCommits,
        Login!At
<1>. DEFINE row == [loginReq[r].session EXCEPT !.workspace = 1]
            c == [loginReq[r] EXCEPT !.pc = "workspace_regenerate", !.session = row]
<1>2. /\ loginReq' = [loginReq EXCEPT ![r] = c] /\ workspace' = 1 /\ workspaces' = 1
      /\ sessions' \in {sessions, Login!Revoked}
  <2>1. workspace = workspaces /\ workspaces \in {0, 1} /\ loginReq \in [LoginRequests -> LoginCall]
        /\ DOMAIN loginReq[r] = {"pc", "sid", "session", "loaded", "verified", "at"}
    BY <1>1 DEF LoginInv, LoginTypes, LoginWorkspaces, LoginCall
  <2>2. CASE workspace = 1
    <3>1. /\ loginReq' = [loginReq EXCEPT ![r].pc = "workspace_regenerate", ![r].session.workspace = 1]
          /\ UNCHANGED <<workspace, workspaces, sessions>>
      BY <1>1, <2>1, <2>2 DEF Login!WorkspaceCommits
    <3>. QED  BY <2>1, <2>2, <3>1
  <2>3. CASE workspace = 0
    <3>1. /\ loginReq' = [loginReq EXCEPT ![r].pc = "workspace_regenerate", ![r].session.workspace = 1]
          /\ workspace' = 1 /\ workspaces' = 1 /\ sessions' = Login!Revoked
      BY <1>1, <2>1, <2>3 DEF Login!WorkspaceCommits
    <3>. QED  BY <2>1, <2>3, <3>1
  <2>. QED  BY <2>1, <2>2, <2>3
<1>3. row \in Login!Rows /\ row.hash = loginReq[r].session.hash /\ row.proof = loginReq[r].session.proof
      /\ row.workspace = 1
  BY <1>1 DEF Login!Rows
<1>. HIDE DEF row
<1>4. "workspace_regenerate" \in LoginPc /\ row \in LoginStored  BY <1>3 DEF LoginPc, LoginStored
<1>5. c \in LoginCall /\ c.pc = "workspace_regenerate" /\ c.session = row /\ c.at = loginReq[r].at
  BY <1>1, <1>4 DEF LoginCall
<1>. HIDE DEF c
<1>6. LoginBecomes(r, c)  BY <1>2, <1>5 DEF LoginBecomes, LoginInv, LoginTypes
<1>7. LoginCarries(r, c, locked', workspace')
  BY <1>1, <1>2, <1>3, <1>5 DEF LoginSound, LoginCarries
<1>8. LoginCallsSound'
  <2>. SUFFICES ASSUME NEW s \in LoginRequests, s # r PROVE LoginCarries(s, loginReq'[s], locked', workspace')
    BY <1>6, <1>7 DEF LoginCallsSound, LoginBecomes, LoginSound
  <2>1. loginReq'[s] = loginReq[s] /\ LoginSound(s, loginReq[s]) /\ loginReq[s].pc # "workspace"
    BY <1>1, <1>6 DEF LoginInv, LoginCallsSound, LoginBecomes, LoginSound, LoginCarries
  <2>. QED  BY <1>2, <2>1 DEF LoginSound, LoginCarries
<1>9. sessions' \in [Login!Sids -> LoginStored] /\ LoginRowsHonest'
  BY <1>2, LoginSessionsAfter DEF LoginInv, LoginTypes, LoginRowsHonest
<1>10. LoginTypes'  BY <1>1, <1>2, <1>6, <1>9 DEF LoginInv, LoginTypes, LoginBecomes
<1>11. LoginWorkspaces' /\ LoginCounts'
  BY <1>1, <1>2, LoginCardinality DEF LoginInv, LoginWorkspaces, LoginCounts, Login!ResetsOnce
<1>. QED  BY <1>8, <1>9, <1>10, <1>11 DEF LoginInv

\* Every step of a request with a session keeps the invariant.
LEMMA LoginStepInv == LoginInv /\ [Login!Next]_(Login!vars) => LoginInv'
<1>. SUFFICES ASSUME LoginInv, [Login!Next]_(Login!vars) PROVE LoginInv'  OBVIOUS
<1>1. CASE UNCHANGED Login!vars
  BY <1>1, LoginCardinality
    DEF Login!vars, LoginInv, LoginTypes, LoginRowsHonest, LoginCallsSound, LoginSound,
        LoginCarries, LoginWorkspaces, LoginCounts, Login!ResetsOnce
<1>2. ASSUME NEW r \in LoginRequests, Login!LoginReads(r) \/ Login!Regenerates(r) \/ Login!Saves(r) PROVE LoginInv'
  BY <1>2, LoginReadsInv, LoginRegeneratesInv, LoginSavesInv
<1>3. ASSUME NEW r \in LoginRequests, \E sid \in Login!Sids : Login!LoadsSession(r, sid) PROVE LoginInv'
  BY <1>3, LoginLoadsSessionInv
<1>4. ASSUME NEW r \in LoginRequests, Login!Attaches(r) \/ Login!Serves(r) \/ Login!LogsOut(r) PROVE LoginInv'
  BY <1>4, LoginAttachesInv, LoginServesInv
<1>5. ASSUME NEW r \in LoginRequests, Login!ChangeVerifies(r) \/ Login!ChangeCommits(r) PROVE LoginInv'
  BY <1>5, LoginChangeVerifiesInv, LoginChangeCommitsInv
<1>6. ASSUME NEW r \in LoginRequests,
             Login!ResetCommits(r) \/ \E token \in resets : Login!ResetReads(r, token) PROVE LoginInv'
  BY <1>6, LoginResetReadsInv, LoginResetCommitsInv
<1>7. ASSUME NEW r \in LoginRequests, Login!WorkspaceLocks(r) \/ Login!WorkspaceCommits(r) PROVE LoginInv'
  BY <1>7, LoginWorkspaceLocksInv, LoginWorkspaceCommitsInv
<1>. QED  BY <1>1, <1>2, <1>3, <1>4, <1>5, <1>6, <1>7 DEF Login!Next

\* The invariant types the variables.
LEMMA LoginInvTypes == LoginInv => Login!TypeOK
BY DEF LoginInv, LoginTypes, LoginWorkspaces, Login!TypeOK, LoginCall, LoginStored

\* The invariant is more than the rules of the password.
LEMMA LoginInvRules == LoginInv => Login!PasswordRules
<1>. SUFFICES ASSUME LoginInv PROVE Login!PasswordRules  OBVIOUS
<1>1. Login!AcceptedKnowsPassword
  BY DEF LoginInv, LoginCallsSound, LoginSound, LoginCarries, Login!AcceptedKnowsPassword
<1>2. Login!NoPasswordLost /\ Login!ResetsOnce  BY DEF LoginInv, LoginCounts, Login!NoPasswordLost
<1>3. Login!OneWorkspace
  BY
    DEF LoginInv, LoginWorkspaces, LoginCallsSound, LoginSound, LoginCarries, Login!OneWorkspace,
        Login!At
<1>. QED  BY <1>1, <1>2, <1>3 DEF Login!PasswordRules

\* A session of the current password ends by a request that carries it.
LEMMA LoginInvKept == ASSUME LoginInv, [Login!Next]_(Login!vars) PROVE Login!CurrentSessionsKept
<1>. SUFFICES ASSUME NEW s \in Login!Sids, sessions[s].hash = hash, sessions'[s] = Login!NoRow,
                     hash' = hash, workspace' = workspace
              PROVE  \E r \in LoginRequests : loginReq[r].sid = s /\ loginReq'[r] # loginReq[r]
  BY DEF Login!CurrentSessionsKept
<1>1. sessions'[s] # sessions[s] /\ hash # 0 /\ hash \in Nat /\ workspace \in Nat
  BY LoginValues DEF LoginInv, LoginTypes, Login!Hashes
<1>2. ASSUME NEW r \in LoginRequests, loginReq'[r] # loginReq[r],
             sessions' \in {Login!Without(loginReq[r].sid), Login!WrittenBack(r)}
      PROVE  loginReq[r].sid = s
  <2>1. sessions' = sessions \/ \E row : sessions' = [sessions EXCEPT ![loginReq[r].sid] = row]
    BY <1>2 DEF Login!Without, Login!WrittenBack
  <2>. QED  BY <1>1, <2>1 DEF LoginInv, LoginTypes
<1>3. ASSUME NEW r \in LoginRequests, Login!Answers(r), loginReq[r].pc # "ended" PROVE loginReq'[r] # loginReq[r]
  <2>1. loginReq'[r].pc = "ended"  BY <1>3, LoginAnswersBecomes DEF LoginInv, LoginBecomes
  <2>. QED  BY <1>3, <2>1
<1>4. ASSUME NEW r \in LoginRequests, Login!Regenerates(r) PROVE loginReq[r].sid = s /\ loginReq'[r] # loginReq[r]
  <2>1. loginReq[r] \in LoginCall /\ loginReq'[r].pc \in {"login_save", "workspace_save"}
    BY <1>4 DEF Login!Regenerates, LoginInv, LoginTypes, LoginCall
  <2>. QED  BY <1>2, <1>4, <2>1 DEF Login!Regenerates
<1>5. ASSUME NEW r \in LoginRequests, Login!Serves(r) \/ Login!LogsOut(r) PROVE loginReq[r].sid = s /\ loginReq'[r] # loginReq[r]
  BY <1>2, <1>3, <1>5 DEF Login!Serves, Login!LogsOut, Login!At
<1>6. ASSUME NEW r \in LoginRequests, Login!ChangeCommits(r) PROVE loginReq[r].sid = s /\ loginReq'[r] # loginReq[r]
  <2>1. ~Login!NewHash  BY <1>1 DEF Login!NewHash
  <2>. QED  BY <1>2, <1>3, <1>6, <2>1 DEF Login!ChangeCommits, Login!TooLate, Login!At
<1>7. ASSUME NEW r \in LoginRequests, Login!Saves(r) PROVE FALSE
  <2>1. loginReq[r].session \in Login!Rows
    BY <1>7 DEF LoginInv, LoginCallsSound, LoginSound, LoginCarries, Login!Saves
  <2>2. sessions' = [sessions EXCEPT ![nextSid] = loginReq[r].session]
    BY <1>7, <2>1 DEF Login!Saves, Login!Fingerprint, Login!Rows
  <2>. QED  BY <1>1, <2>1, <2>2, LoginValues DEF LoginInv, LoginTypes
<1>8. ASSUME NEW r \in LoginRequests, Login!ResetCommits(r) PROVE FALSE
  <2>1. ~Login!NewHash  BY <1>1 DEF Login!NewHash
  <2>. QED  BY <1>1, <1>8, <2>1 DEF Login!ResetCommits
<1>9. ASSUME NEW r \in LoginRequests, Login!WorkspaceCommits(r) PROVE FALSE
  <2>1. workspace' # workspace \/ sessions' = sessions
    BY <1>1, <1>9 DEF Login!WorkspaceCommits, LoginInv, LoginWorkspaces
  <2>. QED  BY <1>1, <2>1
<1>10. \/ UNCHANGED sessions
       \/ \E r \in LoginRequests : \/ Login!Regenerates(r) \/ Login!Serves(r) \/ Login!LogsOut(r) \/ Login!ChangeCommits(r)
                                   \/ Login!Saves(r) \/ Login!ResetCommits(r) \/ Login!WorkspaceCommits(r)
  BY
    DEF Login!Next, Login!vars, Login!LoginReads, Login!LoadsSession, Login!Attaches,
        Login!ChangeVerifies, Login!ResetReads, Login!WorkspaceLocks
<1>. QED  BY <1>1, <1>4, <1>5, <1>6, <1>7, <1>8, <1>9, <1>10

----------------------------------------------------------------------------
\* Bootstrap, users, invites and reset links (Accounts).
\* Cardinality is that of FiniteSets.
LEMMA AccountCardinality == \A S : Account!Cardinality(S) = Cardinality(S)
BY DEF Cardinality, Account!Cardinality

AccountPc == {"idle", "ended", "bootstrap", "invite", "invite_replace", "invite_insert", "consume",
              "accept", "reset", "link", "link_replace", "link_insert", "remove", "remove_links",
              "remove_commit", "drop"}
AccountStates == {"none", "pending", "used", "expired", "deleted"}
AccountInviteKinds == {"none", "tenant_owner", "tenant_user", "password_reset"}
AccountUser == [id: Nat, tenant: Nat]
AccountInvite == [st: AccountStates, kind: AccountInviteKinds, email: Emails \cup {"none"}, tenant: Nat, user: Nat]
AccountTransaction ==
    [pc: AccountPc, kind: AccountInviteKinds, of: Emails \cup {"none"}, to: Nat, invite: Nat, user: AccountUser,
     rows: SUBSET Account!Invites, tenant: {0} \cup Account!Tenants, email: Emails \cup {"none"}]

AccountTypes ==
    /\ tenants \subseteq Account!Tenants /\ admins \subseteq Account!Tenants
    /\ users \in [Emails -> AccountUser] /\ invites \in [Account!Invites -> AccountInvite]
    /\ tx \in [AccountRequests -> AccountTransaction] /\ made \in [Account!Invites -> Nat]

\* A workspace that somebody has, or had: never the one that an invite that is still
\* open will make.
AccountKnown(t) == t \in {1, 2} \/ \E i \in Account!Invites : t = i + 2 /\ made[i] > 0

AccountUsersKnown ==
    /\ \A t \in tenants : AccountKnown(t)
    /\ \A e \in Emails :
         users[e] = Account!NoUser \/ (users[e].id > 0 /\ users[e].tenant \in Account!Tenants /\ AccountKnown(users[e].tenant))

\* What was used once is not open, and a link that is open has the user and the
\* workspace it was made for.
AccountInvitesAgree ==
    \A i \in Account!Invites :
      /\ made[i] <= 1 /\ (made[i] > 0 => invites[i].st \in {"used", "deleted"})
      /\ invites[i].st = "none" => invites[i].tenant = 0
      /\ invites[i].st = "pending" => invites[i].kind # "none" /\ invites[i].email \in Emails
      /\ invites[i].st = "pending" /\ invites[i].kind = "password_reset" =>
           /\ invites[i].user > 0
           /\ users[invites[i].email].id = invites[i].user
           /\ users[invites[i].email].tenant = invites[i].tenant

AccountOpenSignup(i) == invites[i].st = "pending" /\ invites[i].kind \in Account!Signup
AccountOneOpen ==
    \A i, j \in Account!Invites :
      AccountOpenSignup(i) /\ AccountOpenSignup(j) /\ invites[i].email = invites[j].email => i = j

\* Before the bootstrap there is nothing.
AccountBeginning ==
    /\ admins = {} \/ \E t \in Account!Tenants : admins = {t}
    /\ admins = {} => /\ tenants = {} /\ \A e \in Emails : users[e] = Account!NoUser
                      /\ \A i \in Account!Invites : invites[i].st = "none"

AccountData == AccountUsersKnown /\ AccountInvitesAgree /\ AccountOneOpen /\ AccountBeginning

\* No two transactions hold a lock.
AccountLocks ==
    \A r, s \in AccountRequests : r # s =>
      /\ tx[r].rows \cap tx[s].rows = {}
      /\ tx[r].tenant = tx[s].tenant => tx[r].tenant = 0
      /\ tx[r].email = tx[s].email => tx[r].email = "none"
      /\ ~(Account!At(r, "bootstrap") /\ Account!At(s, "bootstrap"))

\* What a transaction holds at each step,
AccountHolds(t) ==
    /\ t.pc \notin {"idle", "ended", "bootstrap", "drop"} => t.of \in Emails
    /\ t.pc \in {"invite_replace", "invite_insert", "link_replace", "link_insert",
                 "remove_links", "remove_commit"} => t.email = t.of
    /\ t.pc \in {"invite", "invite_replace", "invite_insert", "accept"} => t.kind \in Account!Signup
    /\ t.pc = "reset" => t.kind = "password_reset"
    /\ t.pc \in {"link", "link_replace", "link_insert"} => t.user.id > 0 /\ t.to = t.user.tenant
    /\ t.pc \in {"remove", "remove_links", "remove_commit"} => t.user.id > 0 /\ t.tenant = t.user.tenant
    /\ t.pc \in {"remove", "remove_links", "remove_commit", "drop"} => t.tenant \in Account!Tenants
    /\ t.pc \in {"consume", "accept", "reset"} => t.invite \in Account!Invites
    /\ t.pc \in {"accept", "reset"} => t.rows = {t.invite}

\* what it knows of the invites, because it holds their rows, or the lock of the email
\* under which new ones are made,
AccountSeesInvites(t) ==
    /\ \A i \in t.rows : invites[i].st # "none"
    /\ t.pc \in {"consume", "accept", "reset"} =>
         /\ invites[t.invite].st # "none"
         /\ invites[t.invite].st = "pending" =>
              invites[t.invite].kind = t.kind /\ invites[t.invite].email = t.of
    /\ t.pc \in {"accept", "reset"} => invites[t.invite].st = "pending"
    /\ t.pc = "invite_insert" => Account!Pending(t.of, Account!Signup, {"pending"}) \subseteq t.rows
    /\ t.pc \in {"link_insert", "remove_commit"} =>
         Account!Pending(t.of, {"password_reset"}, {"pending"}) \subseteq t.rows

\* and of the users.
AccountSeesUsers(t) ==
    /\ t.pc \in {"link", "link_replace", "link_insert"} => AccountKnown(t.to)
    /\ t.pc \in {"link_replace", "link_insert"} => users[t.of] = t.user \/ t.to \notin tenants
    /\ t.pc \in {"remove_links", "remove_commit"} =>
         \E e \in Emails : e # t.of /\ users[e].tenant = t.tenant
    /\ t.pc \notin {"idle", "ended", "bootstrap"} => admins # {}
    /\ t.pc = "bootstrap" => admins = {}

AccountCalls == \A r \in AccountRequests : AccountHolds(tx[r]) /\ AccountSeesInvites(tx[r]) /\ AccountSeesUsers(tx[r])

AccountInv == AccountTypes /\ AccountData /\ AccountLocks /\ AccountCalls

\* Constant records have their types.
LEMMA AccountValues ==
  /\ Account!NoUser \in AccountUser /\ Account!NoUser.id = 0 /\ Account!NoUser.tenant = 0
  /\ Account!NoInvite \in AccountInvite /\ Account!NoInvite.st = "none" /\ Account!NoInvite.tenant = 0
  /\ Account!Idle \in AccountTransaction /\ Account!Idle.pc = "idle" /\ Account!Idle.rows = {} /\ Account!Idle.tenant = 0
  /\ Account!Idle.email = "none"
<1>1. Account!NoUser \in AccountUser /\ Account!NoUser.id = 0 /\ Account!NoUser.tenant = 0
  BY DEF Account!NoUser, AccountUser
<1>2. Account!NoInvite \in AccountInvite /\ Account!NoInvite.st = "none" /\ Account!NoInvite.tenant = 0
  BY DEF Account!NoInvite, AccountInvite, AccountStates, AccountInviteKinds
<1>3. "idle" \in AccountPc /\ "none" \in AccountInviteKinds  BY DEF AccountPc, AccountInviteKinds
<1>4. /\ Account!Idle \in AccountTransaction /\ Account!Idle.pc = "idle" /\ Account!Idle.rows = {} /\ Account!Idle.tenant = 0
      /\ Account!Idle.email = "none"
  BY <1>1, <1>3 DEF Account!Idle, AccountTransaction
<1>. QED  BY <1>1, <1>2, <1>4

\* A transaction that holds nothing.
LEMMA AccountFree ==
  ASSUME NEW t \in AccountTransaction, t.pc \in {"idle", "ended"}, t.rows = {}
  PROVE  AccountHolds(t) /\ AccountSeesInvites(t) /\ AccountSeesUsers(t)
BY DEF AccountHolds, AccountSeesInvites, AccountSeesUsers

\* A fresh system, or one with two users, one of them perhaps still invited, agrees.
LEMMA AccountInitInv == Account!Init => AccountInv
<1>. SUFFICES ASSUME Account!Init PROVE AccountInv  OBVIOUS
<1>1. \A r \in AccountRequests : tx[r] = Account!Idle  BY DEF Account!Init
<1>2. AccountCalls  BY <1>1, AccountValues, AccountFree DEF AccountCalls
<1>3. AccountLocks  BY <1>1, AccountValues DEF AccountLocks, Account!At
<1>4. tx \in [AccountRequests -> AccountTransaction] /\ made \in [Account!Invites -> Nat] /\ \A i \in Account!Invites : made[i] = 0
  BY AccountValues DEF Account!Init
<1>5. 1 \in Account!Tenants /\ 2 \in Account!Tenants  BY AccountAssumption DEF Account!Tenants
<1>6. CASE Account!Empty
  <2>1. AccountTypes  BY <1>4, <1>6, AccountValues DEF Account!Empty, AccountTypes
  <2>2. AccountData
    BY <1>4, <1>6, AccountValues
      DEF Account!Empty, AccountData, AccountUsersKnown, AccountInvitesAgree, AccountOneOpen,
          AccountOpenSignup, AccountBeginning
  <2>. QED  BY <1>2, <1>3, <2>1, <2>2 DEF AccountInv
<1>7. CASE Account!Populated
  <2>. DEFINE first == [id |-> 1, tenant |-> 2]
              second == [id |-> 2, tenant |-> 2]
              Open(e) == [st |-> "pending", kind |-> "tenant_user", email |-> e, tenant |-> 2, user |-> 0]
  <2>1. PICK member \in Emails, other \in Emails, joined \in BOOLEAN :
          /\ member # other
          /\ users = [e \in Emails |-> CASE e = member -> first
                                         [] e = other /\ joined -> second
                                         [] OTHER -> Account!NoUser]
          /\ invites = [i \in Account!Invites |-> IF i = 1 /\ ~joined THEN Open(other) ELSE Account!NoInvite]
    BY <1>7 DEF Account!Populated
  <2>2. first \in AccountUser /\ second \in AccountUser /\ first.id = 1 /\ second.id = 2
        /\ first.tenant = 2 /\ second.tenant = 2
    BY DEF AccountUser
  <2>3. Open(other) \in AccountInvite /\ Open(other).kind = "tenant_user" /\ Open(other).email = other
        /\ Open(other).st = "pending"
    BY DEF AccountInvite, AccountStates, AccountInviteKinds
  <2>. HIDE DEF first, second, Open
  <2>4. \A e \in Emails : users[e] \in {first, second, Account!NoUser}  BY <2>1
  <2>5. \A i \in Account!Invites : (i = 1 /\ invites[i] = Open(other)) \/ invites[i] = Account!NoInvite
    BY <2>1
  <2>6. users \in [Emails -> AccountUser]  BY <2>1, <2>2, <2>4, AccountValues
  <2>7. invites \in [Account!Invites -> AccountInvite]  BY <2>1, <2>3, AccountValues
  <2>8. tenants = {1, 2} /\ admins = {1}  BY <1>7 DEF Account!Populated
  <2>9. AccountTypes  BY <1>4, <1>5, <2>6, <2>7, <2>8 DEF AccountTypes
  <2>10. AccountUsersKnown  BY <1>5, <2>2, <2>4, <2>8 DEF AccountUsersKnown, AccountKnown
  <2>11. AccountInvitesAgree  BY <1>4, <2>3, <2>5, AccountValues DEF AccountInvitesAgree
  <2>12. AccountOneOpen  BY <2>5, AccountValues DEF AccountOneOpen, AccountOpenSignup
  <2>13. AccountBeginning  BY <1>5, <2>8 DEF AccountBeginning
  <2>. QED  BY <1>2, <1>3, <2>9, <2>10, <2>11, <2>12, <2>13 DEF AccountInv, AccountData
<1>. QED  BY <1>6, <1>7 DEF Account!Init

----------------------------------------------------------------------------
\* Transaction r becomes t.
AccountBecomes(r, t) ==
    /\ t \in AccountTransaction /\ tx' \in [AccountRequests -> AccountTransaction] /\ tx'[r] = t
    /\ \A s \in AccountRequests : s # r => tx'[s] = tx[s]

\* The locks of t are free for r.
AccountFits(r, t) ==
           \A s \in AccountRequests : s # r =>
             /\ t.rows \cap tx[s].rows = {}
             /\ t.tenant = tx[s].tenant => t.tenant = 0
             /\ t.email = tx[s].email => t.email = "none"
             /\ ~(t.pc = "bootstrap" /\ Account!At(s, "bootstrap"))

\* A transaction that ends holds nothing.
LEMMA AccountEndsBecomes ==
  ASSUME AccountTypes, NEW r \in AccountRequests, Account!Ends(r)
  PROVE  \E t \in AccountTransaction : /\ AccountBecomes(r, t) /\ t.pc = "ended" /\ t.rows = {}
                                       /\ AccountFits(r, t)
<1>. DEFINE t == [Account!Idle EXCEPT !.pc = "ended"]
<1>1. "ended" \in AccountPc  BY DEF AccountPc
<1>2. /\ t \in AccountTransaction /\ t.pc = "ended" /\ t.rows = {} /\ t.tenant = 0 /\ t.email = "none"
  BY <1>1, AccountValues DEF AccountTransaction
<1>3. tx' = [tx EXCEPT ![r] = t]  BY DEF Account!Ends
<1>. HIDE DEF t
<1>4. AccountBecomes(r, t)  BY <1>2, <1>3 DEF AccountBecomes, AccountTypes
<1>5. AccountFits(r, t)  BY <1>2 DEF AccountFits
<1>. QED  BY <1>2, <1>4, <1>5

\* A transaction may go on with the locks it has.
LEMMA AccountLocksFit ==
  ASSUME AccountInv, NEW r \in AccountRequests, NEW t \in AccountTransaction, AccountBecomes(r, t), AccountFits(r, t)
  PROVE  AccountLocks'
BY DEF AccountInv, AccountLocks, AccountBecomes, AccountFits, Account!At

accountData == <<tenants, admins, users, invites, made>>

\* A step that changes one transaction only.
LEMMA AccountOnlyTx ==
  ASSUME AccountInv, UNCHANGED accountData, NEW r \in AccountRequests, NEW t \in AccountTransaction,
         AccountBecomes(r, t), AccountFits(r, t), AccountHolds(t), AccountSeesInvites(t), AccountSeesUsers(t)
  PROVE  AccountInv'
<1>1. AccountTypes'  BY DEF AccountInv, AccountTypes, AccountBecomes, accountData
<1>2. AccountLocks'  BY AccountLocksFit
<1>3. AccountData'
  BY
    DEF AccountInv, AccountData, AccountUsersKnown, AccountKnown, AccountInvitesAgree,
        AccountOneOpen, AccountOpenSignup, AccountBeginning, accountData
<1>4. UNCHANGED <<users, invites, tenants, admins, made>>  BY DEF accountData
<1>5. ASSUME NEW s \in AccountRequests
      PROVE  AccountHolds(tx'[s]) /\ AccountSeesInvites(tx[s])' /\ AccountSeesUsers(tx[s])'
  <2>1. PICK c : c = tx'[s]  OBVIOUS
  <2>2. AccountHolds(c) /\ AccountSeesInvites(c) /\ AccountSeesUsers(c)
    BY <2>1 DEF AccountInv, AccountCalls, AccountBecomes
  <2>. QED
    BY <1>4, <2>1, <2>2 DEF AccountSeesInvites, AccountSeesUsers, Account!Pending, AccountKnown
<1>. QED  BY <1>1, <1>2, <1>3, <1>5 DEF AccountInv, AccountCalls, AccountHolds

\* Ending without a change keeps the invariant.
LEMMA AccountEndsInv ==
  ASSUME AccountInv, UNCHANGED accountData, NEW r \in AccountRequests, Account!Ends(r)
  PROVE  AccountInv'
BY AccountEndsBecomes, AccountOnlyTx, AccountFree DEF AccountInv

\* A step that ends r and changes data: what the others know of it is to be shown.
LEMMA AccountEndsWith ==
  ASSUME AccountInv, NEW r \in AccountRequests, Account!Ends(r), AccountData',
         tenants' \subseteq Account!Tenants, admins' \subseteq Account!Tenants, users' \in [Emails -> AccountUser],
         invites' \in [Account!Invites -> AccountInvite], made' \in [Account!Invites -> Nat],
         \A s \in AccountRequests : s # r /\ tx'[s] = tx[s] => AccountSeesInvites(tx[s])' /\ AccountSeesUsers(tx[s])'
  PROVE  AccountInv'
<1>1. PICK t \in AccountTransaction : AccountBecomes(r, t) /\ t.pc = "ended" /\ t.rows = {} /\ AccountFits(r, t)
  BY AccountEndsBecomes DEF AccountInv
<1>2. AccountTypes'  BY <1>1 DEF AccountTypes, AccountBecomes
<1>3. AccountLocks'  BY <1>1, AccountLocksFit
<1>4. AccountCalls'
  <2>1. AccountHolds(tx'[r]) /\ AccountSeesInvites(tx[r])' /\ AccountSeesUsers(tx[r])'
    BY <1>1 DEF AccountBecomes, AccountHolds, AccountSeesInvites, AccountSeesUsers
  <2>2. \A s \in AccountRequests : s # r => tx'[s] = tx[s] /\ AccountHolds(tx'[s])
    BY <1>1 DEF AccountBecomes, AccountInv, AccountCalls
  <2>. QED  BY <2>1, <2>2 DEF AccountCalls, AccountHolds
<1>. QED  BY <1>2, <1>3, <1>4 DEF AccountInv

\* Only r uses invites that it has locked, or that nobody has; a new one is for the email it
\* has locked.
AccountMoves(r) ==
    \A i \in Account!Invites :
      \/ invites'[i] = invites[i]
      \/ /\ invites[i].st # "none" /\ invites'[i].st \in {"used", "expired", "deleted"}
         /\ \A s \in AccountRequests : s # r => i \notin tx[s].rows
      \/ /\ r \in AccountRequests /\ invites[i].st = "none" /\ invites'[i].st = "pending"
         /\ tx[r].email = invites'[i].email /\ tx[r].email \in Emails

\* What another transaction knows of the invites survives a change of rows it does not hold.
LEMMA AccountOthersInvites ==
  ASSUME AccountInv, NEW r, AccountMoves(r), NEW s \in AccountRequests, s # r, tx'[s] = tx[s]
  PROVE  AccountSeesInvites(tx[s])'
<1>. DEFINE t == tx[s]
<1>1. t \in AccountTransaction /\ AccountHolds(t) /\ AccountSeesInvites(t)
  BY DEF AccountInv, AccountTypes, AccountCalls
<1>2. \A i \in t.rows : invites'[i].st # "none"
  BY <1>1 DEF AccountMoves, AccountSeesInvites, AccountTransaction
<1>3. t.pc \in {"consume", "accept", "reset"} =>
        /\ invites'[t.invite].st # "none"
        /\ invites'[t.invite].st = "pending" =>
              invites'[t.invite].kind = t.kind /\ invites'[t.invite].email = t.of
  BY <1>1 DEF AccountMoves, AccountSeesInvites, AccountHolds
<1>4. t.pc \in {"accept", "reset"} => invites'[t.invite].st = "pending"
  BY <1>1 DEF AccountMoves, AccountSeesInvites, AccountHolds
<1>5. ASSUME NEW kinds, Account!Pending(t.of, kinds, {"pending"}) \subseteq t.rows,
             t.email = t.of, t.of \in Emails
      PROVE  Account!Pending(t.of, kinds, {"pending"})' \subseteq t.rows
  <2>1. \A i \in Account!Invites : invites'[i].st = "pending" /\ invites'[i].email = t.of => invites'[i] = invites[i]
    BY <1>5, AccountAssumption DEF AccountMoves, AccountInv, AccountLocks
  <2>2. Account!Pending(t.of, kinds, {"pending"})'
          = {i \in Account!Invites : invites'[i].email = t.of /\ invites'[i].kind \in kinds
                                     /\ invites'[i].st \in {"pending"}}
    BY DEF Account!Pending
  <2>. QED  BY <1>5, <2>1, <2>2 DEF Account!Pending
<1>6. t.pc = "invite_insert" => Account!Pending(t.of, Account!Signup, {"pending"})' \subseteq t.rows
  BY <1>1, <1>5 DEF AccountSeesInvites, AccountHolds
<1>7. t.pc \in {"link_insert", "remove_commit"} =>
        Account!Pending(t.of, {"password_reset"}, {"pending"})' \subseteq t.rows
  BY <1>1, <1>5 DEF AccountSeesInvites, AccountHolds
<1>. QED  BY <1>2, <1>3, <1>4, <1>6, <1>7 DEF AccountSeesInvites

\* A step of r gives its transaction the program counter p, the rows, and the email of u.
LEMMA AccountNewTransaction ==
  ASSUME NEW u \in AccountTransaction, NEW p \in AccountPc, NEW taken \in SUBSET Account!Invites, NEW e \in Emails \cup {"none"}
  PROVE  LET t == [u EXCEPT !.pc = p, !.rows = taken, !.email = e] IN
         /\ t \in AccountTransaction /\ t.pc = p /\ t.rows = taken /\ t.email = e /\ t.kind = u.kind
         /\ t.of = u.of /\ t.to = u.to /\ t.invite = u.invite /\ t.user = u.user
         /\ t.tenant = u.tenant
BY DEF AccountTransaction

\* The bootstrap goes on only while there is no super-admin.
LEMMA AccountBootstrapCountsInv ==
  ASSUME AccountInv, NEW r \in AccountRequests, Account!BootstrapCounts(r)
  PROVE  AccountInv'
<1>1. UNCHANGED accountData  BY DEF Account!BootstrapCounts, accountData
<1>2. CASE Account!Ends(r)  BY <1>1, <1>2, AccountEndsInv
<1>3. CASE admins = {} /\ Account!Steps(r, "bootstrap")
  <2>. DEFINE t == [tx[r] EXCEPT !.pc = "bootstrap"]
  <2>1. tx[r] \in AccountTransaction /\ AccountSeesInvites(tx[r])
    BY DEF AccountInv, AccountTypes, AccountCalls
  <2>2. "bootstrap" \in AccountPc /\ tx' = [tx EXCEPT ![r] = t]
    BY <1>3 DEF AccountPc, Account!Steps
  <2>3. /\ t \in AccountTransaction /\ t.pc = "bootstrap" /\ t.rows = tx[r].rows /\ t.tenant = tx[r].tenant
        /\ t.email = tx[r].email
    BY <2>1, <2>2 DEF AccountTransaction
  <2>. HIDE DEF t
  <2>4. AccountBecomes(r, t)  BY <2>2, <2>3 DEF AccountBecomes, AccountInv, AccountTypes
  <2>5. AccountFits(r, t)
    BY <2>3
      DEF AccountInv, AccountLocks, AccountFits, Account!BootstrapCounts, Account!BootstrapFree
  <2>6. AccountHolds(t) /\ AccountSeesInvites(t) /\ AccountSeesUsers(t)
    BY <1>3, <2>1, <2>3 DEF AccountHolds, AccountSeesInvites, AccountSeesUsers
  <2>. QED  BY <1>1, <2>3, <2>4, <2>5, <2>6, AccountOnlyTx
<1>. QED  BY <1>2, <1>3 DEF Account!BootstrapCounts

\* A transaction that begins holds no lock, save perhaps that of a workspace that is free.
LEMMA AccountBeginsInv ==
  ASSUME AccountInv, UNCHANGED accountData, NEW r \in AccountRequests, NEW t \in AccountTransaction, Account!Begins(r, t),
         t.rows = {}, t.email = "none", t.pc # "bootstrap",
         t.tenant = 0 \/ Account!TenantFree(r, t.tenant),
         AccountHolds(t), AccountSeesInvites(t), AccountSeesUsers(t)
  PROVE  AccountInv'
<1>1. AccountBecomes(r, t)  BY DEF Account!Begins, AccountBecomes, AccountInv, AccountTypes
<1>2. AccountFits(r, t)  BY DEF AccountFits, Account!TenantFree
<1>. QED  BY <1>1, <1>2, AccountOnlyTx

\* Once there is something, the bootstrap is over.
LEMMA AccountNotBeginning ==
  ASSUME AccountInv PROVE /\ (\E r \in AccountRequests : tx[r].pc \notin {"idle", "ended", "bootstrap"}) => admins # {}
                          /\ \A t \in tenants : admins # {}
BY DEF AccountInv, AccountCalls, AccountSeesUsers, AccountData, AccountBeginning

\* An invite begins with no rows and no lock.
LEMMA AccountInviteBeginsInv ==
  ASSUME AccountInv, NEW r \in AccountRequests, NEW e \in Emails, NEW purpose \in Account!Signup, NEW t \in {0, 2},
         Account!InviteBegins(r, e, purpose, t)
  PROVE  AccountInv'
<1>. DEFINE c == [Account!Idle EXCEPT !.pc = "invite", !.of = e, !.kind = purpose, !.to = t]
<1>1. UNCHANGED accountData /\ Account!Begins(r, c) /\ admins # {}
  BY DEF Account!InviteBegins, accountData
<1>2. "invite" \in AccountPc /\ purpose \in AccountInviteKinds /\ t \in Nat /\ e \in Emails \cup {"none"}
  BY DEF AccountPc, AccountInviteKinds, Account!Signup
<1>3. /\ c \in AccountTransaction /\ c.pc = "invite" /\ c.of = e /\ c.kind = purpose /\ c.rows = {}
      /\ c.email = "none" /\ c.tenant = 0
  BY <1>2, AccountValues DEF AccountTransaction
<1>. HIDE DEF c
<1>4. AccountHolds(c) /\ AccountSeesInvites(c) /\ AccountSeesUsers(c)
  BY <1>1, <1>3 DEF AccountHolds, AccountSeesInvites, AccountSeesUsers
<1>. QED  BY <1>1, <1>3, <1>4, AccountBeginsInv

\* The link of a pending invite is found; its kind and address do not change later.
LEMMA AccountFindsInv ==
  ASSUME AccountInv, NEW r \in AccountRequests, NEW i \in Account!Invites, Account!Finds(r, i) PROVE AccountInv'
<1>. DEFINE c == [Account!Idle EXCEPT !.pc = "consume", !.invite = i, !.kind = invites[i].kind,
                                      !.of = invites[i].email, !.to = invites[i].tenant]
<1>1. UNCHANGED accountData /\ Account!Begins(r, c) /\ invites[i].st = "pending"
  BY DEF Account!Finds, accountData
<1>2. invites[i] \in AccountInvite /\ i \in Nat /\ invites[i].email \in Emails
  BY <1>1 DEF AccountInv, AccountTypes, AccountData, AccountInvitesAgree, Account!Invites
<1>3. "consume" \in AccountPc  BY DEF AccountPc
<1>4. /\ invites[i].kind \in AccountInviteKinds /\ invites[i].tenant \in Nat
      /\ invites[i].email \in Emails \cup {"none"}
  BY <1>2 DEF AccountInvite
<1>5. /\ c \in AccountTransaction /\ c.pc = "consume" /\ c.of = invites[i].email /\ c.kind = invites[i].kind
      /\ c.rows = {} /\ c.email = "none" /\ c.tenant = 0 /\ c.invite = i
  BY <1>2, <1>3, <1>4, AccountValues DEF AccountTransaction
<1>. HIDE DEF c
<1>6. admins # {}  BY <1>1 DEF AccountInv, AccountData, AccountBeginning
<1>7. AccountHolds(c) /\ AccountSeesInvites(c) /\ AccountSeesUsers(c)
  BY <1>1, <1>2, <1>5, <1>6 DEF AccountHolds, AccountSeesInvites, AccountSeesUsers
<1>. QED  BY <1>1, <1>5, <1>7, AccountBeginsInv

\* A reset link is asked for a user who is there.
LEMMA AccountLinkBeginsInv ==
  ASSUME AccountInv, NEW r \in AccountRequests, NEW e \in Emails, Account!LinkBegins(r, e) PROVE AccountInv'
<1>. DEFINE c == [Account!Idle EXCEPT !.pc = "link", !.of = e, !.to = users[e].tenant, !.user = users[e]]
<1>1. UNCHANGED accountData /\ Account!Begins(r, c) /\ users[e] # Account!NoUser
  BY DEF Account!LinkBegins, accountData
<1>2. users[e] \in AccountUser /\ users[e].tenant \in Nat /\ users[e].id > 0 /\ AccountKnown(users[e].tenant)
  BY <1>1 DEF AccountInv, AccountTypes, AccountData, AccountUsersKnown, AccountUser
<1>3. "link" \in AccountPc  BY DEF AccountPc
<1>4. /\ c \in AccountTransaction /\ c.pc = "link" /\ c.of = e /\ c.to = users[e].tenant /\ c.user = users[e]
      /\ c.rows = {} /\ c.email = "none" /\ c.tenant = 0
  BY <1>2, <1>3, AccountValues DEF AccountTransaction
<1>. HIDE DEF c
<1>5. admins # {}  BY <1>1 DEF AccountInv, AccountData, AccountBeginning
<1>6. AccountHolds(c) /\ AccountSeesInvites(c) /\ AccountSeesUsers(c)
  BY <1>1, <1>2, <1>4, <1>5 DEF AccountHolds, AccountSeesInvites, AccountSeesUsers
<1>. QED  BY <1>1, <1>4, <1>6, AccountBeginsInv

\* removeTenantUser takes the lock of the tenant.
LEMMA AccountRemoveLocksInv ==
  ASSUME AccountInv, NEW r \in AccountRequests, NEW e \in Emails, Account!RemoveLocks(r, e) PROVE AccountInv'
<1>. DEFINE c == [Account!Idle EXCEPT !.pc = "remove", !.of = e, !.tenant = users[e].tenant, !.user = users[e]]
<1>1. UNCHANGED accountData /\ Account!Begins(r, c) /\ users[e] # Account!NoUser /\ Account!TenantFree(r, users[e].tenant)
  BY DEF Account!RemoveLocks, Account!Alone, accountData
<1>2. users[e] \in AccountUser /\ users[e].tenant \in Account!Tenants /\ users[e].id > 0
  BY <1>1 DEF AccountInv, AccountTypes, AccountData, AccountUsersKnown
<1>3. "remove" \in AccountPc  BY DEF AccountPc
<1>4. /\ c \in AccountTransaction /\ c.pc = "remove" /\ c.of = e /\ c.tenant = users[e].tenant /\ c.user = users[e]
      /\ c.rows = {} /\ c.email = "none"
  BY <1>2, <1>3, AccountValues DEF AccountTransaction
<1>. HIDE DEF c
<1>5. admins # {}  BY <1>1 DEF AccountInv, AccountData, AccountBeginning
<1>6. AccountHolds(c) /\ AccountSeesInvites(c) /\ AccountSeesUsers(c)
  BY <1>1, <1>2, <1>4, <1>5 DEF AccountHolds, AccountSeesInvites, AccountSeesUsers
<1>. QED  BY <1>1, <1>4, <1>6, AccountBeginsInv

\* deleteTenant takes the lock of the tenant.
LEMMA AccountDropLocksInv ==
  ASSUME AccountInv, NEW r \in AccountRequests, NEW t \in tenants, Account!DropLocks(r, t) PROVE AccountInv'
<1>. DEFINE c == [Account!Idle EXCEPT !.pc = "drop", !.tenant = t]
<1>1. UNCHANGED accountData /\ Account!TenantFree(r, t)  BY DEF Account!DropLocks, accountData
<1>2. CASE Account!Ends(r)  BY <1>1, <1>2, AccountEndsInv
<1>3. CASE Account!Begins(r, c)
  <2>1. "drop" \in AccountPc /\ t \in Account!Tenants  BY DEF AccountPc, AccountInv, AccountTypes
  <2>2. /\ c \in AccountTransaction /\ c.pc = "drop" /\ c.tenant = t /\ c.rows = {} /\ c.email = "none"
    BY <2>1, AccountValues DEF AccountTransaction
  <2>. HIDE DEF c
  <2>3. AccountHolds(c) /\ AccountSeesInvites(c) /\ AccountSeesUsers(c)
    BY <2>1, <2>2, AccountNotBeginning DEF AccountHolds, AccountSeesInvites, AccountSeesUsers
  <2>. QED  BY <1>1, <1>3, <2>2, <2>3, AccountBeginsInv
<1>. QED  BY <1>2, <1>3 DEF Account!DropLocks

\* A transaction takes the lock of its email.
LEMMA AccountLocksEmail ==
  ASSUME AccountInv, UNCHANGED accountData, NEW r \in AccountRequests, NEW p \in AccountPc \ {"bootstrap"},
         tx' = [tx EXCEPT ![r].pc = p, ![r].email = tx[r].of],
         Account!EmailFree(r, tx[r].of),
         LET t == [tx[r] EXCEPT !.pc = p, !.email = tx[r].of] IN AccountHolds(t) /\ AccountSeesInvites(t) /\ AccountSeesUsers(t)
  PROVE  AccountInv'
<1>. DEFINE t == [tx[r] EXCEPT !.pc = p, !.email = tx[r].of]
<1>1. tx[r] \in AccountTransaction /\ tx[r].of \in Emails \cup {"none"}
  BY DEF AccountInv, AccountTypes, AccountTransaction
<1>2. /\ t \in AccountTransaction /\ t.pc = p /\ t.rows = tx[r].rows /\ t.tenant = tx[r].tenant
      /\ t.email = tx[r].of
  BY <1>1 DEF AccountTransaction
<1>3. tx' = [tx EXCEPT ![r] = t]  BY <1>1 DEF AccountInv, AccountTypes, AccountTransaction
<1>. HIDE DEF t
<1>4. AccountBecomes(r, t)  BY <1>2, <1>3 DEF AccountBecomes, AccountInv, AccountTypes
<1>5. AccountFits(r, t)  BY <1>2 DEF AccountInv, AccountLocks, AccountFits, Account!EmailFree
<1>. QED  BY <1>2, <1>4, <1>5, AccountOnlyTx DEF t

\* An invite takes the advisory lock of its address.
LEMMA AccountInviteLocksInv ==
  ASSUME AccountInv, NEW r \in AccountRequests, Account!InviteLocks(r)
  PROVE  AccountInv'
<1>. DEFINE p == "invite_replace"
            t == [tx[r] EXCEPT !.pc = p, !.email = tx[r].of]
<1>1. UNCHANGED accountData /\ Account!EmailFree(r, tx[r].of) /\ tx[r].pc = "invite"
  BY DEF Account!InviteLocks, Account!Serialised, Account!At, accountData
<1>2. CASE Account!Ends(r)  BY <1>1, <1>2, AccountEndsInv
<1>3. CASE tx' = [tx EXCEPT ![r].pc = p, ![r].email = tx[r].of]
  <2>1. tx[r] \in AccountTransaction /\ AccountHolds(tx[r]) /\ AccountSeesInvites(tx[r]) /\ AccountSeesUsers(tx[r])
    BY DEF AccountInv, AccountTypes, AccountCalls
  <2>2. p \in AccountPc \ {"bootstrap"}  BY DEF AccountPc
  <2>3. /\ t.pc = p /\ t.of = tx[r].of /\ t.kind = tx[r].kind /\ t.email = t.of /\ t.rows = tx[r].rows
    BY <2>1 DEF AccountTransaction
  <2>4. AccountHolds(t) /\ AccountSeesInvites(t) /\ AccountSeesUsers(t)
    <3>. HIDE DEF t
    <3>. QED  BY <1>1, <2>1, <2>3 DEF AccountHolds, AccountSeesInvites, AccountSeesUsers
  <2>. QED  BY <1>1, <1>3, <2>2, <2>4, AccountLocksEmail
<1>. QED  BY <1>2, <1>3 DEF Account!InviteLocks

\* A reset link takes the advisory lock of its address, for the same user.
LEMMA AccountLinkLocksInv ==
  ASSUME AccountInv, NEW r \in AccountRequests, Account!LinkLocks(r)
  PROVE  AccountInv'
<1>. DEFINE p == "link_replace"
            t == [tx[r] EXCEPT !.pc = p, !.email = tx[r].of]
<1>1. UNCHANGED accountData /\ Account!EmailFree(r, tx[r].of) /\ tx[r].pc = "link"
  BY DEF Account!LinkLocks, Account!At, accountData
<1>2. CASE Account!Ends(r)  BY <1>1, <1>2, AccountEndsInv
<1>3. CASE Account!SameUser(r) /\ tx' = [tx EXCEPT ![r].pc = p, ![r].email = tx[r].of]
  <2>1. tx[r] \in AccountTransaction /\ AccountHolds(tx[r]) /\ AccountSeesInvites(tx[r]) /\ AccountSeesUsers(tx[r])
    BY DEF AccountInv, AccountTypes, AccountCalls
  <2>2. p \in AccountPc \ {"bootstrap"}  BY DEF AccountPc
  <2>3. /\ t.pc = p /\ t.of = tx[r].of /\ t.to = tx[r].to /\ t.user = tx[r].user
        /\ t.email = t.of /\ t.rows = tx[r].rows
    BY <2>1 DEF AccountTransaction
  <2>4. AccountHolds(t) /\ AccountSeesInvites(t) /\ AccountSeesUsers(t)
    <3>. HIDE DEF t
    <3>. QED
      BY <1>1, <1>3, <2>1, <2>3
        DEF AccountHolds, AccountSeesInvites, AccountSeesUsers, Account!SameUser
  <2>. QED  BY <1>1, <1>3, <2>2, <2>4, AccountLocksEmail
<1>. QED  BY <1>2, <1>3 DEF Account!LinkLocks

\* More than one member: another one than any given user.
LEMMA AccountAnotherMember ==
  ASSUME NEW e, NEW t, Cardinality(Account!Members(t)) > 1
  PROVE  \E m \in Emails : m # e /\ users[m].tenant = t
<1>. SUFFICES ASSUME \A m \in Emails : users[m].tenant = t => m = e PROVE FALSE
  OBVIOUS
<1>1. CASE e \in Account!Members(t)
  <2>1. Account!Members(t) = {e}  BY <1>1 DEF Account!Members
  <2>2. Cardinality({e}) = 1  BY FS_Singleton
  <2>. QED  BY <2>1, <2>2
<1>2. CASE e \notin Account!Members(t)
  <2>1. Account!Members(t) = {}  BY <1>2 DEF Account!Members
  <2>. QED  BY <2>1, FS_EmptySet
<1>. QED  BY <1>1, <1>2

\* A user is removed only while the tenant has another one.
LEMMA AccountRemoveCountsInv ==
  ASSUME AccountInv, NEW r \in AccountRequests, Account!RemoveCounts(r)
  PROVE  AccountInv'
<1>. DEFINE p == "remove_links"
            t == [tx[r] EXCEPT !.pc = p, !.email = tx[r].of]
<1>1. UNCHANGED accountData /\ Account!EmailFree(r, tx[r].of) /\ tx[r].pc = "remove"
  BY AccountCardinality DEF Account!RemoveCounts, Account!At, accountData
<1>2. CASE Account!Ends(r)  BY <1>1, <1>2, AccountEndsInv
<1>3. CASE /\ Cardinality(Account!Members(tx[r].tenant)) > 1
           /\ tx' = [tx EXCEPT ![r].pc = p, ![r].email = tx[r].of]
  <2>1. tx[r] \in AccountTransaction /\ AccountHolds(tx[r]) /\ AccountSeesInvites(tx[r]) /\ AccountSeesUsers(tx[r])
    BY DEF AccountInv, AccountTypes, AccountCalls
  <2>2. p \in AccountPc \ {"bootstrap"}  BY DEF AccountPc
  <2>3. /\ t.pc = p /\ t.of = tx[r].of /\ t.tenant = tx[r].tenant /\ t.user = tx[r].user
        /\ t.email = t.of /\ t.rows = tx[r].rows
    BY <2>1 DEF AccountTransaction
  <2>4. \E m \in Emails : m # tx[r].of /\ users[m].tenant = tx[r].tenant
    BY <1>3, AccountAnotherMember
  <2>5. AccountHolds(t) /\ AccountSeesInvites(t) /\ AccountSeesUsers(t)
    <3>. HIDE DEF t
    <3>. QED  BY <1>1, <2>1, <2>3, <2>4 DEF AccountHolds, AccountSeesInvites, AccountSeesUsers
  <2>. QED  BY <1>1, <1>3, <2>2, <2>5, AccountLocksEmail
<1>. QED  BY <1>2, <1>3, AccountCardinality DEF Account!RemoveCounts

\* A transaction takes the locks of the rows that it is about to use up.
LEMMA AccountLocksRows ==
  ASSUME AccountInv, UNCHANGED accountData, NEW r \in AccountRequests, NEW p \in AccountPc \ {"bootstrap"},
         NEW taken \in SUBSET Account!Invites,
         tx' = [tx EXCEPT ![r].pc = p, ![r].rows = taken],
         Account!RowsFree(r, taken),
         LET t == [tx[r] EXCEPT !.pc = p, !.rows = taken] IN AccountHolds(t) /\ AccountSeesInvites(t) /\ AccountSeesUsers(t)
  PROVE  AccountInv'
<1>. DEFINE t == [tx[r] EXCEPT !.pc = p, !.rows = taken]
<1>1. tx[r] \in AccountTransaction  BY DEF AccountInv, AccountTypes
<1>2. /\ t \in AccountTransaction /\ t.pc = p /\ t.rows = taken /\ t.tenant = tx[r].tenant
      /\ t.email = tx[r].email
  BY <1>1 DEF AccountTransaction
<1>3. tx' = [tx EXCEPT ![r] = t]  BY <1>1 DEF AccountInv, AccountTypes, AccountTransaction
<1>. HIDE DEF t
<1>4. AccountBecomes(r, t)  BY <1>2, <1>3 DEF AccountBecomes, AccountInv, AccountTypes
<1>5. AccountFits(r, t)  BY <1>2 DEF AccountInv, AccountLocks, AccountFits, Account!RowsFree
<1>. QED  BY <1>2, <1>4, <1>5, AccountOnlyTx DEF t

\* The older invites of the address are locked before they are replaced.
LEMMA AccountReplacesInv ==
  ASSUME AccountInv, NEW r \in AccountRequests, Account!InviteReplaces(r) \/ Account!LinkReplaces(r) \/ Account!RemoveReplaces(r)
  PROVE  AccountInv'
<1>. DEFINE Of(kinds, states) == Account!Pending(tx[r].of, kinds, states)
            Next1(p, taken) == [tx[r] EXCEPT !.pc = p, !.rows = taken]
<1>1. UNCHANGED accountData
  BY DEF Account!InviteReplaces, Account!LinkReplaces, Account!RemoveReplaces, accountData
<1>2. tx[r] \in AccountTransaction /\ AccountHolds(tx[r]) /\ AccountSeesInvites(tx[r]) /\ AccountSeesUsers(tx[r])
  BY DEF AccountInv, AccountTypes, AccountCalls
<1>3. PICK p, kinds, states, taken :
        /\ tx' = [tx EXCEPT ![r].pc = p, ![r].rows = taken] /\ Account!RowsFree(r, taken)
        /\ taken = Of(kinds, states) /\ "none" \notin states /\ "pending" \in states
        /\ \/ tx[r].pc = "invite_replace" /\ p = "invite_insert" /\ kinds = Account!Signup
           \/ tx[r].pc = "link_replace" /\ p = "link_insert" /\ kinds = {"password_reset"}
           \/ tx[r].pc = "remove_links" /\ p = "remove_commit" /\ kinds = {"password_reset"}
  <2>1. CASE Account!InviteReplaces(r)
    <3>1. /\ tx' = [tx EXCEPT ![r].pc = "invite_insert", ![r].rows = Of(Account!Signup, {"pending"})]
          /\ Account!RowsFree(r, Of(Account!Signup, {"pending"})) /\ tx[r].pc = "invite_replace"
      BY <2>1 DEF Account!InviteReplaces, Account!At
    <3>. HIDE DEF Of
    <3>. QED  BY <3>1
  <2>2. CASE Account!LinkReplaces(r)
    <3>1. /\ tx' = [tx EXCEPT ![r].pc = "link_insert",
                              ![r].rows = Of({"password_reset"}, {"pending", "expired"})]
          /\ Account!RowsFree(r, Of({"password_reset"}, {"pending", "expired"})) /\ tx[r].pc = "link_replace"
      BY <2>2 DEF Account!LinkReplaces, Account!At
    <3>. HIDE DEF Of
    <3>. QED  BY <3>1
  <2>3. CASE Account!RemoveReplaces(r)
    <3>1. /\ tx' = [tx EXCEPT ![r].pc = "remove_commit",
                              ![r].rows = Of({"password_reset"}, {"pending", "expired"})]
          /\ Account!RowsFree(r, Of({"password_reset"}, {"pending", "expired"})) /\ tx[r].pc = "remove_links"
      BY <2>3 DEF Account!RemoveReplaces, Account!LinksOf, Account!At
    <3>. HIDE DEF Of
    <3>. QED  BY <3>1
  <2>. QED  BY <2>1, <2>2, <2>3
<1>. DEFINE t == Next1(p, taken)
<1>4. p \in AccountPc \ {"bootstrap"} /\ taken \in SUBSET Account!Invites
  BY <1>3 DEF AccountPc, Account!Pending
<1>5. /\ t.pc = p /\ t.rows = taken /\ t.of = tx[r].of /\ t.kind = tx[r].kind /\ t.to = tx[r].to
      /\ t.user = tx[r].user /\ t.tenant = tx[r].tenant /\ t.email = tx[r].email
  BY <1>2, <1>4 DEF AccountTransaction
<1>6. AccountHolds(t) /\ AccountSeesUsers(t)
  <2>. HIDE DEF t
  <2>. QED  BY <1>2, <1>3, <1>5 DEF AccountHolds, AccountSeesUsers
<1>7. AccountSeesInvites(t)
  <2>. HIDE DEF t
  <2>1. \A i \in taken : invites[i].st # "none"  BY <1>3 DEF Account!Pending
  <2>2. Account!Pending(t.of, kinds, {"pending"}) \subseteq taken
    BY <1>3, <1>5 DEF Account!Pending
  <2>. QED  BY <1>3, <1>5, <2>1, <2>2 DEF AccountSeesInvites
<1>. QED  BY <1>1, <1>3, <1>4, <1>6, <1>7, AccountLocksRows

\* The row of a link that is used is locked, and was still pending.
LEMMA AccountConsumesInv ==
  ASSUME AccountInv, NEW r \in AccountRequests, Account!Consumes(r)
  PROVE  AccountInv'
<1>. DEFINE i == tx[r].invite
            p == IF tx[r].kind \in Account!Signup THEN "accept" ELSE "reset"
            taken == {i}
            t == [tx[r] EXCEPT !.pc = p, !.rows = taken]
<1>1. UNCHANGED accountData /\ Account!RowsFree(r, {i}) /\ tx[r].pc = "consume"
  BY DEF Account!Consumes, Account!At, accountData
<1>2. tx[r] \in AccountTransaction /\ AccountHolds(tx[r]) /\ AccountSeesInvites(tx[r]) /\ AccountSeesUsers(tx[r]) /\ i \in Account!Invites
  BY <1>1 DEF AccountInv, AccountTypes, AccountCalls, AccountHolds
<1>3. CASE Account!Ends(r)  BY <1>1, <1>3, AccountEndsInv
<1>4. CASE Account!StillUsable(i) /\ ~Account!Ends(r)
  <2>1. invites[i].st = "pending" /\ invites[i].kind = tx[r].kind /\ invites[i].email = tx[r].of
    BY <1>1, <1>2, <1>4 DEF Account!StillUsable, AccountSeesInvites
  <2>2. tx[r].kind \in Account!Signup \/ tx[r].kind = "password_reset"
    BY <1>2, <2>1
      DEF AccountInv, AccountTypes, AccountData, AccountInvitesAgree, AccountInvite,
          AccountInviteKinds, Account!Signup
  <2>3. tx' = [tx EXCEPT ![r].pc = p, ![r].rows = taken]
    BY <1>2, <1>4 DEF Account!Consumes, AccountInv, AccountTypes, AccountTransaction
  <2>4. p \in AccountPc \ {"bootstrap"} /\ p \in {"accept", "reset"} /\ taken \in SUBSET Account!Invites
    BY <1>2 DEF AccountPc
  <2>5. p = "accept" => tx[r].kind \in Account!Signup  OBVIOUS
  <2>6. p = "reset" => tx[r].kind = "password_reset"  BY <2>2
  <2>. HIDE DEF p
  <2>7. /\ t.pc = p /\ t.rows = {i} /\ t.invite = i /\ t.of = tx[r].of /\ t.kind = tx[r].kind
    BY <1>2, <2>4 DEF AccountTransaction
  <2>8. AccountHolds(t) /\ AccountSeesInvites(t) /\ AccountSeesUsers(t)
    <3>. HIDE DEF t
    <3>. QED
      BY <1>1, <1>2, <2>1, <2>4, <2>5, <2>6, <2>7
        DEF AccountHolds, AccountSeesInvites, AccountSeesUsers
  <2>. QED  BY <1>1, <2>3, <2>4, <2>8, AccountLocksRows
<1>. QED  BY <1>3, <1>4 DEF Account!Consumes

----------------------------------------------------------------------------
\* What another transaction knows of the users survives the removal of other users.
LEMMA AccountOthersUsers ==
  ASSUME AccountInv, UNCHANGED admins, made' \in [Account!Invites -> Nat], \A i \in Account!Invites : made[i] <= made'[i],
         NEW s \in AccountRequests, tx'[s] = tx[s],
         tx[s].pc \in {"link_replace", "link_insert"} =>
           users'[tx[s].of] = tx[s].user \/ tx[s].to \notin tenants',
         tx[s].pc \in {"remove_links", "remove_commit"} =>
           \E e \in Emails : e # tx[s].of /\ users'[e].tenant = tx[s].tenant
  PROVE  AccountSeesUsers(tx[s])'
<1>1. AccountSeesUsers(tx[s]) /\ made \in [Account!Invites -> Nat]
  BY DEF AccountInv, AccountCalls, AccountTypes
<1>2. AccountKnown(tx[s].to) => AccountKnown(tx[s].to)'  BY <1>1 DEF AccountKnown
<1>. QED  BY <1>1, <1>2 DEF AccountSeesUsers

\* What another transaction knows of the users survives a change of one other user.
LEMMA AccountOthersUsersSame ==
  ASSUME AccountInv, UNCHANGED <<admins, tenants, users>>, made' \in [Account!Invites -> Nat],
         \A i \in Account!Invites : made[i] <= made'[i], NEW s \in AccountRequests, tx'[s] = tx[s]
  PROVE  AccountSeesUsers(tx[s])'
<1>1. AccountSeesUsers(tx[s])  BY DEF AccountInv, AccountCalls
<1>. QED  BY <1>1, AccountOthersUsers DEF AccountSeesUsers

\* The rows that are used up, by the request that has locked them.
LEMMA AccountUsedUpRows ==
  ASSUME AccountInv, NEW r \in AccountRequests
  PROVE  LET used == Account!UsedUp(tx[r].rows) IN
         /\ used \in [Account!Invites -> AccountInvite]
         /\ \A i \in Account!Invites :
              /\ i \notin tx[r].rows => used[i] = invites[i]
              /\ i \in tx[r].rows =>
                   /\ invites[i].st # "none" /\ used[i].st = "used"
                   /\ \A s \in AccountRequests : s # r => i \notin tx[s].rows
<1>1. invites \in [Account!Invites -> AccountInvite] /\ AccountSeesInvites(tx[r])
  BY DEF AccountInv, AccountTypes, AccountCalls
<1>2. \A i \in Account!Invites : [invites[i] EXCEPT !.st = "used"] \in AccountInvite
                                /\ [invites[i] EXCEPT !.st = "used"].st = "used"
  BY <1>1 DEF AccountInvite, AccountStates
<1>3. \A i \in tx[r].rows : invites[i].st # "none" /\ \A s \in AccountRequests : s # r => i \notin tx[s].rows
  BY <1>1 DEF AccountSeesInvites, AccountInv, AccountLocks
<1>. QED  BY <1>1, <1>2, <1>3 DEF Account!UsedUp

\* The first super-admin comes with the first workspace.
LEMMA AccountBootstrapCommitsInv ==
  ASSUME AccountInv, NEW r \in AccountRequests, Account!BootstrapCommits(r)
  PROVE  AccountInv'
<1>1. /\ Account!At(r, "bootstrap") /\ admins = {} /\ tenants = {} /\ Account!Ends(r)
      /\ UNCHANGED <<users, invites, made>>
  BY
    DEF Account!BootstrapCommits, Account!At, AccountInv, AccountCalls, AccountSeesUsers,
        AccountData, AccountBeginning
<1>2. Account!NewTenant = 1  BY <1>1, FS_EmptySet, AccountCardinality DEF Account!NewTenant
<1>3. tenants' = {1} /\ admins' = {1} /\ 1 \in Account!Tenants
  BY <1>1, <1>2, AccountAssumption DEF Account!BootstrapCommits, Account!Tenants
<1>4. AccountData'
  BY <1>1, <1>3
    DEF AccountInv, AccountData, AccountUsersKnown, AccountKnown, AccountInvitesAgree,
        AccountOneOpen, AccountOpenSignup, AccountBeginning
<1>5. ASSUME NEW s \in AccountRequests, s # r, tx'[s] = tx[s] PROVE AccountSeesInvites(tx[s])' /\ AccountSeesUsers(tx[s])'
  <2>1. tx[s].pc \in {"idle", "ended"}
    BY <1>1, <1>5 DEF AccountInv, AccountCalls, AccountSeesUsers, AccountLocks, Account!At
  <2>2. AccountSeesInvites(tx[s])'  BY <1>1, <1>5, AccountOthersInvites DEF AccountMoves
  <2>. QED  BY <1>5, <2>1, <2>2 DEF AccountSeesUsers
<1>. QED  BY <1>1, <1>3, <1>4, <1>5, AccountEndsWith DEF AccountInv, AccountTypes

\* A new invite or link takes the place of those that it replaces.
LEMMA AccountIssuesMoves ==
  ASSUME AccountInv, NEW r \in AccountRequests, tx[r].pc \in {"invite_insert", "link_insert"}, Account!RoomForInvite,
         NEW new \in AccountInvite, new.st = "pending", new.email = tx[r].of, Account!Issues(r, new)
  PROVE  /\ invites' \in [Account!Invites -> AccountInvite] /\ AccountMoves(r)
         /\ \E n \in Account!Invites :
              /\ invites[n].st = "none" /\ invites'[n] = new
              /\ \A i \in Account!Invites : i # n =>
                   \/ invites'[i] = invites[i] /\ i \notin tx[r].rows
                   \/ i \in tx[r].rows /\ invites'[i].st = "used" /\ invites[i].st # "none"
<1>1. Account!NextInvite \in Account!Invites /\ invites[Account!NextInvite].st = "none"
  BY DEF Account!RoomForInvite, Account!NextInvite
<1>. DEFINE used == Account!UsedUp(tx[r].rows)
            n == Account!NextInvite
<1>2. invites' = [used EXCEPT ![n] = new]  BY DEF Account!Issues
<1>3. /\ used \in [Account!Invites -> AccountInvite]
      /\ \A i \in Account!Invites :
           /\ i \notin tx[r].rows => used[i] = invites[i]
           /\ i \in tx[r].rows =>
                /\ invites[i].st # "none" /\ used[i].st = "used"
                /\ \A s \in AccountRequests : s # r => i \notin tx[s].rows
  BY AccountUsedUpRows
<1>. HIDE DEF used, n
<1>4. n \in Account!Invites /\ invites[n].st = "none"  BY <1>1 DEF n
<1>5. tx[r].email = tx[r].of /\ tx[r].of \in Emails  BY DEF AccountInv, AccountCalls, AccountHolds
<1>6. AccountMoves(r)  BY <1>2, <1>3, <1>4, <1>5 DEF AccountMoves
<1>7. invites' \in [Account!Invites -> AccountInvite]  BY <1>2, <1>3, <1>4
<1>8. \A i \in Account!Invites : i # n =>
        \/ invites'[i] = invites[i] /\ i \notin tx[r].rows
        \/ i \in tx[r].rows /\ invites'[i].st = "used" /\ invites[i].st # "none"
  BY <1>2, <1>3, <1>4
<1>9. invites'[n] = new  BY <1>2, <1>3, <1>4
<1>. QED  BY <1>4, <1>6, <1>7, <1>8, <1>9

\* A new invite is the only pending one of its kind for its address.
LEMMA AccountIssuesInv ==
  ASSUME AccountInv, NEW r \in AccountRequests, tx[r].pc \in {"invite_insert", "link_insert"}, Account!RoomForInvite,
         NEW new \in AccountInvite, new.st = "pending", new.email = tx[r].of, Account!Issues(r, new),
         Account!Ends(r), UNCHANGED <<tenants, admins, users, made>>,
         \/ tx[r].pc = "invite_insert" /\ new.kind \in Account!Signup
         \/ /\ tx[r].pc = "link_insert" /\ new.kind = "password_reset" /\ new.user > 0
            /\ users[new.email].id = new.user /\ users[new.email].tenant = new.tenant
  PROVE  AccountInv'
<1>1. /\ invites' \in [Account!Invites -> AccountInvite] /\ AccountMoves(r)
      /\ \E n \in Account!Invites :
           /\ invites[n].st = "none" /\ invites'[n] = new
           /\ \A i \in Account!Invites : i # n =>
                \/ invites'[i] = invites[i] /\ i \notin tx[r].rows
                \/ i \in tx[r].rows /\ invites'[i].st = "used" /\ invites[i].st # "none"
  BY AccountIssuesMoves
<1>2. PICK n \in Account!Invites :
        /\ invites[n].st = "none" /\ invites'[n] = new
        /\ \A i \in Account!Invites : i # n =>
             \/ invites'[i] = invites[i] /\ i \notin tx[r].rows
             \/ i \in tx[r].rows /\ invites'[i].st = "used" /\ invites[i].st # "none"
  BY <1>1
<1>3. tx[r].of \in Emails /\ AccountSeesInvites(tx[r]) /\ AccountSeesUsers(tx[r])
  BY DEF AccountInv, AccountCalls, AccountHolds
<1>4. made[n] = 0  BY <1>2 DEF AccountInv, AccountTypes, AccountData, AccountInvitesAgree
<1>5. AccountInvitesAgree'
  <2>. SUFFICES ASSUME NEW i \in Account!Invites
         PROVE /\ made[i] <= 1 /\ (made[i] > 0 => invites'[i].st \in {"used", "deleted"})
               /\ invites'[i].st = "none" => invites'[i].tenant = 0
               /\ invites'[i].st = "pending" => invites'[i].kind # "none" /\ invites'[i].email \in Emails
               /\ invites'[i].st = "pending" /\ invites'[i].kind = "password_reset" =>
                    /\ invites'[i].user > 0
                    /\ users[invites'[i].email].id = invites'[i].user
                    /\ users[invites'[i].email].tenant = invites'[i].tenant
    BY DEF AccountInvitesAgree
  <2>1. CASE i = n  BY <1>2, <1>3, <1>4, <2>1 DEF Account!Signup
  <2>2. CASE i # n  BY <1>2, <2>2 DEF AccountInv, AccountData, AccountInvitesAgree
  <2>. QED  BY <2>1, <2>2
<1>6. AccountOneOpen'
  <2>1. \A i \in Account!Invites : i # n /\ AccountOpenSignup(i)' =>
          AccountOpenSignup(i) /\ invites'[i] = invites[i] /\ i \notin tx[r].rows
    BY <1>2 DEF AccountOpenSignup
  <2>2. AccountOpenSignup(n)' => \A i \in Account!Invites : i # n /\ AccountOpenSignup(i)' => invites'[i].email # tx[r].of
    <3>1. AccountOpenSignup(n)' => tx[r].pc = "invite_insert"
      BY <1>2 DEF AccountOpenSignup, Account!Signup
    <3>2. tx[r].pc = "invite_insert" => Account!Pending(tx[r].of, Account!Signup, {"pending"}) \subseteq tx[r].rows
      BY <1>3 DEF AccountSeesInvites
    <3>. QED  BY <2>1, <3>1, <3>2 DEF Account!Pending, AccountOpenSignup
  <2>. QED  BY <1>2, <2>1, <2>2 DEF AccountInv, AccountData, AccountOneOpen
<1>7. admins # {}  BY <1>3 DEF AccountSeesUsers
<1>8. AccountUsersKnown' /\ AccountBeginning'
  BY <1>7 DEF AccountInv, AccountData, AccountUsersKnown, AccountKnown, AccountBeginning
<1>9. ASSUME NEW s \in AccountRequests, s # r, tx'[s] = tx[s] PROVE AccountSeesInvites(tx[s])' /\ AccountSeesUsers(tx[s])'
  <2>1. made' \in [Account!Invites -> Nat] /\ \A i \in Account!Invites : made[i] <= made'[i]
    BY DEF AccountInv, AccountTypes
  <2>. QED  BY <1>1, <1>9, <2>1, AccountOthersInvites, AccountOthersUsersSame
<1>. QED
  BY <1>1, <1>5, <1>6, <1>8, <1>9, AccountEndsWith DEF AccountInv, AccountTypes, AccountData

\* The invite commits, with its predecessors used up.
LEMMA AccountInviteCommitsInv ==
  ASSUME AccountInv, NEW r \in AccountRequests, Account!InviteCommits(r)
  PROVE  AccountInv'
<1>. DEFINE t == tx[r]
            new == [st |-> "pending", kind |-> t.kind, email |-> t.of, tenant |-> t.to, user |-> 0]
<1>1. /\ t.pc = "invite_insert" /\ Account!RoomForInvite /\ Account!Ends(r) /\ UNCHANGED <<tenants, admins, users, made>>
      /\ UNCHANGED invites \/ Account!Issues(r, new)
  BY DEF Account!InviteCommits, Account!At
<1>2. CASE UNCHANGED invites  BY <1>1, <1>2, AccountEndsInv DEF accountData
<1>3. CASE Account!Issues(r, new)
  <2>1. t \in AccountTransaction /\ AccountHolds(t)  BY DEF AccountInv, AccountTypes, AccountCalls
  <2>2. t.kind \in Account!Signup /\ t.of \in Emails /\ t.to \in Nat /\ t.kind \in AccountInviteKinds
    BY <1>1, <2>1 DEF AccountHolds, AccountTransaction
  <2>3. new \in AccountInvite /\ new.st = "pending" /\ new.kind = t.kind /\ new.email = t.of
    BY <2>2 DEF AccountInvite, AccountStates
  <2>. HIDE DEF new
  <2>. QED  BY <1>1, <1>3, <2>2, <2>3, AccountIssuesInv
<1>. QED  BY <1>1, <1>2, <1>3

\* The reset link commits, with its predecessors used up.
LEMMA AccountLinkCommitsInv ==
  ASSUME AccountInv, NEW r \in AccountRequests, Account!LinkCommits(r)
  PROVE  AccountInv'
<1>. DEFINE t == tx[r]
            new == [st |-> "pending", kind |-> "password_reset", email |-> t.of,
                    tenant |-> t.to, user |-> t.user.id]
<1>1. /\ t.pc = "link_insert" /\ Account!RoomForInvite /\ Account!Ends(r) /\ UNCHANGED <<tenants, admins, users, made>>
      /\ UNCHANGED invites \/ (t.to \in tenants /\ Account!Issues(r, new))
  BY DEF Account!LinkCommits, Account!At
<1>2. CASE UNCHANGED invites  BY <1>1, <1>2, AccountEndsInv DEF accountData
<1>3. CASE t.to \in tenants /\ Account!Issues(r, new)
  <2>1. t \in AccountTransaction /\ AccountHolds(t) /\ AccountSeesUsers(t)
    BY DEF AccountInv, AccountTypes, AccountCalls
  <2>2. /\ t.of \in Emails /\ t.to \in Nat /\ t.user \in AccountUser /\ t.user.id \in Nat /\ t.user.id > 0
        /\ t.to = t.user.tenant /\ users[t.of] = t.user
    BY <1>1, <1>3, <2>1 DEF AccountHolds, AccountSeesUsers, AccountTransaction, AccountUser
  <2>3. /\ new \in AccountInvite /\ new.st = "pending" /\ new.kind = "password_reset" /\ new.email = t.of
        /\ new.user = t.user.id /\ new.tenant = t.to
    BY <2>2 DEF AccountInvite, AccountStates, AccountInviteKinds
  <2>. HIDE DEF new
  <2>. QED  BY <1>1, <1>3, <2>2, <2>3, AccountIssuesInv
<1>. QED  BY <1>1, <1>2, <1>3

\* A step that uses up the rows of r, and makes no invite.
LEMMA AccountUsesMoves ==
  ASSUME AccountInv, NEW r \in AccountRequests, invites' = Account!UsedUp(tx[r].rows)
  PROVE  /\ invites' \in [Account!Invites -> AccountInvite] /\ AccountMoves(r)
         /\ \A i \in Account!Invites : \/ invites'[i] = invites[i] /\ i \notin tx[r].rows
                                       \/ i \in tx[r].rows /\ invites'[i].st = "used" /\ invites[i].st # "none"
BY AccountUsedUpRows DEF AccountMoves

\* An invited user joins: the invite is used up and the address has its user.
LEMMA AccountJoinsInv ==
  ASSUME AccountInv, NEW r \in AccountRequests, Account!At(r, "accept"), Account!Ends(r), UNCHANGED admins,
         users[tx[r].of] = Account!NoUser, NEW w, Account!Joins(r, w),
         \/ w = Account!NewId(r) /\ tenants' = tenants \cup {Account!NewId(r)}
         \/ w \in tenants /\ UNCHANGED tenants
  PROVE  AccountInv'
<1>. DEFINE i0 == tx[r].invite
            e0 == tx[r].of
            user == [id |-> Account!NewId(r), tenant |-> w]
<1>1. /\ i0 \in Account!Invites /\ tx[r].rows = {i0} /\ e0 \in Emails /\ invites[i0].st = "pending"
      /\ admins # {}
  BY DEF Account!At, AccountInv, AccountCalls, AccountHolds, AccountSeesInvites, AccountSeesUsers
<1>2. made[i0] = 0  BY <1>1 DEF AccountInv, AccountTypes, AccountData, AccountInvitesAgree
<1>3. /\ Account!NewId(r) = i0 + 2 /\ Account!NewId(r) \in Nat /\ Account!NewId(r) > 2 /\ Account!NewId(r) \in Account!Tenants
  BY <1>1, AccountAssumption DEF Account!NewId, Account!Invites, Account!Tenants
<1>4. w \in Account!Tenants /\ w \in Nat /\ w # 0
  <2>1. w \in Account!Tenants  BY <1>3 DEF AccountInv, AccountTypes
  <2>. QED  BY <2>1 DEF Account!Tenants
<1>5. user \in AccountUser /\ user.id = Account!NewId(r) /\ user.tenant = w
  BY <1>3, <1>4 DEF AccountUser
<1>6. /\ users' = [users EXCEPT ![e0] = user] /\ invites' = Account!UsedUp(tx[r].rows)
      /\ made' = [made EXCEPT ![i0] = @ + 1]
  BY DEF Account!Joins
<1>7. /\ made' \in [Account!Invites -> Nat] /\ made'[i0] = 1
      /\ \A i \in Account!Invites : i # i0 => made'[i] = made[i]
  BY <1>1, <1>2, <1>6 DEF AccountInv, AccountTypes
<1>8. \A i \in Account!Invites : made[i] <= made'[i]  BY <1>2, <1>7
<1>. HIDE DEF user
<1>9. users' \in [Emails -> AccountUser] /\ users'[e0] = user /\ \A e \in Emails : e # e0 => users'[e] = users[e]
  BY <1>1, <1>5, <1>6 DEF AccountInv, AccountTypes
<1>10. /\ invites' \in [Account!Invites -> AccountInvite] /\ AccountMoves(r)
       /\ \A i \in Account!Invites : \/ invites'[i] = invites[i] /\ i # i0
                                     \/ i = i0 /\ invites'[i].st = "used"
  BY <1>1, <1>6, AccountUsesMoves
<1>11. \A t : AccountKnown(t) => AccountKnown(t)'  BY <1>7, <1>8 DEF AccountKnown
<1>12. AccountKnown(w)' /\ \A t \in tenants' : AccountKnown(t)'
  BY <1>1, <1>3, <1>7, <1>11 DEF AccountKnown, AccountInv, AccountData, AccountUsersKnown
<1>13. AccountUsersKnown'
  <2>1. ASSUME NEW e \in Emails
        PROVE  users'[e] = Account!NoUser
               \/ (users'[e].id > 0 /\ users'[e].tenant \in Account!Tenants /\ AccountKnown(users[e].tenant)')
    <3>1. CASE e = e0  BY <1>3, <1>4, <1>5, <1>9, <1>12, <3>1
    <3>2. CASE e # e0  BY <1>9, <1>11, <3>2 DEF AccountInv, AccountData, AccountUsersKnown
    <3>. QED  BY <3>1, <3>2
  <2>. QED  BY <1>12, <2>1 DEF AccountUsersKnown
<1>14. users[e0].id = 0  BY AccountValues
<1>15. AccountInvitesAgree'
  BY <1>7, <1>9, <1>10, <1>14 DEF AccountInv, AccountData, AccountInvitesAgree
<1>16. AccountOneOpen'
  <2>1. \A i \in Account!Invites : AccountOpenSignup(i)' => AccountOpenSignup(i) /\ invites'[i] = invites[i]
    BY <1>10 DEF AccountOpenSignup
  <2>. QED  BY <2>1 DEF AccountInv, AccountData, AccountOneOpen
<1>17. AccountBeginning'  BY <1>1 DEF AccountInv, AccountData, AccountBeginning
<1>18. tenants' \subseteq Account!Tenants  BY <1>3 DEF AccountInv, AccountTypes
<1>19. ASSUME NEW s \in AccountRequests, s # r, tx'[s] = tx[s] PROVE AccountSeesInvites(tx[s])' /\ AccountSeesUsers(tx[s])'
  <2>1. AccountSeesInvites(tx[s])'  BY <1>10, <1>19, AccountOthersInvites
  <2>2. tx[s] \in AccountTransaction /\ AccountHolds(tx[s]) /\ AccountSeesUsers(tx[s])
    BY DEF AccountInv, AccountTypes, AccountCalls
  <2>3. ASSUME tx[s].pc \in {"link_replace", "link_insert"}
        PROVE  users'[tx[s].of] = tx[s].user \/ tx[s].to \notin tenants'
    <3>1. tx[s].to # Account!NewId(r)
      BY <1>1, <1>2, <1>3, <2>2, <2>3 DEF AccountSeesUsers, AccountKnown, Account!Invites
    <3>2. CASE tx[s].to \notin tenants  BY <3>1, <3>2
    <3>3. CASE users[tx[s].of] = tx[s].user
      <4>1. tx[s].of # e0 /\ tx[s].of \in Emails  BY <1>14, <2>2, <2>3, <3>3 DEF AccountHolds
      <4>. QED  BY <1>9, <3>3, <4>1
    <3>. QED  BY <2>2, <2>3, <3>2, <3>3 DEF AccountSeesUsers
  <2>4. ASSUME tx[s].pc \in {"remove_links", "remove_commit"}
        PROVE  \E e \in Emails : e # tx[s].of /\ users'[e].tenant = tx[s].tenant
    <3>1. PICK e \in Emails : e # tx[s].of /\ users[e].tenant = tx[s].tenant
      BY <2>2, <2>4 DEF AccountSeesUsers
    <3>2. tx[s].tenant # 0  BY <2>2, <2>4 DEF AccountHolds, Account!Tenants
    <3>3. e # e0  BY <3>1, <3>2, AccountValues
    <3>. QED  BY <1>9, <3>1, <3>3
  <2>5. AccountSeesUsers(tx[s])'  BY <1>7, <1>8, <1>19, <2>3, <2>4, AccountOthersUsers
  <2>. QED  BY <2>1, <2>5
<1>. QED
  BY <1>7, <1>9, <1>10, <1>13, <1>15, <1>16, <1>17, <1>18, <1>19, AccountEndsWith
    DEF AccountInv, AccountTypes, AccountData

\* An accepted invite commits, into its own or into the invited workspace.
LEMMA AccountAcceptCommitsInv ==
  ASSUME AccountInv, NEW r \in AccountRequests, Account!AcceptCommits(r)
  PROVE  AccountInv'
<1>1. Account!At(r, "accept") /\ Account!Ends(r) /\ UNCHANGED admins  BY DEF Account!AcceptCommits
<1>2. CASE UNCHANGED <<tenants, users, invites, made>>
  BY <1>1, <1>2, AccountEndsInv DEF accountData
<1>3. CASE users[tx[r].of] = Account!NoUser /\ Account!Joins(r, Account!NewId(r)) /\ tenants' = tenants \cup {Account!NewId(r)}
  BY <1>1, <1>3, AccountJoinsInv
<1>4. CASE users[tx[r].of] = Account!NoUser /\ tx[r].to \in tenants /\ Account!Joins(r, tx[r].to) /\ UNCHANGED tenants
  BY <1>1, <1>4, AccountJoinsInv
<1>. QED  BY <1>2, <1>3, <1>4 DEF Account!AcceptCommits

\* A reset link is used up with the change of the password.
LEMMA AccountResetCommitsInv ==
  ASSUME AccountInv, NEW r \in AccountRequests, Account!ResetCommits(r)
  PROVE  AccountInv'
<1>. DEFINE i0 == tx[r].invite
            e0 == tx[r].of
<1>1. Account!At(r, "reset") /\ Account!Ends(r) /\ UNCHANGED <<tenants, admins, users>>
  BY DEF Account!ResetCommits
<1>2. CASE UNCHANGED <<invites, made>>  BY <1>1, <1>2, AccountEndsInv DEF accountData
<1>3. CASE /\ users[e0] # Account!NoUser /\ invites' = Account!UsedUp(tx[r].rows)
           /\ made' = [made EXCEPT ![i0] = @ + (IF users[e0].id = invites[i0].user THEN 1 ELSE 2)]
  <2>1. /\ i0 \in Account!Invites /\ tx[r].rows = {i0} /\ e0 \in Emails /\ invites[i0].st = "pending"
        /\ invites[i0].kind = "password_reset" /\ invites[i0].email = e0 /\ admins # {}
    BY <1>1
      DEF Account!At, AccountInv, AccountCalls, AccountHolds, AccountSeesInvites, AccountSeesUsers
  <2>2. made[i0] = 0 /\ users[e0].id = invites[i0].user
    BY <2>1 DEF AccountInv, AccountTypes, AccountData, AccountInvitesAgree
  <2>3. /\ made' \in [Account!Invites -> Nat] /\ made'[i0] = 1
        /\ \A i \in Account!Invites : i # i0 => made'[i] = made[i]
    BY <1>3, <2>1, <2>2 DEF AccountInv, AccountTypes
  <2>4. \A i \in Account!Invites : made[i] <= made'[i]  BY <2>2, <2>3
  <2>5. /\ invites' \in [Account!Invites -> AccountInvite] /\ AccountMoves(r)
        /\ \A i \in Account!Invites : \/ invites'[i] = invites[i] /\ i # i0
                                      \/ i = i0 /\ invites'[i].st = "used"
    BY <1>3, <2>1, AccountUsesMoves
  <2>6. AccountInvitesAgree'  BY <1>1, <2>3, <2>5 DEF AccountInv, AccountData, AccountInvitesAgree
  <2>7. AccountOneOpen'
    <3>1. \A i \in Account!Invites : AccountOpenSignup(i)' => AccountOpenSignup(i) /\ invites'[i] = invites[i]
      BY <2>5 DEF AccountOpenSignup
    <3>. QED  BY <3>1 DEF AccountInv, AccountData, AccountOneOpen
  <2>8. AccountBeginning'  BY <1>1, <2>1 DEF AccountInv, AccountData, AccountBeginning
  <2>9. AccountUsersKnown'
    <3>1. \A t : AccountKnown(t) => AccountKnown(t)'  BY <2>3, <2>4 DEF AccountKnown
    <3>. QED  BY <1>1, <3>1 DEF AccountInv, AccountData, AccountUsersKnown
  <2>10. ASSUME NEW s \in AccountRequests, s # r, tx'[s] = tx[s] PROVE AccountSeesInvites(tx[s])' /\ AccountSeesUsers(tx[s])'
    BY <1>1, <2>3, <2>4, <2>5, <2>10, AccountOthersInvites, AccountOthersUsersSame
  <2>. QED
    BY <1>1, <2>3, <2>5, <2>6, <2>7, <2>8, <2>9, <2>10, AccountEndsWith
      DEF AccountInv, AccountTypes, AccountData
<1>. QED  BY <1>2, <1>3 DEF Account!ResetCommits

\* The links of a user go with him, and nobody makes another one meanwhile.
LEMMA AccountRemoveCommitsInv ==
  ASSUME AccountInv, NEW r \in AccountRequests, Account!RemoveCommits(r)
  PROVE  AccountInv'
<1>. DEFINE e0 == tx[r].of
<1>1. /\ tx[r].pc = "remove_commit" /\ Account!Ends(r) /\ UNCHANGED <<tenants, admins, made>>
      /\ users' = [users EXCEPT ![e0] = IF @ = tx[r].user THEN Account!NoUser ELSE @]
      /\ invites' = Account!UsedUp(tx[r].rows)
  BY DEF Account!RemoveCommits, Account!At
<1>2. /\ e0 \in Emails /\ tx[r].email = e0 /\ tx[r].tenant = tx[r].user.tenant /\ tx[r].tenant \in Account!Tenants
      /\ Account!Pending(e0, {"password_reset"}, {"pending"}) \subseteq tx[r].rows /\ admins # {}
      /\ tx[r] \in AccountTransaction
  BY <1>1
    DEF AccountInv, AccountTypes, AccountCalls, AccountHolds, AccountSeesInvites, AccountSeesUsers
<1>3. /\ users' \in [Emails -> AccountUser] /\ \A e \in Emails : e # e0 => users'[e] = users[e]
      /\ users'[e0] = users[e0] \/ (users[e0] = tx[r].user /\ users'[e0] = Account!NoUser)
  BY <1>1, <1>2, AccountValues DEF AccountInv, AccountTypes
<1>4. /\ invites' \in [Account!Invites -> AccountInvite] /\ AccountMoves(r)
      /\ \A i \in Account!Invites : \/ invites'[i] = invites[i] /\ i \notin tx[r].rows
                                    \/ i \in tx[r].rows /\ invites'[i].st = "used" /\ invites[i].st # "none"
  BY <1>1, AccountUsesMoves
<1>5. AccountUsersKnown'
  BY <1>1, <1>3 DEF AccountInv, AccountData, AccountUsersKnown, AccountKnown
<1>6. AccountInvitesAgree'
  <2>1. \A i \in Account!Invites : invites'[i].st = "pending" /\ invites'[i].kind = "password_reset"
                                  => invites'[i] = invites[i] /\ invites[i].email # e0
    BY <1>2, <1>4 DEF Account!Pending
  <2>2. \A i \in Account!Invites : made[i] <= 1 /\ (made[i] > 0 => invites'[i].st \in {"used", "deleted"})
    BY <1>4 DEF AccountInv, AccountData, AccountInvitesAgree
  <2>3. \A i \in Account!Invites : invites'[i].st \in {"none", "pending"} => invites'[i] = invites[i]
    BY <1>4
  <2>. QED  BY <1>1, <1>3, <2>1, <2>2, <2>3 DEF AccountInv, AccountData, AccountInvitesAgree
<1>7. AccountOneOpen'
  <2>1. \A i \in Account!Invites : AccountOpenSignup(i)' => AccountOpenSignup(i) /\ invites'[i] = invites[i]
    BY <1>4 DEF AccountOpenSignup
  <2>. QED  BY <2>1 DEF AccountInv, AccountData, AccountOneOpen
<1>8. AccountBeginning'  BY <1>1, <1>2 DEF AccountInv, AccountData, AccountBeginning
<1>9. ASSUME NEW s \in AccountRequests, s # r, tx'[s] = tx[s] PROVE AccountSeesInvites(tx[s])' /\ AccountSeesUsers(tx[s])'
  <2>1. tx[s] \in AccountTransaction /\ AccountHolds(tx[s]) /\ AccountSeesUsers(tx[s])
    BY DEF AccountInv, AccountTypes, AccountCalls
  <2>2. /\ tx[s].email = tx[r].email => tx[r].email = "none"
        /\ tx[s].tenant = tx[r].tenant => tx[r].tenant = 0
    BY <1>9 DEF AccountInv, AccountLocks
  <2>3. ASSUME tx[s].pc \in {"link_replace", "link_insert"}
        PROVE  users'[tx[s].of] = tx[s].user \/ tx[s].to \notin tenants'
    <3>1. tx[s].of # e0 /\ tx[s].of \in Emails
      BY <1>2, <2>1, <2>2, <2>3, AccountAssumption DEF AccountHolds
    <3>. QED  BY <1>1, <1>3, <2>1, <2>3, <3>1 DEF AccountSeesUsers
  <2>4. ASSUME tx[s].pc \in {"remove_links", "remove_commit"}
        PROVE  \E e \in Emails : e # tx[s].of /\ users'[e].tenant = tx[s].tenant
    <3>1. PICK e \in Emails : e # tx[s].of /\ users[e].tenant = tx[s].tenant
      BY <2>1, <2>4 DEF AccountSeesUsers
    <3>2. tx[s].tenant # tx[r].tenant  BY <1>2, <2>2 DEF Account!Tenants
    <3>3. users'[e] = users[e]  BY <1>2, <1>3, <3>1, <3>2
    <3>. QED  BY <3>1, <3>3
  <2>5. made' \in [Account!Invites -> Nat] /\ \A i \in Account!Invites : made[i] <= made'[i]
    BY <1>1 DEF AccountInv, AccountTypes
  <2>. QED  BY <1>1, <1>4, <1>9, <2>3, <2>4, <2>5, AccountOthersInvites, AccountOthersUsers
<1>. QED
  BY <1>1, <1>3, <1>4, <1>5, <1>6, <1>7, <1>8, <1>9, AccountEndsWith
    DEF AccountInv, AccountTypes, AccountData

\* A workspace goes with its users and all that was sent to them.
LEMMA AccountDropCommitsInv ==
  ASSUME AccountInv, NEW r \in AccountRequests, Account!DropCommits(r)
  PROVE  AccountInv'
<1>. DEFINE t == tx[r].tenant
            gone == {i \in Account!Invites : invites[i].tenant = t}
            deleted == [Account!NoInvite EXCEPT !.st = "deleted"]
<1>1. /\ tx[r].pc = "drop" /\ Account!RowsFree(r, gone) /\ tenants' = tenants \ {t} /\ Account!Ends(r)
      /\ users' = [e \in Emails |-> IF users[e].tenant = t THEN Account!NoUser ELSE users[e]]
      /\ invites' = [i \in Account!Invites |-> IF i \in gone THEN deleted ELSE invites[i]]
      /\ UNCHANGED <<admins, made>>
  BY DEF Account!DropCommits, Account!At
<1>2. t \in Account!Tenants /\ t # 0 /\ admins # {}
  BY <1>1 DEF AccountInv, AccountCalls, AccountHolds, AccountSeesUsers, Account!Tenants
<1>3. deleted \in AccountInvite /\ deleted.st = "deleted"
  BY AccountValues DEF AccountInvite, AccountStates
<1>. HIDE DEF deleted
<1>4. users' \in [Emails -> AccountUser]  BY <1>1, AccountValues DEF AccountInv, AccountTypes
<1>5. invites' \in [Account!Invites -> AccountInvite]  BY <1>1, <1>3 DEF AccountInv, AccountTypes
<1>6. \A i \in Account!Invites :
        \/ invites[i].tenant # t /\ invites'[i] = invites[i]
        \/ invites[i].tenant = t /\ invites'[i].st = "deleted" /\ invites[i].st # "none"
  BY <1>1, <1>2, <1>3 DEF AccountInv, AccountData, AccountInvitesAgree
<1>7. \A e \in Emails : users'[e] = IF users[e].tenant = t THEN Account!NoUser ELSE users[e]
  BY <1>1
<1>8. AccountMoves(r)  BY <1>1, <1>6 DEF AccountMoves, Account!RowsFree
<1>9. AccountUsersKnown'
  BY <1>1, <1>7 DEF AccountInv, AccountData, AccountUsersKnown, AccountKnown
<1>10. AccountInvitesAgree'
  <2>. SUFFICES ASSUME NEW i \in Account!Invites
         PROVE /\ made[i] <= 1 /\ (made[i] > 0 => invites'[i].st \in {"used", "deleted"})
               /\ invites'[i].st = "none" => invites'[i].tenant = 0
               /\ invites'[i].st = "pending" => invites'[i].kind # "none" /\ invites'[i].email \in Emails
               /\ invites'[i].st = "pending" /\ invites'[i].kind = "password_reset" =>
                    /\ invites'[i].user > 0
                    /\ users'[invites'[i].email].id = invites'[i].user
                    /\ users'[invites'[i].email].tenant = invites'[i].tenant
    BY <1>1 DEF AccountInvitesAgree
  <2>. QED  BY <1>6, <1>7 DEF AccountInv, AccountData, AccountInvitesAgree
<1>11. AccountOneOpen'
  <2>1. \A i \in Account!Invites : AccountOpenSignup(i)' => AccountOpenSignup(i) /\ invites'[i] = invites[i]
    BY <1>6 DEF AccountOpenSignup
  <2>. QED  BY <2>1 DEF AccountInv, AccountData, AccountOneOpen
<1>12. AccountBeginning'  BY <1>1, <1>2 DEF AccountInv, AccountData, AccountBeginning
<1>13. ASSUME NEW s \in AccountRequests, s # r, tx'[s] = tx[s] PROVE AccountSeesInvites(tx[s])' /\ AccountSeesUsers(tx[s])'
  <2>1. AccountHolds(tx[s]) /\ AccountSeesUsers(tx[s]) /\ tx[s].tenant # t
    BY <1>2, <1>13 DEF AccountInv, AccountCalls, AccountLocks
  <2>2. ASSUME tx[s].pc \in {"link_replace", "link_insert"}
        PROVE  users'[tx[s].of] = tx[s].user \/ tx[s].to \notin tenants'
    BY <1>1, <1>7, <2>1, <2>2 DEF AccountSeesUsers, AccountHolds
  <2>3. ASSUME tx[s].pc \in {"remove_links", "remove_commit"}
        PROVE  \E e \in Emails : e # tx[s].of /\ users'[e].tenant = tx[s].tenant
    BY <1>7, <2>1, <2>3 DEF AccountSeesUsers
  <2>4. made' \in [Account!Invites -> Nat] /\ \A i \in Account!Invites : made[i] <= made'[i]
    BY <1>1 DEF AccountInv, AccountTypes
  <2>. QED  BY <1>1, <1>8, <1>13, <2>2, <2>3, <2>4, AccountOthersInvites, AccountOthersUsers
<1>. QED
  BY <1>1, <1>4, <1>5, <1>9, <1>10, <1>11, <1>12, <1>13, AccountEndsWith
    DEF AccountInv, AccountTypes, AccountData

\* An invite that expires is pending no more.
LEMMA AccountExpiresInv ==
  ASSUME AccountInv, NEW i0 \in Account!Invites, Account!Expires(i0)
  PROVE  AccountInv'
<1>1. /\ invites[i0].st = "pending" /\ Account!RowsFree("nobody", {i0})
      /\ invites' = [invites EXCEPT ![i0].st = "expired"]
      /\ UNCHANGED <<tenants, admins, users, tx, made>>
  BY DEF Account!Expires
<1>2. /\ invites' \in [Account!Invites -> AccountInvite] /\ invites'[i0].st = "expired"
      /\ \A i \in Account!Invites : i # i0 => invites'[i] = invites[i]
  BY <1>1 DEF AccountInv, AccountTypes, AccountInvite, AccountStates
<1>3. AccountMoves("nobody")  BY <1>1, <1>2 DEF AccountMoves, Account!RowsFree
<1>4. AccountInvitesAgree'
  <2>1. made[i0] = 0  BY <1>1 DEF AccountInv, AccountTypes, AccountData, AccountInvitesAgree
  <2>. QED  BY <1>1, <1>2, <2>1 DEF AccountInv, AccountData, AccountInvitesAgree
<1>5. AccountOneOpen'
  <2>1. \A i \in Account!Invites : AccountOpenSignup(i)' => AccountOpenSignup(i) /\ invites'[i] = invites[i]
    BY <1>2 DEF AccountOpenSignup
  <2>. QED  BY <2>1 DEF AccountInv, AccountData, AccountOneOpen
<1>6. AccountUsersKnown' /\ AccountBeginning'
  BY <1>1, <1>2 DEF AccountInv, AccountData, AccountUsersKnown, AccountKnown, AccountBeginning
<1>7. AccountTypes' /\ AccountLocks'
  BY <1>1, <1>2 DEF AccountInv, AccountTypes, AccountLocks, Account!At
<1>8. AccountCalls'
  <2>1. ASSUME NEW s \in AccountRequests PROVE AccountSeesInvites(tx[s])' /\ AccountSeesUsers(tx[s])'
    <3>1. s # "nobody" /\ tx'[s] = tx[s]  BY <1>1, AccountAssumption
    <3>2. made' \in [Account!Invites -> Nat] /\ \A i \in Account!Invites : made[i] <= made'[i]
      BY <1>1 DEF AccountInv, AccountTypes
    <3>. QED  BY <1>1, <1>3, <3>1, <3>2, AccountOthersInvites, AccountOthersUsersSame
  <2>2. \A s \in AccountRequests : AccountHolds(tx'[s])  BY <1>1 DEF AccountInv, AccountCalls
  <2>. QED  BY <2>1, <2>2 DEF AccountCalls, AccountHolds
<1>. QED  BY <1>4, <1>5, <1>6, <1>7, <1>8 DEF AccountInv, AccountData

\* Every step of a request to the accounts keeps the invariant.
LEMMA AccountStepInv == AccountInv /\ [Account!Next]_(Account!vars) => AccountInv'
<1>. SUFFICES ASSUME AccountInv, [Account!Next]_(Account!vars) PROVE AccountInv'  OBVIOUS
<1>1. CASE UNCHANGED Account!vars
  <2>1. UNCHANGED <<tenants, admins, users, invites, tx, made>>  BY <1>1 DEF Account!vars
  <2>2. AccountTypes' /\ AccountLocks'
    BY <2>1 DEF AccountInv, AccountTypes, AccountLocks, Account!At
  <2>3. AccountData'
    BY <2>1
      DEF AccountInv, AccountData, AccountUsersKnown, AccountKnown, AccountInvitesAgree,
          AccountOneOpen, AccountOpenSignup, AccountBeginning
  <2>4. AccountCalls'
    BY <2>1
      DEF AccountInv, AccountCalls, AccountHolds, AccountSeesInvites, AccountSeesUsers,
          Account!Pending, AccountKnown
  <2>. QED  BY <2>2, <2>3, <2>4 DEF AccountInv
<1>2. ASSUME NEW i \in Account!Invites, Account!Expires(i) PROVE AccountInv'
  BY <1>2, AccountExpiresInv
<1>3. ASSUME NEW r \in AccountRequests, Account!RollsBack(r) PROVE AccountInv'
  BY <1>3, AccountEndsInv DEF Account!RollsBack, accountData
<1>4. ASSUME NEW r \in AccountRequests, Account!Handles(r) PROVE AccountInv'
  <2>1. CASE Account!BootstrapCounts(r) \/ Account!BootstrapCommits(r)
    BY <2>1, AccountBootstrapCountsInv, AccountBootstrapCommitsInv
  <2>2. CASE \E e \in Emails, purpose \in Account!Signup, t \in {0, 2} : Account!InviteBegins(r, e, purpose, t)
    BY <2>2, AccountInviteBeginsInv
  <2>3. CASE Account!InviteLocks(r) \/ Account!InviteReplaces(r) \/ Account!InviteCommits(r)
    BY <2>3, AccountInviteLocksInv, AccountReplacesInv, AccountInviteCommitsInv
  <2>4. CASE \E i \in Account!Invites : Account!Finds(r, i)  BY <2>4, AccountFindsInv
  <2>5. CASE Account!Consumes(r) \/ Account!AcceptCommits(r) \/ Account!ResetCommits(r)
    BY <2>5, AccountConsumesInv, AccountAcceptCommitsInv, AccountResetCommitsInv
  <2>6. CASE \E e \in Emails : Account!LinkBegins(r, e) \/ Account!RemoveLocks(r, e)
    BY <2>6, AccountLinkBeginsInv, AccountRemoveLocksInv
  <2>7. CASE Account!LinkLocks(r) \/ Account!LinkReplaces(r) \/ Account!LinkCommits(r)
    BY <2>7, AccountLinkLocksInv, AccountReplacesInv, AccountLinkCommitsInv
  <2>8. CASE Account!RemoveCounts(r) \/ Account!RemoveReplaces(r) \/ Account!RemoveCommits(r)
    BY <2>8, AccountRemoveCountsInv, AccountReplacesInv, AccountRemoveCommitsInv
  <2>9. CASE (\E t \in tenants : Account!DropLocks(r, t)) \/ Account!DropCommits(r)
    BY <2>9, AccountDropLocksInv, AccountDropCommitsInv
  <2>. QED  BY <1>4, <2>1, <2>2, <2>3, <2>4, <2>5, <2>6, <2>7, <2>8, <2>9 DEF Account!Handles
<1>. QED  BY <1>1, <1>2, <1>3, <1>4 DEF Account!Next

\* The invariant types the variables.
LEMMA AccountInvTypes == AccountInv => Account!TypeOK
<1>. SUFFICES ASSUME AccountInv PROVE Account!TypeOK  OBVIOUS
<1>1. \A i \in Account!Invites : invites[i].st \in AccountStates
  BY DEF AccountInv, AccountTypes, AccountInvite
<1>2. \A r \in AccountRequests : tx[r].rows \subseteq Account!Invites /\ tx[r].tenant \in {0} \cup Account!Tenants
  BY DEF AccountInv, AccountTypes, AccountTransaction
<1>. QED
  BY <1>1, <1>2
    DEF AccountInv, AccountTypes, AccountData, AccountUsersKnown, Account!TypeOK, AccountStates

\* A set whose elements are equal counts one at most.
LEMMA AccountAtMostOne == ASSUME NEW S, \A x, y \in S : x = y PROVE Cardinality(S) <= 1
<1>1. CASE S = {}  BY <1>1, FS_EmptySet
<1>2. CASE S # {}
  <2>1. PICK x \in S : S = {x}  BY <1>2
  <2>. QED  BY <2>1, FS_Singleton
<1>. QED  BY <1>1, <1>2

\* The invariant is more than what users rely on.
LEMMA AccountInvAgree == AccountInv => Account!AccountsAgree
<1>. SUFFICES ASSUME AccountInv PROVE Account!AccountsAgree  OBVIOUS
<1>1. Account!OneAdmin
  <2>1. \A x, y \in admins : x = y  BY DEF AccountInv, AccountData, AccountBeginning
  <2>. QED  BY <2>1, AccountAtMostOne, AccountCardinality DEF Account!OneAdmin
<1>2. Account!OnePendingSignup
  <2>. SUFFICES ASSUME NEW e \in Emails PROVE Cardinality(Account!Pending(e, Account!Signup, {"pending"})) <= 1
    BY AccountCardinality DEF Account!OnePendingSignup
  <2>1. \A x, y \in Account!Pending(e, Account!Signup, {"pending"}) : x = y
    BY DEF AccountInv, AccountData, AccountOneOpen, AccountOpenSignup, Account!Pending
  <2>. QED  BY <2>1, AccountAtMostOne
<1>3. Account!UsedOnce  BY DEF AccountInv, AccountData, AccountInvitesAgree, Account!UsedOnce
<1>4. Account!LinksHaveUsers
  BY DEF AccountInv, AccountData, AccountInvitesAgree, Account!LinksHaveUsers, Account!Pending
<1>. QED  BY <1>1, <1>2, <1>3, <1>4 DEF Account!AccountsAgree

\* A user goes only while his workspace is locked and has another member.
LEMMA AccountInvStay == ASSUME AccountInv, [Account!Next]_(Account!vars) PROVE Account!UsersStay
<1>. SUFFICES ASSUME NEW t \in tenants, t \in tenants', NEW e \in Emails, users[e].tenant = t
              PROVE  \E m \in Emails : users'[m].tenant = t
  BY DEF Account!UsersStay, Account!Members
<1>1. t # 0  BY DEF AccountInv, AccountTypes, Account!Tenants
<1>2. ASSUME NEW r \in AccountRequests, Account!RemoveCommits(r) PROVE \E m \in Emails : users'[m].tenant = t
  <2>1. /\ users' = [users EXCEPT ![tx[r].of] = IF @ = tx[r].user THEN Account!NoUser ELSE @]
        /\ tx[r].tenant = tx[r].user.tenant
        /\ \E m \in Emails : m # tx[r].of /\ users[m].tenant = tx[r].tenant
    BY <1>2
      DEF Account!RemoveCommits, Account!At, AccountInv, AccountCalls, AccountHolds,
          AccountSeesUsers
  <2>2. CASE users'[e] = users[e]  BY <2>2
  <2>3. CASE users'[e] # users[e]
    <3>1. tx[r].tenant = t  BY <2>1, <2>3 DEF AccountInv, AccountTypes
    <3>. QED  BY <2>1, <3>1 DEF AccountInv, AccountTypes
  <2>. QED  BY <2>2, <2>3
<1>3. ASSUME NEW r \in AccountRequests, Account!AcceptCommits(r) PROVE \E m \in Emails : users'[m].tenant = t
  <2>1. UNCHANGED users \/ \E user : users' = [users EXCEPT ![tx[r].of] = user] /\ users[tx[r].of] = Account!NoUser
    BY <1>3 DEF Account!AcceptCommits, Account!Joins
  <2>2. users'[e] = users[e]  BY <1>1, <2>1, AccountValues DEF AccountInv, AccountTypes
  <2>. QED  BY <2>2
<1>4. ASSUME NEW r \in AccountRequests, Account!DropCommits(r) PROVE \E m \in Emails : users'[m].tenant = t
  BY <1>4 DEF Account!DropCommits
<1>5. CASE UNCHANGED users  BY <1>5
<1>6. \/ UNCHANGED users
      \/ \E r \in AccountRequests : Account!RemoveCommits(r) \/ Account!AcceptCommits(r) \/ Account!DropCommits(r)
  BY AccountCardinality
    DEF Account!Next, Account!Handles, Account!vars, Account!Expires, Account!RollsBack,
        Account!BootstrapCounts, Account!BootstrapCommits, Account!InviteBegins,
         Account!InviteLocks, Account!InviteReplaces, Account!InviteCommits, Account!Finds, Account!Consumes, Account!ResetCommits, Account!LinkBegins,
         Account!RemoveLocks, Account!LinkLocks, Account!LinkReplaces, Account!LinkCommits, Account!RemoveCounts, Account!RemoveReplaces, Account!DropLocks
<1>. QED  BY <1>2, <1>3, <1>4, <1>5, <1>6

----------------------------------------------------------------------------
\* API keys (ApiKeys).
\* Cardinality is that of FiniteSets.
LEMMA KeyCardinality == \A S : ApiKey!Cardinality(S) = Cardinality(S)
BY DEF Cardinality, ApiKey!Cardinality

KeyPc == {"idle", "revoke", "rotate", "insert", "touch", "ended"}
KeyRow == [st: {"absent", "active", "revoked"}, lastUsed: Int,
           revokedBy: {"nobody", "revoke", "rotate"}, parent: Nat]
KeyCall == [pc: KeyPc, key: Nat, at: Nat]

KeyTypes ==
    /\ hour \in 0..MaxHour
    /\ keys \in [ApiKey!Keys -> KeyRow]
    /\ keyReq \in [KeyRequests -> KeyCall]

\* What a request has read is a key, that stays there, and in the past.
KeyCallsKnow ==
    \A r \in KeyRequests :
      /\ keyReq[r].pc \in {"revoke", "rotate", "insert", "touch"}
           => keyReq[r].key \in ApiKey!Keys /\ keys[keyReq[r].key].st # "absent"
      /\ keyReq[r].key \in {0} \cup ApiKey!Keys /\ keyReq[r].at <= hour

\* A key that is not there has no history, and only a revoked one was revoked.
KeyRowsAgree ==
    \A k \in ApiKey!Keys :
      /\ keys[k].lastUsed \in {ApiKey!Never} \cup 0..hour
      /\ keys[k].st = "absent" => keys[k].parent = 0 /\ keys[k].lastUsed = ApiKey!Never
      /\ keys[k].revokedBy # "nobody" => keys[k].st = "revoked"

\* A rotation past its UPDATE holds the lock of an active key, alone.
KeyInsertHoldsRow ==
    \A r \in KeyRequests : ApiKey!At(r, "insert") =>
      /\ keys[keyReq[r].key].st = "active"
      /\ \A s \in KeyRequests : ApiKey!At(s, "insert") /\ keyReq[s].key = keyReq[r].key => s = r

\* RotatedOnce without counting.
KeySuccessors(k) == {s \in ApiKey!Keys : keys[s].parent = k}
KeyOneSuccessor ==
    \A k \in ApiKey!Keys :
      IF keys[k].revokedBy = "rotate" THEN \E s \in ApiKey!Keys : KeySuccessors(k) = {s} ELSE KeySuccessors(k) = {}

KeyInv == KeyTypes /\ KeyCallsKnow /\ KeyRowsAgree /\ KeyInsertHoldsRow /\ KeyOneSuccessor

\* The rows and requests that the statements write.
LEMMA KeyValues ==
  /\ ApiKey!Absent \in KeyRow /\ ApiKey!Absent.st = "absent" /\ ApiKey!Absent.lastUsed = ApiKey!Never
  /\ ApiKey!Absent.revokedBy = "nobody" /\ ApiKey!Absent.parent = 0
  /\ \A k \in Nat : /\ ApiKey!Active(k) \in KeyRow /\ ApiKey!Active(k).st = "active" /\ ApiKey!Active(k).lastUsed = ApiKey!Never
                    /\ ApiKey!Active(k).revokedBy = "nobody" /\ ApiKey!Active(k).parent = k
  /\ ApiKey!Idle \in KeyCall /\ ApiKey!Idle.pc = "idle" /\ ApiKey!Idle.key = 0 /\ ApiKey!Idle.at = 0
<1>1. /\ ApiKey!Absent \in KeyRow /\ ApiKey!Absent.st = "absent" /\ ApiKey!Absent.lastUsed = ApiKey!Never
      /\ ApiKey!Absent.revokedBy = "nobody" /\ ApiKey!Absent.parent = 0
  BY DEF ApiKey!Absent, KeyRow, ApiKey!Never
<1>2. ASSUME NEW k \in Nat
      PROVE  /\ ApiKey!Active(k) \in KeyRow /\ ApiKey!Active(k).st = "active" /\ ApiKey!Active(k).lastUsed = ApiKey!Never
             /\ ApiKey!Active(k).revokedBy = "nobody" /\ ApiKey!Active(k).parent = k
  BY <1>1 DEF ApiKey!Active, KeyRow
<1>3. ApiKey!Idle \in KeyCall /\ ApiKey!Idle.pc = "idle" /\ ApiKey!Idle.key = 0 /\ ApiKey!Idle.at = 0
  BY DEF ApiKey!Idle, KeyCall, KeyPc
<1>. QED  BY <1>1, <1>2, <1>3

\* At the start there is no key.
LEMMA KeyInitInv == ApiKey!Init => KeyInv
<1>. SUFFICES ASSUME ApiKey!Init PROVE KeyInv  OBVIOUS
<1>1. KeyTypes  BY KeyValues, KeyAssumption DEF ApiKey!Init, KeyTypes
<1>2. \A k \in ApiKey!Keys : keys[k] = ApiKey!Active(0) \/ keys[k] = ApiKey!Absent
  BY DEF ApiKey!Init
<1>3. \A r \in KeyRequests : keyReq[r] = ApiKey!Idle  BY DEF ApiKey!Init
<1>4. KeyCallsKnow  BY <1>3, KeyValues DEF ApiKey!Init, KeyCallsKnow
<1>5. KeyRowsAgree  BY <1>2, KeyValues DEF KeyRowsAgree
<1>6. KeyInsertHoldsRow  BY <1>3, KeyValues DEF KeyInsertHoldsRow, ApiKey!At
<1>7. KeyOneSuccessor
  <2>1. \A k \in ApiKey!Keys : keys[k].revokedBy = "nobody" /\ keys[k].parent = 0 /\ k # 0
    BY <1>2, KeyValues DEF ApiKey!Keys
  <2>. QED  BY <2>1 DEF KeyOneSuccessor, KeySuccessors
<1>. QED  BY <1>1, <1>4, <1>5, <1>6, <1>7 DEF KeyInv

\* The key that an INSERT makes was not there.
LEMMA KeyNextKeyIsNew == ApiKey!Room => ApiKey!NextKey \in ApiKey!Keys /\ keys[ApiKey!NextKey].st = "absent"
BY DEF ApiKey!Room, ApiKey!NextKey

\* Request r becomes c.
KeyBecomes(r, c) ==
    /\ c \in KeyCall /\ keyReq' \in [KeyRequests -> KeyCall] /\ keyReq'[r] = c
    /\ \A s \in KeyRequests : s # r => keyReq'[s] = keyReq[s]

\* A request that ends knows nothing more.
LEMMA KeyEndsBecomes ==
  ASSUME KeyTypes, NEW r \in KeyRequests, ApiKey!Ends(r)
  PROVE  \E c \in KeyCall : KeyBecomes(r, c) /\ c.pc = "ended" /\ c.key = keyReq[r].key /\ c.at = keyReq[r].at
<1>. DEFINE c == [keyReq[r] EXCEPT !.pc = "ended"]
<1>1. keyReq[r] \in KeyCall  BY DEF KeyTypes
<1>2. keyReq' = [keyReq EXCEPT ![r] = c]  BY DEF ApiKey!Ends
<1>3. c \in KeyCall /\ c.pc = "ended" /\ c.key = keyReq[r].key /\ c.at = keyReq[r].at
  BY <1>1 DEF KeyCall, KeyPc
<1>. HIDE DEF c
<1>4. KeyBecomes(r, c)  BY <1>2, <1>3 DEF KeyBecomes, KeyTypes
<1>. QED  BY <1>3, <1>4

\* A step of a request that leaves the keys alone.
LEMMA KeyOnlyRequest ==
  ASSUME KeyInv, UNCHANGED <<keys, hour>>, NEW r \in KeyRequests, NEW c \in KeyCall, KeyBecomes(r, c),
         c.key \in {0} \cup ApiKey!Keys, c.at <= hour,
         c.pc \in {"revoke", "rotate", "insert", "touch"} => c.key \in ApiKey!Keys /\ keys[c.key].st # "absent",
         c.pc = "insert" => ApiKey!RowFree(c.key) /\ keys[c.key].st = "active"
  PROVE  KeyInv'
<1>1. KeyTypes'  BY DEF KeyInv, KeyTypes, KeyBecomes
<1>2. KeyCallsKnow'  BY DEF KeyInv, KeyCallsKnow, KeyBecomes
<1>3. KeyRowsAgree' /\ KeyOneSuccessor'
  <2>1. KeySuccessors(1)' = KeySuccessors(1) /\ \A k : KeySuccessors(k)' = KeySuccessors(k)
    BY DEF KeySuccessors
  <2>. QED  BY <2>1 DEF KeyInv, KeyRowsAgree, KeyOneSuccessor, KeySuccessors
<1>4. KeyInsertHoldsRow'  BY DEF KeyInv, KeyInsertHoldsRow, KeyBecomes, ApiKey!RowFree, ApiKey!At
<1>. QED  BY <1>1, <1>2, <1>3, <1>4 DEF KeyInv

\* A step that ends a request and writes the row of one key.
LEMMA KeyOneRow ==
  ASSUME KeyInv, UNCHANGED hour, NEW r \in KeyRequests, ApiKey!Ends(r), NEW k \in ApiKey!Keys, NEW row \in KeyRow,
         keys' = [keys EXCEPT ![k] = row], ApiKey!RowFree(k) \/ keys[k].st = "absent",
         row.parent = keys[k].parent,
         row.revokedBy = "rotate" <=> keys[k].revokedBy = "rotate",
         row.lastUsed \in {ApiKey!Never} \cup 0..hour, row.st # "absent",
         row.revokedBy # "nobody" => row.st = "revoked"
  PROVE  KeyInv'
<1>1. PICK c \in KeyCall : KeyBecomes(r, c) /\ c.pc = "ended" /\ c.key = keyReq[r].key /\ c.at = keyReq[r].at
  BY KeyEndsBecomes DEF KeyInv
<1>2. keys' \in [ApiKey!Keys -> KeyRow] /\ keys'[k] = row /\ \A j \in ApiKey!Keys : j # k => keys'[j] = keys[j]
  BY DEF KeyInv, KeyTypes
<1>3. KeyTypes'  BY <1>1, <1>2 DEF KeyInv, KeyTypes, KeyBecomes
<1>4. KeyCallsKnow'  BY <1>1, <1>2 DEF KeyInv, KeyCallsKnow, KeyBecomes
<1>5. KeyRowsAgree'  BY <1>2 DEF KeyInv, KeyRowsAgree
<1>6. KeyInsertHoldsRow'
  BY <1>1, <1>2 DEF KeyInv, KeyInsertHoldsRow, KeyCallsKnow, KeyBecomes, ApiKey!RowFree, ApiKey!At
<1>7. KeyOneSuccessor'
  <2>1. \A j \in ApiKey!Keys : keys'[j].parent = keys[j].parent  BY <1>2
  <2>2. \A j : KeySuccessors(j)' = KeySuccessors(j)  BY <2>1 DEF KeySuccessors
  <2>. QED  BY <1>2, <2>2 DEF KeyInv, KeyOneSuccessor
<1>. QED  BY <1>3, <1>4, <1>5, <1>6, <1>7 DEF KeyInv

\* A new key has no parent.
LEMMA KeyCreatesInv == ASSUME KeyInv, NEW r \in KeyRequests, ApiKey!Creates(r) PROVE KeyInv'
<1>1. ApiKey!NextKey \in ApiKey!Keys /\ keys[ApiKey!NextKey].st = "absent"
  BY KeyNextKeyIsNew DEF ApiKey!Creates
<1>2. keys[ApiKey!NextKey].parent = 0 /\ keys[ApiKey!NextKey].revokedBy # "rotate"
  BY <1>1 DEF KeyInv, KeyRowsAgree
<1>. QED  BY <1>1, <1>2, KeyValues, KeyOneRow DEF ApiKey!Creates

\* A request reads the row of an active key.
LEMMA KeyReadsInv ==
  ASSUME KeyInv, NEW r \in KeyRequests, NEW k \in ApiKey!Keys, NEW what \in {"revoke", "rotate"}, ApiKey!Reads(r, k, what)
  PROVE  KeyInv'
<1>1. CASE ApiKey!Ends(r) /\ UNCHANGED <<keys, hour>>
  <2>1. PICK c \in KeyCall : KeyBecomes(r, c) /\ c.pc = "ended" /\ c.key = keyReq[r].key /\ c.at = keyReq[r].at
    BY <1>1, KeyEndsBecomes DEF KeyInv
  <2>. QED  BY <1>1, <2>1, KeyOnlyRequest DEF KeyInv, KeyCallsKnow
<1>2. CASE keys[k].st = "active"
  <2>. DEFINE c == [ApiKey!Idle EXCEPT !.pc = what, !.key = k]
  <2>1. keyReq' = [keyReq EXCEPT ![r] = c] /\ UNCHANGED <<keys, hour>>  BY <1>2 DEF ApiKey!Reads
  <2>2. what \in KeyPc /\ k \in Nat  BY DEF KeyPc, ApiKey!Keys
  <2>5. c \in KeyCall /\ c.pc = what /\ c.key = k /\ c.at = 0  BY <2>2, KeyValues DEF KeyCall
  <2>. HIDE DEF c
  <2>3. KeyBecomes(r, c)  BY <2>1, <2>5 DEF KeyBecomes, KeyInv, KeyTypes
  <2>4. 0 <= hour  BY DEF KeyInv, KeyTypes
  <2>. QED  BY <1>2, <2>1, <2>5, <2>3, <2>4, KeyOnlyRequest
<1>. QED  BY <1>1, <1>2 DEF ApiKey!Reads

\* A rotation revokes the key it holds; until it commits nobody else does.
LEMMA KeyRotatesInv == ASSUME KeyInv, NEW r \in KeyRequests, ApiKey!Rotates(r) PROVE KeyInv'
<1>1. CASE ApiKey!Ends(r)
  <2>1. PICK c \in KeyCall : KeyBecomes(r, c) /\ c.pc = "ended" /\ c.key = keyReq[r].key /\ c.at = keyReq[r].at
    BY <1>1, KeyEndsBecomes DEF KeyInv
  <2>. QED  BY <2>1, KeyOnlyRequest DEF ApiKey!Rotates, KeyInv, KeyCallsKnow
<1>2. CASE ApiKey!StillActive(keyReq[r].key)
  <2>. DEFINE c == [keyReq[r] EXCEPT !.pc = "insert"]
  <2>1. keyReq' = [keyReq EXCEPT ![r] = c] /\ UNCHANGED <<keys, hour>> /\ ApiKey!RowFree(keyReq[r].key)
    BY <1>2 DEF ApiKey!Rotates
  <2>2. keyReq[r] \in KeyCall /\ keyReq[r].key \in ApiKey!Keys /\ keyReq[r].at <= hour
    BY DEF ApiKey!Rotates, ApiKey!At, KeyInv, KeyCallsKnow, KeyTypes
  <2>3. c \in KeyCall /\ c.pc = "insert" /\ c.key = keyReq[r].key /\ c.at = keyReq[r].at
    BY <2>2 DEF KeyCall, KeyPc
  <2>. HIDE DEF c
  <2>4. KeyBecomes(r, c)  BY <2>1, <2>3 DEF KeyBecomes, KeyInv, KeyTypes
  <2>. QED  BY <1>2, <2>1, <2>2, <2>3, <2>4, KeyOnlyRequest DEF ApiKey!StillActive
<1>. QED  BY <1>1, <1>2 DEF ApiKey!Rotates

\* A revocation leaves the key without a successor.
LEMMA KeyRevokesInv == ASSUME KeyInv, NEW r \in KeyRequests, ApiKey!Revokes(r) PROVE KeyInv'
<1>1. keyReq[r] \in KeyCall /\ keyReq[r].key \in ApiKey!Keys /\ keyReq[r].at <= hour
  BY DEF ApiKey!Revokes, ApiKey!At, KeyInv, KeyCallsKnow, KeyTypes
<1>2. CASE ~ApiKey!StillActive(keyReq[r].key)
  <2>1. PICK c \in KeyCall : KeyBecomes(r, c) /\ c.pc = "ended" /\ c.key = keyReq[r].key /\ c.at = keyReq[r].at
    BY KeyEndsBecomes DEF KeyInv, ApiKey!Revokes
  <2>. QED  BY <1>1, <1>2, <2>1, KeyOnlyRequest DEF ApiKey!Revokes
<1>3. CASE ApiKey!StillActive(keyReq[r].key)
  <2>. DEFINE k == keyReq[r].key
              row == [keys[k] EXCEPT !.st = "revoked", !.revokedBy = "revoke"]
  <2>1. keys[k] \in KeyRow  BY <1>1 DEF KeyInv, KeyTypes
  <2>2. keys' = [keys EXCEPT ![k] = row]  BY <1>3, <2>1 DEF ApiKey!Revokes, KeyInv, KeyTypes
  <2>3. /\ row \in KeyRow /\ row.st = "revoked" /\ row.revokedBy = "revoke"
        /\ row.parent = keys[k].parent /\ row.lastUsed = keys[k].lastUsed
    BY <2>1 DEF KeyRow
  <2>4. keys[k].revokedBy # "rotate" /\ keys[k].lastUsed \in {ApiKey!Never} \cup 0..hour
    BY <1>1, <1>3 DEF KeyInv, KeyRowsAgree, ApiKey!StillActive
  <2>. HIDE DEF row
  <2>. QED  BY <1>1, <2>2, <2>3, <2>4, KeyOneRow DEF ApiKey!Revokes
<1>. QED  BY <1>2, <1>3

\* The UPDATE and the INSERT of a rotation: the new key is the one successor of the old.
LEMMA KeyCommitsInv == ASSUME KeyInv, NEW r \in KeyRequests, ApiKey!Commits(r) PROVE KeyInv'
<1>. DEFINE k == keyReq[r].key
            new == ApiKey!NextKey
            row == [keys[k] EXCEPT !.st = "revoked", !.revokedBy = "rotate"]
<1>1. k \in ApiKey!Keys /\ keys[k] \in KeyRow /\ keys[k].st = "active" /\ UNCHANGED hour
  BY DEF ApiKey!Commits, ApiKey!At, KeyInv, KeyCallsKnow, KeyTypes, KeyInsertHoldsRow
<1>2. new \in ApiKey!Keys /\ keys[new].st = "absent" /\ new # k
  BY <1>1, KeyNextKeyIsNew DEF ApiKey!Commits
<1>3. row \in KeyRow /\ row.st = "revoked" /\ row.revokedBy = "rotate" /\ row.parent = keys[k].parent
      /\ row.lastUsed = keys[k].lastUsed
  BY <1>1 DEF KeyRow
<1>4. k \in Nat \ {0}  BY <1>1 DEF ApiKey!Keys
<1>5. /\ keys' \in [ApiKey!Keys -> KeyRow] /\ keys'[k] = row /\ keys'[new] = ApiKey!Active(k)
      /\ \A j \in ApiKey!Keys : j # k /\ j # new => keys'[j] = keys[j]
  <2>1. keys' = [[keys EXCEPT ![k] = row] EXCEPT ![new] = ApiKey!Active(k)]
    BY <1>1 DEF ApiKey!Commits, KeyInv, KeyTypes
  <2>. HIDE DEF row
  <2>. QED  BY <1>1, <1>2, <1>3, <1>4, <2>1, KeyValues DEF KeyInv, KeyTypes
<1>6. PICK c \in KeyCall : KeyBecomes(r, c) /\ c.pc = "ended" /\ c.key = keyReq[r].key /\ c.at = keyReq[r].at
  BY KeyEndsBecomes DEF KeyInv, ApiKey!Commits
<1>. HIDE DEF row, new, k
<1>7. KeyTypes'  BY <1>1, <1>5, <1>6 DEF KeyInv, KeyTypes, KeyBecomes
<1>8. KeyCallsKnow'
  <2>1. \A j \in ApiKey!Keys : keys[j].st # "absent" => keys'[j].st # "absent"
    BY <1>2, <1>3, <1>5
  <2>. QED  BY <1>1, <1>6, <2>1 DEF KeyInv, KeyCallsKnow, KeyBecomes
<1>9. KeyRowsAgree'  BY <1>1, <1>2, <1>3, <1>4, <1>5, KeyValues DEF KeyInv, KeyRowsAgree
<1>10. KeyInsertHoldsRow'
  <2>. SUFFICES ASSUME NEW s \in KeyRequests, ApiKey!At(s, "insert")'
                PROVE  /\ keys'[keyReq'[s].key].st = "active"
                       /\ \A t \in KeyRequests : ApiKey!At(t, "insert")' /\ keyReq'[t].key = keyReq'[s].key => t = s
    BY DEF KeyInsertHoldsRow
  <2>1. s # r /\ keyReq'[s] = keyReq[s] /\ ApiKey!At(s, "insert")
    BY <1>6 DEF KeyBecomes, ApiKey!At
  <2>2. ApiKey!At(r, "insert") /\ keyReq[r].key = k  BY DEF ApiKey!Commits, k
  <2>3. keyReq[s].key # k /\ keys[keyReq[s].key].st = "active" /\ keyReq[s].key \in ApiKey!Keys
    BY <2>1, <2>2 DEF KeyInv, KeyInsertHoldsRow, KeyCallsKnow, ApiKey!At
  <2>4. keys'[keyReq[s].key] = keys[keyReq[s].key]  BY <1>2, <1>5, <2>3
  <2>5. \A t \in KeyRequests : ApiKey!At(t, "insert")' => t # r /\ keyReq'[t] = keyReq[t] /\ ApiKey!At(t, "insert")
    BY <1>6 DEF KeyBecomes, ApiKey!At
  <2>. QED  BY <2>1, <2>3, <2>4, <2>5 DEF KeyInv, KeyInsertHoldsRow
<1>11. KeyOneSuccessor'
  <2>. DEFINE After(j) == {s \in ApiKey!Keys : keys'[s].parent = j}
  <2>1. keys[new].parent = 0 /\ keys[new].revokedBy = "nobody"  BY <1>2 DEF KeyInv, KeyRowsAgree
  <2>2. keys[k].revokedBy = "nobody" /\ KeySuccessors(k) = {}
    BY <1>1 DEF KeyInv, KeyRowsAgree, KeyOneSuccessor
  <2>3. \A s \in ApiKey!Keys : keys'[s].parent = IF s = new THEN k ELSE keys[s].parent
    BY <1>1, <1>2, <1>3, <1>4, <1>5, KeyValues
  <2>4. After(k) = {new}  BY <1>2, <2>2, <2>3 DEF KeySuccessors
  <2>5. \A j \in ApiKey!Keys : j # k => After(j) = KeySuccessors(j)
    <3>1. \A j \in ApiKey!Keys : j # 0  BY DEF ApiKey!Keys
    <3>. QED  BY <1>2, <2>1, <2>3, <3>1 DEF KeySuccessors
  <2>6. \A j \in ApiKey!Keys : keys'[j].revokedBy = IF j = k THEN "rotate" ELSE keys[j].revokedBy
    BY <1>2, <1>3, <1>4, <1>5, <2>1, KeyValues
  <2>7. \A j \in ApiKey!Keys : IF keys'[j].revokedBy = "rotate" THEN \E s \in ApiKey!Keys : After(j) = {s} ELSE After(j) = {}
    BY <1>2, <2>4, <2>5, <2>6 DEF KeyInv, KeyOneSuccessor
  <2>. QED  BY <2>7 DEF KeyOneSuccessor, KeySuccessors
<1>. QED  BY <1>7, <1>8, <1>9, <1>10, <1>11 DEF KeyInv

\* A request is authenticated by a key it has read at this hour.
LEMMA KeyAuthenticatesInv ==
  ASSUME KeyInv, NEW r \in KeyRequests, NEW k \in ApiKey!Keys, ApiKey!Authenticates(r, k) PROVE KeyInv'
<1>1. CASE ApiKey!Ends(r)
  <2>1. PICK c \in KeyCall : KeyBecomes(r, c) /\ c.pc = "ended" /\ c.key = keyReq[r].key /\ c.at = keyReq[r].at
    BY <1>1, KeyEndsBecomes DEF KeyInv
  <2>. QED  BY <2>1, KeyOnlyRequest DEF ApiKey!Authenticates, KeyInv, KeyCallsKnow
<1>2. CASE keys[k].st = "active" /\ keyReq' = [keyReq EXCEPT ![r] = [pc |-> "touch", key |-> k, at |-> hour]]
  <2>. DEFINE c == [pc |-> "touch", key |-> k, at |-> hour]
  <2>1. hour \in Nat /\ k \in Nat  BY DEF KeyInv, KeyTypes, ApiKey!Keys
  <2>2. c \in KeyCall  BY <2>1 DEF KeyCall, KeyPc
  <2>3. c.pc = "touch" /\ c.key = k /\ c.at = hour  OBVIOUS
  <2>4. keyReq' = [keyReq EXCEPT ![r] = c]  BY <1>2
  <2>. HIDE DEF c
  <2>5. KeyBecomes(r, c)  BY <2>2, <2>4 DEF KeyBecomes, KeyInv, KeyTypes
  <2>. QED  BY <1>2, <2>1, <2>2, <2>3, <2>5, KeyOnlyRequest DEF ApiKey!Authenticates
<1>. QED  BY <1>1, <1>2 DEF ApiKey!Authenticates

\* last_used_at moves forward by more than the interval.
LEMMA KeyTouchesInv == ASSUME KeyInv, NEW r \in KeyRequests, ApiKey!Touches(r) PROVE KeyInv'
<1>1. /\ keyReq[r] \in KeyCall /\ keyReq[r].key \in ApiKey!Keys /\ keyReq[r].at <= hour /\ keyReq[r].at \in Nat
      /\ keys[keyReq[r].key].st # "absent"
      /\ hour \in Nat /\ UNCHANGED hour /\ ApiKey!Ends(r) /\ ApiKey!RowFree(keyReq[r].key)
  BY DEF ApiKey!Touches, ApiKey!At, KeyInv, KeyCallsKnow, KeyTypes, KeyCall
<1>2. CASE UNCHANGED keys
  <2>1. PICK c \in KeyCall : KeyBecomes(r, c) /\ c.pc = "ended" /\ c.key = keyReq[r].key /\ c.at = keyReq[r].at
    BY <1>1, KeyEndsBecomes DEF KeyInv
  <2>. QED  BY <1>1, <1>2, <2>1, KeyOnlyRequest
<1>3. CASE keys' # keys
  <2>. DEFINE k == keyReq[r].key
              row == [keys[k] EXCEPT !.lastUsed = keyReq[r].at]
  <2>1. keys[k] \in KeyRow  BY <1>1 DEF KeyInv, KeyTypes
  <2>2. keys' = [keys EXCEPT ![k] = row]  BY <1>3, <2>1 DEF ApiKey!Touches, KeyInv, KeyTypes
  <2>3. /\ row \in KeyRow /\ row.st = keys[k].st /\ row.revokedBy = keys[k].revokedBy
        /\ row.parent = keys[k].parent /\ row.lastUsed = keyReq[r].at
    BY <1>1, <2>1 DEF KeyRow
  <2>4. keys[k].revokedBy # "nobody" => keys[k].st = "revoked"  BY <1>1 DEF KeyInv, KeyRowsAgree
  <2>5. row.lastUsed \in {ApiKey!Never} \cup 0..hour  BY <1>1, <2>3
  <2>6. k \in ApiKey!Keys /\ ApiKey!RowFree(k) /\ UNCHANGED hour /\ ApiKey!Ends(r) /\ row.st # "absent"
    BY <1>1, <2>3
  <2>. HIDE DEF row, k
  <2>7. row.revokedBy = "rotate" <=> keys[k].revokedBy = "rotate"  BY <2>3
  <2>8. row.revokedBy # "nobody" => row.st = "revoked"  BY <2>3, <2>4
  <2>. QED  BY <2>2, <2>3, <2>5, <2>6, <2>7, <2>8, KeyOneRow
<1>. QED  BY <1>2, <1>3

\* A request that fails after its update rolls it back.
LEMMA KeyFailsInv == ASSUME KeyInv, NEW r \in KeyRequests, ApiKey!Fails(r) PROVE KeyInv'
<1>1. PICK c \in KeyCall : KeyBecomes(r, c) /\ c.pc = "ended" /\ c.key = keyReq[r].key /\ c.at = keyReq[r].at
  BY KeyEndsBecomes DEF KeyInv, ApiKey!Fails
<1>. QED  BY <1>1, KeyOnlyRequest DEF ApiKey!Fails, KeyInv, KeyCallsKnow

\* Steps that leave the rows alone keep what is said of them.
LEMMA KeyRowsKept ==
  ASSUME KeyInv, UNCHANGED <<keys, keyReq>>, hour' \in 0..MaxHour, hour <= hour'
  PROVE  KeyInv'
<1>1. KeyTypes'  BY DEF KeyInv, KeyTypes
<1>2. KeyCallsKnow'  BY DEF KeyInv, KeyTypes, KeyCallsKnow, KeyCall
<1>3. KeyRowsAgree'  BY DEF KeyInv, KeyRowsAgree, KeyTypes
<1>4. KeyInsertHoldsRow'  BY DEF KeyInv, KeyInsertHoldsRow, ApiKey!At
<1>5. KeyOneSuccessor'  BY DEF KeyInv, KeyOneSuccessor, KeySuccessors
<1>. QED  BY <1>1, <1>2, <1>3, <1>4, <1>5 DEF KeyInv

\* Every step of a request for a key keeps the invariant.
LEMMA KeyStepInv == KeyInv /\ [ApiKey!Next]_(ApiKey!vars) => KeyInv'
<1>. SUFFICES ASSUME KeyInv, [ApiKey!Next]_(ApiKey!vars) PROVE KeyInv'  OBVIOUS
<1>1. CASE UNCHANGED ApiKey!vars  BY <1>1, KeyRowsKept DEF ApiKey!vars, KeyInv, KeyTypes
<1>2. CASE ApiKey!Tick
  <2>1. hour' \in 0..MaxHour /\ hour <= hour' /\ UNCHANGED <<keys, keyReq>>
    BY <1>2, KeyAssumption DEF ApiKey!Tick, KeyInv, KeyTypes
  <2>. QED  BY <2>1, KeyRowsKept
<1>3. ASSUME NEW r \in KeyRequests,
             ApiKey!Creates(r) \/ ApiKey!Revokes(r) \/ ApiKey!Rotates(r) \/ ApiKey!Commits(r) \/ ApiKey!Touches(r) \/ ApiKey!Fails(r)
      PROVE  KeyInv'
  BY <1>3, KeyCreatesInv, KeyRevokesInv, KeyRotatesInv, KeyCommitsInv, KeyTouchesInv, KeyFailsInv
<1>4. ASSUME NEW r \in KeyRequests, NEW k \in ApiKey!Keys,
             ApiKey!Authenticates(r, k) \/ \E what \in {"revoke", "rotate"} : ApiKey!Reads(r, k, what)
      PROVE  KeyInv'
  BY <1>4, KeyAuthenticatesInv, KeyReadsInv
<1>. QED  BY <1>1, <1>2, <1>3, <1>4 DEF ApiKey!Next

\* The invariant types the variables.
LEMMA KeyInvTypes == KeyInv => ApiKey!TypeOK
BY DEF KeyInv, KeyTypes, KeyCallsKnow, KeyRowsAgree, ApiKey!TypeOK, KeyRow, KeyCall

\* A rotated key has its one successor, every other key none.
LEMMA KeyInvCounts == KeyInv => ApiKey!RotatedOnce
<1>. SUFFICES ASSUME KeyInv, NEW k \in ApiKey!Keys
              PROVE  Cardinality({s \in ApiKey!Keys : keys[s].parent = k})
                     = IF keys[k].revokedBy = "rotate" THEN 1 ELSE 0
  BY KeyCardinality DEF ApiKey!RotatedOnce
<1>1. CASE keys[k].revokedBy = "rotate"
  <2>1. PICK s \in ApiKey!Keys : KeySuccessors(k) = {s}  BY <1>1 DEF KeyInv, KeyOneSuccessor
  <2>. QED  BY <1>1, <2>1, FS_Singleton DEF KeySuccessors
<1>2. CASE keys[k].revokedBy # "rotate"
  <2>1. KeySuccessors(k) = {}  BY <1>2 DEF KeyInv, KeyOneSuccessor
  <2>. QED  BY <1>2, <2>1, FS_EmptySet DEF KeySuccessors
<1>. QED  BY <1>1, <1>2

\* A step that touches a key moves its last_used_at by more than the interval.
LEMMA KeyInvTouches == ASSUME KeyInv, [ApiKey!Next]_(ApiKey!vars) PROVE ApiKey!TouchedSparingly
<1>. SUFFICES ASSUME NEW k \in ApiKey!Keys, keys'[k].lastUsed # keys[k].lastUsed
              PROVE  keys'[k].lastUsed > keys[k].lastUsed + Interval
  BY DEF ApiKey!TouchedSparingly
<1>1. keys \in [ApiKey!Keys -> KeyRow] /\ keyReq \in [KeyRequests -> KeyCall]
  BY DEF KeyInv, KeyTypes
<1>2. ASSUME NEW r \in KeyRequests, ApiKey!Creates(r) PROVE FALSE
  <2>1. ApiKey!NextKey \in ApiKey!Keys /\ keys[ApiKey!NextKey].lastUsed = ApiKey!Never
    BY <1>2, KeyNextKeyIsNew DEF ApiKey!Creates, KeyInv, KeyRowsAgree
  <2>. QED  BY <1>1, <1>2, <2>1, KeyValues DEF ApiKey!Creates
<1>3. ASSUME NEW r \in KeyRequests, ApiKey!Revokes(r) PROVE FALSE
  BY <1>1, <1>3 DEF ApiKey!Revokes, KeyRow
<1>4. ASSUME NEW r \in KeyRequests, ApiKey!Commits(r) PROVE FALSE
  <2>1. ApiKey!NextKey \in ApiKey!Keys /\ keys[ApiKey!NextKey].lastUsed = ApiKey!Never
    BY <1>4, KeyNextKeyIsNew DEF ApiKey!Commits, KeyInv, KeyRowsAgree
  <2>2. keyReq[r].key \in ApiKey!Keys /\ keyReq[r].key \in Nat
    BY <1>4 DEF ApiKey!Commits, ApiKey!At, KeyInv, KeyCallsKnow, ApiKey!Keys
  <2>. DEFINE j == keyReq[r].key
              new == ApiKey!NextKey
              row == [keys[j] EXCEPT !.st = "revoked", !.revokedBy = "rotate"]
  <2>3. keys' = [[keys EXCEPT ![j] = row] EXCEPT ![new] = ApiKey!Active(j)]
    BY <1>1, <1>4, <2>2 DEF ApiKey!Commits, KeyRow
  <2>4. row.lastUsed = keys[j].lastUsed  BY <1>1, <2>2 DEF KeyRow
  <2>. HIDE DEF row, new
  <2>5. keys'[new].lastUsed = ApiKey!Never  BY <1>1, <2>1, <2>2, <2>3, KeyValues DEF new
  <2>. QED  BY <1>1, <2>1, <2>2, <2>3, <2>4, <2>5 DEF new
<1>5. ASSUME NEW r \in KeyRequests, ApiKey!Touches(r)
      PROVE  keys'[k].lastUsed > keys[k].lastUsed + Interval
  <2>1. keyReq[r].key \in ApiKey!Keys /\ keyReq[r].at \in Int
    BY <1>1, <1>5 DEF ApiKey!Touches, ApiKey!At, KeyInv, KeyCallsKnow, KeyCall
  <2>2. /\ k = keyReq[r].key /\ ApiKey!Due(keys[k].lastUsed, keyReq[r].at)
        /\ keys'[k].lastUsed = keyReq[r].at
    BY <1>1, <1>5, <2>1 DEF ApiKey!Touches, KeyRow
  <2>3. keys[k].lastUsed \in Int  BY <1>1 DEF KeyRow
  <2>. QED  BY <2>1, <2>2, <2>3, KeyAssumption DEF ApiKey!Due
<1>6. CASE UNCHANGED keys  BY <1>6
<1>7. \/ \E r \in KeyRequests : ApiKey!Creates(r) \/ ApiKey!Revokes(r) \/ ApiKey!Commits(r) \/ ApiKey!Touches(r)
      \/ UNCHANGED keys
  BY
    DEF ApiKey!Next, ApiKey!vars, ApiKey!Rotates, ApiKey!Fails, ApiKey!Authenticates,
        ApiKey!Reads, ApiKey!Tick
<1>. QED  BY <1>2, <1>3, <1>4, <1>5, <1>6, <1>7

----------------------------------------------------------------------------
\* Ingest of events (TenantIngest).
EventInside == {"read", "insert"}
EventBehind == {"enqueue", "acknowledge"}

EventPc == {"idle", "read", "insert", "enqueue", "acknowledge", "ended"}
EventCode == {0, 202, 409, 503}
EventRequest == [pc: EventPc, body: Bodies \cup {NoBody}, inserted: BOOLEAN,
                 to: SUBSET Endpoints, jobs: SUBSET Endpoints, code: EventCode]
EventRequestType == eventReq \in [EventRequests -> EventRequest]

EventTypes ==
    /\ Tenant!TypeOK /\ EventRequestType
    /\ watch \in [EventRequests -> SUBSET Endpoints]

\* The index on the key admits one inserting transaction, and none once there is an
\* event; whoever found the event has compared the bodies.
EventOneInserts ==
    \A r \in EventRequests : eventReq[r].pc \in EventInside =>
      /\ eventReq[r].body \in Bodies
      /\ eventReq[r].inserted => /\ event = NoBody
                                 /\ \A s \in EventRequests : eventReq[s].pc \in EventInside => s = r
      /\ ~eventReq[r].inserted => event = eventReq[r].body

\* Past the commit the body is the stored one, and what was watched has a delivery.
EventCommitted ==
    \A r \in EventRequests : eventReq[r].pc \in EventBehind \/ eventReq[r].code = 202 =>
      /\ eventReq[r].body = event /\ event \in Bodies
      /\ \A e \in watch[r] : deliveries[e] # "none"

\* Endpoints that were active all along are active now, and were when they were read.
EventWatched ==
    \A r \in EventRequests :
      /\ eventReq[r].pc \in EventInside \cup EventBehind => watch[r] \subseteq Tenant!Active
      /\ eventReq[r].pc = "insert" => watch[r] \subseteq eventReq[r].to

\* A job is of a delivery that is there, and before it is acknowledged it is in the
\* queue or done.
EventQueuedFirst ==
    \A r \in EventRequests : eventReq[r].pc \in EventBehind => \A e \in eventReq[r].jobs :
      /\ deliveries[e] # "none"
      /\ eventReq[r].pc = "acknowledge" /\ deliveries[e] = "open" => e \in queue

EventInv == EventTypes /\ EventOneInserts /\ EventCommitted /\ EventWatched /\ EventQueuedFirst /\ Tenant!OpenIsKept

\* The members of the two opaque sets that the steps use.
LEMMA EventMembers ==
  /\ "idle" \in EventPc /\ "read" \in EventPc /\ "insert" \in EventPc /\ "enqueue" \in EventPc
  /\ "acknowledge" \in EventPc /\ "ended" \in EventPc
  /\ 0 \in EventCode /\ 202 \in EventCode /\ 409 \in EventCode /\ 503 \in EventCode
BY DEF EventPc, EventCode

\* One request at a time is updated.
EventUpdated(r, q) ==
    /\ q \in EventRequest /\ eventReq' = [eventReq EXCEPT ![r] = q]
    /\ eventReq'[r] = q /\ \A s \in EventRequests : s # r => eventReq'[s] = eventReq[s]

\* An update of one request leaves the others alone.
LEMMA EventUpdateIsUpdated ==
  ASSUME EventRequestType, NEW r \in EventRequests, NEW q \in EventRequest, eventReq' = [eventReq EXCEPT ![r] = q]
  PROVE  EventUpdated(r, q) /\ EventRequestType'
BY DEF EventRequestType, EventUpdated

\* At the start no request has begun.
LEMMA EventInitInv == Tenant!Init => EventInv
<1>. SUFFICES ASSUME Tenant!Init PROVE EventInv  OBVIOUS
<1>1. Tenant!Idle \in EventRequest /\ Tenant!Idle.pc = "idle" /\ Tenant!Idle.code = 0 /\ Tenant!Idle.jobs = {}
  BY EventMembers DEF Tenant!Idle, EventRequest
<1>2. EventRequestType  BY <1>1 DEF Tenant!Init, EventRequestType
<1>3. EventTypes  BY <1>1, <1>2 DEF Tenant!Init, EventTypes, Tenant!TypeOK
<1>4. \A r \in EventRequests : eventReq[r].pc = "idle" /\ eventReq[r].code = 0
  BY <1>1 DEF Tenant!Init
<1>5. EventOneInserts /\ EventCommitted /\ EventWatched /\ EventQueuedFirst
  BY <1>4
    DEF EventOneInserts, EventCommitted, EventWatched, EventQueuedFirst, EventInside, EventBehind
<1>6. Tenant!OpenIsKept  BY DEF Tenant!Init, Tenant!OpenIsKept, Tenant!Open
<1>. QED  BY <1>3, <1>5, <1>6 DEF EventInv

\* The types of the parts give the type of the whole.
LEMMA EventTypesFollow ==
  ASSUME EventRequestType',
         event' \in Bodies \cup {NoBody},
         endpoints' \in [Endpoints -> {"absent", "active", "paused"}],
         deliveries' \in [Endpoints -> {"none", "open", "done"}],
         outbox' \subseteq Endpoints, queue' \subseteq Endpoints,
         watch' \in [EventRequests -> SUBSET Endpoints]
  PROVE  EventTypes'
<1>1. \A r \in EventRequests : eventReq'[r].jobs \subseteq Endpoints /\ eventReq'[r].code \in {0, 202, 409, 503}
  BY DEF EventRequestType, EventRequest, EventCode
<1>. QED  BY <1>1 DEF EventTypes, Tenant!TypeOK

\* A request that inserts the event, finds it, or is refused with 409.
LEMMA EventBeginsInv ==
  ASSUME NoBody \notin Bodies, EventInv, NEW r \in EventRequests, NEW body \in Bodies, Tenant!Begins(r, body)
  PROVE  EventInv'
<1>. DEFINE q == IF event = NoBody THEN [Tenant!Idle EXCEPT !.pc = "read", !.body = body, !.inserted = TRUE]
                 ELSE IF event = body THEN [Tenant!Idle EXCEPT !.pc = "read", !.body = body]
                 ELSE [Tenant!Idle EXCEPT !.pc = "ended", !.body = body, !.code = 409]
<1>1. /\ eventReq[r].pc = "idle" /\ Tenant!KeyFree
      /\ eventReq' = [eventReq EXCEPT ![r] = q]
      /\ watch' = [watch EXCEPT ![r] = Tenant!Active]
      /\ UNCHANGED <<event, endpoints, deliveries, outbox, queue>>
  BY DEF Tenant!Begins, Tenant!At, Tenant!SameBody
<1>2. /\ q \in EventRequest /\ q.body = body
      /\ \/ event = NoBody /\ q.pc = "read" /\ q.inserted = TRUE /\ q.code = 0
         \/ event = body /\ q.pc = "read" /\ q.inserted = FALSE /\ q.code = 0
         \/ q.pc = "ended" /\ q.code = 409
  <2>1. CASE event = NoBody
    <3>1. q = [pc |-> "read", body |-> body, inserted |-> TRUE, to |-> {}, jobs |-> {}, code |-> 0]
      BY <2>1 DEF Tenant!Idle
    <3>. HIDE DEF q
    <3>. QED  BY <2>1, <3>1, EventMembers DEF EventRequest
  <2>2. CASE event # NoBody /\ event = body
    <3>1. q = [pc |-> "read", body |-> body, inserted |-> FALSE, to |-> {}, jobs |-> {}, code |-> 0]
      BY <2>2 DEF Tenant!Idle
    <3>. HIDE DEF q
    <3>. QED  BY <2>2, <3>1, EventMembers DEF EventRequest
  <2>3. CASE event # NoBody /\ event # body
    <3>1. q = [pc |-> "ended", body |-> body, inserted |-> FALSE, to |-> {}, jobs |-> {}, code |-> 409]
      BY <2>3 DEF Tenant!Idle
    <3>. HIDE DEF q
    <3>. QED  BY <2>3, <3>1, EventMembers DEF EventRequest
  <2>. QED  BY <2>1, <2>2, <2>3
<1>. HIDE DEF q
<1>0. EventRequestType /\ q \in EventRequest  BY <1>2 DEF EventInv, EventTypes
<1>3. EventUpdated(r, q) /\ EventRequestType'  BY <1>0, <1>1, EventUpdateIsUpdated
<1>4. /\ Tenant!Active \subseteq Endpoints /\ watch' \in [EventRequests -> SUBSET Endpoints]
      /\ watch'[r] = Tenant!Active /\ \A s \in EventRequests : s # r => watch'[s] = watch[s]
  BY <1>1 DEF EventInv, EventTypes, Tenant!Active
<1>5. EventTypes'  BY <1>1, <1>3, <1>4, EventTypesFollow DEF EventInv, EventTypes, Tenant!TypeOK
<1>6. \A s \in EventRequests : s # r /\ eventReq[s].pc \in EventInside =>
        ~eventReq[s].inserted /\ event = eventReq[s].body /\ event \in Bodies
  BY <1>1 DEF EventInv, EventOneInserts, Tenant!KeyFree, EventInside
<1>7. EventOneInserts'
  BY <1>1, <1>2, <1>3, <1>6 DEF EventUpdated, EventOneInserts, EventInv, EventInside
<1>8. EventCommitted'
  BY <1>1, <1>2, <1>3, <1>4 DEF EventUpdated, EventCommitted, EventInv, EventBehind
<1>9. EventWatched'
  BY <1>1, <1>2, <1>3, <1>4
    DEF EventUpdated, EventWatched, Tenant!Active, EventInv, EventInside, EventBehind
<1>10. EventQueuedFirst' /\ Tenant!OpenIsKept'
  BY <1>1, <1>2, <1>3
    DEF EventUpdated, EventQueuedFirst, Tenant!OpenIsKept, Tenant!Open, EventInv, EventBehind
<1>. QED  BY <1>5, <1>7, <1>8, <1>9, <1>10 DEF EventInv

\* A request that has read the active endpoints.
LEMMA EventReadsInv ==
  ASSUME EventInv, NEW r \in EventRequests, Tenant!ReadsEndpoints(r)
  PROVE  EventInv'
<1>. DEFINE q == [eventReq[r] EXCEPT !.pc = "insert", !.to = Tenant!Active]
<1>1. /\ eventReq[r].pc = "read" /\ eventReq' = [eventReq EXCEPT ![r] = q]
      /\ UNCHANGED <<event, endpoints, deliveries, outbox, queue, watch>>
  BY DEF Tenant!ReadsEndpoints, Tenant!At, Tenant!Targets
<1>2. eventReq[r] \in EventRequest /\ Tenant!Active \subseteq Endpoints
  BY DEF EventInv, EventTypes, EventRequestType, Tenant!Active
<1>. HIDE DEF q
<1>3. q = [eventReq[r] EXCEPT !.pc = "insert", !.to = Tenant!Active] /\ "insert" \in EventPc
  BY EventMembers DEF q
<1>4. q \in EventRequest /\ q.pc = "insert" /\ q.to = Tenant!Active /\ q.body = eventReq[r].body
      /\ q.inserted = eventReq[r].inserted /\ q.code = eventReq[r].code
  BY <1>2, <1>3 DEF EventRequest
<1>5. EventUpdated(r, q) /\ EventRequestType'
  BY <1>1, <1>4, EventUpdateIsUpdated DEF EventInv, EventTypes
<1>6. EventTypes'  BY <1>1, <1>5, EventTypesFollow DEF EventInv, EventTypes, Tenant!TypeOK
<1>7. EventOneInserts'
  BY <1>1, <1>4, <1>5 DEF EventUpdated, EventOneInserts, EventInv, EventInside
<1>8. EventCommitted'  BY <1>1, <1>4, <1>5 DEF EventUpdated, EventCommitted, EventInv, EventBehind
<1>9. EventWatched'
  BY <1>1, <1>4, <1>5
    DEF EventUpdated, EventWatched, Tenant!Active, EventInv, EventInside, EventBehind
<1>10. EventQueuedFirst' /\ Tenant!OpenIsKept'
  BY <1>1, <1>4, <1>5
    DEF EventUpdated, EventQueuedFirst, Tenant!OpenIsKept, Tenant!Open, EventInv, EventBehind
<1>. QED  BY <1>6, <1>7, <1>8, <1>9, <1>10 DEF EventInv

\* A fan-out that commits adds open deliveries and their outbox rows together.
LEMMA EventCommitsInv ==
  ASSUME NoBody \notin Bodies, EventInv, NEW r \in EventRequests, Tenant!Commits(r)
  PROVE  EventInv'
<1>. DEFINE new == {e \in eventReq[r].to : deliveries[e] = "none"}
            jobs == Tenant!JobsOf(r, new)
            q == [eventReq[r] EXCEPT !.pc = "enqueue", !.jobs = jobs]
<1>1. /\ eventReq[r].pc = "insert" /\ event' = eventReq[r].body
      /\ deliveries' = [e \in Endpoints |-> IF e \in new THEN "open" ELSE deliveries[e]]
      /\ outbox' = outbox \cup new
      /\ eventReq' = [eventReq EXCEPT ![r] = q]
      /\ UNCHANGED <<endpoints, queue, watch>>
  BY DEF Tenant!Commits, Tenant!At
<1>2. eventReq[r] \in EventRequest /\ new \subseteq Endpoints /\ jobs \subseteq Endpoints
  BY DEF EventInv, EventTypes, EventRequestType, EventRequest, Tenant!JobsOf, Tenant!Open
<1>3. q = [eventReq[r] EXCEPT !.pc = "enqueue", !.jobs = jobs] /\ "enqueue" \in EventPc
  BY EventMembers
<1>5. /\ \A e \in new : deliveries[e] = "none"
      /\ \A e \in eventReq[r].to : e \in new \/ deliveries[e] # "none"
      /\ \A e \in jobs : e \in new \/ deliveries[e] = "open"
  BY DEF Tenant!JobsOf, Tenant!Open
<1>. HIDE DEF new, jobs, q
<1>4. q \in EventRequest /\ q.pc = "enqueue" /\ q.jobs = jobs /\ q.body = eventReq[r].body
  BY <1>2, <1>3 DEF EventRequest
<1>6. /\ \A e \in Endpoints : deliveries[e] # "none" => deliveries'[e] = deliveries[e]
      /\ \A e \in new : deliveries'[e] = "open"
      /\ deliveries' \in [Endpoints -> {"none", "open", "done"}]
  BY <1>1, <1>2, <1>5 DEF EventInv, EventTypes, Tenant!TypeOK
<1>7. eventReq[r].body \in Bodies /\ event \in {NoBody, eventReq[r].body}
  BY <1>1 DEF EventInv, EventOneInserts, EventInside
<1>8. EventUpdated(r, q) /\ EventRequestType'
  BY <1>1, <1>4, EventUpdateIsUpdated DEF EventInv, EventTypes
<1>9. EventTypes'
  BY <1>1, <1>2, <1>6, <1>7, <1>8, EventTypesFollow DEF EventInv, EventTypes, Tenant!TypeOK
<1>10. EventOneInserts'
  <2>1. ASSUME NEW s \in EventRequests, s # r, eventReq[s].pc \in EventInside
        PROVE  ~eventReq[r].inserted /\ ~eventReq[s].inserted /\ event = eventReq[r].body /\ event = eventReq[s].body
    BY <1>1, <2>1 DEF EventInv, EventOneInserts, EventInside
  <2>. QED  BY <1>1, <1>4, <1>8, <2>1 DEF EventUpdated, EventOneInserts, EventInv, EventInside
<1>11. EventCommitted'
  <2>. SUFFICES ASSUME NEW s \in EventRequests, eventReq'[s].pc \in EventBehind \/ eventReq'[s].code = 202
                PROVE  eventReq'[s].body = event' /\ event' \in Bodies
                       /\ \A e \in watch'[s] : deliveries'[e] # "none"
    BY DEF EventCommitted
  <2>1. watch[s] \subseteq Endpoints  BY DEF EventInv, EventTypes
  <2>2. CASE s = r
    <3>1. watch[r] \subseteq eventReq[r].to  BY <1>1 DEF EventInv, EventWatched
    <3>2. \A e \in watch[r] : deliveries'[e] # "none"  BY <1>5, <1>6, <2>1, <2>2, <3>1
    <3>. QED  BY <1>1, <1>4, <1>7, <1>8, <2>2, <3>2 DEF EventUpdated
  <2>3. CASE s # r
    <3>1. eventReq[s].body = event /\ event \in Bodies /\ \A e \in watch[s] : deliveries[e] # "none"
      BY <1>8, <2>3 DEF EventInv, EventCommitted, EventUpdated
    <3>. QED  BY <1>1, <1>6, <1>7, <1>8, <2>1, <2>3, <3>1 DEF EventUpdated
  <2>. QED  BY <2>2, <2>3
<1>12. EventWatched'
  BY <1>1, <1>4, <1>8
    DEF EventUpdated, EventWatched, Tenant!Active, EventInv, EventInside, EventBehind
<1>13. EventQueuedFirst'
  <2>. SUFFICES ASSUME NEW s \in EventRequests, eventReq'[s].pc \in EventBehind, NEW e \in eventReq'[s].jobs
                PROVE  /\ deliveries'[e] # "none"
                       /\ eventReq'[s].pc = "acknowledge" /\ deliveries'[e] = "open" => e \in queue'
    BY DEF EventQueuedFirst
  <2>1. CASE s = r  BY <1>2, <1>4, <1>5, <1>6, <1>8, <2>1 DEF EventUpdated
  <2>2. CASE s # r
    <3>1. eventReq'[s] = eventReq[s] /\ e \in Endpoints
      BY <1>8, <2>2 DEF EventUpdated, EventInv, EventTypes, Tenant!TypeOK
    <3>. QED  BY <1>1, <1>6, <3>1 DEF EventInv, EventQueuedFirst
  <2>. QED  BY <2>1, <2>2
<1>14. Tenant!OpenIsKept'
  <2>. SUFFICES ASSUME NEW e \in Endpoints, deliveries'[e] = "open" PROVE e \in outbox' \cup queue'
    BY DEF Tenant!OpenIsKept, Tenant!Open
  <2>. QED  BY <1>1 DEF EventInv, Tenant!OpenIsKept, Tenant!Open
<1>. QED  BY <1>9, <1>10, <1>11, <1>12, <1>13, <1>14 DEF EventInv

\* The steps of a request that change neither the event nor a delivery.
LEMMA EventRestInv ==
  ASSUME EventInv, NEW r \in EventRequests, Tenant!Fails(r) \/ Tenant!Enqueues(r) \/ Tenant!TimesOut(r) \/ Tenant!Answers(r)
  PROVE  EventInv'
<1>. DEFINE q == eventReq'[r]
<1>. HIDE DEF q
<1>1. eventReq[r] \in EventRequest /\ EventRequestType
  BY DEF EventInv, EventTypes, EventRequestType
<1>2. \A p : eventReq' = [eventReq EXCEPT ![r] = p] => eventReq' = [eventReq EXCEPT ![r] = q] /\ q = p
  BY <1>1 DEF q, EventRequestType
<1>3. /\ eventReq' = [eventReq EXCEPT ![r] = q] /\ q \in EventRequest
      /\ UNCHANGED <<event, endpoints, deliveries, watch>>
      /\ \/ q.pc = "ended" /\ q.code # 202 /\ UNCHANGED <<outbox, queue>>
         \/ /\ eventReq[r].pc = "enqueue" /\ q.pc = "acknowledge" /\ q.body = eventReq[r].body /\ q.jobs = eventReq[r].jobs
            /\ queue' = queue \cup q.jobs /\ UNCHANGED outbox
         \/ /\ eventReq[r].pc = "acknowledge" /\ q.pc = "ended" /\ q.body = eventReq[r].body
            /\ outbox' = outbox \ eventReq[r].jobs /\ UNCHANGED queue
  <2>1. CASE Tenant!Fails(r)
    <3>1. eventReq' = [eventReq EXCEPT ![r] = [Tenant!Idle EXCEPT !.pc = "ended"]]
      BY <2>1 DEF Tenant!Fails
    <3>2. eventReq' = [eventReq EXCEPT ![r] = q] /\ q = [Tenant!Idle EXCEPT !.pc = "ended"]
      BY <1>2, <3>1, Zenon
    <3>3. Tenant!Idle \in EventRequest /\ Tenant!Idle.code = 0
      BY EventMembers DEF Tenant!Idle, EventRequest
    <3>4. q \in EventRequest /\ q.pc = "ended" /\ q.code = 0
      BY <3>2, <3>3, EventMembers DEF EventRequest
    <3>5. UNCHANGED <<event, endpoints, deliveries, watch, outbox, queue>>
      BY <2>1 DEF Tenant!Fails
    <3>. QED  BY <3>2, <3>4, <3>5
  <2>2. CASE Tenant!Enqueues(r)
    <3>1. eventReq' = [eventReq EXCEPT ![r] = [eventReq[r] EXCEPT !.pc = "acknowledge"]]
      BY <2>2 DEF Tenant!Enqueues
    <3>2. eventReq' = [eventReq EXCEPT ![r] = q] /\ q = [eventReq[r] EXCEPT !.pc = "acknowledge"]
      BY <1>2, <3>1, Zenon
    <3>3. q \in EventRequest /\ q.pc = "acknowledge" /\ q.body = eventReq[r].body /\ q.jobs = eventReq[r].jobs
      BY <1>1, <3>2, EventMembers DEF EventRequest
    <3>. QED  BY <2>2, <3>2, <3>3 DEF Tenant!Enqueues, Tenant!At
  <2>3. CASE Tenant!TimesOut(r)
    <3>. DEFINE answer == 503
    <3>1. Tenant!Ends(r, answer)  BY <2>3 DEF Tenant!TimesOut
    <3>2. answer \in EventCode /\ answer # 202 /\ "ended" \in EventPc  BY EventMembers
    <3>. HIDE DEF answer
    <3>3. eventReq' = [eventReq EXCEPT ![r] = [eventReq[r] EXCEPT !.pc = "ended", !.code = answer]]
      BY <3>1, Zenon DEF Tenant!Ends
    <3>4. eventReq' = [eventReq EXCEPT ![r] = q] /\ q = [eventReq[r] EXCEPT !.pc = "ended", !.code = answer]
      BY <1>2, <3>3, Zenon
    <3>5. q \in EventRequest /\ q.pc = "ended" /\ q.code = answer
      BY <1>1, <3>2, <3>4 DEF EventRequest
    <3>. QED  BY <2>3, <3>2, <3>4, <3>5 DEF Tenant!TimesOut
  <2>4. CASE Tenant!Answers(r)
    <3>1. eventReq' = [eventReq EXCEPT ![r] = [eventReq[r] EXCEPT !.pc = "ended", !.code = 202]]
      BY <2>4, Zenon DEF Tenant!Answers, Tenant!Ends
    <3>2. eventReq' = [eventReq EXCEPT ![r] = q] /\ q = [eventReq[r] EXCEPT !.pc = "ended", !.code = 202]
      BY <1>2, <3>1, Zenon
    <3>3. q \in EventRequest /\ q.pc = "ended" /\ q.body = eventReq[r].body
      BY <1>1, <3>2, EventMembers DEF EventRequest
    <3>. QED  BY <2>4, <3>2, <3>3 DEF Tenant!Answers, Tenant!At, Tenant!Acknowledged
  <2>. QED  BY <2>1, <2>2, <2>3, <2>4
<1>4. EventUpdated(r, q) /\ EventRequestType'  BY <1>1, <1>3, EventUpdateIsUpdated
<1>5. eventReq[r].jobs \subseteq Endpoints  BY <1>1 DEF EventRequest
<1>6. EventTypes'
  <2>1. outbox' \subseteq Endpoints /\ queue' \subseteq Endpoints
    BY <1>3, <1>5 DEF EventInv, EventTypes, Tenant!TypeOK
  <2>. QED  BY <1>3, <1>4, <2>1, EventTypesFollow DEF EventInv, EventTypes, Tenant!TypeOK
<1>7. EventOneInserts'  BY <1>3, <1>4 DEF EventUpdated, EventOneInserts, EventInv, EventInside
<1>8. EventCommitted'  BY <1>3, <1>4 DEF EventUpdated, EventCommitted, EventInv, EventBehind
<1>9. EventWatched'
  BY <1>3, <1>4 DEF EventUpdated, EventWatched, Tenant!Active, EventInv, EventInside, EventBehind
<1>10. EventQueuedFirst'
  <2>1. queue \subseteq queue'  BY <1>3
  <2>. QED  BY <1>3, <1>4, <2>1 DEF EventUpdated, EventQueuedFirst, EventInv, EventBehind
<1>11. Tenant!OpenIsKept'
  BY <1>3, <1>5 DEF Tenant!OpenIsKept, Tenant!Open, EventQueuedFirst, EventInv, EventBehind
<1>. QED  BY <1>6, <1>7, <1>8, <1>9, <1>10, <1>11 DEF EventInv

\* Users of the console, the worker and the sweeper.
LEMMA EventOthersInv ==
  ASSUME EventInv, NEW e \in Endpoints,
         Tenant!Creates(e) \/ (\E became \in {"active", "paused"} : Tenant!Patches(e, became)) \/ Tenant!Works(e) \/ Tenant!Sweeps(e)
  PROVE  EventInv'
<1>1. CASE Tenant!Creates(e)
  <2>. USE <1>1 DEF Tenant!Creates, EventInv
  <2>1. EventTypes'  BY EventTypesFollow DEF EventTypes, Tenant!TypeOK, EventRequestType
  <2>2. EventOneInserts' /\ EventCommitted' /\ EventQueuedFirst'
    BY DEF EventOneInserts, EventCommitted, EventQueuedFirst
  <2>3. EventWatched'  BY DEF EventWatched, Tenant!Active, EventTypes, Tenant!TypeOK
  <2>4. Tenant!OpenIsKept'  BY DEF Tenant!OpenIsKept, Tenant!Open
  <2>. QED  BY <2>1, <2>2, <2>3, <2>4
<1>2. ASSUME NEW became \in {"active", "paused"}, Tenant!Patches(e, became) PROVE EventInv'
  <2>. USE <1>2 DEF Tenant!Patches, EventInv
  <2>1. EventTypes'  BY EventTypesFollow DEF EventTypes, Tenant!TypeOK, EventRequestType
  <2>2. \A r \in EventRequests : watch'[r] \subseteq watch[r] /\ (eventReq[r].pc # "ended" => e \notin watch'[r])
    BY DEF EventTypes
  <2>3. EventOneInserts' /\ EventQueuedFirst'  BY DEF EventOneInserts, EventQueuedFirst
  <2>4. EventCommitted'  BY <2>2 DEF EventCommitted
  <2>5. EventWatched'
    BY <2>2 DEF EventWatched, Tenant!Active, EventTypes, Tenant!TypeOK, EventInside, EventBehind
  <2>6. Tenant!OpenIsKept'  BY DEF Tenant!OpenIsKept, Tenant!Open
  <2>. QED  BY <2>1, <2>3, <2>4, <2>5, <2>6
<1>3. CASE Tenant!Works(e)
  <2>. USE <1>3 DEF Tenant!Works, EventInv
  <2>1. EventTypes'  BY EventTypesFollow DEF EventTypes, Tenant!TypeOK, EventRequestType
  <2>2. \A d \in Endpoints : deliveries'[d] = IF d = e THEN "done" ELSE deliveries[d]
    BY DEF EventTypes, Tenant!TypeOK
  <2>3. EventOneInserts' /\ EventWatched'  BY DEF EventOneInserts, EventWatched, Tenant!Active
  <2>4. EventCommitted'  BY <2>2 DEF EventCommitted, EventTypes
  <2>5. EventQueuedFirst'  BY <2>2 DEF EventQueuedFirst, EventTypes, Tenant!TypeOK
  <2>6. Tenant!OpenIsKept'  BY <2>2 DEF Tenant!OpenIsKept, Tenant!Open
  <2>. QED  BY <2>1, <2>3, <2>4, <2>5, <2>6
<1>4. CASE Tenant!Sweeps(e)
  <2>. USE <1>4 DEF Tenant!Sweeps, EventInv
  <2>1. EventTypes'  BY EventTypesFollow DEF EventTypes, Tenant!TypeOK, EventRequestType
  <2>2. EventOneInserts' /\ EventWatched' /\ EventCommitted'
    BY DEF EventOneInserts, EventWatched, Tenant!Active, EventCommitted
  <2>3. EventQueuedFirst' /\ Tenant!OpenIsKept'
    BY DEF EventQueuedFirst, Tenant!OpenIsKept, Tenant!Open
  <2>. QED  BY <2>1, <2>2, <2>3
<1>. QED  BY <1>1, <1>2, <1>3, <1>4

\* Every step of the specification keeps the invariant.
LEMMA EventStepInv ==
  ASSUME NoBody \notin Bodies, EventInv, [Tenant!Next]_(Tenant!vars)
  PROVE  EventInv'
<1>1. CASE Tenant!Next
  BY <1>1, EventBeginsInv, EventReadsInv, EventCommitsInv, EventRestInv, EventOthersInv
    DEF Tenant!Next
<1>2. CASE UNCHANGED Tenant!vars
  BY <1>2
    DEF Tenant!vars, EventInv, EventTypes, Tenant!TypeOK, EventRequestType, EventOneInserts,
        EventCommitted, EventWatched, EventQueuedFirst, Tenant!OpenIsKept,
              Tenant!Open, Tenant!Active
<1>. QED  BY <1>1, <1>2

\* The invariant says what 202 promises.
LEMMA EventInvGives == EventInv => Tenant!AcceptedIsKept
BY
  DEF EventInv, EventTypes, Tenant!TypeOK, EventCommitted, Tenant!AcceptedIsKept,
      Tenant!AcceptedIsStored, Tenant!AcceptedIsFannedOut

\* 202 means stored with the body that was sent, fanned out to every endpoint that was
\* active all along, and on its way while it is open (ingestEvent, ingestFanout,
\* enqueueAndAcknowledge).
THEOREM AcceptedStaysKept ==
  ASSUME NoBody \notin Bodies
  PROVE  Tenant!Spec => []Tenant!AcceptedIsKept
<1>1. EventInv /\ [Tenant!Next]_(Tenant!vars) => EventInv'  BY EventStepInv
<1>2. Tenant!Spec => []EventInv  BY <1>1, EventInitInv, PTL DEF Tenant!Spec
<1>. QED  BY <1>2, EventInvGives, PTL

----------------------------------------------------------------------------
\* The console's specification keeps the invariant of each of these services.
ApiInv == LoginInv /\ AccountInv /\ KeyInv /\ EventInv

\* At the start each has its invariant, and a step of the whole keeps all of them.
LEMMA ApiInvHolds == ConsoleSpec => []ApiInv
<1>1. ConsoleInit => ApiInv
  BY ServicesStart, LoginInitInv, AccountInitInv, KeyInitInv, EventInitInv DEF ApiInv
<1>2. ApiInv /\ [ConsoleNext]_allVars => ApiInv'
  <2>. SUFFICES ASSUME ApiInv, [ConsoleNext]_allVars PROVE ApiInv'  OBVIOUS
  <2>1. /\ [Login!Next]_(Login!vars) /\ [Account!Next]_(Account!vars)
        /\ [ApiKey!Next]_(ApiKey!vars) /\ [Tenant!Next]_(Tenant!vars)
    BY ServicesStep
  <2>2. LoginInv'  BY <2>1, LoginStepInv DEF ApiInv
  <2>3. AccountInv'  BY <2>1, AccountStepInv DEF ApiInv
  <2>4. KeyInv'  BY <2>1, KeyStepInv DEF ApiInv
  <2>5. EventInv'  BY <2>1, EventStepInv, EventAssumption DEF ApiInv
  <2>. QED  BY <2>2, <2>3, <2>4, <2>5 DEF ApiInv
<1>. QED  BY <1>1, <1>2, PTL DEF ConsoleSpec

\* The variables of the API's requests have their types.
THEOREM ApiTyped == ConsoleSpec => []ApiTypesOK
<1>1. ApiInv => ApiTypesOK
  BY LoginInvTypes, AccountInvTypes, KeyInvTypes DEF ApiInv, EventInv, EventTypes, ApiTypesOK
<1>. QED  BY <1>1, ApiInvHolds, PTL

\* An accepted session knew the current password, no change overwrites a password it has not
\* verified, a reset link works once, an account gets one workspace (auth/handlers.ts).
THEOREM PasswordsRule == ConsoleSpec => []PasswordRules
<1>1. ApiInv => PasswordRules  BY LoginInvRules DEF ApiInv, PasswordRules
<1>. QED  BY <1>1, ApiInvHolds, PTL

\* One bootstrap, one pending signup invite per address, every link used at most once, every
\* open reset link has its user (invites.ts, admin/handlers.ts).
THEOREM AccountsDoAgree == ConsoleSpec => []AccountsAgree
<1>1. ApiInv => AccountsAgree  BY AccountInvAgree DEF ApiInv, AccountsAgree
<1>. QED  BY <1>1, ApiInvHolds, PTL

\* A key that was rotated has one successor, and no other key has any (api-keys/handlers.ts).
THEOREM KeysRotateOnce == ConsoleSpec => []RotatedOnce
<1>1. ApiInv => RotatedOnce  BY KeyInvCounts DEF ApiInv, RotatedOnce
<1>. QED  BY <1>1, ApiInvHolds, PTL

\* 202 means stored with the body that was sent, fanned out to every endpoint that was
\* active all along, and on its way while it is open (ingestEvent, ingestFanout,
\* enqueueAndAcknowledge).
THEOREM AcceptedEventsAreKept == ConsoleSpec => []AcceptedIsKept
<1>1. ApiInv => AcceptedIsKept  BY EventInvGives DEF ApiInv, AcceptedIsKept
<1>. QED  BY <1>1, ApiInvHolds, PTL

\* A lock is released by its owner, a session of the current password ends by a request that
\* carries it, the last user of a tenant stays, and a key is touched once an interval.
THEOREM OwnersOnlyEnd == ConsoleSpec => OwnersOnly
<1>1. ServicesInv /\ ApiInv /\ [ConsoleNext]_allVars =>
        /\ Sweeper!OwnerReleases /\ Login!CurrentSessionsKept
        /\ Account!UsersStay /\ ApiKey!TouchedSparingly
  <2>. SUFFICES ASSUME ServicesInv, ApiInv, [ConsoleNext]_allVars
                PROVE  /\ Sweeper!OwnerReleases /\ Login!CurrentSessionsKept
                       /\ Account!UsersStay /\ ApiKey!TouchedSparingly
    OBVIOUS
  <2>1. Sweeper!OwnerReleases  BY ServicesStep, OwnerReleasesStep DEF ServicesInv
  <2>2. Login!CurrentSessionsKept  BY ServicesStep, LoginInvKept DEF ApiInv
  <2>3. Account!UsersStay  BY ServicesStep, AccountInvStay DEF ApiInv
  <2>4. ApiKey!TouchedSparingly  BY ServicesStep, KeyInvTouches DEF ApiInv
  <2>. QED  BY <2>1, <2>2, <2>3, <2>4
<1>2. ServicesInv /\ ApiInv /\ [ConsoleNext]_allVars =>
        [/\ scenario = "sweeper" => Sweeper!OwnerReleases
         /\ scenario = "login" => Login!CurrentSessionsKept
         /\ scenario = "accounts" => Account!UsersStay
         /\ scenario = "keys" => ApiKey!TouchedSparingly]_allVars
  BY <1>1
<1>. QED  BY <1>2, ServicesInvHolds, ApiInvHolds, PTL DEF ConsoleSpec, OwnersOnly
=============================================================================
