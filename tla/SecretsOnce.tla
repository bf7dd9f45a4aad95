------------------------------ MODULE SecretsOnce ------------------------------
(***************************************************************************)
(* What is shown once: a new API key, the signing secret of an endpoint, the  *)
(* link of an invitation or a reset.  A panel of the console asks the API for *)
(* one and shows it in a dialog, which is left when the user ticks that it    *)
(* was saved.  API keys are created, rotated and revoked side by side; the    *)
(* other panels are busy until theirs is done.                                *)
(***************************************************************************)
EXTENDS Integers, FiniteSets

CONSTANTS Single, MaxTurns      \* panels besides those of the keys; bound of the model

VARIABLES
    keys,       \* live API keys; a key is the secret it was issued with
    current,    \* [endpoint -> its secret]
    issued,     \* secrets issued so far
    foreign,    \* ghost: what was revoked or replaced elsewhere
    flights,    \* requests and reloads under way
    shown,      \* [Panels -> the secret in the dialog]; 0: none
    saved,      \* [Panels -> the tick of SecretOnceDialog]
    ticked,     \* ghost: [Panels -> the secret it was ticked for]
    busy,       \* [Panels -> rotatingId, rotating or submitting]
    target,     \* [Panels -> what the dialog that asks first is about]; 0: none
    revoking,   \* revokingId
    rows,       \* the keys listed as live
    told,       \* listed keys for which a toast said that a request, or the list after it, failed
    turns

vars == <<keys, current, issued, foreign, flights, shown, saved, ticked, busy, target, revoking,
          rows, told, turns>>

\* Of Single: "rotate", "create": the endpoint dialogs; "invite": those of admins.

Panels == {"key"} \cup Single
Ids == 1..(2 + MaxTurns)
Secured == {1, 2}

Init ==
    /\ keys = {1, 2} /\ current = [e \in Secured |-> 0] /\ issued = 2 /\ foreign = {}
    /\ flights = {}
    /\ shown = [p \in Panels |-> 0] /\ saved = [p \in Panels |-> FALSE]
    /\ ticked = shown /\ busy = shown /\ target = shown
    /\ revoking = 0 /\ rows = {1, 2} /\ told = {} /\ turns = 0

TypeOK ==
    /\ keys \subseteq 1..issued /\ rows \subseteq 1..issued /\ issued \in Ids
    /\ \A f \in flights : f.panel \in Panels /\ f.st \in {"sent", "ok", "failed"}
    /\ \A p \in Panels : shown[p] \in 0..issued /\ saved[p] \in BOOLEAN

Turn == turns < MaxTurns /\ turns' = turns + 1
Flight(p, op, of) ==
    [panel |-> p, op |-> op, of |-> of, no |-> 0, st |-> "sent", gave |-> 0, rows |-> {}]
Api == <<keys, current, issued, foreign>>
Dialogs == <<shown, saved, ticked, target>>
List == <<rows, told>>

\* SettingsApiKeyDialogs, SecretEndpointDialog and InviteUrlDialog are SecretOnceDialogs;
\* an open one takes all clicks, as does one that asks first.
KeyShown == shown["key"] # 0
EndpointShown == \E p \in Panels \cap {"rotate", "create"} : shown[p] # 0
LinkShown == \E p \in Panels \cap {"invite"} : shown[p] # 0
Modal == KeyShown \/ EndpointShown \/ LinkShown \/ \E p \in Panels : target[p] # 0

\* The buttons of SettingsApiKeysTab.
CreateEnabled == ~\E f \in flights : f.panel = "key" /\ f.op = "create"
RotateEnabled(k) == k \in rows /\ busy["key"] # k
RevokeEnabled(k) == k \in rows /\ revoking # k

----------------------------------------------------------------------------
\* handleCreateKey, whose button is disabled meanwhile, and handleRotate, which
\* disables the button of the key it was called for last.
CreatesKey ==
    /\ ~Modal /\ Turn
    /\ CreateEnabled
    /\ flights' = flights \cup {Flight("key", "create", 0)}
    /\ UNCHANGED <<Api, Dialogs, busy, revoking, List>>

RotatesKey(k) ==
    /\ ~Modal /\ Turn
    /\ RotateEnabled(k)
    /\ flights' = flights \cup {Flight("key", "rotate", k)}
    /\ busy' = [busy EXCEPT !["key"] = k]
    /\ UNCHANGED <<Api, Dialogs, revoking, List>>

\* "Revoke", "Rotate secret", "Create endpoint", "Invite" open a dialog that asks first.
Opens(p, of) ==
    /\ ~Modal /\ Turn
    /\ IF p = "key" THEN RevokeEnabled(of) ELSE of \in Secured
    /\ target' = [target EXCEPT ![p] = of]
    /\ UNCHANGED <<Api, flights, shown, saved, ticked, busy, revoking, List>>

\* The dialogs that ask first stay while they are busy.
RevokeFree == revoking = 0
RotateFree == busy["rotate"] = 0
CreateFree == busy["create"] = 0
InviteFree == busy["invite"] = 0
MayCancel(p) ==
    CASE p = "key" -> RevokeFree [] p = "rotate" -> RotateFree
      [] p = "create" -> CreateFree [] p = "invite" -> InviteFree

Cancels(p) ==
    /\ target[p] # 0 /\ MayCancel(p)
    /\ target' = [target EXCEPT ![p] = 0]
    /\ UNCHANGED <<Api, flights, shown, saved, ticked, busy, revoking, List, turns>>

\* handleRevoke
Revokes ==
    /\ revoking' = target["key"]
    /\ flights' = flights \cup {Flight("key", "revoke", target["key"])}
    /\ UNCHANGED busy

\* handleRotate, handleCreate and submit of the other panels.
Sends(p) ==
    /\ busy' = [busy EXCEPT ![p] = target[p]]
    /\ flights' = flights \cup {[Flight(p, p, target[p]) EXCEPT !.no = turns]}
    /\ UNCHANGED revoking

Confirms(p) ==
    /\ target[p] # 0 /\ MayCancel(p) /\ Turn
    /\ IF p = "key" THEN Revokes ELSE Sends(p)
    /\ UNCHANGED <<Api, Dialogs, List>>

----------------------------------------------------------------------------
\* The API: a revoked key can neither be revoked nor rotated.
Serves(f) ==
    /\ f \in flights /\ f.st = "sent"
    /\ LET new == issued + 1
           Done(gave) == flights' = (flights \ {f}) \cup
                           {[f EXCEPT !.st = "ok", !.gave = gave]}
           Rejected == flights' = (flights \ {f}) \cup {[f EXCEPT !.st = "failed"]}
       IN
       CASE f.op \in {"create", "invite"} ->
              /\ issued' = new /\ Done(new)
              /\ keys' = IF f.panel = "key" THEN keys \cup {new} ELSE keys
              /\ UNCHANGED current
         [] f.op = "rotate" /\ f.panel = "rotate" ->
              /\ issued' = new /\ Done(new)
              /\ current' = [current EXCEPT ![f.of] = new]
              /\ UNCHANGED keys
         [] f.op = "rotate" /\ f.panel = "key" /\ f.of \in keys ->
              /\ issued' = new /\ Done(new)
              /\ keys' = (keys \ {f.of}) \cup {new}
              /\ UNCHANGED current
         [] f.op = "revoke" /\ f.of \in keys ->
              /\ keys' = keys \ {f.of} /\ Done(0)
              /\ UNCHANGED <<current, issued>>
         [] f.op \in {"rotate", "revoke"} /\ f.panel = "key" /\ f.of \notin keys ->
              Rejected /\ UNCHANGED <<keys, current, issued>>
         [] f.op = "reload" ->
              /\ flights' = (flights \ {f}) \cup {[f EXCEPT !.st = "ok", !.rows = keys]}
              /\ UNCHANGED <<keys, current, issued>>
    /\ UNCHANGED <<foreign, Dialogs, busy, revoking, List, turns>>

Fails(f) ==
    /\ f \in flights /\ f.st \in {"sent", "ok"} /\ Turn
    /\ flights' = (flights \ {f}) \cup {[f EXCEPT !.st = "failed"]}
    /\ UNCHANGED <<Api, Dialogs, busy, revoking, List>>

\* SecretOnceDialog: the tick goes with the secret.
Resets(p, secret) == saved[p] /\ shown[p] = secret

\* Faulty: a revocation leaves the list as it is.
ReloadsAfterSecrets(op) == op # "revoke"

\* refreshApiKeysAfterMutation and onChanged; an invitation changes no list.
ReloadsAfter(op) == op # "invite"

\* A reload takes the place of the one before it.
Follows(f) ==
    LET others == flights \ {f} IN
    IF ~ReloadsAfter(f.op) THEN others
    ELSE {g \in others : ~(g.panel = f.panel /\ g.op = "reload")}
           \cup {Flight(f.panel, "reload", f.of)}

Releases(f) == TRUE

\* The panel is done: an endpoint dialog only after the list was loaded again.
Released(f) ==
    IF Releases(f) /\ (f.op \in {"reload", "invite"} \/ f.panel = "key" \/ f.st = "failed")
         /\ f.op # "revoke" /\ ~(f.panel = "key" /\ f.op # "rotate")
    THEN [busy EXCEPT ![f.panel] = 0] ELSE busy

\* The list came, or did not, which is told for the keys.
Reloaded(f) ==
    /\ f.op = "reload"
    /\ flights' = flights \ {f}
    /\ rows' = IF f.panel = "key" /\ f.st = "ok" THEN f.rows ELSE rows
    /\ told' = IF f.panel = "key" /\ f.st = "failed" THEN told \cup rows ELSE told
    /\ UNCHANGED Dialogs

Failed(f) ==
    /\ f.op # "reload" /\ f.st = "failed"
    /\ flights' = flights \ {f} /\ told' = told \cup {f.of}
    /\ UNCHANGED <<Dialogs, rows>>

\* The dialog that asked to revoke closes.
Revoked(f) ==
    /\ f.op = "revoke" /\ f.st = "ok"
    /\ target' = [target EXCEPT !["key"] = 0]
    /\ flights' = Follows(f)
    /\ UNCHANGED <<shown, saved, ticked, List>>

\* What was made is shown, in place of what was shown before.
Gives(f) ==
    /\ f.op \notin {"reload", "revoke"} /\ f.st = "ok"
    /\ shown' = [shown EXCEPT ![f.panel] = f.gave]
    /\ saved' = [saved EXCEPT ![f.panel] = Resets(f.panel, f.gave)]
    /\ target' = IF f.panel = "key" THEN target ELSE [target EXCEPT ![f.panel] = 0]
    /\ flights' = Follows(f)
    /\ UNCHANGED <<ticked, List>>

Lands(f) ==
    /\ f \in flights /\ f.st \in {"ok", "failed"}
    /\ busy' = Released(f)
    /\ revoking' = IF f.op = "revoke" THEN 0 ELSE revoking
    /\ Reloaded(f) \/ Failed(f) \/ Revoked(f) \/ Gives(f)
    /\ UNCHANGED <<Api, turns>>

----------------------------------------------------------------------------
\* SecretOnceConfirm.
Ticks(p) ==
    /\ shown[p] # 0
    /\ saved' = [saved EXCEPT ![p] = ~saved[p]]
    /\ ticked' = [ticked EXCEPT ![p] = IF saved[p] THEN 0 ELSE shown[p]]
    /\ UNCHANGED <<Api, flights, shown, busy, target, revoking, List, turns>>

Closes(p) ==
    /\ shown[p] # 0 /\ saved[p]
    /\ shown' = [shown EXCEPT ![p] = 0] /\ saved' = [saved EXCEPT ![p] = FALSE]
    /\ ticked' = [ticked EXCEPT ![p] = 0]
    /\ UNCHANGED <<Api, flights, target, busy, revoking, List, turns>>

\* Another user of the workspace revokes a key, or rotates an endpoint's secret.
Elsewhere ==
    /\ Turn
    /\ \/ \E k \in keys : keys' = keys \ {k} /\ foreign' = foreign \cup {k}
                          /\ UNCHANGED <<current, issued>>
       \/ \E e \in Secured :
            /\ issued' = issued + 1
            /\ current' = [current EXCEPT ![e] = issued + 1]
            /\ foreign' = foreign \cup {current[e]}
            /\ UNCHANGED keys
    /\ UNCHANGED <<flights, Dialogs, busy, revoking, List>>

Next ==
    \/ CreatesKey \/ Elsewhere
    \/ \E k \in Ids : RotatesKey(k)
    \/ \E p \in Panels : Cancels(p) \/ Confirms(p) \/ Ticks(p) \/ Closes(p)
    \/ \E p \in Panels, of \in Ids : Opens(p, of)
    \/ \E f \in flights : Serves(f) \/ Fails(f) \/ Lands(f)

Answered == \E f \in flights : Serves(f) \/ Lands(f)

Fairness == WF_vars(Answered)

Spec == Init /\ [][Next]_vars /\ Fairness

----------------------------------------------------------------------------
\* No secret is put away before the user ticked that this very one was saved.
CloseOnlySaved == \A p \in Panels : shown[p] # 0 /\ shown'[p] = 0 => ticked[p] = shown[p]

\* The signing secret that is shown is the one the endpoint signs with, unless it
\* was rotated elsewhere: two answers of this console cannot pass each other.
ShownIsCurrent ==
    "rotate" \in Panels /\ shown["rotate"] # 0 =>
        (\E e \in Secured : current[e] = shown["rotate"]) \/ shown["rotate"] \in foreign

\* The answer of a revocation closes no dialog but its own.
RevokeClosesOwn ==
    target["key"] # 0 /\ target'["key"] = 0 /\ flights' # flights => target["key"] \notin keys

\* Again and again: a key that was revoked or rotated here has left the list, or the user
\* was told that something failed.
Followed == rows \ (keys \cup foreign) \subseteq told

\* Again and again: no panel is busy.
Settled == \A p \in Panels : busy[p] = 0
=============================================================================
