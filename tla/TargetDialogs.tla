----------------------------- MODULE TargetDialogs -----------------------------
(***************************************************************************)
(* Dialogs that change one thing of a list: the label of an endpoint, the     *)
(* name of a tenant; delete a tenant, whose name is typed to confirm it, or a *)
(* user.  The answer, or the reload after it, may come when the dialog is     *)
(* about something else already.  The two things listed have the same name.   *)
(***************************************************************************)
EXTENDS Integers, FiniteSets

CONSTANTS Kinds, MaxTurns       \* of "edit", "rename", "delete", "remove"; bound of the model

VARIABLES
    text,       \* [Things -> the opening whose text is stored], of the API; Gone
    rows,       \* the same, as it is listed
    told,       \* items of which a toast said that the request, or the page that the list, failed
    target,     \* [Kinds -> item the dialog is about]; 0: closed
    field,      \* [Kinds -> the opening for which its field was filled]; 0: empty
    opening,    \* ghost: [Kinds -> number of its opening]
    busy,       \* [Kinds -> submitting, editSubmitting or deletingId]
    flights,    \* requests and reloads under way
    turns

vars == <<text, rows, told, target, field, opening, busy, flights, turns>>

Things == {1, 2}
Gone == -1

TypeOK ==
    /\ \A i \in Things : text[i] \in Gone..MaxTurns /\ rows[i] \in Gone..MaxTurns
    /\ \A k \in Kinds : target[k] \in Things \cup {0} /\ field[k] \in 0..opening[k]
    /\ \A f \in flights : f.kind \in Kinds /\ f.st \in {"sent", "ok", "failed", "reload"}

Init ==
    /\ text = [i \in Things |-> 0] /\ rows = text /\ told = {}
    /\ target = [k \in Kinds |-> 0] /\ field = target /\ opening = target
    /\ busy = [k \in Kinds |-> FALSE]
    /\ flights = {} /\ turns = 0

Turn == turns < MaxTurns /\ turns' = turns + 1
Modal == \E k \in Kinds : target[k] # 0

----------------------------------------------------------------------------
\* The effects of the label and the name fill in what is stored; the confirmation of
\* a deletion is empty.
Fills(k) == IF k \in {"edit", "rename"} THEN turns' ELSE 0

Opens(k, i) ==
    /\ ~Modal /\ Turn
    /\ rows[i] # Gone
    /\ target' = [target EXCEPT ![k] = i]
    /\ opening' = [opening EXCEPT ![k] = turns']
    /\ field' = [field EXCEPT ![k] = Fills(k)]
    /\ busy' = IF k = "edit" THEN [busy EXCEPT ![k] = FALSE] ELSE busy
    /\ UNCHANGED <<text, rows, told, flights>>

Types(k) ==
    /\ k = "delete" /\ target[k] # 0 /\ ~busy[k] /\ field[k] = 0
    /\ field' = [field EXCEPT ![k] = opening[k]]
    /\ UNCHANGED <<text, rows, told, target, opening, busy, flights, turns>>

\* The dialogs stay while they are busy, but that of a rename goes by its cross.
EditStays == busy["edit"]
DeleteStays == busy["delete"]
RemoveStays == busy["remove"]
MayLeave(k) ==
    CASE k = "rename" -> TRUE [] k = "edit" -> ~EditStays
      [] k = "delete" -> ~DeleteStays [] k = "remove" -> ~RemoveStays

\* handleOpenChange of the rename keeps its field while it is busy.
Keeps(k) == k = "rename" /\ busy[k]

Leaves(k) ==
    /\ target[k] # 0 /\ MayLeave(k)
    /\ target' = [target EXCEPT ![k] = 0]
    /\ field' = IF Keeps(k) THEN field ELSE [field EXCEPT ![k] = 0]
    /\ UNCHANGED <<text, rows, told, opening, busy, flights, turns>>

\* The buttons that submit; a name must be there, or what was typed be the name, which
\* the two things share.
SaveEnabled == ~busy["edit"]
RenameEnabled == ~busy["rename"] /\ field["rename"] # 0
DeleteEnabled == ~busy["delete"] /\ field["delete"] # 0
RemoveEnabled == ~busy["remove"]
Enabled(k) ==
    CASE k = "edit" -> SaveEnabled [] k = "rename" -> RenameEnabled
      [] k = "delete" -> DeleteEnabled [] k = "remove" -> RemoveEnabled

\* handleEdit, handleRename, the click of "Delete tenant" and handleDelete.
Submits(k) ==
    /\ target[k] # 0 /\ Enabled(k) /\ Turn
    /\ busy' = [busy EXCEPT ![k] = TRUE]
    /\ flights' = flights \cup {[kind |-> k, of |-> target[k], text |-> field[k], st |-> "sent"]}
    /\ UNCHANGED <<text, rows, told, target, field, opening>>

----------------------------------------------------------------------------
Becomes(f, st) == flights' = (flights \ {f}) \cup {[f EXCEPT !.st = st]}

\* The API: what is gone is not found.
Serves(f) ==
    /\ f \in flights /\ f.st = "sent"
    /\ IF text[f.of] = Gone
       THEN Becomes(f, "failed") /\ UNCHANGED text
       ELSE /\ Becomes(f, "ok")
            /\ text' = [text EXCEPT ![f.of] = IF f.kind \in {"edit", "rename"} THEN f.text ELSE Gone]
    /\ UNCHANGED <<rows, told, target, field, opening, busy, turns>>

Fails(f) ==
    /\ f \in flights /\ f.st \in {"sent", "ok"} /\ Turn
    /\ Becomes(f, "failed")
    /\ UNCHANGED <<text, rows, told, target, field, opening, busy>>

\* The dialog of a label is busy until the list was loaded again.
Releases(f) == f.st # "ok" \/ f.kind # "edit"

\* onChanged, onRenamed, onRefresh and onUserDeleted.
ReloadsAfter(k) == TRUE

\* What was done closes the dialog, whatever it is about now, and the list is loaded.
Lands(f) ==
    /\ f \in flights /\ f.st \in {"ok", "failed"}
    /\ IF f.st = "ok"
       THEN /\ target' = [target EXCEPT ![f.kind] = 0]
            /\ field' = [field EXCEPT ![f.kind] = 0]
            /\ flights' = (flights \ {f}) \cup
                            {[f EXCEPT !.st = "reload"] : k \in {x \in {f.kind} : ReloadsAfter(x)}}
       ELSE flights' = flights \ {f} /\ UNCHANGED <<target, field>>
    /\ told' = IF f.st = "failed" THEN told \cup {f.of} ELSE told
    /\ busy' = IF Releases(f) THEN [busy EXCEPT ![f.kind] = FALSE] ELSE busy
    /\ UNCHANGED <<text, rows, opening, turns>>

\* The list comes as it is now (ListFetch has the order of its answers).
Reloads(f) ==
    /\ f \in flights /\ f.st = "reload"
    /\ flights' = flights \ {f}
    /\ busy' = IF f.kind = "edit" THEN [busy EXCEPT ![f.kind] = FALSE] ELSE busy
    /\ \/ rows' = text /\ UNCHANGED <<told, turns>>
       \/ Turn /\ told' = Things /\ UNCHANGED rows
    /\ UNCHANGED <<text, target, field, opening>>

Next ==
    \/ \E k \in Kinds : Types(k) \/ Leaves(k) \/ Submits(k) \/ \E i \in Things : Opens(k, i)
    \/ \E f \in flights : Serves(f) \/ Fails(f) \/ Lands(f) \/ Reloads(f)

Answered == \E f \in flights : Serves(f) \/ Lands(f) \/ Reloads(f)

Fairness == WF_vars(Answered)

Spec == Init /\ [][Next]_vars /\ Fairness

----------------------------------------------------------------------------
\* A name, a label or a confirmation that stands in a dialog was filled in for this
\* opening of it: what was meant for one thing is never sent for another, though both
\* have the same name and the dialog was left in the middle of a request.
TextOfOpening ==
    \A k \in Kinds : target[k] # 0 /\ field[k] # 0 => field[k] = opening[k]

\* The answer of a deletion closes no dialog about something else.
DeletionClosesOwn ==
    \A k \in Kinds \ {"edit", "rename"} :
      target[k] # 0 /\ target'[k] = 0 /\ flights' # flights => text[target[k]] = Gone

\* Again and again: what was changed is listed, or the user was told that something failed.
Followed == \A i \in Things : rows[i] = text[i] \/ i \in told

\* Again and again: no dialog is busy.
Settled == \A k \in Kinds : ~busy[k]
=============================================================================
