------------------------------- MODULE SendEvent -------------------------------
(***************************************************************************)
(* The page that sends a test event: it asks for endpoints first, posts the  *)
(* form, and follows the accepted event while it is open.  Answers are lost   *)
(* before or after the event was made, status calls fail, and the user        *)
(* edits, resets, sends again or leaves.                                     *)
(***************************************************************************)
EXTENDS Integers

CONSTANTS MaxKey,             \* idempotency keys are 1..MaxKey
          Bodies, Broken,     \* what can be typed; Broken is no JSON object
          Slots,              \* ids of the status calls in flight
          MaxTurns            \* bound of the model

VARIABLES
    gate,      \* EndpointGate
    form,      \* the reducer's state but for the result
    result,    \* the accepted event, as shown
    seen,      \* the result for which effects ran last
    post,      \* the POST of handleSubmit
    status,    \* [Slots -> call of refreshAcceptedEvent]
    busy,      \* the call statusAbortRef holds, 0 for none
    events,    \* [1..MaxKey -> event of the API with this key]
    endpoints, \* "none", "disabled" or "active"
    turns,     \* what users, failures and replays have done so far
    made       \* ghost: events made since the user last touched the form

vars == <<gate, form, result, seen, post, status, busy, events, endpoints, turns, made>>

Ids == 1..MaxKey
NoEvent == [id |-> 0, ver |-> 0, open |-> FALSE]
NoPost == [st |-> "none", mine |-> FALSE, key |-> 0, body |-> Broken, event |-> NoEvent]
NoCall == [st |-> "none", aborted |-> FALSE, event |-> NoEvent]

\* createInitialFormState
Initial(key) ==
    [key |-> key, body |-> CHOOSE b \in Bodies \ {Broken} : TRUE, payloadError |-> FALSE,
     submitError |-> FALSE, submitting |-> FALSE]

TypeOK ==
    /\ gate \in {"closed", "loading", "error", "none", "all_disabled", "ready"}
    /\ form.key \in Ids /\ form.body \in Bodies
    /\ result.id \in {0} \cup Ids /\ seen.id \in {0} \cup Ids
    /\ post.st \in {"none", "sent", "ok", "failed"}
    /\ \A n \in Slots : status[n].st \in {"none", "sent", "ok", "failed"}
    /\ busy \in {0} \cup Slots
    /\ \A k \in Ids : events[k].body \in Bodies

Init ==
    /\ gate = "loading"
    /\ form = Initial(1)
    /\ result = NoEvent /\ seen = NoEvent
    /\ post = NoPost
    /\ status = [n \in Slots |-> NoCall]
    /\ busy = 0
    /\ events = [k \in Ids |-> [body |-> Broken, ver |-> 0, open |-> FALSE]]
    /\ endpoints \in {"none", "disabled", "active"}
    /\ turns = 0 /\ made = 0

Turn == turns < MaxTurns /\ turns' = turns + 1
Pending == result.id # seen.id \/ result.open # seen.open

\* The page: help to make or enable an endpoint, or the form and the accepted event.
Help == gate \in {"none", "all_disabled"}
Shows == CASE gate = "loading" -> "skeleton" [] Help -> "help" [] gate = "error" -> "error"
           [] gate = "ready" -> "form" [] OTHER -> "nothing"
Ready == Shows = "form" /\ ~Pending
AcceptedShown == result.id # 0
FormEnabled == ~form.submitting

Made(k) == events[k].ver > 0
Unused == {k \in Ids : k > form.key /\ \A j \in Ids : Made(j) => j < k}
Free == {n \in Slots : status[n].st = "none"}
NewCall == CHOOSE n \in Free : TRUE
Shown(k) == [id |-> k, ver |-> events[k].ver, open |-> events[k].open]
Aborted == IF busy = 0 THEN status ELSE [status EXCEPT ![busy].aborted = TRUE]

----------------------------------------------------------------------------
\* The gate, once: the answers of both lists, or an error.
Opens ==
    /\ gate = "loading"
    /\ \/ /\ gate' = CASE endpoints = "active" -> "ready"
                       [] endpoints = "disabled" -> "all_disabled"
                       [] endpoints = "none" -> "none"
          /\ UNCHANGED turns
       \/ Turn /\ gate' = "error"
    /\ UNCHANGED <<form, result, seen, post, status, busy, events, endpoints, made>>

\* The fields, disabled while a POST is under way. A key may be typed again.
Edits ==
    /\ Ready /\ FormEnabled /\ Turn
    /\ \/ \E k \in {j \in Ids : Made(j)} \cup Unused :
            form' = [form EXCEPT !.key = k, !.submitError = FALSE]
       \/ \E b \in Bodies : form' = [form EXCEPT !.body = b, !.payloadError = FALSE,
                                                 !.submitError = FALSE]
    /\ form' # form
    /\ made' = 0
    /\ UNCHANGED <<gate, result, seen, post, status, busy, events, endpoints>>

\* "Reset form", and "Send another" of the accepted event.
Resets ==
    /\ Ready /\ Turn
    /\ AcceptedShown \/ FormEnabled
    /\ \E k \in Unused : (\A j \in Unused : k <= j) /\ form' = Initial(k)
    /\ result' = NoEvent
    /\ made' = 0
    /\ UNCHANGED <<gate, seen, post, status, busy, events, endpoints>>

\* The submission starts from an empty result.
Clears == NoEvent

\* handleSubmit, up to its request.
Submits ==
    /\ Ready /\ FormEnabled /\ post.st = "none"
    /\ result' = Clears
    /\ IF form.body = Broken
       THEN /\ form' = [form EXCEPT !.submitError = FALSE, !.payloadError = TRUE]
            /\ UNCHANGED post
       ELSE /\ form' = [form EXCEPT !.submitError = FALSE, !.payloadError = FALSE,
                                    !.submitting = TRUE]
            /\ post' = [NoPost EXCEPT !.st = "sent", !.mine = TRUE, !.key = form.key,
                                      !.body = form.body]
    /\ UNCHANGED <<gate, seen, status, busy, events, endpoints, turns, made>>

\* The API: one event per key, and a conflict for another body.
Ingests ==
    LET k == post.key IN
    /\ post.st = "sent"
    /\ IF Made(k)
       THEN /\ post' = IF events[k].body = post.body
                       THEN [post EXCEPT !.st = "ok", !.event = Shown(k)]
                       ELSE [post EXCEPT !.st = "failed"]
            /\ UNCHANGED <<events, made>>
       ELSE LET open == endpoints = "active" IN
            /\ events' = [events EXCEPT ![k] = [body |-> post.body, ver |-> 1, open |-> open]]
            /\ post' = [post EXCEPT !.st = "ok", !.event = [id |-> k, ver |-> 1, open |-> open]]
            /\ made' = IF post.mine THEN made + 1 ELSE made
    /\ UNCHANGED <<gate, form, result, seen, status, busy, endpoints, turns>>

\* The answer is lost, before or after the event was made.
Loses ==
    /\ post.st \in {"sent", "ok"} /\ Turn
    /\ post' = [post EXCEPT !.st = "failed"]
    /\ UNCHANGED <<gate, form, result, seen, status, busy, events, endpoints, made>>

\* Faulty: a failed form gets another key.
KeptFresh(f) == IF f.key < MaxKey THEN [f EXCEPT !.key = @ + 1] ELSE f

\* A failed form stays as it is, key included.
Kept(f) == f

\* handleSubmit goes on, after the effects of its submission; nothing is shown when
\* the page was left.
Answered ==
    /\ post.st \in {"ok", "failed"} /\ ~Pending
    /\ post' = NoPost
    /\ CASE ~post.mine -> UNCHANGED <<form, result>>
         [] post.mine /\ post.st = "ok" ->
              /\ result' = post.event
              /\ form' = [form EXCEPT !.submitting = FALSE]
         [] post.mine /\ post.st = "failed" ->
              /\ form' = Kept([form EXCEPT !.submitting = FALSE, !.submitError = TRUE])
              /\ UNCHANGED result
    /\ UNCHANGED <<gate, seen, status, busy, events, endpoints, turns, made>>

----------------------------------------------------------------------------
Idle == busy = 0

\* refreshAcceptedEvent
AsksStatus(calls) ==
    /\ Free # {}
    /\ status' = [calls EXCEPT ![NewCall] = [NoCall EXCEPT !.st = "sent", !.event = result]]
    /\ busy' = NewCall

\* The effects of another id or another openness: the cleanup aborts, and an open event is asked for.
Effects ==
    /\ Pending
    /\ seen' = result
    /\ IF result.open
       THEN AsksStatus(IF seen.open THEN Aborted ELSE status)
       ELSE IF seen.open
            THEN status' = Aborted /\ busy' = 0
            ELSE UNCHANGED <<status, busy>>
    /\ UNCHANGED <<gate, form, result, post, events, endpoints, turns, made>>

Polls ==
    /\ Ready /\ result.open /\ Idle
    /\ AsksStatus(status)
    /\ UNCHANGED <<gate, form, result, seen, post, events, endpoints, turns, made>>

StatusAnswers(n) ==
    /\ status[n].st = "sent" /\ ~status[n].aborted
    /\ \/ /\ status' = [status EXCEPT ![n].st = "ok", ![n].event = Shown(status[n].event.id)]
          /\ UNCHANGED turns
       \/ Turn /\ status' = [status EXCEPT ![n].st = "failed"]
    /\ UNCHANGED <<gate, form, result, seen, post, busy, events, endpoints, made>>

\* finally: the call the ref holds resets it.
Releases(n) == busy = n

\* The reducer takes a status for the event it is of.
StatusArrives(n) ==
    LET call == status[n] IN
    /\ call.st \in {"ok", "failed"} \/ (call.st = "sent" /\ call.aborted)
    /\ result' = IF call.st = "ok" /\ ~call.aborted /\ result.id = call.event.id
                 THEN call.event
                 ELSE result
    /\ status' = [status EXCEPT ![n] = NoCall]
    /\ busy' = IF Releases(n) THEN 0 ELSE busy
    /\ UNCHANGED <<gate, form, seen, post, events, endpoints, turns, made>>

----------------------------------------------------------------------------
\* Unmounting: the effect's cleanup; the POST goes on.
Leaves ==
    /\ gate # "closed" /\ ~Pending /\ Turn
    /\ gate' = "closed"
    /\ result' = NoEvent /\ seen' = NoEvent
    /\ post' = [post EXCEPT !.mine = FALSE]
    /\ status' = Aborted /\ busy' = 0
    /\ made' = 0
    /\ UNCHANGED <<form, events, endpoints>>

Enters ==
    /\ gate = "closed" /\ post.st = "none"
    /\ gate' = "loading"
    /\ \E k \in Unused : (\A j \in Unused : k <= j) /\ form' = Initial(k)
    /\ UNCHANGED <<result, seen, post, status, busy, events, endpoints, turns, made>>

\* The worker finishes an event; a replay opens it again.
Finishes(k) ==
    /\ Made(k) /\ events[k].open
    /\ events' = [events EXCEPT ![k].open = FALSE, ![k].ver = @ + 1]
    /\ UNCHANGED <<gate, form, result, seen, post, status, busy, endpoints, turns, made>>

Replays(k) ==
    /\ Made(k) /\ ~events[k].open /\ Turn
    /\ events' = [events EXCEPT ![k].open = TRUE, ![k].ver = @ + 1]
    /\ UNCHANGED <<gate, form, result, seen, post, status, busy, endpoints, made>>

Disables ==
    /\ endpoints = "active" /\ Turn
    /\ endpoints' = "disabled"
    /\ UNCHANGED <<gate, form, result, seen, post, status, busy, events, made>>

Posts == Ingests \/ Answered
Next ==
    \/ Opens \/ Edits \/ Resets \/ Submits \/ Posts \/ Loses
    \/ Effects \/ Polls \/ Leaves \/ Enters \/ Disables
    \/ \E n \in Slots : StatusAnswers(n) \/ StatusArrives(n)
    \/ \E k \in Ids : Finishes(k) \/ Replays(k)

Fairness ==
    /\ WF_vars(Opens) /\ WF_vars(Posts) /\ WF_vars(Effects) /\ WF_vars(Polls)
    /\ \A n \in Slots : WF_vars(StatusAnswers(n) \/ StatusArrives(n))
    /\ \A k \in Ids : WF_vars(Finishes(k))

Spec == Init /\ [][Next]_vars /\ Fairness

----------------------------------------------------------------------------
\* Sending again what the user did not touch makes no second event, whatever
\* answers were lost: the key stays with the form.
RetryMakesNoSecond == made <= 1

\* The event shown is the one the last submission was accepted as: an earlier one
\* is gone while a later one is sent, and under its error.
ShownIsLast ==
    AcceptedShown =>
      /\ ~form.submitting /\ ~form.submitError /\ ~form.payloadError
      /\ events[result.id].ver >= result.ver

\* The status of an accepted event never goes back to an older one.
NeverOlder == result'.id = result.id => result'.ver >= result.ver

\* Again and again: an open event on the screen is followed until it is no longer open.
Followed == ~(AcceptedShown /\ result.open)
=============================================================================
