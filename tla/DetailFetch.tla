----------------------------- MODULE DetailFetch -----------------------------
(***************************************************************************)
(* The pages of one delivery and of one event: useDetailFetch loads the item *)
(* of the route, polls while it is open, and a failed delivery is replayed    *)
(* from its page.  The user may go to another item at any time, so answers,   *)
(* also that of a replay, may be of an item that is no longer shown.          *)
(***************************************************************************)
EXTENDS Integers

CONSTANTS Items,                  \* ids of the route, 1..n
          Slots,                  \* ids of the calls in flight
          ReadOnly,               \* the workspace is read only
          MaxRuns, MaxSteps       \* bounds of the model

VARIABLES
    kind,      \* "delivery" or "event": which page
    view,      \* the hook's state, and the dialog's
    fetches,   \* [Slots -> call of fetchDetail]
    current,   \* the call requestRef names, 0 for none
    held,      \* the call abortRef holds, 0 for none
    replays,   \* [Items -> call of replayDelivery]
    items,     \* [Items -> the row of the API, and how often it changed]
    active,    \* the endpoint is active
    steps,     \* what the user and failures have done so far
    told       \* ghost: [Items -> the change made by the last replay the page knows of]

vars == <<kind, view, fetches, current, held, replays, items, active, steps, told>>

NoItem == [id |-> 0, st |-> "none", ver |-> 0, active |-> FALSE]
\* live: replayRequestRef still names the replay, or the one that loads.
NoFetch == [st |-> "none", id |-> 0, by |-> "none", aborted |-> FALSE, live |-> FALSE, item |-> NoItem]
NoReplay == [st |-> "none", live |-> FALSE, ver |-> 0]

\* id is the one rendered, seen that of the effects which ran last.
Opened(id) ==
    [id |-> id, seen |-> 0, data |-> NoItem, loading |-> TRUE, refreshing |-> FALSE,
     error |-> FALSE, dialog |-> FALSE, replaying |-> FALSE, awaiting |-> 0]

TypeOK ==
    /\ kind \in {"delivery", "event"}
    /\ view.id \in Items /\ view.seen \in {0} \cup Items /\ view.awaiting \in {0} \cup Items
    /\ view.data.id \in {0} \cup Items
    /\ current \in {0} \cup Slots /\ held \in {0} \cup Slots
    /\ \A n \in Slots : fetches[n].st \in {"none", "sent", "ok", "failed"}
    /\ \A i \in Items : replays[i].st \in {"none", "sent", "ok", "failed"} /\ items[i].ver \in Nat

Init ==
    /\ kind \in {"delivery", "event"}
    /\ view = Opened(1)
    /\ fetches = [n \in Slots |-> NoFetch]
    /\ current = 0 /\ held = 0
    /\ replays = [i \in Items |-> NoReplay]
    /\ \E st \in {"pending", "failed"} :
         items = [i \in Items |-> [st |-> IF i = 1 THEN st ELSE "failed", ver |-> 0]]
    /\ active = TRUE
    /\ steps = 0
    /\ told = [i \in Items |-> 0]

Pending == view.id # view.seen
Step == steps < MaxSteps /\ steps' = steps + 1
Free == {n \in Slots : fetches[n].st = "none"}
NewFetch == CHOOSE n \in Free : TRUE
Aborted == IF held = 0 THEN fetches ELSE [fetches EXCEPT ![held].aborted = TRUE]
Forgotten(by) ==
    [n \in Slots |-> [Aborted[n] EXCEPT !.live = @ /\ by # "effect"]]

----------------------------------------------------------------------------
\* load: the first one of an item clears what is shown, another one refreshes it.
LoadsItem(by, v) ==
    /\ Free # {}
    /\ fetches' = [Forgotten(by) EXCEPT ![NewFetch] =
         [NoFetch EXCEPT !.st = "sent", !.id = v.id, !.by = by, !.live = by = "replay"]]
    /\ current' = NewFetch /\ held' = NewFetch
    /\ view' = IF by = "effect"
               THEN [v EXCEPT !.data = NoItem, !.loading = TRUE, !.refreshing = FALSE]
               ELSE [v EXCEPT !.refreshing = TRUE]

\* The effects of another id: replays in flight are forgotten, the dialog closed.
Effects ==
    /\ Pending
    /\ LoadsItem("effect", [view EXCEPT !.seen = view.id, !.awaiting = 0, !.replaying = FALSE,
                                    !.dialog = FALSE])
    /\ replays' = [i \in Items |-> [replays[i] EXCEPT !.live = FALSE]]
    /\ UNCHANGED <<kind, items, active, steps, told>>

\* isStale, or an AbortError.
Stale(n) == fetches[n].aborted \/ n # current

\* refreshDelivery, by a poll or after a replay, ends the wait for the item.
EndsWait(n) == fetches[n].by # "effect" /\ view.awaiting = fetches[n].id

\* finally: the call that is current ends loading and refreshing.
EndsLoading(n) == ~Stale(n)

Arrives(n) ==
    LET f == fetches[n]
        waited == [view EXCEPT !.replaying = @ /\ ~f.live]
        shown == IF EndsLoading(n)
                 THEN [waited EXCEPT !.loading = FALSE, !.refreshing = FALSE]
                 ELSE waited
    IN
    /\ f.st \in {"ok", "failed"} \/ (f.st = "sent" /\ f.aborted)
    /\ fetches' = [fetches EXCEPT ![n] = NoFetch]
    /\ held' = IF held = n THEN 0 ELSE held
    /\ view' = CASE Stale(n) \/ f.st = "sent" -> shown
                 [] ~Stale(n) /\ f.st = "failed" -> [shown EXCEPT !.error = TRUE]
                 [] OTHER -> [shown EXCEPT !.data = f.item, !.error = FALSE,
                                           !.awaiting = IF EndsWait(n) THEN 0 ELSE @]
    /\ UNCHANGED <<kind, current, replays, items, active, steps, told>>

Answers(n) ==
    LET i == fetches[n].id IN
    /\ fetches[n].st = "sent" /\ ~fetches[n].aborted
    /\ \/ /\ fetches' = [fetches EXCEPT ![n].st = "ok", ![n].item =
                           [id |-> i, st |-> items[i].st, ver |-> items[i].ver, active |-> active]]
          /\ UNCHANGED steps
       \/ /\ Step
          /\ fetches' = [fetches EXCEPT ![n].st = "failed"]
    /\ UNCHANGED <<kind, view, current, held, replays, items, active, told>>

----------------------------------------------------------------------------
\* What the pages render.
AwaitingReplay == view.awaiting = view.id
IsOpen == view.data.st = "pending"
Polling == IF kind = "delivery" THEN AwaitingReplay \/ IsOpen ELSE IsOpen

Body == CASE view.loading -> "skeleton"
          [] ~view.loading /\ view.data.id # 0 -> "item"
          [] OTHER -> "blank"

\* The page of a delivery: its actions, banner and hints.
ReplayOffered ==
    /\ ~ReadOnly /\ ~AwaitingReplay
    /\ view.data.st = "failed" /\ view.data.active
DeliveryBanner == CASE AwaitingReplay /\ view.error -> "queued, retrying"
                    [] AwaitingReplay /\ ~view.error -> "queued, refreshing"
                    [] ~AwaitingReplay /\ view.error -> "error"
                    [] OTHER -> "none"
DeliveryPage ==
    [title |-> IF view.data.id # 0 THEN view.data.id ELSE 0,
     live |-> ~view.error /\ Polling,
     replay |-> ReplayOffered,
     banner |-> DeliveryBanner,
     body |-> Body,
     disabledHint |-> Body = "item" /\ view.data.st = "failed" /\ ~view.data.active,
     dialog |-> view.dialog,
     confirm |-> view.dialog /\ ~view.replaying]

\* The page of an event.
EventPage ==
    [title |-> IF view.data.id # 0 THEN view.data.id ELSE 0,
     banner |-> IF view.error THEN "error" ELSE "none",
     body |-> Body]

----------------------------------------------------------------------------
\* The user follows a link to another item, the page stays.
Goes(id) ==
    /\ ~Pending /\ Step
    /\ id # view.id
    /\ view' = [view EXCEPT !.id = id]
    /\ UNCHANGED <<kind, fetches, current, held, replays, items, active, told>>

\* The dialog is opened and closed; it stays where it is while an answer is due.
Opens ==
    /\ kind = "delivery" /\ ~Pending /\ ~view.dialog /\ Step
    /\ DeliveryPage.replay
    /\ view' = [view EXCEPT !.dialog = TRUE]
    /\ UNCHANGED <<kind, fetches, current, held, replays, items, active, told>>

Cancels ==
    /\ ~Pending /\ view.dialog /\ Step
    /\ view' = [view EXCEPT !.dialog = FALSE]
    /\ UNCHANGED <<kind, fetches, current, held, replays, items, active, told>>

\* handleReplay, up to its request. One replay of an item is in flight at a time.
Replays ==
    LET i == view.id IN
    /\ ~Pending /\ DeliveryPage.confirm
    /\ ~AwaitingReplay /\ replays[i].st = "none" /\ items[i].ver < MaxRuns
    /\ view' = [view EXCEPT !.replaying = TRUE]
    /\ replays' = [replays EXCEPT ![i] = [NoReplay EXCEPT !.st = "sent", !.live = TRUE]]
    /\ UNCHANGED <<kind, fetches, current, held, items, active, steps, told>>

\* The API replays a delivery that failed, if its endpoint is active.
Accepts(i) ==
    /\ replays[i].st = "sent"
    /\ IF items[i].st = "failed" /\ active
       THEN /\ items' = [items EXCEPT ![i] = [st |-> "pending", ver |-> @.ver + 1]]
            /\ replays' = [replays EXCEPT ![i].st = "ok", ![i].ver = items[i].ver + 1]
       ELSE /\ replays' = [replays EXCEPT ![i].st = "failed"]
            /\ UNCHANGED items
    /\ UNCHANGED <<kind, view, fetches, current, held, active, steps, told>>

\* The answer is lost, before or after the replay was made.
Loses(i) ==
    /\ replays[i].st \in {"sent", "ok"} /\ Step
    /\ replays' = [replays EXCEPT ![i].st = "failed"]
    /\ UNCHANGED <<kind, view, fetches, current, held, items, active, told>>

\* Faulty: the page does not wait for the new state.
WaitsNever(v, i) == [v EXCEPT !.dialog = FALSE]

\* It waits for the new state of the item, the dialog closed.
Waits(v, i) == [v EXCEPT !.dialog = FALSE, !.awaiting = i]

\* handleReplay goes on, up to its load; the load ends it. An answer that is no longer live changes nothing.
Replayed(i) ==
    /\ replays[i].st = "ok" /\ ~Pending
    /\ replays' = [replays EXCEPT ![i] = NoReplay]
    /\ IF replays[i].live
       THEN /\ LoadsItem("replay", Waits(view, i))
            /\ told' = [told EXCEPT ![i] = replays[i].ver]
       ELSE UNCHANGED <<view, fetches, current, held, told>>
    /\ UNCHANGED <<kind, items, active, steps>>

ReplayFails(i) ==
    /\ replays[i].st = "failed"
    /\ replays' = [replays EXCEPT ![i] = NoReplay]
    /\ view' = IF replays[i].live THEN [view EXCEPT !.replaying = FALSE] ELSE view
    /\ UNCHANGED <<kind, fetches, current, held, items, active, steps, told>>

----------------------------------------------------------------------------
\* The timer, unless the call of the last poll is still under way.
Polls ==
    /\ Polling /\ ~Pending
    /\ \A n \in Slots : fetches[n].by # "poll"
    /\ LoadsItem("poll", view)
    /\ UNCHANGED <<kind, replays, items, active, steps, told>>

\* The worker finishes an item.
Finishes(i) ==
    /\ items[i].st = "pending"
    /\ \E st \in {"failed", "done"} : items' = [items EXCEPT ![i] = [st |-> st, ver |-> @.ver + 1]]
    /\ UNCHANGED <<kind, view, fetches, current, held, replays, active, steps, told>>

Disables ==
    /\ active /\ Step
    /\ active' = FALSE
    /\ UNCHANGED <<kind, view, fetches, current, held, replays, items, told>>

Next ==
    \/ \E n \in Slots : Answers(n) \/ Arrives(n)
    \/ \E i \in Items : Goes(i) \/ Accepts(i) \/ Loses(i) \/ Replayed(i) \/ ReplayFails(i) \/ Finishes(i)
    \/ Effects \/ Opens \/ Cancels \/ Replays \/ Polls \/ Disables

Fairness ==
    /\ WF_vars(Effects) /\ WF_vars(Polls)
    /\ \A n \in Slots : WF_vars(Answers(n) \/ Arrives(n))
    /\ \A i \in Items : WF_vars(Accepts(i) \/ Replayed(i) \/ ReplayFails(i)) /\ WF_vars(Finishes(i))

Spec == Init /\ [][Next]_vars /\ Fairness

----------------------------------------------------------------------------
\* The item shown is the one of the route, however late another one's answer comes.
ShownIsOfRoute ==
    ~Pending => DeliveryPage.title \in {0, view.id} /\ EventPage.title \in {0, view.id}

\* The item never goes back to an older state.
NeverOlder == view'.data.id = view.data.id => view'.data.ver >= view.data.ver

\* A replay is not offered on the strength of a state older than the last replay
\* the page was told of: it waits for an answer that was asked for since.
OfferedOnNews ==
    ~Pending /\ DeliveryPage.replay => view.data.ver >= told[view.id]

\* What the page of an item shows and offers.
DetailIsHonest == ShownIsOfRoute /\ OfferedOnNews

\* Again and again: a page that loads an item ends up with the item or an error.
Settled == ~view.loading /\ (view.data.id # 0 \/ view.error)

\* Again and again: an open item on the screen is followed until it is no longer open.
Followed == ~IsOpen \/ Pending
=============================================================================
