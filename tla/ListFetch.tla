------------------------------ MODULE ListFetch ------------------------------
(***************************************************************************)
(* A list page of the console: usePaginatedList with the page cache, used by *)
(* the logs (Deliveries and Events, which poll) and by Endpoints (which      *)
(* toggles rows and reloads).  React renders, and runs the effects of a       *)
(* render afterwards; answers of the API arrive at any time, also between the *)
(* two and after their request was aborted.  A list has pages 0 and 1.        *)
(***************************************************************************)
EXTENDS Integers

CONSTANTS Keys,               \* the filters of the page
          Slots,              \* ids of the calls in flight
          MaxVer, MaxMoves    \* bounds of the model

VARIABLES
    list,     \* "log" polls, "endpoints" is changed by its user
    page,     \* React state of the mounted hook
    calls,    \* [Slots -> call of fetchPage]
    latest,   \* the call requestRef names, 0 for none
    abort,    \* the call abortRef holds, 0 for none
    saved,    \* the page's SavedResult of this session
    server,   \* [ver |-> how often the list changed, pages |-> its pages, under any filter]
    toggle,   \* the PATCH of handleToggleStatus
    moves,    \* what the user, other pages and failures have done so far
    ghost     \* [told, cleared |-> versions, dropped |-> BOOLEAN], see below

vars == <<list, page, calls, latest, abort, saved, server, toggle, moves, ghost>>

Views == [session : 1..2, key : Keys, off : 0..1]
NoView == [session |-> 0, key |-> "none", off |-> 0]
NoRows == [of |-> NoView, ver |-> 0, some |-> FALSE, more |-> FALSE]
NoCall == [st |-> "none", mine |-> FALSE, aborted |-> FALSE, fresh |-> FALSE,
           at |-> NoView, rows |-> NoRows]
NoToggle == [st |-> "none", mine |-> FALSE, ver |-> 0, at |-> NoView]

\* cur is what the state says, commit what was rendered last, seen the render
\* whose effects ran last: offsetRef, queryKeyRef and cacheRef are those of seen.
Mounted(session, key, rows, initial) ==
    LET v == [session |-> session, key |-> key, off |-> 0] IN
    [open |-> TRUE, cur |-> v, commit |-> v, seen |-> NoView, armed |-> FALSE,
     at |-> IF initial THEN v ELSE NoView, rows |-> rows,
     settled |-> IF initial THEN v ELSE NoView, error |-> FALSE,
     refreshing |-> initial, inited |-> initial]
Closed(session) ==
    [Mounted(session, CHOOSE k \in Keys : TRUE, NoRows, FALSE) EXCEPT !.open = FALSE]

TypeOK ==
    /\ list \in {"log", "endpoints"}
    /\ page.cur \in Views /\ page.commit \in Views
    /\ page.seen \in Views \cup {NoView} /\ page.at \in Views \cup {NoView}
    /\ page.settled \in Views \cup {NoView}
    /\ \A n \in Slots : calls[n].st \in {"none", "sent", "rows", "failed", "denied"}
    /\ latest \in {0} \cup Slots /\ abort \in {0} \cup Slots
    /\ toggle.st \in {"none", "sent", "ok", "failed"} /\ server.ver \in 0..MaxVer

Init ==
    /\ list \in {"log", "endpoints"}
    /\ \E key \in Keys : page = Mounted(1, key, NoRows, FALSE)
    /\ calls = [n \in Slots |-> NoCall]
    /\ latest = 0 /\ abort = 0
    /\ saved = NoRows
    /\ server \in [ver : {0}, pages : {1, 2}]
    /\ toggle = NoToggle
    /\ moves = 0
    /\ ghost = [told |-> 0, cleared |-> 0, dropped |-> FALSE]

Pending == page.open /\ page.commit # page.seen
Moves == moves < MaxMoves /\ moves' = moves + 1
Free == {n \in Slots : calls[n].st = "none"}
NewCall == CHOOSE n \in Free : TRUE

\* A state update is rendered at once, unless effects of a render wait to run.
Rendered(p) == IF p.commit = p.seen THEN [p EXCEPT !.commit = p.cur] ELSE p

AbortCall(cs, n) == IF n = 0 THEN cs ELSE [cs EXCEPT ![n].aborted = TRUE]
\* clear makes the calls of the session's cache one generation old.
Outdated(cs, session) ==
    [n \in Slots |-> IF cs[n].at.session = session THEN [cs[n] EXCEPT !.fresh = FALSE] ELSE cs[n]]

----------------------------------------------------------------------------
\* A load after the first one shows that it refreshes.
Refreshes(p) == p.refreshing \/ p.inited

\* load: the call before it is aborted.  p is the page, cs the calls so far.
LoadsPage(p, cs) ==
    /\ Free # {}
    /\ calls' = [AbortCall(cs, abort) EXCEPT ![NewCall] =
         [NoCall EXCEPT !.st = "sent", !.mine = TRUE, !.fresh = TRUE, !.at = p.seen]]
    /\ latest' = NewCall /\ abort' = NewCall
    /\ page' = [p EXCEPT !.refreshing = Refreshes(p)]
    /\ ghost' = [ghost EXCEPT !.dropped = FALSE]

\* The page is opened: its state starts from the cache, unless that is older
\* than a minute.
Enter(key) ==
    /\ ~page.open /\ Moves
    /\ \E expired \in BOOLEAN :
         LET hit == saved.of.key = key /\ ~expired IN
         /\ page' = Mounted(page.cur.session, key, IF hit THEN saved ELSE NoRows, hit)
         /\ saved' = IF saved.of.key = key /\ expired THEN NoRows ELSE saved
    /\ latest' = 0 /\ abort' = 0
    /\ ghost' = [ghost EXCEPT !.dropped = FALSE]
    /\ UNCHANGED <<list, calls, server, toggle>>

\* The cleanup of the last effect aborts; what still arrives finds no page.
Leave ==
    /\ page.open /\ ~Pending /\ Moves
    /\ page' = Closed(page.cur.session)
    /\ calls' = [n \in Slots |-> [AbortCall(calls, abort)[n] EXCEPT !.mine = FALSE]]
    /\ toggle' = [toggle EXCEPT !.mine = FALSE, !.at = page.seen]
    /\ latest' = 0 /\ abort' = 0
    /\ UNCHANGED <<list, saved, server, ghost>>

\* The effects of the last render: the cleanup of those before, the refs, and
\* then a load, or a return to page 0 first when the filter changed.
Effects ==
    LET switched == page.seen # NoView /\ page.seen.session # page.commit.session
        filtered == page.seen # NoView /\ page.seen.key # page.commit.key
        cleaned == IF page.armed THEN AbortCall(calls, abort) ELSE calls
        cs == IF switched THEN Outdated(cleaned, page.seen.session) ELSE cleaned
        p == [page EXCEPT !.seen = page.commit]
    IN
    /\ Pending
    /\ IF filtered /\ page.commit.off # 0
       THEN /\ page' = Rendered([p EXCEPT !.cur.off = 0, !.armed = FALSE])
            /\ calls' = cs
            /\ latest' = 0
            /\ UNCHANGED <<abort, ghost>>
       ELSE LoadsPage(Rendered([p EXCEPT !.armed = TRUE]), cs)
    /\ UNCHANGED <<list, saved, server, toggle, moves>>

----------------------------------------------------------------------------
\* Faulty: answers are taken as they come.
StaleNever(n) == FALSE

\* stale: superseded, of another filter, of another session, or older than a clear.
Stale(n) ==
    LET c == calls[n] IN
    \/ c.aborted \/ ~c.fresh
    \/ c.mine /\ (n # latest \/ c.at.key # page.seen.key \/ c.at.session # page.seen.session)

\* Faulty: the call under way is never forgotten.
OwnsNever(n) == FALSE

\* abortRef still holds the call.
Owns(n) == abort = n

\* Faulty: the rows are taken to be those the page is at.
Relabelled(n) == page.cur

\* loadedKey and settledKey: what the call asked for.
RequestKey(n) == calls[n].at

\* Rows were removed, and the page is past the last.
PastEnd(rows, at) == ~rows.some /\ at.off > 0

\* The end of every call: refreshing ends with the call abortRef holds.
Ends(n, p) ==
    /\ page' = IF calls[n].mine
               THEN Rendered([p EXCEPT !.refreshing = @ /\ ~Owns(n)])
               ELSE page
    /\ abort' = IF calls[n].mine /\ Owns(n) THEN 0 ELSE abort

\* The answer is taken.
Takes(n) ==
    LET c == calls[n]
        settles == [page EXCEPT !.inited = TRUE, !.settled = RequestKey(n)]
    IN
    /\ c.st = "rows" /\ ~Stale(n)
    /\ calls' = [calls EXCEPT ![n] = NoCall]
    /\ IF PastEnd(c.rows, c.at)
       THEN /\ Ends(n, [settles EXCEPT !.cur.off = c.at.off - 1])
            /\ UNCHANGED saved
       ELSE /\ Ends(n, [settles EXCEPT !.at = RequestKey(n), !.rows = c.rows,
                                       !.cur.off = c.at.off, !.error = FALSE])
            /\ saved' = IF c.at.off = 0 /\ c.at.session = page.cur.session THEN c.rows ELSE saved
    /\ UNCHANGED <<list, latest, server, toggle, moves, ghost>>

\* It failed: the rows stay, and the error is shown.
Fails(n) ==
    /\ calls[n].st = "failed" /\ ~Stale(n)
    /\ calls' = [calls EXCEPT ![n] = NoCall]
    /\ Ends(n, [page EXCEPT !.error = TRUE, !.inited = TRUE, !.settled = RequestKey(n)])
    /\ UNCHANGED <<list, latest, saved, server, toggle, moves, ghost>>

\* 401 or 403: nothing of this session may be shown any more.
Denied(n) ==
    LET c == calls[n] IN
    /\ c.st = "denied" /\ ~Stale(n)
    /\ calls' = [Outdated(calls, c.at.session) EXCEPT ![n] = NoCall]
    /\ saved' = IF c.at.session = page.cur.session THEN NoRows ELSE saved
    /\ ghost' = [ghost EXCEPT !.cleared = server.ver]
    /\ Ends(n, [page EXCEPT !.rows = NoRows, !.at = NoView, !.error = TRUE,
                            !.inited = TRUE, !.settled = RequestKey(n)])
    /\ UNCHANGED <<list, latest, server, toggle, moves>>

\* A stale answer, or the AbortError of an aborted call, is dropped.
Drops(n) ==
    /\ calls[n].st # "none" /\ Stale(n)
    /\ calls[n].st # "sent" \/ calls[n].aborted
    /\ calls' = [calls EXCEPT ![n] = NoCall]
    /\ Ends(n, page)
    /\ UNCHANGED <<list, latest, saved, server, toggle, moves, ghost>>

\* The API reads one row more than the page: it tells whether there is a next page.
Listed(at) ==
    [of |-> at, ver |-> server.ver, some |-> at.off < server.pages,
     more |-> at.off + 1 < server.pages]

\* The API answers a call; it may be aborted before its answer is taken.
Answers(n) ==
    /\ calls[n].st = "sent" /\ ~calls[n].aborted
    /\ \/ /\ calls' = [calls EXCEPT ![n].st = "rows", ![n].rows = Listed(calls[n].at)]
          /\ UNCHANGED moves
       \/ /\ Moves
          /\ \E st \in {"failed", "denied"} : calls' = [calls EXCEPT ![n].st = st]
    /\ UNCHANGED <<list, page, latest, abort, saved, server, toggle, ghost>>

----------------------------------------------------------------------------
\* What the page renders.
IsCurrent == page.at = page.cur
HasRows == IsCurrent /\ page.rows.some
HasMore == IsCurrent /\ page.rows.more
IsInitial == page.settled # page.cur
ShownError == page.settled = page.cur /\ page.error
IsEmpty == IsCurrent /\ ~IsInitial /\ ~page.refreshing /\ ~ShownError /\ ~page.rows.some
CanGoBack == page.cur.off > 0
ShowFooter == ~IsInitial /\ (HasMore \/ CanGoBack)

\* The text for an empty list depends on the filter.
DeliveriesEmpty == IF page.cur.key = "all" THEN "nothing yet" ELSE "nothing matches"
EventsEmpty == IF page.cur.key = "all" THEN "nothing yet" ELSE "nothing matches"
EndpointsEmpty == IF page.cur.key = "all" THEN "nothing yet" ELSE "nothing matches"

\* What stands in the place of the rows.
Body(nothing) ==
    CASE IsInitial /\ ~HasRows -> "skeleton"
      [] HasRows -> "rows"
      [] IsEmpty -> nothing
      [] OTHER -> "blank"

\* Deliveries says Updating or Live above its body, Events and Endpoints say Updating
\* only.
DeliveriesHead == CASE page.refreshing -> "updating"
                    [] ~page.refreshing /\ ~IsInitial /\ ~ShownError -> "live"
                    [] OTHER -> "nothing"
DeliveriesBody == Body(DeliveriesEmpty)
EventsBody == Body(EventsEmpty)
EndpointsBody == Body(EndpointsEmpty)

\* The select goes with the body; Deliveries has a button besides that clears a filter.
Toolbar ==
    (IF list = "log" THEN DeliveriesBody ELSE EndpointsBody) \notin {"skeleton", "nothing yet"}
ClearFilter == list = "log" /\ page.cur.key # "all"
RowMenuEnabled == toggle.st = "none" \/ ~toggle.mine

----------------------------------------------------------------------------
\* The select of the page: the URL and the offset change at once.
FiltersBy(key) ==
    /\ page.open /\ ~Pending /\ Moves
    /\ Toolbar \/ (ClearFilter /\ key = "all")
    /\ page' = Rendered([page EXCEPT !.cur.key = key, !.cur.off = 0])
    /\ UNCHANGED <<list, calls, latest, abort, saved, server, toggle, ghost>>

\* A link or the back button: the URL changes alone.
Navigates(key) ==
    /\ page.open /\ ~Pending /\ Moves
    /\ page' = Rendered([page EXCEPT !.cur.key = key])
    /\ UNCHANGED <<list, calls, latest, abort, saved, server, toggle, ghost>>

\* Previous and Next of the footer.
Turns ==
    /\ page.open /\ ~Pending /\ Moves
    /\ ShowFooter
    /\ \/ HasMore /\ page' = Rendered([page EXCEPT !.cur.off = 1])
       \/ CanGoBack /\ page' = Rendered([page EXCEPT !.cur.off = 0])
    /\ UNCHANGED <<list, calls, latest, abort, saved, server, toggle, ghost>>

\* The session becomes another one: a new cache, the old one is cleared.
Switches ==
    /\ page.open /\ ~Pending /\ Moves
    /\ page.cur.session = 1 /\ toggle.st = "none"
    /\ page' = Rendered([page EXCEPT !.cur.session = 2])
    /\ saved' = NoRows
    /\ ghost' = [ghost EXCEPT !.cleared = server.ver]
    /\ UNCHANGED <<list, calls, latest, abort, server, toggle>>

\* The timer of the logs: refresh does nothing while a call is under way.
Polls ==
    /\ list = "log" /\ page.open /\ ~Pending /\ abort = 0
    /\ LoadsPage(page, calls)
    /\ UNCHANGED <<list, saved, server, toggle, moves>>

\* Another page's answer (Send event, a replay) clears the cache of the console.
ClearedElsewhere ==
    /\ Moves
    /\ saved' = NoRows
    /\ calls' = Outdated(calls, page.cur.session)
    /\ ghost' = [ghost EXCEPT !.cleared = server.ver, !.dropped = @ \/ abort # 0]
    /\ UNCHANGED <<list, page, latest, abort, server, toggle>>

\* The list changes on the server.
Changes ==
    /\ server.ver < MaxVer /\ Moves
    /\ \E pages \in 0..2 : server' = [ver |-> server.ver + 1, pages |-> pages]
    /\ UNCHANGED <<list, page, calls, latest, abort, saved, toggle, ghost>>

----------------------------------------------------------------------------
\* handleToggleStatus: the PATCH is sent; the API makes the change.
Toggles ==
    /\ list = "endpoints" /\ page.open /\ ~Pending /\ Moves
    /\ EndpointsBody = "rows" /\ RowMenuEnabled /\ toggle.st = "none"
    /\ toggle' = [st |-> "sent", mine |-> TRUE, ver |-> 0, at |-> page.seen]
    /\ UNCHANGED <<list, page, calls, latest, abort, saved, server, ghost>>

Patches ==
    /\ toggle.st = "sent"
    /\ \/ /\ server.ver < MaxVer
          /\ \E pages \in 0..2 : server' = [ver |-> server.ver + 1, pages |-> pages]
          /\ toggle' = [toggle EXCEPT !.st = "ok", !.ver = server.ver + 1]
       \/ /\ toggle' = [toggle EXCEPT !.st = "failed"]
          /\ UNCHANGED server
    /\ UNCHANGED <<list, page, calls, latest, abort, saved, moves, ghost>>

\* reloadEndpoints: the cache is cleared and the list loaded again, also by the
\* closure of a page that was left, whose load reaches the cache only.
Reloads ==
    /\ toggle.st = "ok" /\ ~Pending
    /\ saved' = NoRows
    /\ toggle' = NoToggle
    /\ LET cs == Outdated(calls, page.cur.session) IN
       IF toggle.mine
       THEN /\ Free # {}
            /\ calls' = [AbortCall(cs, abort) EXCEPT ![NewCall] =
                 [NoCall EXCEPT !.st = "sent", !.mine = TRUE, !.fresh = TRUE, !.at = page.seen]]
            /\ latest' = NewCall /\ abort' = NewCall
            /\ page' = [page EXCEPT !.refreshing = Refreshes(page)]
            /\ ghost' = [told |-> toggle.ver, cleared |-> server.ver, dropped |-> FALSE]
       ELSE /\ Free # {}
            /\ calls' = [cs EXCEPT ![NewCall] =
                 [NoCall EXCEPT !.st = "sent", !.fresh = TRUE, !.at = toggle.at]]
            /\ ghost' = [ghost EXCEPT !.cleared = server.ver, !.dropped = @ \/ abort # 0]
            /\ UNCHANGED <<page, latest, abort>>
    /\ UNCHANGED <<list, server, moves>>

ToggleFails ==
    /\ toggle.st = "failed"
    /\ toggle' = NoToggle
    /\ UNCHANGED <<list, page, calls, latest, abort, saved, server, moves, ghost>>

----------------------------------------------------------------------------
Arrives(n) == Takes(n) \/ Fails(n) \/ Denied(n) \/ Drops(n)
Steps == Effects \/ Polls \/ Patches \/ Reloads \/ ToggleFails

Next ==
    \/ \E n \in Slots : Answers(n) \/ Arrives(n)
    \/ \E key \in Keys : Enter(key) \/ FiltersBy(key) \/ Navigates(key)
    \/ Leave \/ Turns \/ Switches \/ Toggles
    \/ Steps \/ ClearedElsewhere \/ Changes

\* Effects run, calls are answered and their answers delivered, and the timer of
\* a visible page fires.
Fairness ==
    /\ WF_vars(Steps)
    /\ \A n \in Slots : WF_vars(Answers(n) \/ Arrives(n))

Spec == Init /\ [][Next]_vars /\ Fairness

----------------------------------------------------------------------------
\* Rows on the screen were asked for by this session, with this filter, and for
\* this page, whatever arrives between a render and its effects.
RowsBelong == page.open /\ HasRows => page.rows.of = page.cur

\* Answers that arrive late or out of order never replace newer rows.
NeverOlder ==
    page.open /\ page'.open /\ page'.cur = page.cur /\ page.seen # NoView /\ HasRows /\ HasRows'
      => page'.rows.ver >= page.rows.ver

\* The cache holds rows of this session only, read after the last change that
\* cleared it.
CacheIsCurrent ==
    saved # NoRows => saved.of.session = page.cur.session /\ saved.ver >= ghost.cleared

\* Rows that are neither being updated nor under an error show every change the
\* user was told of, unless another page dropped the load that would have.
FreshWhenQuiet ==
    page.open /\ HasRows /\ ~IsInitial /\ ~page.refreshing /\ ~ShownError /\ ~ghost.dropped
       => page.rows.ver >= ghost.told

\* The page says that there is nothing only when the first page of this very
\* list came back empty, and it is blank only under an error or Updating.
BodyIsHonest ==
    page.open /\ ~Pending =>
      \A body \in {DeliveriesBody, EventsBody, EndpointsBody} :
         /\ body \in {"nothing yet", "nothing matches"} => page.rows.of = page.cur /\ ~CanGoBack
         /\ body = "blank" => ShownError \/ DeliveriesHead = "updating" \/ ghost.dropped

\* What a list of the console shows.
ListIsHonest == RowsBelong /\ CacheIsCurrent /\ FreshWhenQuiet /\ BodyIsHonest

\* Again and again: an open list is loaded; one that does not poll may wait for ever
\* when another page dropped its load.
Settled == page.open => ~IsInitial \/ (list = "endpoints" /\ ghost.dropped)
=============================================================================
