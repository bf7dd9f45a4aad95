----------------------------- MODULE ConsoleProofs -----------------------------
(***************************************************************************)
(* Theorems about the pages of the console that load and show what the API *)
(* lists: ListFetch and Dashboard, for any number of calls in flight, any  *)
(* versions and any length of a list. Each has its inductive invariant; at *)
(* the end those of all pages are put together and lifted to the console's *)
(* specification.                                                          *)
(*                                                                         *)
(* As on the detail pages, of the calls in flight only the one that the    *)
(* page holds may be taken, and its answer is later than what is on the    *)
(* screen. The list keeps besides that rows older than what the user was   *)
(* told stay only while their successors are under way; the dashboard that *)
(* what was read at one time says what is, as long as nothing has changed, *)
(* so that counting rows gives the newest activity.                        *)
(***************************************************************************)
EXTENDS FormsProofs, Sequences

----------------------------------------------------------------------------
\* The lists (ListFetch).
ListAnyView == List!Views \cup {List!NoView}
ListRowsRecord == [of: ListAnyView, ver: Nat, some: BOOLEAN, more: BOOLEAN]
ListCallRecord ==
    [st: {"none", "sent", "rows", "failed", "denied"}, mine: BOOLEAN, aborted: BOOLEAN,
     fresh: BOOLEAN, at: ListAnyView, rows: ListRowsRecord]
ListPageRecord ==
    [open: BOOLEAN, cur: List!Views, commit: List!Views, seen: ListAnyView, armed: BOOLEAN,
      at: ListAnyView,
     rows: ListRowsRecord, settled: ListAnyView, error: BOOLEAN, refreshing: BOOLEAN, inited: BOOLEAN]
ListToggleRecord == [st: {"none", "sent", "ok", "failed"}, mine: BOOLEAN, ver: Nat, at: ListAnyView]
ListVarTypes ==
    /\ list \in {"log", "endpoints"}
    /\ listPage \in ListPageRecord
    /\ listCalls \in [Slots -> ListCallRecord]
    /\ latest \in {0} \cup Slots /\ abort \in {0} \cup Slots
    /\ listSaved \in ListRowsRecord
    /\ server \in [ver: 0..MaxVer, pages: 0..2]
    /\ toggle \in ListToggleRecord
    /\ ghost \in [told: Nat, cleared: Nat, dropped: BOOLEAN]

\* No rows are of a later version than the list, and what the user was told is no
\* later than the last clear.
ListVersFit ==
    /\ listPage.rows.ver <= server.ver /\ listSaved.ver <= server.ver /\ toggle.ver <= server.ver
    /\ \A n \in Slots : listCalls[n].rows.ver <= server.ver
    /\ ghost.told <= ghost.cleared /\ ghost.cleared <= server.ver

\* The session became another one, and the effects of that have not run.
ListSwitching == listPage.seen # List!NoView /\ listPage.seen.session # listPage.cur.session

\* What is rendered, and what its effects ran for.
ListRenderFit ==
    /\ listPage.commit = listPage.seen => listPage.commit = listPage.cur
    /\ listPage.commit.session = listPage.cur.session /\ listPage.commit.key = listPage.cur.key
    /\ listPage.seen = List!NoView => listPage.commit = listPage.cur /\ listPage.cur.off = 0
    /\ listPage.seen.session <= listPage.cur.session /\ listPage.settled.session <= listPage.cur.session
    /\ ~listPage.open => listPage.seen = List!NoView /\ listPage.at = List!NoView

\* What a call asked for; only the one that abort names is mine and not aborted, only
\* the latest one may be taken, and its answer is news.
ListCallsFit ==
    \A n \in Slots : listCalls[n].st # "none" =>
      /\ listCalls[n].at \in List!Views /\ listCalls[n].at.session <= listPage.cur.session
      /\ ListSwitching => listCalls[n].at.session # listPage.cur.session
      /\ listCalls[n].st = "rows" => listCalls[n].rows.of = listCalls[n].at
      /\ listCalls[n].fresh => listCalls[n].at.session = listPage.cur.session \/ ListSwitching
      /\ listCalls[n].fresh /\ listCalls[n].st = "rows" =>
           /\ listCalls[n].rows.ver >= ghost.told
           /\ listCalls[n].at.session = listPage.cur.session => listCalls[n].rows.ver >= ghost.cleared
      /\ listCalls[n].mine => listPage.open /\ listPage.seen # List!NoView
      /\ listCalls[n].mine /\ ~listCalls[n].aborted => n = abort
      /\ listCalls[n].mine /\ ~listCalls[n].aborted /\ n = latest =>
           /\ listCalls[n].at = listPage.seen /\ listPage.commit = listPage.cur
           /\ listCalls[n].st = "rows" => listCalls[n].rows.ver >= listPage.rows.ver
      /\ listCalls[n].fresh /\ ~listCalls[n].mine => listPage.at = List!NoView
           \/ listPage.rows.ver >= ghost.told

\* The cache.
ListCacheFit ==
    /\ listSaved # List!NoRows =>
         /\ listSaved.of \in List!Views /\ listSaved.of.session = listPage.cur.session
         /\ listSaved.of.off = 0
         /\ listSaved.ver >= ghost.cleared
    /\ ListSwitching => listSaved = List!NoRows

\* What the rows on the screen, and the last answer, were asked for.
ListShownFit ==
    /\ listPage.at # List!NoView =>
         listPage.rows.of = listPage.at /\ listPage.inited /\ (listPage.rows.some
           \/ listPage.at.off = 0)
    /\ listPage.at # listPage.settled /\ ~listPage.error => listPage.settled.off # 0
    /\ listPage.settled = listPage.cur /\ listPage.at # listPage.cur /\ ~listPage.error =>
         listPage.seen # List!NoView /\ listPage.seen.key # listPage.commit.key
           /\ listPage.commit.off # 0
    /\ listPage.commit.off # 0 =>
         \/ listPage.settled.off # 0 \/ listPage.settled.session # listPage.cur.session
         \/ listPage.settled.key = listPage.seen.key
    /\ listPage.cur.off # 0 /\ listPage.commit.off = 0 => listPage.settled.off # 0

\* A load is under way whose answer will be taken.
ListLive ==
    /\ listPage.refreshing /\ abort = latest /\ abort \in Slots
    /\ listCalls[abort].st # "none" /\ listCalls[abort].mine /\ listCalls[abort].fresh
    /\ ~listCalls[abort].aborted

\* Rows older than what the user was told stay only until they are replaced, or he is
\* told that they are not.
ListLagFit ==
    listPage.at # List!NoView /\ listPage.rows.ver < ghost.told =>
      listPage.error \/ ghost.dropped \/ ListLive \/ (List!Pending /\ listPage.settled # listPage.cur)

\* The change of a row that is under way.
ListToggleFit ==
    toggle.st # "none" =>
      /\ toggle.mine => listPage.open
      /\ ~toggle.mine =>
           /\ toggle.at \in List!Views /\ toggle.at.session = listPage.cur.session
           /\ listPage.at = List!NoView \/ listPage.rows.ver >= ghost.told

ListInv ==
    /\ ListVarTypes /\ ListVersFit /\ ListRenderFit /\ ListCallsFit /\ ListCacheFit /\ ListShownFit
    /\ ListLagFit /\ ListToggleFit

\* Views, and the values that are in none of them.
LEMMA ListValues ==
  /\ List!NoView \notin List!Views /\ List!NoView \in ListAnyView /\ List!NoView.session = 0
  /\ List!NoView.key = "none"
  /\ List!NoView.off = 0
  /\ \A v \in List!Views : v.session \in 1..2 /\ v.key \in Filters /\ v.off \in 0..1
       /\ v \in ListAnyView
  /\ \A v \in ListAnyView : v.session \in 0..2 /\ v.off \in 0..1
  /\ \A v, w \in List!Views : v.session = w.session /\ v.key = w.key /\ v.off = w.off => v = w
  /\ List!NoRows \in ListRowsRecord /\ List!NoRows.of = List!NoView /\ List!NoRows.ver = 0
  /\ List!NoRows.some = FALSE
  /\ List!NoCall \in ListCallRecord /\ List!NoCall.st = "none" /\ List!NoCall.mine = FALSE
  /\ List!NoCall.fresh = FALSE
  /\ List!NoCall.at = List!NoView /\ List!NoCall.rows.ver = 0 /\ List!NoCall.rows = List!NoRows
  /\ List!NoCall.aborted = FALSE
  /\ List!NoToggle \in ListToggleRecord /\ List!NoToggle.st = "none" /\ List!NoToggle.ver = 0
<1>1. List!NoView \notin List!Views  BY ListAssumption DEF List!NoView, List!Views
<1>2. List!NoView \in ListAnyView /\ List!NoView.session = 0 /\ List!NoView.key = "none"
        /\ List!NoView.off = 0
  BY DEF List!NoView, ListAnyView
<1>3. \A v \in List!Views : v.session \in 1..2 /\ v.key \in Filters /\ v.off \in 0..1
        /\ v \in ListAnyView
  BY DEF List!Views, ListAnyView
<1>4. \A v \in ListAnyView : v.session \in 0..2 /\ v.off \in 0..1
  BY <1>2, <1>3 DEF ListAnyView
<1>5. \A v, w \in List!Views : v.session = w.session /\ v.key = w.key /\ v.off = w.off => v = w
  BY DEF List!Views
<1>6. List!NoRows \in ListRowsRecord /\ List!NoRows.of = List!NoView /\ List!NoRows.ver = 0
        /\ List!NoRows.some = FALSE
  BY <1>2 DEF List!NoRows, ListRowsRecord
<1>7. /\ List!NoCall \in ListCallRecord /\ List!NoCall.st = "none" /\ List!NoCall.mine = FALSE
      /\ List!NoCall.fresh = FALSE
      /\ List!NoCall.at = List!NoView /\ List!NoCall.rows = List!NoRows /\ List!NoCall.aborted = FALSE
  BY <1>2, <1>6 DEF List!NoCall, ListCallRecord
<1>8. List!NoToggle \in ListToggleRecord /\ List!NoToggle.st = "none" /\ List!NoToggle.ver = 0
  BY <1>2 DEF List!NoToggle, ListToggleRecord
<1>. QED  BY <1>1, <1>2, <1>3, <1>4, <1>5, <1>6, <1>7, <1>8

\* What a state update makes of the page.
LEMMA ListRenderedIs ==
  ASSUME NEW p \in ListPageRecord
  PROVE  LET r == List!Rendered(p) IN
         /\ r \in ListPageRecord
         /\ r.open = p.open /\ r.cur = p.cur /\ r.seen = p.seen /\ r.armed = p.armed
         /\ r.at = p.at /\ r.rows = p.rows /\ r.settled = p.settled /\ r.error = p.error
         /\ r.refreshing = p.refreshing /\ r.inited = p.inited
         /\ r.commit = IF p.commit = p.seen THEN p.cur ELSE p.commit
BY DEF List!Rendered, ListPageRecord

\* Another view of the page.
LEMMA ListMovedIs ==
  ASSUME NEW p \in ListPageRecord, NEW v \in List!Views
  PROVE  LET r == [p EXCEPT !.cur = v] IN
         /\ r \in ListPageRecord
         /\ r.open = p.open /\ r.cur = v /\ r.commit = p.commit /\ r.seen = p.seen
         /\ r.armed = p.armed /\ r.at = p.at /\ r.rows = p.rows /\ r.settled = p.settled
         /\ r.error = p.error /\ r.refreshing = p.refreshing /\ r.inited = p.inited
BY DEF ListPageRecord

\* A call that is aborted is otherwise as it was.
LEMMA ListAbortIs ==
  ASSUME NEW cs \in [Slots -> ListCallRecord], NEW n \in {0} \cup Slots
  PROVE  /\ List!AbortCall(cs, n) \in [Slots -> ListCallRecord]
         /\ \A m \in Slots :
              LET c == List!AbortCall(cs, n)[m] IN
              /\ c.st = cs[m].st /\ (c.mine <=> cs[m].mine) /\ (c.fresh <=> cs[m].fresh)
              /\ c.at = cs[m].at /\ c.rows = cs[m].rows
              /\ (c.aborted <=> cs[m].aborted \/ m = n)
<1>. 0 \notin Slots  BY ListAssumption
<1>1. CASE n = 0
  BY <1>1 DEF List!AbortCall, ListCallRecord
<1>2. CASE n # 0
  <2>1. n \in Slots /\ List!AbortCall(cs, n) = [cs EXCEPT ![n] = [cs[n] EXCEPT !.aborted = TRUE]]
    BY <1>2 DEF List!AbortCall
  <2>. DEFINE g == [cs[n] EXCEPT !.aborted = TRUE]
  <2>2. cs[n] \in ListCallRecord  BY <2>1
  <2>3. /\ g \in ListCallRecord /\ g.st = cs[n].st /\ (g.mine <=> cs[n].mine)
             /\ (g.fresh <=> cs[n].fresh)
        /\ g.at = cs[n].at /\ g.rows = cs[n].rows /\ g.aborted = TRUE
    BY <2>2 DEF ListCallRecord
  <2>4. \A m \in Slots : cs[m].aborted \in BOOLEAN  BY DEF ListCallRecord
  <2>. HIDE DEF g
  <2>5. List!AbortCall(cs, n) = [cs EXCEPT ![n] = g]  BY <2>1 DEF g
  <2>6. \A m \in Slots : List!AbortCall(cs, n)[m] = IF m = n THEN g ELSE cs[m]  BY <2>1, <2>5
  <2>7. List!AbortCall(cs, n) \in [Slots -> ListCallRecord]  BY <2>1, <2>3, <2>5
  <2>. QED  BY <2>3, <2>4, <2>6, <2>7
<1>. QED  BY <1>1, <1>2

\* A call of a cache that was cleared is otherwise as it was.
LEMMA ListOutdatedIs ==
  ASSUME NEW cs \in [Slots -> ListCallRecord], NEW sid
  PROVE  /\ List!Outdated(cs, sid) \in [Slots -> ListCallRecord]
         /\ \A m \in Slots :
              LET c == List!Outdated(cs, sid)[m] IN
              /\ c.st = cs[m].st /\ (c.mine <=> cs[m].mine) /\ (c.aborted <=> cs[m].aborted)
              /\ c.at = cs[m].at /\ c.rows = cs[m].rows
              /\ (c.fresh <=> cs[m].fresh /\ cs[m].at.session # sid)
<1>1. \A m \in Slots : List!Outdated(cs, sid)[m]
        = IF cs[m].at.session = sid THEN [cs[m] EXCEPT !.fresh = FALSE] ELSE cs[m]
  BY DEF List!Outdated
<1>2. ASSUME NEW m \in Slots
      PROVE  LET c == List!Outdated(cs, sid)[m] IN
             /\ c \in ListCallRecord
             /\ c.st = cs[m].st /\ (c.mine <=> cs[m].mine) /\ (c.aborted <=> cs[m].aborted)
             /\ c.at = cs[m].at /\ c.rows = cs[m].rows
             /\ (c.fresh <=> cs[m].fresh /\ cs[m].at.session # sid)
  <2>1. cs[m] \in ListCallRecord  OBVIOUS
  <2>. QED  BY <1>1, <2>1 DEF ListCallRecord
<1>3. List!Outdated(cs, sid) \in [Slots -> ListCallRecord]  BY <1>2 DEF List!Outdated
<1>. QED  BY <1>2, <1>3

\* A page that is mounted with nothing to show.
LEMMA ListFreshIs ==
  ASSUME NEW sid \in 1..2, NEW key \in Filters
  PROVE  LET p == List!Mounted(sid, key, List!NoRows, FALSE)
             v == [session |-> sid, key |-> key, off |-> 0] IN
         /\ v \in List!Views
         /\ p \in ListPageRecord /\ p.open = TRUE /\ p.cur = v /\ p.commit = v /\ p.seen = List!NoView
         /\ p.rows = List!NoRows /\ p.error = FALSE /\ p.inited = FALSE
         /\ p.at = List!NoView /\ p.settled = List!NoView
<1>. DEFINE v == [session |-> sid, key |-> key, off |-> 0]
<1>1. v \in List!Views  BY DEF List!Views
<1>2. v \in ListAnyView /\ List!NoView \in ListAnyView /\ List!NoRows \in ListRowsRecord
  BY <1>1, ListValues
<1>. HIDE DEF v
<1>3. List!Mounted(sid, key, List!NoRows, FALSE) =
        [open |-> TRUE, cur |-> v, commit |-> v, seen |-> List!NoView, armed |-> FALSE,
         at |-> List!NoView, rows |-> List!NoRows, settled |-> List!NoView, error |-> FALSE,
         refreshing |-> FALSE, inited |-> FALSE]
  BY DEF List!Mounted, v
<1>. DEFINE q == List!Mounted(sid, key, List!NoRows, FALSE)
            yes == TRUE
            no == FALSE
<1>4. yes \in BOOLEAN /\ no \in BOOLEAN  OBVIOUS
<1>5. q = [open |-> yes, cur |-> v, commit |-> v, seen |-> List!NoView, armed |-> no,
           at |-> List!NoView, rows |-> List!NoRows, settled |-> List!NoView, error |-> no,
           refreshing |-> no, inited |-> no]
  BY <1>3
<1>. HIDE DEF yes, no, q
<1>6. /\ q.open = yes /\ q.cur = v /\ q.commit = v /\ q.seen = List!NoView
      /\ q.rows = List!NoRows /\ q.error = no /\ q.inited = no
      /\ q.at = List!NoView /\ q.settled = List!NoView
  BY <1>5
<1>7. q \in ListPageRecord  BY <1>1, <1>2, <1>4, <1>5 DEF ListPageRecord
<1>. QED  BY <1>1, <1>6, <1>7 DEF v, q, yes, no

\* A page that is mounted from the cache.
LEMMA ListHitIs ==
  ASSUME NEW sid \in 1..2, NEW key \in Filters, NEW those \in ListRowsRecord
  PROVE  LET p == List!Mounted(sid, key, those, TRUE)
             v == [session |-> sid, key |-> key, off |-> 0] IN
         /\ v \in List!Views
         /\ p \in ListPageRecord /\ p.open = TRUE /\ p.cur = v /\ p.commit = v /\ p.seen = List!NoView
         /\ p.rows = those /\ p.error = FALSE /\ p.inited = TRUE
         /\ p.at = v /\ p.settled = v
<1>. DEFINE v == [session |-> sid, key |-> key, off |-> 0]
<1>1. v \in List!Views  BY DEF List!Views
<1>2. v \in ListAnyView /\ List!NoView \in ListAnyView /\ List!NoRows \in ListRowsRecord
  BY <1>1, ListValues
<1>. HIDE DEF v
<1>3. List!Mounted(sid, key, those, TRUE) =
        [open |-> TRUE, cur |-> v, commit |-> v, seen |-> List!NoView, armed |-> FALSE,
         at |-> v, rows |-> those, settled |-> v, error |-> FALSE,
         refreshing |-> TRUE, inited |-> TRUE]
  BY DEF List!Mounted, v
<1>. DEFINE q == List!Mounted(sid, key, those, TRUE)
            yes == TRUE
            no == FALSE
<1>4. yes \in BOOLEAN /\ no \in BOOLEAN  OBVIOUS
<1>5. q = [open |-> yes, cur |-> v, commit |-> v, seen |-> List!NoView, armed |-> no,
           at |-> v, rows |-> those, settled |-> v, error |-> no,
           refreshing |-> yes, inited |-> yes]
  BY <1>3
<1>. HIDE DEF yes, no, q
<1>6. /\ q.open = yes /\ q.cur = v /\ q.commit = v /\ q.seen = List!NoView
      /\ q.rows = those /\ q.error = no /\ q.inited = yes
      /\ q.at = v /\ q.settled = v
  BY <1>5
<1>7. q \in ListPageRecord  BY <1>1, <1>2, <1>4, <1>5 DEF ListPageRecord
<1>. QED  BY <1>1, <1>6, <1>7 DEF v, q, yes, no

\* A page that is left.
LEMMA ListClosedIs ==
  ASSUME NEW sid \in 1..2
  PROVE  LET p == List!Closed(sid) IN
         /\ p \in ListPageRecord /\ p.open = FALSE /\ p.cur \in List!Views /\ p.cur.session = sid
         /\ p.cur.off = 0 /\ p.commit = p.cur /\ p.seen = List!NoView /\ p.at = List!NoView
         /\ p.rows = List!NoRows /\ p.settled = List!NoView /\ p.error = FALSE
<1>. DEFINE key == CHOOSE k \in Filters : TRUE
            q == List!Mounted(sid, key, List!NoRows, FALSE)
            v == [session |-> sid, key |-> key, off |-> 0]
<1>1. key \in Filters  BY ListAssumption
<1>. HIDE DEF key
<1>2. /\ v \in List!Views /\ q \in ListPageRecord /\ q.cur = v /\ q.commit = v /\ q.seen = List!NoView
      /\ q.at = List!NoView /\ q.rows = List!NoRows /\ q.settled = List!NoView /\ q.error = FALSE
  <2>1. List!NoRows \in ListRowsRecord  BY ListValues
  <2>. QED  BY <1>1, <2>1, ListFreshIs
<1>3. v.session = sid /\ v.off = 0  OBVIOUS
<1>. HIDE DEF q, v
<1>4. List!Closed(sid) = [q EXCEPT !.open = FALSE]  BY DEF List!Closed, q, key
<1>. QED  BY <1>2, <1>3, <1>4 DEF ListPageRecord

\* A load: the call before it is aborted, the new one is the latest and names the view.
LEMMA ListLoadsIs ==
  ASSUME NEW p \in ListPageRecord, NEW cs \in [Slots -> ListCallRecord], List!LoadsPage(p, cs),
         abort \in {0} \cup Slots, ghost \in [told: Nat, cleared: Nat, dropped: BOOLEAN]
  PROVE  /\ latest' \in Slots /\ abort' = latest' /\ listCalls[latest'].st = "none"
         /\ listCalls' \in [Slots -> ListCallRecord]
         /\ LET c == listCalls'[latest'] IN
            /\ c.st = "sent" /\ c.mine = TRUE /\ c.aborted = FALSE /\ c.fresh = TRUE
            /\ c.at = p.seen /\ c.rows = List!NoRows
         /\ \A m \in Slots \ {latest'} :
              LET c == listCalls'[m] IN
              /\ c.st = cs[m].st /\ (c.mine <=> cs[m].mine) /\ (c.fresh <=> cs[m].fresh)
              /\ c.at = cs[m].at /\ c.rows = cs[m].rows
              /\ (c.aborted <=> cs[m].aborted \/ m = abort)
         /\ listPage' \in ListPageRecord
         /\ listPage'.open = p.open /\ listPage'.cur = p.cur /\ listPage'.commit = p.commit
         /\ listPage'.seen = p.seen /\ listPage'.at = p.at /\ listPage'.rows = p.rows
         /\ listPage'.settled = p.settled /\ listPage'.error = p.error /\ listPage'.inited = p.inited
         /\ (listPage'.refreshing <=> p.refreshing \/ p.inited)
         /\ ghost' \in [told: Nat, cleared: Nat, dropped: BOOLEAN]
         /\ ghost'.told = ghost.told /\ ghost'.cleared = ghost.cleared /\ ghost'.dropped = FALSE
<1>1. /\ List!Free # {} /\ latest' = List!NewCall /\ abort' = List!NewCall
      /\ listPage' = [p EXCEPT !.refreshing = List!Refreshes(p)]
      /\ ghost' = [ghost EXCEPT !.dropped = FALSE]
      /\ listCalls' = [List!AbortCall(cs, abort) EXCEPT ![List!NewCall] =
           [List!NoCall EXCEPT !.st = "sent", !.mine = TRUE, !.fresh = TRUE, !.at = p.seen]]
  BY DEF List!LoadsPage
<1>2. List!NewCall \in List!Free  BY <1>1 DEF List!NewCall
<1>3. List!NewCall \in Slots /\ listCalls[List!NewCall].st = "none"  BY <1>2 DEF List!Free
<1>. DEFINE g == [List!NoCall EXCEPT !.st = "sent", !.mine = TRUE, !.fresh = TRUE, !.at = p.seen]
            as == List!AbortCall(cs, abort)
            new == List!NewCall
<1>4. p.seen \in ListAnyView  BY DEF ListPageRecord
<1>5. /\ g \in ListCallRecord /\ g.st = "sent" /\ g.mine = TRUE /\ g.aborted = FALSE
      /\ g.fresh = TRUE /\ g.at = p.seen /\ g.rows = List!NoRows
  BY <1>4, ListValues DEF ListCallRecord
<1>6. as \in [Slots -> ListCallRecord]  BY ListAbortIs
<1>. HIDE DEF g, as, new
<1>7. new \in Slots /\ listCalls' = [as EXCEPT ![new] = g] /\ latest' = new /\ abort' = new
  BY <1>1, <1>3 DEF g, as, new
<1>8. /\ listCalls' \in [Slots -> ListCallRecord] /\ listCalls'[new] = g
      /\ \A m \in Slots \ {new} : listCalls'[m] = as[m]
  BY <1>5, <1>6, <1>7
<1>9. \A m \in Slots :
        LET c == as[m] IN
        /\ c.st = cs[m].st /\ (c.mine <=> cs[m].mine) /\ (c.fresh <=> cs[m].fresh)
        /\ c.at = cs[m].at /\ c.rows = cs[m].rows
        /\ (c.aborted <=> cs[m].aborted \/ m = abort)
  BY ListAbortIs DEF as
<1>10. /\ listPage' \in ListPageRecord
       /\ listPage'.open = p.open /\ listPage'.cur = p.cur /\ listPage'.commit = p.commit
       /\ listPage'.seen = p.seen /\ listPage'.at = p.at /\ listPage'.rows = p.rows
       /\ listPage'.settled = p.settled /\ listPage'.error = p.error /\ listPage'.inited = p.inited
       /\ (listPage'.refreshing <=> p.refreshing \/ p.inited)
  BY <1>1 DEF ListPageRecord, List!Refreshes
<1>11. /\ ghost' \in [told: Nat, cleared: Nat, dropped: BOOLEAN]
       /\ ghost'.told = ghost.told /\ ghost'.cleared = ghost.cleared /\ ghost'.dropped = FALSE
  BY <1>1
<1>12. listCalls[new].st = "none"  BY <1>3 DEF new
<1>. QED  BY <1>5, <1>7, <1>8, <1>9, <1>10, <1>11, <1>12

\* At the start nothing was asked for.
LEMMA ListInitInv == List!Init => ListInv
<1>. SUFFICES ASSUME List!Init PROVE ListInv  OBVIOUS
<1>1. PICK key \in Filters : listPage = List!Mounted(1, key, List!NoRows, FALSE)  BY DEF List!Init
<1>2. /\ listPage \in ListPageRecord /\ listPage.open = TRUE /\ listPage.cur \in List!Views
      /\ listPage.commit = listPage.cur
      /\ listPage.seen = List!NoView /\ listPage.cur.off = 0 /\ listPage.at = List!NoView
      /\ listPage.settled = List!NoView
      /\ listPage.rows = List!NoRows /\ listPage.cur.session = 1
  <2>. DEFINE v == [session |-> 1, key |-> key, off |-> 0]
  <2>1. List!NoRows \in ListRowsRecord /\ 1 \in 1..2  BY ListValues
  <2>2. v.session = 1 /\ v.off = 0  OBVIOUS
  <2>3. /\ v \in List!Views /\ listPage \in ListPageRecord /\ listPage.open = TRUE /\ listPage.cur = v
        /\ listPage.commit = v /\ listPage.seen = List!NoView /\ listPage.at = List!NoView
        /\ listPage.settled = List!NoView /\ listPage.rows = List!NoRows
    BY <1>1, <2>1, ListFreshIs
  <2>. QED  BY <2>2, <2>3
<1>3. /\ listCalls = [n \in Slots |-> List!NoCall] /\ latest = 0 /\ abort = 0 /\ listSaved = List!NoRows
      /\ toggle = List!NoToggle /\ list \in {"log", "endpoints"}
      /\ server \in [ver : {0}, pages : {1, 2}]
      /\ ghost = [told |-> 0, cleared |-> 0, dropped |-> FALSE]
  BY DEF List!Init
<1>4. 0 \in 0..MaxVer  BY ListAssumption
<1>5. server \in [ver: 0..MaxVer, pages: 0..2] /\ server.ver = 0  BY <1>3, <1>4
<1>6. ListVarTypes  BY <1>2, <1>3, <1>5, ListValues DEF ListVarTypes
<1>7. \A n \in Slots : listCalls[n].st = "none" /\ listCalls[n].rows.ver = 0  BY <1>3, ListValues
<1>8. ListVersFit  BY <1>2, <1>3, <1>5, <1>7, ListValues DEF ListVersFit
<1>9. ListRenderFit  BY <1>2, ListValues DEF ListRenderFit
<1>10. ListCallsFit  BY <1>7 DEF ListCallsFit
<1>11. ListCacheFit /\ ListShownFit /\ ListLagFit /\ ListToggleFit
  BY <1>2, <1>3, ListValues
    DEF ListCacheFit, ListShownFit, ListLagFit, ListToggleFit, ListSwitching
<1>. QED  BY <1>6, <1>8, <1>9, <1>10, <1>11 DEF ListInv

\* The page is opened, with the cache if it has its filter.
LEMMA ListEnterInv == ASSUME ListInv, NEW key \in Filters, List!Enter(key) PROVE ListInv'
<1>1. PICK expired \in BOOLEAN :
        LET hit == listSaved.of.key = key /\ ~expired IN
        /\ listPage' = List!Mounted(listPage.cur.session, key, IF hit THEN listSaved ELSE List!NoRows,
             hit)
        /\ listSaved' = IF listSaved.of.key = key /\ expired THEN List!NoRows ELSE listSaved
  BY DEF List!Enter
<1>2. /\ ~listPage.open /\ latest' = 0 /\ abort' = 0 /\ ghost' = [ghost EXCEPT !.dropped = FALSE]
      /\ UNCHANGED <<list, listCalls, server, toggle>>
  BY DEF List!Enter
<1>3. /\ listPage \in ListPageRecord /\ listSaved \in ListRowsRecord /\ ghost.told \in Nat
      /\ ghost.cleared \in Nat
      /\ ghost \in [told: Nat, cleared: Nat, dropped: BOOLEAN]
      /\ server.ver \in Nat /\ listCalls \in [Slots -> ListCallRecord] /\ listSaved.ver \in Nat
      /\ ghost.told <= ghost.cleared /\ ghost.cleared <= server.ver
  BY DEF ListInv, ListVarTypes, ListVersFit, ListRowsRecord
<1>4. listPage.cur \in List!Views /\ listPage.cur.session \in 1..2 /\ listPage.seen = List!NoView
        /\ listPage.at = List!NoView
  BY <1>2, <1>3, ListValues DEF ListInv, ListRenderFit, ListPageRecord
<1>5. ~ListSwitching  BY <1>4 DEF ListSwitching
<1>. DEFINE v == [session |-> listPage.cur.session, key |-> key, off |-> 0]
            hit == listSaved.of.key = key /\ ~expired
<1>6. v \in List!Views /\ v.session = listPage.cur.session /\ v.key = key /\ v.off = 0
  BY <1>4 DEF List!Views
<1>7. hit => listSaved # List!NoRows /\ listSaved.of = v /\ listSaved.ver >= ghost.cleared
  <2>. SUFFICES ASSUME hit PROVE listSaved # List!NoRows /\ listSaved.of = v
                         /\ listSaved.ver >= ghost.cleared
    OBVIOUS
  <2>1. listSaved # List!NoRows  BY ListValues, ListAssumption
  <2>2. listSaved.of \in List!Views /\ listSaved.of.session = listPage.cur.session
          /\ listSaved.of.off = 0
        /\ listSaved.ver >= ghost.cleared
    BY <2>1 DEF ListInv, ListCacheFit
  <2>. QED  BY <1>6, <2>1, <2>2, ListValues
<1>8. hit => listPage' = List!Mounted(listPage.cur.session, key, listSaved, TRUE)  BY <1>1
<1>9. ~hit => listPage' = List!Mounted(listPage.cur.session, key, List!NoRows, FALSE)  BY <1>1
<1>10. /\ listPage' \in ListPageRecord /\ listPage'.open /\ listPage'.cur = v /\ listPage'.commit = v
       /\ listPage'.seen = List!NoView /\ listPage'.error = FALSE
       /\ \/ /\ hit /\ listPage'.at = v /\ listPage'.settled = v /\ listPage'.rows = listSaved
                  /\ listPage'.inited
          \/ listPage'.at = List!NoView /\ listPage'.settled = List!NoView
               /\ listPage'.rows = List!NoRows
  <2>. DEFINE s == listPage.cur.session
  <2>1. s \in 1..2 /\ v = [session |-> s, key |-> key, off |-> 0]  BY <1>4
  <2>2. /\ hit => listPage' = List!Mounted(s, key, listSaved, TRUE)
        /\ ~hit => listPage' = List!Mounted(s, key, List!NoRows, FALSE)
    BY <1>8, <1>9
  <2>. HIDE DEF s, v, hit
  <2>3. CASE hit
    <3>1. listPage' = List!Mounted(s, key, listSaved, TRUE)  BY <2>2, <2>3
    <3>2. /\ listPage' \in ListPageRecord /\ listPage'.open = TRUE /\ listPage'.cur = v
          /\ listPage'.commit = v
          /\ listPage'.seen = List!NoView /\ listPage'.rows = listSaved /\ listPage'.error = FALSE
          /\ listPage'.inited = TRUE /\ listPage'.at = v /\ listPage'.settled = v
      BY <1>3, <2>1, <3>1, ListHitIs
    <3>. QED  BY <2>3, <3>2
  <2>4. CASE ~hit
    <3>1. listPage' = List!Mounted(s, key, List!NoRows, FALSE)  BY <2>2, <2>4
    <3>2. /\ listPage' \in ListPageRecord /\ listPage'.open = TRUE /\ listPage'.cur = v
          /\ listPage'.commit = v
          /\ listPage'.seen = List!NoView /\ listPage'.rows = List!NoRows /\ listPage'.error = FALSE
          /\ listPage'.at = List!NoView /\ listPage'.settled = List!NoView
      BY <2>1, <3>1, ListFreshIs
    <3>. QED  BY <3>2
  <2>. QED  BY <2>3, <2>4
<1>11. listSaved' \in {listSaved, List!NoRows}  BY <1>1
<1>12. /\ ghost' \in [told: Nat, cleared: Nat, dropped: BOOLEAN]
       /\ ghost'.told = ghost.told /\ ghost'.cleared = ghost.cleared
  BY <1>2, <1>3
<1>. HIDE DEF v, hit
<1>13. ListVarTypes'
  BY <1>2, <1>10, <1>11, <1>12, ListValues DEF ListInv, ListVarTypes
<1>14. ListVersFit'
  BY <1>2, <1>3, <1>10, <1>11, <1>12, ListValues DEF ListInv, ListVersFit
<1>15. ListRenderFit'
  BY <1>6, <1>10, <1>4, ListValues DEF ListRenderFit
<1>16. ~ListSwitching'  BY <1>10 DEF ListSwitching
<1>17. ListCallsFit'
  <2>. SUFFICES ASSUME NEW n \in Slots, listCalls[n].st # "none"
                PROVE  /\ listCalls[n].at \in List!Views
                            /\ listCalls[n].at.session <= listPage'.cur.session
                       /\ listCalls[n].st = "rows" => listCalls[n].rows.of = listCalls[n].at
                       /\ listCalls[n].fresh => listCalls[n].at.session = listPage'.cur.session
                       /\ listCalls[n].fresh /\ listCalls[n].st = "rows" =>
                            /\ listCalls[n].rows.ver >= ghost'.told
                            /\ listCalls[n].at.session = listPage'.cur.session =>
                                 listCalls[n].rows.ver >= ghost'.cleared
                       /\ ~listCalls[n].mine
                       /\ listPage'.at = List!NoView \/ listPage'.rows.ver >= ghost'.told
    BY <1>2, <1>16 DEF ListCallsFit
  <2>1. listPage'.cur.session = listPage.cur.session  BY <1>6, <1>10
  <2>2. listPage'.at = List!NoView \/ listPage'.rows.ver >= ghost'.told
    BY <1>3, <1>7, <1>10, <1>12
  <2>. QED  BY <1>2, <1>5, <1>12, <2>1, <2>2 DEF ListInv, ListCallsFit
<1>18. ListCacheFit'
  BY <1>6, <1>10, <1>11, <1>12, <1>16 DEF ListInv, ListCacheFit
<1>19. ListShownFit'
  BY <1>6, <1>7, <1>10, ListValues DEF ListShownFit
<1>20. ListLagFit'
  BY <1>3, <1>7, <1>10, <1>12 DEF ListLagFit
<1>21. ListToggleFit'
  BY <1>2, <1>3, <1>6, <1>7, <1>10, <1>12 DEF ListInv, ListToggleFit
<1>. QED  BY <1>13, <1>14, <1>15, <1>17, <1>18, <1>19, <1>20, <1>21 DEF ListInv

\* The page is left: its calls are aborted, and what they bring is no longer its own.
LEMMA ListLeaveInv == ASSUME ListInv, List!Leave PROVE ListInv'
<1>1. /\ listPage.open /\ listPage.commit = listPage.seen
      /\ listPage' = List!Closed(listPage.cur.session)
      /\ listCalls' = [n \in Slots |-> [List!AbortCall(listCalls, abort)[n] EXCEPT !.mine = FALSE]]
      /\ toggle' = [toggle EXCEPT !.mine = FALSE, !.at = listPage.seen]
      /\ latest' = 0 /\ abort' = 0
      /\ UNCHANGED <<list, listSaved, server, ghost>>
  BY DEF List!Leave, List!Pending
<1>2. /\ listPage \in ListPageRecord /\ listCalls \in [Slots -> ListCallRecord]
      /\ toggle \in ListToggleRecord
      /\ abort \in {0} \cup Slots
  BY DEF ListInv, ListVarTypes
<1>3. /\ listPage.cur \in List!Views /\ listPage.cur.session \in 1..2 /\ listPage.seen = listPage.cur
      /\ listPage.seen \in ListAnyView
  BY <1>1, <1>2, ListValues DEF ListInv, ListRenderFit, ListPageRecord
<1>4. ~ListSwitching  BY <1>3 DEF ListSwitching
<1>5. /\ listPage' \in ListPageRecord /\ listPage'.open = FALSE /\ listPage'.cur \in List!Views
      /\ listPage'.cur.session = listPage.cur.session /\ listPage'.cur.off = 0
      /\ listPage'.commit = listPage'.cur /\ listPage'.seen = List!NoView /\ listPage'.at = List!NoView
      /\ listPage'.rows = List!NoRows /\ listPage'.settled = List!NoView /\ listPage'.error = FALSE
  BY <1>1, <1>3, ListClosedIs
<1>6. /\ toggle' \in ListToggleRecord /\ toggle'.st = toggle.st /\ toggle'.ver = toggle.ver
      /\ toggle'.mine = FALSE /\ toggle'.at = listPage.cur
  BY <1>1, <1>2, <1>3 DEF ListToggleRecord
<1>. DEFINE cs == List!AbortCall(listCalls, abort)
<1>7. /\ cs \in [Slots -> ListCallRecord]
      /\ \A m \in Slots :
           /\ cs[m].st = listCalls[m].st /\ (cs[m].fresh <=> listCalls[m].fresh)
           /\ cs[m].at = listCalls[m].at /\ cs[m].rows = listCalls[m].rows
  BY <1>2, ListAbortIs
<1>. HIDE DEF cs
<1>8. listCalls' = [n \in Slots |-> [cs[n] EXCEPT !.mine = FALSE]]  BY <1>1 DEF cs
<1>9. \A m \in Slots :
        /\ listCalls'[m] \in ListCallRecord
        /\ listCalls'[m].st = listCalls[m].st /\ (listCalls'[m].fresh <=> listCalls[m].fresh)
        /\ listCalls'[m].at = listCalls[m].at /\ listCalls'[m].rows = listCalls[m].rows
        /\ listCalls'[m].mine = FALSE
  <2>. SUFFICES ASSUME NEW m \in Slots
                PROVE  /\ listCalls'[m] \in ListCallRecord
                       /\ listCalls'[m].st = cs[m].st /\ (listCalls'[m].fresh <=> cs[m].fresh)
                       /\ listCalls'[m].at = cs[m].at /\ listCalls'[m].rows = cs[m].rows
                       /\ listCalls'[m].mine = FALSE
    BY <1>7
  <2>1. cs[m] \in ListCallRecord /\ listCalls'[m] = [cs[m] EXCEPT !.mine = FALSE]  BY <1>7, <1>8
  <2>. QED  BY <2>1 DEF ListCallRecord
<1>10. listCalls' \in [Slots -> ListCallRecord]  BY <1>8, <1>9
<1>11. ListVarTypes'  BY <1>1, <1>5, <1>6, <1>10 DEF ListInv, ListVarTypes
<1>12. ListVersFit'
  <2>1. server.ver \in Nat  BY DEF ListInv, ListVarTypes
  <2>. QED  BY <1>1, <1>5, <1>6, <1>9, <2>1, ListValues DEF ListInv, ListVersFit
<1>13. ListRenderFit'  BY <1>3, <1>5, ListValues DEF ListRenderFit
<1>14. ~ListSwitching'  BY <1>5 DEF ListSwitching
<1>15. ListCallsFit'
  BY <1>1, <1>4, <1>5, <1>9, <1>14 DEF ListInv, ListCallsFit
<1>16. ListCacheFit'  BY <1>1, <1>5, <1>14 DEF ListInv, ListCacheFit
<1>17. ListShownFit' /\ ListLagFit'  BY <1>3, <1>5, ListValues DEF ListShownFit, ListLagFit
<1>18. ListToggleFit'  BY <1>3, <1>5, <1>6 DEF ListToggleFit
<1>. QED  BY <1>11, <1>12, <1>13, <1>15, <1>16, <1>17, <1>18 DEF ListInv

\* The effects of a render: a load, or a return to page 0 first when the filter changed.
LEMMA ListEffectsInv == ASSUME ListInv, List!Effects PROVE ListInv'
<1>. DEFINE switched == listPage.seen # List!NoView /\ listPage.seen.session # listPage.commit.session
            filtered == listPage.seen # List!NoView /\ listPage.seen.key # listPage.commit.key
            cleaned == IF listPage.armed THEN List!AbortCall(listCalls, abort) ELSE listCalls
            cs == IF switched THEN List!Outdated(cleaned, listPage.seen.session) ELSE cleaned
            p == [listPage EXCEPT !.seen = listPage.commit]
<1>1. /\ listPage.open /\ listPage.commit # listPage.seen
      /\ UNCHANGED <<list, listSaved, server, toggle>>
      /\ IF filtered /\ listPage.commit.off # 0
         THEN /\ listPage' = List!Rendered([p EXCEPT !.cur.off = 0, !.armed = FALSE])
              /\ listCalls' = cs
              /\ latest' = 0
              /\ UNCHANGED <<abort, ghost>>
         ELSE List!LoadsPage(List!Rendered([p EXCEPT !.armed = TRUE]), cs)
  BY DEF List!Effects, List!Pending
<1>2. /\ listPage \in ListPageRecord /\ listCalls \in [Slots -> ListCallRecord]
      /\ abort \in {0} \cup Slots
      /\ ghost \in [told: Nat, cleared: Nat, dropped: BOOLEAN]
  BY DEF ListInv, ListVarTypes
<1>3. /\ listPage.cur \in List!Views /\ listPage.commit \in List!Views /\ listPage.seen \in ListAnyView
      /\ listPage.cur.session \in 1..2 /\ listPage.armed \in BOOLEAN
      /\ listPage.commit.session = listPage.cur.session /\ listPage.commit.key = listPage.cur.key
      /\ listPage.cur.off \in 0..1 /\ listPage.commit.off \in 0..1
      /\ listPage.settled \in ListAnyView /\ listPage.settled.session <= listPage.cur.session
      /\ listPage.at \in ListAnyView
  BY <1>2, ListValues DEF ListInv, ListRenderFit, ListPageRecord
<1>4. switched <=> ListSwitching  BY <1>3 DEF ListSwitching
<1>5. ListSwitching => listPage.seen.session = 1 /\ listPage.cur.session = 2
  <2>. SUFFICES ASSUME ListSwitching PROVE listPage.seen.session = 1
                         /\ listPage.cur.session = 2  OBVIOUS
  <2>1. listPage.seen \in List!Views /\ listPage.seen.session # listPage.cur.session
    BY <1>3 DEF ListSwitching, ListAnyView
  <2>2. listPage.seen.session \in 1..2 /\ listPage.seen.session <= listPage.cur.session
    BY <2>1, ListValues DEF ListInv, ListRenderFit
  <2>. QED  BY <1>3, <2>1, <2>2
<1>6. /\ cleaned \in [Slots -> ListCallRecord]
      /\ \A m \in Slots :
           /\ cleaned[m].st = listCalls[m].st /\ (cleaned[m].mine <=> listCalls[m].mine)
           /\ (cleaned[m].fresh <=> listCalls[m].fresh) /\ cleaned[m].at = listCalls[m].at
           /\ cleaned[m].rows = listCalls[m].rows
           /\ listCalls[m].aborted => cleaned[m].aborted
  <2>1. CASE listPage.armed  BY <1>2, <2>1, ListAbortIs
  <2>2. CASE ~listPage.armed  BY <1>2, <2>2
  <2>. QED  BY <2>1, <2>2
<1>. HIDE DEF cleaned
<1>7. /\ cs \in [Slots -> ListCallRecord]
      /\ \A m \in Slots :
           /\ cs[m].st = listCalls[m].st /\ (cs[m].mine <=> listCalls[m].mine)
           /\ cs[m].fresh => listCalls[m].fresh /\ (ListSwitching => listCalls[m].at.session # 1)
           /\ cs[m].at = listCalls[m].at /\ cs[m].rows = listCalls[m].rows
           /\ listCalls[m].aborted => cs[m].aborted
  <2>1. CASE switched
    <3>1. cs = List!Outdated(cleaned, listPage.seen.session)  BY <2>1
    <3>2. listPage.seen.session = 1  BY <1>4, <1>5, <2>1
    <3>. QED  BY <1>6, <3>1, <3>2, ListOutdatedIs
  <2>2. CASE ~switched
    <3>1. cs = cleaned /\ ~ListSwitching  BY <1>4, <2>2
    <3>. QED  BY <1>6, <3>1
  <2>. QED  BY <2>1, <2>2
<1>. HIDE DEF cs
<1>8. \A m \in Slots : cs[m].st # "none" =>
        /\ cs[m].at \in List!Views /\ cs[m].at.session <= listPage.cur.session
        /\ cs[m].fresh => cs[m].at.session = listPage.cur.session
  <2>. SUFFICES ASSUME NEW m \in Slots, listCalls[m].st # "none"
                PROVE  /\ listCalls[m].at \in List!Views
                            /\ listCalls[m].at.session <= listPage.cur.session
                       /\ cs[m].fresh => listCalls[m].at.session = listPage.cur.session
    BY <1>7
  <2>1. /\ listCalls[m].at \in List!Views /\ listCalls[m].at.session <= listPage.cur.session
        /\ ListSwitching => listCalls[m].at.session # listPage.cur.session
        /\ listCalls[m].fresh => listCalls[m].at.session = listPage.cur.session \/ ListSwitching
    BY DEF ListInv, ListCallsFit
  <2>2. listCalls[m].at.session \in 1..2  BY <2>1, ListValues
  <2>. QED  BY <1>5, <1>7, <2>1, <2>2
<1>9. /\ p \in ListPageRecord /\ p.open = listPage.open /\ p.cur = listPage.cur
      /\ p.commit = listPage.commit
      /\ p.seen = listPage.commit /\ p.at = listPage.at /\ p.rows = listPage.rows
      /\ p.settled = listPage.settled /\ p.error = listPage.error /\ p.inited = listPage.inited
      /\ p.refreshing = listPage.refreshing
  <2>1. listPage.commit \in ListAnyView  BY <1>3, ListValues
  <2>. QED  BY <1>2, <2>1 DEF ListPageRecord
<1>. HIDE DEF p
<1>10. CASE filtered /\ listPage.commit.off # 0
  <2>1. /\ listPage' = List!Rendered([p EXCEPT !.cur.off = 0, !.armed = FALSE])
        /\ listCalls' = cs /\ latest' = 0 /\ UNCHANGED <<abort, ghost>>
    BY <1>1, <1>10
  <2>. DEFINE v == [listPage.cur EXCEPT !.off = 0]
              q == [p EXCEPT !.cur = v, !.armed = FALSE]
  <2>2. v \in List!Views /\ v.session = listPage.cur.session /\ v.key = listPage.cur.key /\ v.off = 0
    BY <1>3 DEF List!Views
  <2>3. [p EXCEPT !.cur.off = 0, !.armed = FALSE] = q  BY <1>9
  <2>. HIDE DEF v
  <2>4. /\ q \in ListPageRecord /\ q.open = listPage.open /\ q.cur = v /\ q.commit = listPage.commit
        /\ q.seen = listPage.commit /\ q.at = listPage.at /\ q.rows = listPage.rows
        /\ q.settled = listPage.settled /\ q.error = listPage.error /\ q.inited = listPage.inited
    BY <1>9, <2>2 DEF ListPageRecord
  <2>. HIDE DEF q
  <2>5. listPage' = List!Rendered(q)  BY <2>1, <2>3
  <2>6. /\ listPage' \in ListPageRecord /\ listPage'.open = listPage.open /\ listPage'.cur = v
        /\ listPage'.commit = v
        /\ listPage'.seen = listPage.commit /\ listPage'.at = listPage.at
        /\ listPage'.rows = listPage.rows
        /\ listPage'.settled = listPage.settled /\ listPage'.error = listPage.error
        /\ listPage'.inited = listPage.inited
    BY <2>4, <2>5, ListRenderedIs
  <2>7. listPage.seen # List!NoView /\ listPage.seen.key # listPage.commit.key
          /\ listPage.commit.off # 0
    BY <1>10
  <2>8. listPage.settled # v
    BY <1>3, <2>2, <2>7 DEF ListInv, ListShownFit
  <2>9. ~ListSwitching' /\ listPage'.seen # List!NoView /\ listPage'.cur.session = listPage.cur.session
    BY <1>3, <2>2, <2>6, ListValues DEF ListSwitching
  <2>10. ListVarTypes'  BY <1>1, <1>7, <2>1, <2>6 DEF ListInv, ListVarTypes
  <2>11. ListVersFit'  BY <1>1, <1>7, <2>1, <2>6 DEF ListInv, ListVersFit
  <2>12. ListRenderFit'
    BY <1>1, <1>3, <2>2, <2>6, <2>7, <2>9, ListValues DEF ListRenderFit
  <2>13. ListCallsFit'
    <3>1. 0 \notin Slots  BY ListAssumption
    <3>. SUFFICES ASSUME NEW m \in Slots, cs[m].st # "none"
                  PROVE  /\ cs[m].at \in List!Views /\ cs[m].at.session <= listPage.cur.session
                         /\ cs[m].st = "rows" => cs[m].rows.of = cs[m].at
                         /\ cs[m].fresh => cs[m].at.session = listPage.cur.session
                         /\ cs[m].fresh /\ cs[m].st = "rows" =>
                              /\ cs[m].rows.ver >= ghost.told
                              /\ cs[m].at.session = listPage.cur.session =>
                                   cs[m].rows.ver >= ghost.cleared
                         /\ cs[m].mine /\ ~cs[m].aborted => m = abort
                         /\ cs[m].fresh /\ ~cs[m].mine =>
                              listPage.at = List!NoView \/ listPage.rows.ver >= ghost.told
      BY <1>1, <2>1, <2>6, <2>9, <3>1 DEF ListCallsFit
    <3>. QED  BY <1>7, <1>8 DEF ListInv, ListCallsFit
  <2>14. ListCacheFit'  BY <1>1, <2>1, <2>9 DEF ListInv, ListCacheFit
  <2>15. ListShownFit'  BY <2>2, <2>6, <2>8 DEF ListInv, ListShownFit
  <2>16. listPage'.open /\ listPage'.commit # listPage'.seen  BY <1>1, <2>2, <2>6, <2>7
  <2>17. ListLagFit'  BY <2>6, <2>8, <2>16 DEF ListLagFit, List!Pending
  <2>18. ListToggleFit'  BY <1>1, <2>1, <2>6, <2>9 DEF ListInv, ListToggleFit
  <2>. QED  BY <2>10, <2>11, <2>12, <2>13, <2>14, <2>15, <2>17, <2>18 DEF ListInv
<1>11. CASE ~(filtered /\ listPage.commit.off # 0)
  <2>. DEFINE q == [p EXCEPT !.armed = TRUE]
              r == List!Rendered(q)
  <2>1. /\ q \in ListPageRecord /\ q.open = listPage.open /\ q.cur = listPage.cur
        /\ q.commit = listPage.commit
        /\ q.seen = listPage.commit /\ q.at = listPage.at /\ q.rows = listPage.rows
        /\ q.settled = listPage.settled /\ q.error = listPage.error /\ q.inited = listPage.inited
        /\ q.refreshing = listPage.refreshing
    BY <1>9 DEF ListPageRecord
  <2>. HIDE DEF q
  <2>2. /\ r \in ListPageRecord /\ r.open = listPage.open /\ r.cur = listPage.cur
        /\ r.commit = listPage.cur
        /\ r.seen = listPage.commit /\ r.at = listPage.at /\ r.rows = listPage.rows
        /\ r.settled = listPage.settled /\ r.error = listPage.error /\ r.inited = listPage.inited
        /\ r.refreshing = listPage.refreshing
    BY <2>1, ListRenderedIs
  <2>3. List!LoadsPage(r, cs)  BY <1>1, <1>11 DEF q
  <2>. HIDE DEF r
  <2>4. /\ latest' \in Slots /\ abort' = latest' /\ listCalls[latest'].st = "none"
        /\ listCalls' \in [Slots -> ListCallRecord]
        /\ LET c == listCalls'[latest'] IN
           /\ c.st = "sent" /\ c.mine = TRUE /\ c.aborted = FALSE /\ c.fresh = TRUE
           /\ c.at = r.seen /\ c.rows = List!NoRows
        /\ \A m \in Slots \ {latest'} :
             LET c == listCalls'[m] IN
             /\ c.st = cs[m].st /\ (c.mine <=> cs[m].mine) /\ (c.fresh <=> cs[m].fresh)
             /\ c.at = cs[m].at /\ c.rows = cs[m].rows
             /\ (c.aborted <=> cs[m].aborted \/ m = abort)
        /\ listPage' \in ListPageRecord
        /\ listPage'.open = r.open /\ listPage'.cur = r.cur /\ listPage'.commit = r.commit
        /\ listPage'.seen = r.seen /\ listPage'.at = r.at /\ listPage'.rows = r.rows
        /\ listPage'.settled = r.settled /\ listPage'.error = r.error /\ listPage'.inited = r.inited
        /\ (listPage'.refreshing <=> r.refreshing \/ r.inited)
        /\ ghost' \in [told: Nat, cleared: Nat, dropped: BOOLEAN]
        /\ ghost'.told = ghost.told /\ ghost'.cleared = ghost.cleared /\ ghost'.dropped = FALSE
    BY <1>2, <1>7, <2>2, <2>3, ListLoadsIs
  <2>5. /\ listPage' \in ListPageRecord /\ listPage'.open /\ listPage'.cur = listPage.cur
        /\ listPage'.commit = listPage.cur
        /\ listPage'.seen = listPage.commit /\ listPage'.at = listPage.at
        /\ listPage'.rows = listPage.rows
        /\ listPage'.settled = listPage.settled /\ listPage'.error = listPage.error
        /\ listPage'.inited = listPage.inited
        /\ (listPage'.refreshing <=> listPage.refreshing \/ listPage.inited)
    BY <1>1, <2>2, <2>4
  <2>6. ~ListSwitching' /\ listPage'.seen # List!NoView /\ listPage'.seen \in List!Views
    BY <1>3, <2>5, ListValues DEF ListSwitching
  <2>7. ListVarTypes'  BY <1>1, <2>4, <2>5 DEF ListInv, ListVarTypes
  <2>8. server.ver \in Nat  BY DEF ListInv, ListVarTypes
  <2>9. ListVersFit'
    BY <1>1, <1>7, <2>4, <2>5, <2>8, ListValues DEF ListInv, ListVersFit
  <2>10. ListRenderFit'
    BY <1>1, <1>3, <2>5, <2>6, ListValues DEF ListInv, ListRenderFit
  <2>11. ListCallsFit'
    <3>. SUFFICES ASSUME NEW m \in Slots, listCalls'[m].st # "none"
                  PROVE  /\ listCalls'[m].at \in List!Views
                              /\ listCalls'[m].at.session <= listPage.cur.session
                         /\ listCalls'[m].st = "rows" => listCalls'[m].rows.of = listCalls'[m].at
                         /\ listCalls'[m].fresh => listCalls'[m].at.session = listPage.cur.session
                         /\ listCalls'[m].fresh /\ listCalls'[m].st = "rows" =>
                              /\ listCalls'[m].rows.ver >= ghost.told
                              /\ listCalls'[m].at.session = listPage.cur.session =>
                                   listCalls'[m].rows.ver >= ghost.cleared
                         /\ listCalls'[m].mine /\ ~listCalls'[m].aborted =>
                              m = abort' /\ listCalls'[m].st # "rows"
                                /\ listCalls'[m].at = listPage'.seen
                         /\ listCalls'[m].fresh /\ ~listCalls'[m].mine =>
                              listPage.at = List!NoView \/ listPage.rows.ver >= ghost.told
      BY <2>4, <2>5, <2>6 DEF ListCallsFit
    <3>1. CASE m = latest'
      BY <1>3, <2>2, <2>4, <3>1
    <3>2. CASE m # latest'
      BY <1>7, <1>8, <2>4, <3>2 DEF ListInv, ListCallsFit
    <3>. QED  BY <3>1, <3>2
  <2>12. ListCacheFit'  BY <1>1, <2>4, <2>5, <2>6 DEF ListInv, ListCacheFit
  <2>13. ListShownFit'
    <3>1. ~(listPage.settled = listPage.cur /\ listPage.at # listPage.cur /\ ~listPage.error)
      BY <1>11 DEF ListInv, ListShownFit
    <3>2. listPage.cur.off # 0 =>
            \/ listPage.settled.off # 0 \/ listPage.settled.session # listPage.cur.session
            \/ listPage.settled.key = listPage.commit.key
      <4>1. CASE listPage.commit.off = 0  BY <4>1 DEF ListInv, ListShownFit
      <4>2. CASE listPage.commit.off # 0 /\ listPage.seen = List!NoView
        BY <4>2 DEF ListInv, ListRenderFit
      <4>3. CASE listPage.commit.off # 0 /\ listPage.seen # List!NoView
        BY <1>11, <4>3 DEF ListInv, ListShownFit
      <4>. QED  BY <4>1, <4>2, <4>3
    <3>. QED  BY <2>5, <3>1, <3>2 DEF ListInv, ListShownFit
  <2>14. ListLagFit'
    BY <2>4, <2>5 DEF ListInv, ListShownFit, ListLagFit, ListLive
  <2>15. ListToggleFit'  BY <1>1, <2>4, <2>5 DEF ListInv, ListToggleFit
  <2>. QED  BY <2>7, <2>9, <2>10, <2>11, <2>12, <2>13, <2>14, <2>15 DEF ListInv
<1>. QED  BY <1>10, <1>11

\* The end of a call that is not of the page leaves the page; the end of the page's call
\* that is taken ends the refresh.
LEMMA ListEndsIs ==
  ASSUME ListInv, NEW n \in Slots, NEW p \in ListPageRecord, List!Ends(n, p)
  PROVE  /\ ~listCalls[n].mine => listPage' = listPage /\ abort' = abort
         /\ listCalls[n].mine => abort' = (IF abort = n THEN 0 ELSE abort)
         /\ listCalls[n].mine =>
              /\ listPage' \in ListPageRecord
              /\ listPage'.open = p.open /\ listPage'.cur = p.cur /\ listPage'.seen = p.seen
              /\ listPage'.at = p.at /\ listPage'.rows = p.rows /\ listPage'.settled = p.settled
              /\ listPage'.error = p.error /\ listPage'.inited = p.inited
              /\ listPage'.commit = (IF p.commit = p.seen THEN p.cur ELSE p.commit)
              /\ (listPage'.refreshing <=> p.refreshing /\ abort # n)
<1>. DEFINE q == [p EXCEPT !.refreshing = @ /\ ~List!Owns(n)]
<1>1. /\ listPage' = IF listCalls[n].mine THEN List!Rendered(q) ELSE listPage
      /\ abort' = IF listCalls[n].mine /\ abort = n THEN 0 ELSE abort
  BY DEF List!Ends, List!Owns
<1>2. /\ q \in ListPageRecord
      /\ q.open = p.open /\ q.cur = p.cur /\ q.seen = p.seen /\ q.commit = p.commit
      /\ q.at = p.at /\ q.rows = p.rows /\ q.settled = p.settled
      /\ q.error = p.error /\ q.inited = p.inited
      /\ (q.refreshing <=> p.refreshing /\ abort # n)
  <2>. DEFINE b == p.refreshing /\ ~List!Owns(n)
  <2>1. b \in BOOLEAN /\ (b <=> p.refreshing /\ abort # n)  BY DEF ListPageRecord, List!Owns
  <2>. HIDE DEF b
  <2>2. q = [p EXCEPT !.refreshing = b]  BY DEF b
  <2>. HIDE DEF q
  <2>. QED  BY <2>1, <2>2 DEF ListPageRecord
<1>. HIDE DEF q
<1>3. List!Rendered(q) \in ListPageRecord
      /\ List!Rendered(q).open = q.open /\ List!Rendered(q).cur = q.cur
      /\ List!Rendered(q).seen = q.seen
      /\ List!Rendered(q).at = q.at /\ List!Rendered(q).rows = q.rows
      /\ List!Rendered(q).settled = q.settled
      /\ List!Rendered(q).error = q.error /\ List!Rendered(q).inited = q.inited
      /\ List!Rendered(q).commit = (IF q.commit = q.seen THEN q.cur ELSE q.commit)
      /\ List!Rendered(q).refreshing = q.refreshing
  BY <1>2, ListRenderedIs
<1>. QED  BY <1>1, <1>2, <1>3

\* A call that may be taken: what it is about.
LEMMA ListFreshCallIs ==
  ASSUME ListInv, NEW n \in Slots, listCalls[n].st # "none", ~List!Stale(n)
  PROVE  /\ listCalls[n] \in ListCallRecord /\ listCalls[n].fresh /\ ~listCalls[n].aborted
         /\ listCalls[n].at \in List!Views /\ listCalls[n].at.session <= listPage.cur.session
         /\ listCalls[n].at.session = listPage.cur.session \/ ListSwitching
         /\ listCalls[n].st = "rows" =>
              /\ listCalls[n].rows.of = listCalls[n].at /\ listCalls[n].rows.ver >= ghost.told
              /\ listCalls[n].at.session = listPage.cur.session
                   => listCalls[n].rows.ver >= ghost.cleared
         /\ listCalls[n].mine =>
              /\ listPage.open /\ listPage.seen # List!NoView /\ n = abort /\ n = latest
              /\ listCalls[n].at = listPage.seen /\ listPage.commit = listPage.cur
              /\ listCalls[n].st = "rows" => listCalls[n].rows.ver >= listPage.rows.ver
         /\ ~listCalls[n].mine => listPage.at = List!NoView \/ listPage.rows.ver >= ghost.told
<1>1. listCalls[n] \in ListCallRecord  BY DEF ListInv, ListVarTypes
<1>2. ~listCalls[n].aborted /\ listCalls[n].fresh /\ (listCalls[n].mine => n = latest)
  BY DEF List!Stale
<1>. QED  BY <1>1, <1>2 DEF ListInv, ListCallsFit

\* A call that is over leaves the others.
LEMMA ListCallOver ==
  ASSUME ListInv, NEW n \in Slots, listCalls' = [listCalls EXCEPT ![n] = List!NoCall]
  PROVE  /\ listCalls' \in [Slots -> ListCallRecord] /\ listCalls'[n] = List!NoCall
              /\ listCalls'[n].st = "none"
         /\ \A m \in Slots \ {n} : listCalls'[m] = listCalls[m]
<1>1. listCalls \in [Slots -> ListCallRecord]  BY DEF ListInv, ListVarTypes
<1>. QED  BY <1>1, ListValues

\* What does not concern the page that shows it: a call of a page that was left.
LEMMA ListOthersCallOver ==
  ASSUME ListInv, NEW n \in Slots, listCalls[n].st # "none", ~listCalls[n].mine,
         listCalls' = [listCalls EXCEPT ![n] = List!NoCall],
         listSaved' \in ListRowsRecord, listSaved'.ver <= server.ver,
         listSaved' # List!NoRows =>
            /\ listSaved'.of \in List!Views /\ listSaved'.of.session = listPage.cur.session
            /\ listSaved'.of.off = 0
            /\ listSaved'.ver >= ghost.cleared,
         ListSwitching => listSaved' = List!NoRows,
         UNCHANGED <<list, listPage, latest, abort, server, toggle, ghost>>
  PROVE  ListInv'
<1>1. /\ listCalls' \in [Slots -> ListCallRecord] /\ listCalls'[n].st = "none"
      /\ listCalls'[n] = List!NoCall
      /\ \A m \in Slots \ {n} : listCalls'[m] = listCalls[m]
  BY ListCallOver
<1>2. ListVarTypes'  BY <1>1 DEF ListInv, ListVarTypes
<1>3. server.ver \in Nat  BY DEF ListInv, ListVarTypes
<1>4. ListVersFit'  BY <1>1, <1>3, ListValues DEF ListInv, ListVersFit
<1>5. ListRenderFit' /\ ListShownFit' /\ ListToggleFit'
  BY DEF ListInv, ListRenderFit, ListShownFit, ListToggleFit
<1>6. ListCallsFit'
  BY <1>1 DEF ListInv, ListCallsFit, ListSwitching
<1>7. ListCacheFit'  BY DEF ListCacheFit, ListSwitching
<1>8. ListLive => ListLive'  BY <1>1 DEF ListLive
<1>9. ListLagFit'  BY <1>8 DEF ListInv, ListLagFit, List!Pending
<1>. QED  BY <1>2, <1>4, <1>5, <1>6, <1>7, <1>9 DEF ListInv

\* The page's own call is over: nothing else of the page can be taken any more.
LEMMA ListOwnCallOver ==
  ASSUME ListInv, NEW n \in Slots, listCalls[n].st # "none", listCalls[n].mine, n = abort,
         listCalls' = [listCalls EXCEPT ![n] = List!NoCall],
         listPage'.cur.session = listPage.cur.session, listPage'.seen = listPage.seen,
           listPage'.open = listPage.open,
         listPage'.at = List!NoView \/ listPage'.rows.ver >= ghost.told
           \/ (listPage'.at = listPage.at /\ listPage'.rows = listPage.rows),
         UNCHANGED <<latest, ghost>>
  PROVE  /\ listCalls' \in [Slots -> ListCallRecord] /\ ListCallsFit'
         /\ \A m \in Slots : listCalls'[m].rows.ver <= listCalls[m].rows.ver
<1>1. /\ listCalls' \in [Slots -> ListCallRecord] /\ listCalls'[n].st = "none"
      /\ listCalls'[n] = List!NoCall
      /\ \A m \in Slots \ {n} : listCalls'[m] = listCalls[m]
  BY ListCallOver
<1>2. ListCallsFit'
  <2>. SUFFICES ASSUME NEW m \in Slots \ {n}, listCalls[m].st # "none"
                PROVE  /\ listCalls[m].at \in List!Views
                            /\ listCalls[m].at.session <= listPage.cur.session
                       /\ ListSwitching => listCalls[m].at.session # listPage.cur.session
                       /\ listCalls[m].st = "rows" => listCalls[m].rows.of = listCalls[m].at
                       /\ listCalls[m].fresh => listCalls[m].at.session = listPage.cur.session
                            \/ ListSwitching
                       /\ listCalls[m].fresh /\ listCalls[m].st = "rows" =>
                            /\ listCalls[m].rows.ver >= ghost.told
                            /\ listCalls[m].at.session = listPage.cur.session =>
                                 listCalls[m].rows.ver >= ghost.cleared
                       /\ listCalls[m].mine => listPage.open /\ listPage.seen # List!NoView
                            /\ listCalls[m].aborted
                       /\ listCalls[m].fresh /\ ~listCalls[m].mine =>
                            listPage'.at = List!NoView \/ listPage'.rows.ver >= ghost.told
    BY <1>1 DEF ListCallsFit, ListSwitching
  <2>. QED  BY DEF ListInv, ListCallsFit
<1>3. \A m \in Slots : listCalls[m].rows.ver \in Nat
  BY DEF ListInv, ListVarTypes, ListCallRecord, ListRowsRecord
<1>4. \A m \in Slots : listCalls'[m].rows.ver <= listCalls[m].rows.ver  BY <1>1, <1>3, ListValues
<1>. QED  BY <1>1, <1>2, <1>4

\* An answer is taken.
LEMMA ListTakesInv == ASSUME ListInv, NEW n \in Slots, List!Takes(n) PROVE ListInv'
<1>. DEFINE c == listCalls[n]
            settles == [listPage EXCEPT !.inited = TRUE, !.settled = List!RequestKey(n)]
            back == [settles EXCEPT !.cur.off = c.at.off - 1]
            shows == [settles EXCEPT !.at = List!RequestKey(n), !.rows = c.rows,
                                     !.cur.off = c.at.off, !.error = FALSE]
<1>1. /\ c.st = "rows" /\ ~List!Stale(n) /\ listCalls' = [listCalls EXCEPT ![n] = List!NoCall]
      /\ UNCHANGED <<list, latest, server, toggle, ghost>>
      /\ IF List!PastEnd(c.rows, c.at)
         THEN List!Ends(n, back) /\ listSaved' = listSaved
         ELSE /\ List!Ends(n, shows)
              /\ listSaved' = IF c.at.off = 0 /\ c.at.session = listPage.cur.session
                              THEN c.rows ELSE listSaved
  BY DEF List!Takes
<1>2. /\ c \in ListCallRecord /\ c.fresh /\ ~c.aborted
      /\ c.at \in List!Views /\ c.at.session <= listPage.cur.session
      /\ c.at.session = listPage.cur.session \/ ListSwitching
      /\ c.rows.of = c.at /\ c.rows.ver >= ghost.told
      /\ c.at.session = listPage.cur.session => c.rows.ver >= ghost.cleared
      /\ c.mine =>
           /\ listPage.open /\ listPage.seen # List!NoView /\ n = abort /\ n = latest
           /\ c.at = listPage.seen /\ listPage.commit = listPage.cur
           /\ c.rows.ver >= listPage.rows.ver
      /\ ~c.mine => listPage.at = List!NoView \/ listPage.rows.ver >= ghost.told
  BY <1>1, ListFreshCallIs
<1>3. /\ listPage \in ListPageRecord /\ listPage.cur \in List!Views /\ c.rows \in ListRowsRecord
      /\ c.at.off \in 0..1
      /\ listPage.cur.off \in 0..1 /\ c.at \in ListAnyView /\ listPage.cur.session \in 1..2
      /\ listSaved \in ListRowsRecord /\ ghost.told \in Nat
  BY <1>2, ListValues DEF ListInv, ListVarTypes, ListCallRecord, ListPageRecord
<1>4. c.rows.ver <= server.ver /\ listSaved.ver <= server.ver  BY DEF ListInv, ListVersFit
<1>5. ListSwitching => c.at.session # listPage.cur.session
  BY <1>1 DEF ListInv, ListCallsFit
<1>6. listSaved' \in ListRowsRecord /\ listSaved'.ver <= server.ver
  BY <1>1, <1>3, <1>4
<1>7. /\ listSaved' # List!NoRows =>
           /\ listSaved'.of \in List!Views /\ listSaved'.of.session = listPage.cur.session
           /\ listSaved'.of.off = 0
           /\ listSaved'.ver >= ghost.cleared
      /\ ListSwitching => listSaved' = List!NoRows
  BY <1>1, <1>2, <1>5 DEF ListInv, ListCacheFit
<1>8. CASE ~c.mine
  <2>1. UNCHANGED <<list, listPage, latest, abort, server, toggle, ghost>>
    BY <1>1, <1>8 DEF List!Ends
  <2>. QED  BY <1>1, <1>6, <1>7, <1>8, <2>1, ListOthersCallOver
<1>9. CASE c.mine /\ List!PastEnd(c.rows, c.at)
  <2>1. c.at.off = 1 /\ List!Ends(n, back) /\ listSaved' = listSaved
    BY <1>1, <1>3, <1>9 DEF List!PastEnd
  <2>. DEFINE v == [listPage.cur EXCEPT !.off = 0]
  <2>2. v \in List!Views /\ v.session = listPage.cur.session /\ v.key = listPage.cur.key /\ v.off = 0
    BY <1>3 DEF List!Views
  <2>3. /\ settles \in ListPageRecord /\ settles.open = listPage.open /\ settles.cur = listPage.cur
        /\ settles.commit = listPage.commit /\ settles.seen = listPage.seen /\ settles.at = listPage.at
        /\ settles.rows = listPage.rows /\ settles.settled = c.at /\ settles.error = listPage.error
        /\ settles.inited = TRUE /\ settles.refreshing = listPage.refreshing
    BY <1>3 DEF ListPageRecord, List!RequestKey
  <2>. HIDE DEF settles, c
  <2>4. back = [settles EXCEPT !.cur = v]
    BY <2>1, <2>3 DEF c
  <2>. HIDE DEF back, v
  <2>5. /\ back \in ListPageRecord /\ back.open = listPage.open /\ back.cur = v
        /\ back.commit = listPage.commit /\ back.seen = listPage.seen /\ back.at = listPage.at
        /\ back.rows = listPage.rows /\ back.settled = c.at /\ back.error = listPage.error
        /\ back.inited = TRUE
    BY <2>2, <2>3, <2>4, ListMovedIs
  <2>6. /\ listPage' \in ListPageRecord /\ listPage'.open /\ listPage'.cur = v
        /\ listPage'.seen = listPage.seen
        /\ listPage'.at = listPage.at /\ listPage'.rows = listPage.rows /\ listPage'.settled = c.at
        /\ listPage'.error = listPage.error /\ listPage'.inited = TRUE
        /\ listPage'.commit = (IF listPage.commit = listPage.seen THEN v ELSE listPage.commit)
        /\ abort' = 0
    BY <1>2, <1>9, <2>1, <2>5, ListEndsIs DEF c
  <2>7. /\ listCalls' \in [Slots -> ListCallRecord] /\ ListCallsFit'
        /\ \A m \in Slots : listCalls'[m].rows.ver <= listCalls[m].rows.ver
    BY <1>1, <1>2, <1>9, <2>2, <2>6, ListOwnCallOver DEF c
  <2>8. ListVarTypes'  BY <1>1, <1>6, <2>6, <2>7 DEF ListInv, ListVarTypes
  <2>9. ListVersFit'
    <3>1. \A m \in Slots : listCalls'[m].rows.ver \in Nat /\ listCalls[m].rows.ver \in Nat
      BY <2>7 DEF ListInv, ListVarTypes, ListCallRecord, ListRowsRecord
    <3>2. server.ver \in Nat  BY DEF ListInv, ListVarTypes
    <3>. QED  BY <1>1, <1>6, <2>6, <2>7, <3>1, <3>2 DEF ListInv, ListVersFit
  <2>10. listPage'.commit # listPage'.seen /\ listPage'.settled # listPage'.cur
           /\ listPage'.settled.off = 1
    BY <1>2, <1>9, <2>1, <2>2, <2>6
  <2>11. ListRenderFit'
    BY <1>2, <1>9, <2>2, <2>6, <2>10 DEF ListInv, ListRenderFit
  <2>12. ListCacheFit'  BY <1>1, <1>7, <2>2, <2>6 DEF ListCacheFit, ListSwitching
  <2>13. ListShownFit'  BY <2>6, <2>10 DEF ListInv, ListShownFit
  <2>14. ListLagFit'  BY <2>6, <2>10 DEF ListLagFit, List!Pending
  <2>15. ListToggleFit'  BY <1>1, <2>2, <2>6 DEF ListInv, ListToggleFit
  <2>. QED  BY <2>7, <2>8, <2>9, <2>11, <2>12, <2>13, <2>14, <2>15 DEF ListInv
<1>10. CASE c.mine /\ ~List!PastEnd(c.rows, c.at)
  <2>1. List!Ends(n, shows) /\ (c.rows.some \/ c.at.off = 0)
    BY <1>1, <1>3, <1>10 DEF List!PastEnd
  <2>. DEFINE v == [listPage.cur EXCEPT !.off = c.at.off]
  <2>2. v \in List!Views /\ v.session = listPage.cur.session /\ v.key = listPage.cur.key
          /\ v.off = c.at.off
    BY <1>3 DEF List!Views
  <2>3. /\ settles \in ListPageRecord /\ settles.open = listPage.open /\ settles.cur = listPage.cur
        /\ settles.commit = listPage.commit /\ settles.seen = listPage.seen /\ settles.at = listPage.at
        /\ settles.rows = listPage.rows /\ settles.settled = c.at /\ settles.error = listPage.error
        /\ settles.inited = TRUE /\ settles.refreshing = listPage.refreshing
    BY <1>3 DEF ListPageRecord, List!RequestKey
  <2>. HIDE DEF settles, c
  <2>4. shows = [settles EXCEPT !.at = c.at, !.rows = c.rows, !.cur = v, !.error = FALSE]
    BY <2>3 DEF List!RequestKey, c
  <2>. HIDE DEF shows, v
  <2>5. /\ shows \in ListPageRecord /\ shows.open = listPage.open /\ shows.cur = v
        /\ shows.commit = listPage.commit /\ shows.seen = listPage.seen /\ shows.at = c.at
        /\ shows.rows = c.rows /\ shows.settled = c.at /\ shows.error = FALSE
        /\ shows.inited = TRUE
    BY <1>3, <2>2, <2>3, <2>4 DEF ListPageRecord
  <2>6. /\ listPage' \in ListPageRecord /\ listPage'.open /\ listPage'.cur = v
        /\ listPage'.seen = listPage.seen
        /\ listPage'.at = c.at /\ listPage'.rows = c.rows /\ listPage'.settled = c.at
        /\ listPage'.error = FALSE /\ listPage'.inited = TRUE
        /\ listPage'.commit = (IF listPage.commit = listPage.seen THEN v ELSE listPage.commit)
        /\ abort' = 0
    BY <1>2, <1>10, <2>1, <2>5, ListEndsIs DEF c
  <2>7. /\ listCalls' \in [Slots -> ListCallRecord] /\ ListCallsFit'
        /\ \A m \in Slots : listCalls'[m].rows.ver <= listCalls[m].rows.ver
    BY <1>1, <1>2, <1>10, <2>2, <2>6, ListOwnCallOver DEF c
  <2>8. ListVarTypes'  BY <1>1, <1>6, <2>6, <2>7 DEF ListInv, ListVarTypes
  <2>9. ListVersFit'
    <3>1. \A m \in Slots : listCalls'[m].rows.ver \in Nat /\ listCalls[m].rows.ver \in Nat
      BY <2>7 DEF ListInv, ListVarTypes, ListCallRecord, ListRowsRecord
    <3>2. server.ver \in Nat  BY DEF ListInv, ListVarTypes
    <3>. QED  BY <1>1, <1>4, <1>6, <2>6, <2>7, <3>1, <3>2 DEF ListInv, ListVersFit
  <2>10. listPage.commit = listPage.cur /\ c.at = listPage.seen /\ listPage.seen # List!NoView
    BY <1>2, <1>10
  <2>11. ListRenderFit'
    <3>1. listPage.commit = listPage.seen => v = listPage.cur
      BY <1>2, <1>3, <2>2, <2>10, ListValues
    <3>. QED  BY <1>2, <2>2, <2>6, <2>10, <3>1 DEF ListInv, ListRenderFit
  <2>12. ListCacheFit'  BY <1>1, <1>7, <2>2, <2>6 DEF ListCacheFit, ListSwitching
  <2>13. ListShownFit'  BY <1>2, <2>1, <2>2, <2>6, <2>10 DEF ListShownFit
  <2>14. ListLagFit'  BY <1>1, <1>2, <1>3, <2>6 DEF ListLagFit, ListRowsRecord
  <2>15. ListToggleFit'  BY <1>1, <1>2, <2>2, <2>6 DEF ListInv, ListToggleFit
  <2>. QED  BY <2>7, <2>8, <2>9, <2>11, <2>12, <2>13, <2>14, <2>15 DEF ListInv
<1>. QED  BY <1>8, <1>9, <1>10

\* A call failed: the rows stay, and the error is shown.
LEMMA ListFailsInv == ASSUME ListInv, NEW n \in Slots, List!Fails(n) PROVE ListInv'
<1>. DEFINE c == listCalls[n]
            p == [listPage EXCEPT !.error = TRUE, !.inited = TRUE, !.settled = List!RequestKey(n)]
<1>1. /\ c.st = "failed" /\ ~List!Stale(n) /\ listCalls' = [listCalls EXCEPT ![n] = List!NoCall]
      /\ List!Ends(n, p) /\ UNCHANGED <<list, latest, listSaved, server, toggle, ghost>>
  BY DEF List!Fails
<1>2. /\ c.at \in List!Views /\ c.at.session <= listPage.cur.session
      /\ c.mine =>
           /\ listPage.open /\ listPage.seen # List!NoView /\ n = abort /\ n = latest
           /\ c.at = listPage.seen /\ listPage.commit = listPage.cur
  BY <1>1, ListFreshCallIs
<1>3. listPage \in ListPageRecord /\ listSaved \in ListRowsRecord /\ c.at \in ListAnyView
  BY <1>2, ListValues DEF ListInv, ListVarTypes
<1>4. CASE ~c.mine
  <2>1. UNCHANGED <<listPage, abort>>  BY <1>1, <1>4 DEF List!Ends
  <2>2. /\ listSaved' \in ListRowsRecord /\ listSaved'.ver <= server.ver
        /\ listSaved' # List!NoRows =>
             /\ listSaved'.of \in List!Views /\ listSaved'.of.session = listPage.cur.session
             /\ listSaved'.of.off = 0
             /\ listSaved'.ver >= ghost.cleared
        /\ ListSwitching => listSaved' = List!NoRows
    BY <1>1, <1>3 DEF ListInv, ListVersFit, ListCacheFit
  <2>. QED  BY <1>1, <1>4, <2>1, <2>2, ListOthersCallOver
<1>5. CASE c.mine
  <2>1. /\ p \in ListPageRecord /\ p.open = listPage.open /\ p.cur = listPage.cur
        /\ p.commit = listPage.commit
        /\ p.seen = listPage.seen /\ p.at = listPage.at /\ p.rows = listPage.rows /\ p.settled = c.at
        /\ p.error = TRUE /\ p.inited = TRUE
    BY <1>3 DEF ListPageRecord, List!RequestKey
  <2>. HIDE DEF p, c
  <2>2. /\ listPage' \in ListPageRecord /\ listPage'.open /\ listPage'.cur = listPage.cur
        /\ listPage'.seen = listPage.seen
        /\ listPage'.at = listPage.at /\ listPage'.rows = listPage.rows /\ listPage'.settled = c.at
        /\ listPage'.error = TRUE /\ listPage'.inited = TRUE /\ listPage'.commit = listPage.cur
        /\ abort' = 0
    BY <1>1, <1>2, <1>5, <2>1, ListEndsIs DEF c
  <2>3. /\ listCalls' \in [Slots -> ListCallRecord] /\ ListCallsFit'
        /\ \A m \in Slots : listCalls'[m].rows.ver <= listCalls[m].rows.ver
    BY <1>1, <1>2, <1>5, <2>2, ListOwnCallOver DEF c
  <2>4. ListVarTypes'  BY <1>1, <2>2, <2>3 DEF ListInv, ListVarTypes
  <2>5. ListVersFit'
    <3>1. \A m \in Slots : listCalls'[m].rows.ver \in Nat /\ listCalls[m].rows.ver \in Nat
      BY <2>3 DEF ListInv, ListVarTypes, ListCallRecord, ListRowsRecord
    <3>2. server.ver \in Nat  BY DEF ListInv, ListVarTypes
    <3>. QED  BY <1>1, <2>2, <2>3, <3>1, <3>2 DEF ListInv, ListVersFit
  <2>6. ListRenderFit'  BY <1>2, <1>5, <2>2 DEF ListInv, ListRenderFit
  <2>7. ListCacheFit'  BY <1>1, <2>2 DEF ListInv, ListCacheFit, ListSwitching
  <2>8. ListShownFit'  BY <1>2, <1>5, <2>2 DEF ListInv, ListShownFit
  <2>9. ListLagFit' /\ ListToggleFit'  BY <1>1, <2>2 DEF ListInv, ListLagFit, ListToggleFit
  <2>. QED  BY <2>3, <2>4, <2>5, <2>6, <2>7, <2>8, <2>9 DEF ListInv
<1>. QED  BY <1>4, <1>5

\* 401 or 403: the cache and the rows are gone, and so is what other calls bring.
LEMMA ListDeniedInv == ASSUME ListInv, NEW n \in Slots, List!Denied(n) PROVE ListInv'
<1>. DEFINE c == listCalls[n]
            cs == List!Outdated(listCalls, c.at.session)
            p == [listPage EXCEPT !.rows = List!NoRows, !.at = List!NoView, !.error = TRUE,
                                  !.inited = TRUE, !.settled = List!RequestKey(n)]
<1>1. /\ c.st = "denied" /\ ~List!Stale(n)
      /\ listCalls' = [cs EXCEPT ![n] = List!NoCall]
      /\ listSaved' = IF c.at.session = listPage.cur.session THEN List!NoRows ELSE listSaved
      /\ ghost' = [ghost EXCEPT !.cleared = server.ver]
      /\ List!Ends(n, p) /\ UNCHANGED <<list, latest, server, toggle>>
  BY DEF List!Denied
<1>2. /\ c.at \in List!Views /\ c.at.session <= listPage.cur.session
      /\ c.at.session = listPage.cur.session \/ ListSwitching
      /\ c.mine =>
           /\ listPage.open /\ listPage.seen # List!NoView /\ n = abort /\ n = latest
           /\ c.at = listPage.seen /\ listPage.commit = listPage.cur
      /\ ~c.mine => listPage.at = List!NoView \/ listPage.rows.ver >= ghost.told
  BY <1>1, ListFreshCallIs
<1>3. /\ listPage \in ListPageRecord /\ c.at \in ListAnyView /\ listCalls \in [Slots -> ListCallRecord]
      /\ server.ver \in Nat
      /\ ghost \in [told: Nat, cleared: Nat, dropped: BOOLEAN] /\ ghost.told <= server.ver
      /\ ghost.told \in Nat
  <2>1. ghost.told \in Nat /\ ghost.cleared \in Nat /\ server.ver \in Nat
    BY DEF ListInv, ListVarTypes
  <2>. QED  BY <1>2, <2>1, ListValues DEF ListInv, ListVarTypes, ListVersFit
<1>4. /\ ghost' \in [told: Nat, cleared: Nat, dropped: BOOLEAN] /\ ghost'.told = ghost.told
      /\ ghost'.cleared = server.ver /\ ghost'.dropped = ghost.dropped
  BY <1>1, <1>3
<1>5. listSaved' = List!NoRows
  BY <1>1, <1>2 DEF ListInv, ListCacheFit
<1>6. /\ cs \in [Slots -> ListCallRecord]
      /\ \A m \in Slots :
           /\ cs[m].st = listCalls[m].st /\ (cs[m].mine <=> listCalls[m].mine)
           /\ (cs[m].aborted <=> listCalls[m].aborted)
           /\ cs[m].at = listCalls[m].at /\ cs[m].rows = listCalls[m].rows
           /\ (cs[m].fresh <=> listCalls[m].fresh /\ listCalls[m].at.session # c.at.session)
  BY <1>3, ListOutdatedIs
<1>. HIDE DEF cs
<1>7. /\ listCalls' \in [Slots -> ListCallRecord] /\ listCalls'[n] = List!NoCall
      /\ \A m \in Slots \ {n} : listCalls'[m] = cs[m]
  BY <1>1, <1>6, ListValues
<1>8. /\ listPage' \in ListPageRecord /\ listPage'.open = listPage.open /\ listPage'.cur = listPage.cur
      /\ listPage'.seen = listPage.seen /\ listPage'.commit = listPage.commit
      /\ \/ /\ ~c.mine /\ listPage' = listPage /\ abort' = abort
         \/ /\ c.mine /\ listPage'.rows = List!NoRows /\ listPage'.at = List!NoView
                 /\ listPage'.error = TRUE
            /\ listPage'.inited = TRUE /\ listPage'.settled = c.at /\ abort' = 0
  <2>1. CASE ~c.mine  BY <1>1, <1>3, <2>1 DEF List!Ends
  <2>2. CASE c.mine
    <3>1. /\ p \in ListPageRecord /\ p.open = listPage.open /\ p.cur = listPage.cur
          /\ p.commit = listPage.commit /\ p.seen = listPage.seen /\ p.at = List!NoView
          /\ p.rows = List!NoRows /\ p.settled = c.at /\ p.error = TRUE /\ p.inited = TRUE
      BY <1>3, ListValues DEF ListPageRecord, List!RequestKey
    <3>. HIDE DEF p, c
    <3>2. listPage.commit = listPage.seen => listPage.commit = listPage.cur
      BY DEF ListInv, ListRenderFit
    <3>. QED  BY <1>1, <1>2, <2>2, <3>1, <3>2, ListEndsIs DEF c
  <2>. QED  BY <2>1, <2>2
<1>. HIDE DEF p
<1>9. ListVarTypes'
  <2>1. latest \in {0} \cup Slots /\ abort' \in {0} \cup Slots  BY <1>8 DEF ListInv, ListVarTypes
  <2>. QED  BY <1>1, <1>4, <1>5, <1>7, <1>8, <2>1, ListValues DEF ListInv, ListVarTypes
<1>10. ListVersFit'
  <2>1. \A m \in Slots : listCalls'[m].rows.ver <= server.ver
    BY <1>3, <1>6, <1>7, ListValues DEF ListInv, ListVersFit
  <2>. QED  BY <1>1, <1>3, <1>4, <1>5, <1>8, <2>1, ListValues DEF ListInv, ListVersFit
<1>11. ListRenderFit'
  <2>1. listPage'.at = List!NoView \/ listPage' = listPage  BY <1>8
  <2>2. listPage'.settled.session <= listPage.cur.session
    BY <1>2, <1>8 DEF ListInv, ListRenderFit
  <2>. QED  BY <1>8, <2>1, <2>2 DEF ListInv, ListRenderFit
<1>12. ListCallsFit'
  <2>1. ListSwitching' <=> ListSwitching  BY <1>8 DEF ListSwitching
  <2>. SUFFICES ASSUME NEW m \in Slots \ {n}, listCalls[m].st # "none"
                PROVE  /\ listCalls[m].at \in List!Views
                            /\ listCalls[m].at.session <= listPage.cur.session
                       /\ ListSwitching => listCalls[m].at.session # listPage.cur.session
                       /\ listCalls[m].st = "rows" => listCalls[m].rows.of = listCalls[m].at
                       /\ cs[m].fresh => listCalls[m].at.session = listPage.cur.session \/ ListSwitching
                       /\ cs[m].fresh /\ listCalls[m].st = "rows" =>
                            /\ listCalls[m].rows.ver >= ghost.told
                            /\ listCalls[m].at.session # listPage.cur.session
                       /\ listCalls[m].mine => listPage.open /\ listPage.seen # List!NoView
                       /\ listCalls[m].mine /\ ~listCalls[m].aborted => m = abort'
                       /\ listCalls[m].mine /\ ~listCalls[m].aborted /\ m = latest =>
                            /\ listCalls[m].at = listPage.seen /\ listPage.commit = listPage.cur
                            /\ listCalls[m].st = "rows" => listCalls[m].rows.ver >= listPage'.rows.ver
                       /\ cs[m].fresh /\ ~listCalls[m].mine =>
                            listPage'.at = List!NoView \/ listPage'.rows.ver >= ghost.told
    BY <1>1, <1>4, <1>6, <1>7, <1>8, <2>1, ListValues DEF ListCallsFit
  <2>2. /\ listCalls[m].at \in List!Views /\ listCalls[m].at.session <= listPage.cur.session
        /\ ListSwitching => listCalls[m].at.session # listPage.cur.session
        /\ listCalls[m].st = "rows" => listCalls[m].rows.of = listCalls[m].at
        /\ listCalls[m].fresh => listCalls[m].at.session = listPage.cur.session \/ ListSwitching
        /\ listCalls[m].fresh /\ listCalls[m].st = "rows" => listCalls[m].rows.ver >= ghost.told
        /\ listCalls[m].mine => listPage.open /\ listPage.seen # List!NoView
        /\ listCalls[m].mine /\ ~listCalls[m].aborted => m = abort
        /\ listCalls[m].mine /\ ~listCalls[m].aborted /\ m = latest =>
             /\ listCalls[m].at = listPage.seen /\ listPage.commit = listPage.cur
             /\ listCalls[m].st = "rows" => listCalls[m].rows.ver >= listPage.rows.ver
        /\ listCalls[m].fresh /\ ~listCalls[m].mine => listPage.at = List!NoView
             \/ listPage.rows.ver >= ghost.told
    BY DEF ListInv, ListCallsFit
  <2>. QED  BY <1>2, <1>6, <1>8, <2>2
<1>13. ListCacheFit'  BY <1>5 DEF ListCacheFit
<1>14. ListShownFit'
  <2>1. listPage' = listPage => ListShownFit'  BY DEF ListInv, ListShownFit
  <2>2. c.mine /\ listPage'.error /\ listPage'.at = List!NoView /\ listPage'.settled = c.at
          => ListShownFit'
    BY <1>2, <1>8 DEF ListShownFit
  <2>. QED  BY <1>8, <2>1, <2>2
<1>15. ListLagFit'
  BY <1>2, <1>4, <1>8 DEF ListInv, ListLagFit, ListVarTypes, ListPageRecord, ListRowsRecord
<1>16. ListToggleFit'  BY <1>1, <1>4, <1>8 DEF ListInv, ListToggleFit
<1>. QED  BY <1>9, <1>10, <1>11, <1>12, <1>13, <1>14, <1>15, <1>16 DEF ListInv

\* An answer is dropped: the answer that the page waits for is not.
LEMMA ListDropsInv == ASSUME ListInv, NEW n \in Slots, List!Drops(n) PROVE ListInv'
<1>1. /\ listCalls[n].st # "none" /\ List!Stale(n) /\ listCalls' = [listCalls EXCEPT ![n] = List!NoCall]
      /\ List!Ends(n, listPage) /\ UNCHANGED <<list, latest, listSaved, server, toggle, ghost>>
  BY DEF List!Drops
<1>2. /\ listCalls' \in [Slots -> ListCallRecord] /\ listCalls'[n].st = "none"
      /\ listCalls'[n] = List!NoCall
      /\ \A m \in Slots \ {n} : listCalls'[m] = listCalls[m]
  BY <1>1, ListCallOver
<1>3. listPage \in ListPageRecord /\ abort \in {0} \cup Slots  BY DEF ListInv, ListVarTypes
<1>4. /\ listPage' \in ListPageRecord /\ listPage'.open = listPage.open /\ listPage'.cur = listPage.cur
      /\ listPage'.seen = listPage.seen /\ listPage'.commit = listPage.commit
      /\ listPage'.at = listPage.at
      /\ listPage'.rows = listPage.rows /\ listPage'.settled = listPage.settled
      /\ listPage'.error = listPage.error
      /\ listPage'.inited = listPage.inited
      /\ (listPage'.refreshing <=> listPage.refreshing /\ ~(listCalls[n].mine /\ abort = n))
      /\ abort' = IF listCalls[n].mine /\ abort = n THEN 0 ELSE abort
  <2>1. listPage.commit = listPage.seen => listPage.commit = listPage.cur
    BY DEF ListInv, ListRenderFit
  <2>2. CASE ~listCalls[n].mine  BY <1>1, <1>3, <2>2, ListEndsIs
  <2>3. CASE listCalls[n].mine  BY <1>1, <1>3, <2>1, <2>3, ListEndsIs
  <2>. QED  BY <2>2, <2>3
<1>5. ListLive => n # abort
  <2>. SUFFICES ASSUME ListLive, n = abort PROVE FALSE  OBVIOUS
  <2>1. /\ abort = latest /\ listCalls[n].mine /\ listCalls[n].fresh /\ ~listCalls[n].aborted
    BY DEF ListLive
  <2>2. listCalls[n].at = listPage.seen  BY <1>1, <2>1 DEF ListInv, ListCallsFit
  <2>. QED  BY <1>1, <2>1, <2>2 DEF List!Stale
<1>6. ListLive => ListLive'  BY <1>1, <1>2, <1>4, <1>5 DEF ListLive
<1>7. ListVarTypes'
  <2>1. abort' \in {0} \cup Slots  BY <1>3, <1>4
  <2>. QED  BY <1>1, <1>2, <1>4, <2>1 DEF ListInv, ListVarTypes
<1>8. server.ver \in Nat  BY DEF ListInv, ListVarTypes
<1>9. ListVersFit'  BY <1>1, <1>2, <1>4, <1>8, ListValues DEF ListInv, ListVersFit
<1>10. ListRenderFit' /\ ListShownFit' /\ ListToggleFit'
  BY <1>1, <1>4 DEF ListInv, ListRenderFit, ListShownFit, ListToggleFit
<1>11. ListCacheFit'  BY <1>1, <1>4 DEF ListInv, ListCacheFit, ListSwitching
<1>12. ListCallsFit'
  <2>1. \A m \in Slots : listCalls'[m].st # "none" => m # n /\ listCalls'[m] = listCalls[m]
    BY <1>2
  <2>2. \A m \in Slots : m # n /\ m = abort => m = abort'  BY <1>4
  <2>3. ListSwitching' <=> ListSwitching  BY <1>4 DEF ListSwitching
  <2>. QED  BY <1>1, <1>4, <2>1, <2>2, <2>3 DEF ListInv, ListCallsFit
<1>13. ListLagFit'  BY <1>1, <1>4, <1>6 DEF ListInv, ListLagFit, List!Pending
<1>. QED  BY <1>7, <1>9, <1>10, <1>11, <1>12, <1>13 DEF ListInv

\* The API answers with the rows as they are, which are news of all that was told.
LEMMA ListAnswersInv == ASSUME ListInv, NEW n \in Slots, List!Answers(n) PROVE ListInv'
<1>1. /\ listCalls[n].st = "sent"
      /\ UNCHANGED <<list, listPage, latest, abort, listSaved, server, toggle, ghost>>
      /\ \/ listCalls' = [listCalls EXCEPT ![n].st = "rows", ![n].rows = List!Listed(listCalls[n].at)]
         \/ \E st \in {"failed", "denied"} : listCalls' = [listCalls EXCEPT ![n].st = st]
  BY DEF List!Answers
<1>2. /\ listCalls \in [Slots -> ListCallRecord] /\ listCalls[n] \in ListCallRecord
      /\ listCalls[n].at \in List!Views
      /\ server.ver \in Nat /\ server.pages \in 0..2 /\ listPage.rows.ver \in Nat
  BY <1>1 DEF ListInv, ListVarTypes, ListCallsFit, ListPageRecord, ListRowsRecord
<1>3. listCalls[n].at.off \in 0..1 /\ listCalls[n].at \in ListAnyView  BY <1>2, ListValues
<1>. DEFINE l == List!Listed(listCalls[n].at)
<1>4. l \in ListRowsRecord /\ l.of = listCalls[n].at /\ l.ver = server.ver
  <2>1. (listCalls[n].at.off < server.pages) \in BOOLEAN
          /\ (listCalls[n].at.off + 1 < server.pages) \in BOOLEAN
    OBVIOUS
  <2>. QED  BY <1>2, <1>3, <2>1 DEF List!Listed, ListRowsRecord
<1>. HIDE DEF l
<1>5. PICK g \in ListCallRecord :
        /\ listCalls' = [listCalls EXCEPT ![n] = g]
        /\ g.st \in {"rows", "failed", "denied"} /\ (g.mine <=> listCalls[n].mine)
        /\ (g.fresh <=> listCalls[n].fresh) /\ (g.aborted <=> listCalls[n].aborted)
        /\ g.at = listCalls[n].at
        /\ g.st = "rows" => g.rows = l
        /\ g.rows = l \/ g.rows = listCalls[n].rows
  <2>1. CASE listCalls' = [listCalls EXCEPT ![n].st = "rows", ![n].rows = List!Listed(listCalls[n].at)]
    <3>. DEFINE g == [listCalls[n] EXCEPT !.st = "rows", !.rows = l]
    <3>1. listCalls' = [listCalls EXCEPT ![n] = g]  BY <1>2, <2>1 DEF l
    <3>2. /\ g \in ListCallRecord /\ g.st = "rows" /\ (g.mine <=> listCalls[n].mine)
          /\ (g.fresh <=> listCalls[n].fresh) /\ (g.aborted <=> listCalls[n].aborted)
          /\ g.at = listCalls[n].at /\ g.rows = l
      BY <1>2, <1>4 DEF ListCallRecord
    <3>. HIDE DEF g
    <3>. QED  BY <3>1, <3>2
  <2>2. CASE \E st \in {"failed", "denied"} : listCalls' = [listCalls EXCEPT ![n].st = st]
    <3>1. PICK st \in {"failed", "denied"} : listCalls' = [listCalls EXCEPT ![n].st = st]  BY <2>2
    <3>. DEFINE g == [listCalls[n] EXCEPT !.st = st]
    <3>2. listCalls' = [listCalls EXCEPT ![n] = g]  BY <1>2, <3>1
    <3>3. /\ g \in ListCallRecord /\ g.st = st /\ (g.mine <=> listCalls[n].mine)
          /\ (g.fresh <=> listCalls[n].fresh) /\ (g.aborted <=> listCalls[n].aborted)
          /\ g.at = listCalls[n].at /\ g.rows = listCalls[n].rows
      BY <1>2 DEF ListCallRecord
    <3>. HIDE DEF g
    <3>. QED  BY <3>2, <3>3
  <2>. QED  BY <1>1, <2>1, <2>2
<1>6. /\ listCalls' \in [Slots -> ListCallRecord] /\ listCalls'[n] = g
      /\ \A m \in Slots \ {n} : listCalls'[m] = listCalls[m]
  BY <1>2, <1>5
<1>7. ListVarTypes'  BY <1>1, <1>6 DEF ListInv, ListVarTypes
<1>8. ListVersFit'
  BY <1>1, <1>2, <1>4, <1>5, <1>6 DEF ListInv, ListVersFit
<1>9. ListRenderFit' /\ ListCacheFit' /\ ListShownFit' /\ ListToggleFit'
  BY <1>1 DEF ListInv, ListRenderFit, ListCacheFit, ListShownFit, ListToggleFit, ListSwitching
<1>10. ListLive => ListLive'  BY <1>1, <1>5, <1>6 DEF ListLive
<1>11. ListLagFit'  BY <1>1, <1>10 DEF ListInv, ListLagFit, List!Pending
<1>12. ListCallsFit'
  <2>1. /\ ghost.told <= server.ver /\ ghost.cleared <= server.ver /\ listPage.rows.ver <= server.ver
    <3>1. ghost.told \in Nat /\ ghost.cleared \in Nat  BY DEF ListInv, ListVarTypes
    <3>. QED  BY <1>2, <3>1 DEF ListInv, ListVersFit
  <2>2. \A m \in Slots : listCalls'[m].st # "none" =>
          /\ listCalls[m].st # "none" /\ listCalls'[m].at = listCalls[m].at
          /\ (listCalls'[m].mine <=> listCalls[m].mine) /\ (listCalls'[m].fresh <=> listCalls[m].fresh)
          /\ (listCalls'[m].aborted <=> listCalls[m].aborted)
          /\ listCalls'[m].st = "rows" =>
               \/ listCalls[m].st = "rows" /\ listCalls'[m].rows = listCalls[m].rows
               \/ listCalls'[m].rows.of = listCalls[m].at /\ listCalls'[m].rows.ver = server.ver
    BY <1>1, <1>4, <1>5, <1>6
  <2>. SUFFICES ASSUME NEW m \in Slots, listCalls'[m].st # "none"
                PROVE  /\ listCalls'[m].at \in List!Views
                            /\ listCalls'[m].at.session <= listPage.cur.session
                       /\ ListSwitching => listCalls'[m].at.session # listPage.cur.session
                       /\ listCalls'[m].st = "rows" => listCalls'[m].rows.of = listCalls'[m].at
                       /\ listCalls'[m].fresh => listCalls'[m].at.session = listPage.cur.session
                            \/ ListSwitching
                       /\ listCalls'[m].fresh /\ listCalls'[m].st = "rows" =>
                            /\ listCalls'[m].rows.ver >= ghost.told
                            /\ listCalls'[m].at.session = listPage.cur.session =>
                                 listCalls'[m].rows.ver >= ghost.cleared
                       /\ listCalls'[m].mine => listPage.open /\ listPage.seen # List!NoView
                       /\ listCalls'[m].mine /\ ~listCalls'[m].aborted => m = abort
                       /\ listCalls'[m].mine /\ ~listCalls'[m].aborted /\ m = latest =>
                            /\ listCalls'[m].at = listPage.seen /\ listPage.commit = listPage.cur
                            /\ listCalls'[m].st = "rows" => listCalls'[m].rows.ver >= listPage.rows.ver
                       /\ listCalls'[m].fresh /\ ~listCalls'[m].mine =>
                            listPage.at = List!NoView \/ listPage.rows.ver >= ghost.told
    BY <1>1 DEF ListCallsFit, ListSwitching
  <2>. QED  BY <1>2, <2>1, <2>2 DEF ListInv, ListCallsFit
<1>. QED  BY <1>7, <1>8, <1>9, <1>11, <1>12 DEF ListInv

\* What was rendered, when nothing of it is pending.
LEMMA ListQuietIs ==
  ASSUME ListInv, listPage.open, ~List!Pending
  PROVE  /\ listPage \in ListPageRecord /\ listPage.cur \in List!Views /\ listPage.commit = listPage.cur
         /\ listPage.seen = listPage.cur /\ listPage.seen # List!NoView /\ ~ListSwitching
BY ListValues
  DEF ListInv, ListVarTypes, ListRenderFit, List!Pending, ListPageRecord, ListSwitching

\* Another view of the same session is rendered at once; its effects wait.
LEMMA ListScreenMoves ==
  ASSUME ListInv, listPage.open, ~List!Pending, NEW v \in List!Views, v.session = listPage.cur.session,
         listPage' = List!Rendered([listPage EXCEPT !.cur = v]),
         v.off # 0 =>
           \/ listPage.settled.off # 0 \/ listPage.settled.session # listPage.cur.session
           \/ listPage.settled.key = listPage.cur.key,
         listPage.settled = v /\ listPage.at # v /\ ~listPage.error => listPage.cur.key # v.key
           /\ v.off # 0,
         UNCHANGED <<list, listCalls, latest, abort, listSaved, server, toggle, ghost>>
  PROVE  ListInv'
<1>. DEFINE q == [listPage EXCEPT !.cur = v]
<1>1. /\ listPage \in ListPageRecord /\ listPage.cur \in List!Views /\ listPage.commit = listPage.cur
      /\ listPage.seen = listPage.cur /\ listPage.seen # List!NoView /\ ~ListSwitching
  BY ListQuietIs
<1>2. /\ q \in ListPageRecord /\ q.open = listPage.open /\ q.cur = v /\ q.commit = listPage.commit
      /\ q.seen = listPage.seen /\ q.at = listPage.at /\ q.rows = listPage.rows
      /\ q.settled = listPage.settled
      /\ q.error = listPage.error /\ q.refreshing = listPage.refreshing /\ q.inited = listPage.inited
  BY <1>1, ListMovedIs
<1>. HIDE DEF q
<1>3. listPage' = List!Rendered(q)  BY DEF q
<1>4. /\ listPage' \in ListPageRecord /\ listPage'.open = listPage.open /\ listPage'.cur = v
      /\ listPage'.commit = v
      /\ listPage'.seen = listPage.cur /\ listPage'.at = listPage.at /\ listPage'.rows = listPage.rows
      /\ listPage'.settled = listPage.settled /\ listPage'.error = listPage.error
      /\ listPage'.refreshing = listPage.refreshing /\ listPage'.inited = listPage.inited
  <2>1. q \in ListPageRecord /\ q.commit = q.seen /\ q.seen = listPage.cur  BY <1>1, <1>2
  <2>2. /\ List!Rendered(q) \in ListPageRecord
        /\ List!Rendered(q).open = q.open /\ List!Rendered(q).cur = q.cur
        /\ List!Rendered(q).seen = q.seen
        /\ List!Rendered(q).at = q.at /\ List!Rendered(q).rows = q.rows
        /\ List!Rendered(q).settled = q.settled /\ List!Rendered(q).error = q.error
        /\ List!Rendered(q).refreshing = q.refreshing /\ List!Rendered(q).inited = q.inited
        /\ List!Rendered(q).commit = (IF q.commit = q.seen THEN q.cur ELSE q.commit)
    BY <2>1, ListRenderedIs
  <2>. QED  BY <1>2, <1>3, <2>1, <2>2
<1>5. ListVarTypes'  BY <1>4 DEF ListInv, ListVarTypes
<1>6. ListVersFit'  BY <1>4 DEF ListInv, ListVersFit
<1>7. ListRenderFit'  BY <1>1, <1>4 DEF ListInv, ListRenderFit
<1>8. ~ListSwitching'  BY <1>4 DEF ListSwitching
<1>9. ListCallsFit'  BY <1>1, <1>4, <1>8 DEF ListInv, ListCallsFit
<1>10. ListCacheFit'  BY <1>4, <1>8 DEF ListInv, ListCacheFit
<1>11. ListShownFit'  BY <1>1, <1>4 DEF ListInv, ListShownFit
<1>12. ListLive => ListLive'  BY <1>4 DEF ListLive
<1>13. ListLagFit'  BY <1>4, <1>12 DEF ListInv, ListLagFit
<1>14. ListToggleFit'  BY <1>4 DEF ListInv, ListToggleFit
<1>. QED  BY <1>5, <1>6, <1>7, <1>9, <1>10, <1>11, <1>13, <1>14 DEF ListInv

\* The select goes to page 0 of the filter.
LEMMA ListFiltersByInv == ASSUME ListInv, NEW key \in Filters, List!FiltersBy(key) PROVE ListInv'
<1>. DEFINE v == [listPage.cur EXCEPT !.key = key, !.off = 0]
<1>1. /\ listPage.open /\ ~List!Pending /\ listPage' = List!Rendered([listPage EXCEPT !.cur.key = key,
           !.cur.off = 0])
      /\ UNCHANGED <<list, listCalls, latest, abort, listSaved, server, toggle, ghost>>
  BY DEF List!FiltersBy
<1>2. listPage \in ListPageRecord /\ listPage.cur \in List!Views  BY <1>1, ListQuietIs
<1>3. v \in List!Views /\ v.session = listPage.cur.session /\ v.off = 0
  <2>. DEFINE w == [listPage.cur EXCEPT !.key = key]
  <2>1. w \in List!Views /\ w.session = listPage.cur.session  BY <1>2 DEF List!Views
  <2>2. v = [w EXCEPT !.off = 0]  OBVIOUS
  <2>. HIDE DEF v, w
  <2>. QED  BY <2>1, <2>2 DEF List!Views
<1>4. [listPage EXCEPT !.cur.key = key, !.cur.off = 0] = [listPage EXCEPT !.cur = v]
  BY <1>2 DEF ListPageRecord
<1>. HIDE DEF v
<1>5. ~(listPage.settled = v /\ listPage.at # v /\ ~listPage.error)
  BY <1>3 DEF ListInv, ListShownFit
<1>. QED  BY <1>1, <1>3, <1>4, <1>5, ListScreenMoves

\* A link keeps the page number, with another filter or the same.
LEMMA ListNavigatesInv == ASSUME ListInv, NEW key \in Filters, List!Navigates(key) PROVE ListInv'
<1>. DEFINE v == [listPage.cur EXCEPT !.key = key]
<1>1. /\ listPage.open /\ ~List!Pending /\ listPage' = List!Rendered([listPage EXCEPT !.cur.key = key])
      /\ UNCHANGED <<list, listCalls, latest, abort, listSaved, server, toggle, ghost>>
  BY DEF List!Navigates
<1>2. listPage \in ListPageRecord /\ listPage.cur \in List!Views /\ listPage.commit = listPage.cur
        /\ listPage.seen = listPage.cur
  BY <1>1, ListQuietIs
<1>3. /\ v \in List!Views /\ v.session = listPage.cur.session /\ v.off = listPage.cur.off /\ v.key = key
      /\ key = listPage.cur.key => v = listPage.cur
  BY <1>2 DEF List!Views
<1>4. [listPage EXCEPT !.cur.key = key] = [listPage EXCEPT !.cur = v]
  BY <1>2 DEF ListPageRecord
<1>. HIDE DEF v
<1>5. listPage.settled = v /\ listPage.at # v /\ ~listPage.error => listPage.cur.key # v.key
        /\ v.off # 0
  BY <1>2, <1>3 DEF ListInv, ListShownFit
<1>6. v.off # 0 =>
        \/ listPage.settled.off # 0 \/ listPage.settled.session # listPage.cur.session
        \/ listPage.settled.key = listPage.cur.key
  BY <1>2, <1>3 DEF ListInv, ListShownFit
<1>. QED  BY <1>1, <1>3, <1>4, <1>5, <1>6, ListScreenMoves

\* The footer turns the page of a list that was loaded.
LEMMA ListTurnsInv == ASSUME ListInv, List!Turns PROVE ListInv'
<1>1. /\ listPage.open /\ ~List!Pending /\ listPage.settled = listPage.cur
      /\ UNCHANGED <<list, listCalls, latest, abort, listSaved, server, toggle, ghost>>
      /\ \/ listPage.at = listPage.cur /\ listPage' = List!Rendered([listPage EXCEPT !.cur.off = 1])
         \/ listPage.cur.off > 0 /\ listPage' = List!Rendered([listPage EXCEPT !.cur.off = 0])
  BY DEF List!Turns, List!ShowFooter, List!IsInitial, List!HasMore, List!CanGoBack, List!IsCurrent
<1>2. listPage \in ListPageRecord /\ listPage.cur \in List!Views  BY <1>1, ListQuietIs
<1>3. ASSUME NEW off \in 0..1, listPage' = List!Rendered([listPage EXCEPT !.cur.off = off]),
             listPage.at = listPage.cur \/ off # listPage.cur.off
      PROVE  ListInv'
  <2>. DEFINE v == [listPage.cur EXCEPT !.off = off]
  <2>1. v \in List!Views /\ v.session = listPage.cur.session /\ v.off = off
    BY <1>2 DEF List!Views
  <2>2. [listPage EXCEPT !.cur.off = off] = [listPage EXCEPT !.cur = v]
    BY <1>2 DEF ListPageRecord
  <2>. HIDE DEF v
  <2>3. ~(listPage.settled = v /\ listPage.at # v /\ ~listPage.error)  BY <1>1, <1>3, <2>1
  <2>4. v.off # 0 => listPage.settled.key = listPage.cur.key  BY <1>1
  <2>. QED  BY <1>1, <1>3, <2>1, <2>2, <2>3, <2>4, ListScreenMoves
<1>4. CASE listPage.at = listPage.cur /\ listPage' = List!Rendered([listPage EXCEPT !.cur.off = 1])
  BY <1>3, <1>4
<1>5. CASE listPage.cur.off > 0 /\ listPage' = List!Rendered([listPage EXCEPT !.cur.off = 0])
  BY <1>3, <1>5
<1>. QED  BY <1>1, <1>4, <1>5

\* The session becomes another one: its cache is empty, and no call is for it yet.
LEMMA ListSwitchesInv == ASSUME ListInv, List!Switches PROVE ListInv'
<1>. DEFINE v == [listPage.cur EXCEPT !.session = 2]
            q == [listPage EXCEPT !.cur = v]
<1>1. /\ listPage.open /\ ~List!Pending /\ listPage.cur.session = 1 /\ toggle.st = "none"
      /\ listPage' = List!Rendered([listPage EXCEPT !.cur.session = 2])
      /\ listSaved' = List!NoRows /\ ghost' = [ghost EXCEPT !.cleared = server.ver]
      /\ UNCHANGED <<list, listCalls, latest, abort, server, toggle>>
  BY DEF List!Switches
<1>2. /\ listPage \in ListPageRecord /\ listPage.cur \in List!Views /\ listPage.commit = listPage.cur
      /\ listPage.seen = listPage.cur /\ listPage.seen # List!NoView /\ ~ListSwitching
  BY <1>1, ListQuietIs
<1>3. v \in List!Views /\ v.session = 2 /\ v.key = listPage.cur.key /\ v.off = listPage.cur.off
  BY <1>2 DEF List!Views
<1>4. [listPage EXCEPT !.cur.session = 2] = q  BY <1>2 DEF ListPageRecord
<1>. HIDE DEF v
<1>5. /\ q \in ListPageRecord /\ q.open = listPage.open /\ q.cur = v /\ q.commit = listPage.commit
      /\ q.seen = listPage.seen /\ q.at = listPage.at /\ q.rows = listPage.rows
      /\ q.settled = listPage.settled
      /\ q.error = listPage.error /\ q.refreshing = listPage.refreshing /\ q.inited = listPage.inited
  BY <1>2, <1>3, ListMovedIs
<1>. HIDE DEF q
<1>6. listPage' = List!Rendered(q)  BY <1>1, <1>4
<1>7. /\ listPage' \in ListPageRecord /\ listPage'.open = listPage.open /\ listPage'.cur = v
      /\ listPage'.commit = v
      /\ listPage'.seen = listPage.cur /\ listPage'.at = listPage.at /\ listPage'.rows = listPage.rows
      /\ listPage'.settled = listPage.settled /\ listPage'.error = listPage.error
      /\ listPage'.refreshing = listPage.refreshing /\ listPage'.inited = listPage.inited
  BY <1>2, <1>5, <1>6, ListRenderedIs
<1>8. /\ ghost' \in [told: Nat, cleared: Nat, dropped: BOOLEAN] /\ ghost'.told = ghost.told
      /\ ghost'.cleared = server.ver /\ ghost'.dropped = ghost.dropped
      /\ server.ver \in Nat /\ ghost.told \in Nat /\ ghost.cleared \in Nat
  BY <1>1 DEF ListInv, ListVarTypes
<1>9. ListVarTypes'  BY <1>1, <1>7, <1>8, ListValues DEF ListInv, ListVarTypes
<1>10. ListVersFit'  BY <1>1, <1>7, <1>8, ListValues DEF ListInv, ListVersFit
<1>11. listPage.settled.session <= 1  BY <1>1 DEF ListInv, ListRenderFit
<1>12. listPage.settled.session \in Int  BY <1>2, ListValues DEF ListPageRecord
<1>13. ListRenderFit'
  <2>1. listPage'.cur.session = 2 /\ listPage'.commit = listPage'.cur /\ listPage'.seen = listPage.cur
    BY <1>3, <1>7
  <2>2. listPage'.settled.session <= 2 /\ listPage'.seen.session <= 2
    BY <1>1, <1>7, <1>11, <1>12, <2>1
  <2>. QED  BY <1>1, <1>2, <1>7, <2>1, <2>2 DEF ListRenderFit
<1>14. ListCallsFit'
  <2>1. ListSwitching'  BY <1>1, <1>2, <1>3, <1>7 DEF ListSwitching
  <2>2. \A m \in Slots : listCalls[m].st # "none" =>
          listCalls[m].at \in List!Views /\ listCalls[m].at.session \in 1..2
            /\ listCalls[m].at.session <= 1
    BY <1>1, ListValues DEF ListInv, ListCallsFit
  <2>. SUFFICES ASSUME NEW m \in Slots, listCalls[m].st # "none"
                PROVE  /\ listCalls[m].at \in List!Views /\ listCalls[m].at.session <= 2
                       /\ listCalls[m].at.session # 2
                       /\ listCalls[m].st = "rows" => listCalls[m].rows.of = listCalls[m].at
                       /\ listCalls[m].fresh /\ listCalls[m].st = "rows" =>
                            listCalls[m].rows.ver >= ghost.told
                       /\ listCalls[m].mine => listPage.open /\ listPage.seen # List!NoView
                       /\ listCalls[m].mine /\ ~listCalls[m].aborted => m = abort
                       /\ listCalls[m].mine /\ ~listCalls[m].aborted /\ m = latest =>
                            /\ listCalls[m].at = listPage.seen
                            /\ listCalls[m].st = "rows" => listCalls[m].rows.ver >= listPage.rows.ver
                       /\ listCalls[m].fresh /\ ~listCalls[m].mine =>
                            listPage.at = List!NoView \/ listPage.rows.ver >= ghost.told
    <3>1. /\ listPage'.cur.session = 2 /\ listPage'.commit = listPage'.cur
          /\ listPage'.seen = listPage.seen
          /\ listPage'.open = listPage.open /\ listPage'.at = listPage.at
          /\ listPage'.rows = listPage.rows
      BY <1>2, <1>3, <1>7
    <3>. QED  BY <1>1, <1>8, <2>1, <3>1 DEF ListCallsFit
  <2>. QED  BY <2>2 DEF ListInv, ListCallsFit
<1>15. ListCacheFit'  BY <1>1 DEF ListCacheFit
<1>16. ListShownFit'
  <2>1. listPage.settled # v /\ listPage.settled.session # v.session  BY <1>3, <1>11, <1>12
  <2>. QED  BY <1>2, <1>3, <1>7, <2>1 DEF ListInv, ListShownFit
<1>17. ListLive => ListLive'  BY <1>1, <1>7 DEF ListLive
<1>18. ListLagFit'  BY <1>1, <1>7, <1>8, <1>17 DEF ListInv, ListLagFit
<1>19. ListToggleFit'  BY <1>1 DEF ListToggleFit
<1>. QED  BY <1>9, <1>10, <1>13, <1>14, <1>15, <1>16, <1>18, <1>19 DEF ListInv

\* The timer loads what is shown, when no call is under way.
LEMMA ListPollsInv == ASSUME ListInv, List!Polls PROVE ListInv'
<1>1. /\ listPage.open /\ ~List!Pending /\ abort = 0 /\ List!LoadsPage(listPage, listCalls)
      /\ UNCHANGED <<list, listSaved, server, toggle>>
  BY DEF List!Polls
<1>2. /\ listPage \in ListPageRecord /\ listPage.cur \in List!Views /\ listPage.commit = listPage.cur
      /\ listPage.seen = listPage.cur /\ listPage.seen # List!NoView /\ ~ListSwitching
  BY <1>1, ListQuietIs
<1>3. /\ listCalls \in [Slots -> ListCallRecord] /\ abort \in {0} \cup Slots
      /\ ghost \in [told: Nat, cleared: Nat, dropped: BOOLEAN] /\ server.ver \in Nat
  BY DEF ListInv, ListVarTypes
<1>4. /\ latest' \in Slots /\ abort' = latest' /\ listCalls[latest'].st = "none"
      /\ listCalls' \in [Slots -> ListCallRecord]
      /\ LET c == listCalls'[latest'] IN
         /\ c.st = "sent" /\ c.mine = TRUE /\ c.aborted = FALSE /\ c.fresh = TRUE
         /\ c.at = listPage.seen /\ c.rows = List!NoRows
      /\ \A m \in Slots \ {latest'} :
           LET c == listCalls'[m] IN
           /\ c.st = listCalls[m].st /\ (c.mine <=> listCalls[m].mine)
                /\ (c.fresh <=> listCalls[m].fresh)
           /\ c.at = listCalls[m].at /\ c.rows = listCalls[m].rows
           /\ (c.aborted <=> listCalls[m].aborted \/ m = abort)
      /\ listPage' \in ListPageRecord
      /\ listPage'.open = listPage.open /\ listPage'.cur = listPage.cur
      /\ listPage'.commit = listPage.commit
      /\ listPage'.seen = listPage.seen /\ listPage'.at = listPage.at /\ listPage'.rows = listPage.rows
      /\ listPage'.settled = listPage.settled /\ listPage'.error = listPage.error
      /\ listPage'.inited = listPage.inited
      /\ (listPage'.refreshing <=> listPage.refreshing \/ listPage.inited)
      /\ ghost' \in [told: Nat, cleared: Nat, dropped: BOOLEAN]
      /\ ghost'.told = ghost.told /\ ghost'.cleared = ghost.cleared /\ ghost'.dropped = FALSE
  BY <1>1, <1>2, <1>3, ListLoadsIs
<1>5. ListVarTypes'  BY <1>1, <1>4 DEF ListInv, ListVarTypes
<1>6. ListVersFit'  BY <1>1, <1>3, <1>4, ListValues DEF ListInv, ListVersFit
<1>7. ListRenderFit' /\ ListShownFit' /\ ListToggleFit'
  BY <1>1, <1>4 DEF ListInv, ListRenderFit, ListShownFit, ListToggleFit
<1>8. ~ListSwitching'  BY <1>2, <1>4 DEF ListSwitching
<1>9. ListCacheFit'  BY <1>1, <1>4, <1>8 DEF ListInv, ListCacheFit
<1>10. ListCallsFit'
  <2>. SUFFICES ASSUME NEW m \in Slots, listCalls'[m].st # "none"
                PROVE  /\ listCalls'[m].at \in List!Views
                            /\ listCalls'[m].at.session <= listPage.cur.session
                       /\ listCalls'[m].st = "rows" => listCalls'[m].rows.of = listCalls'[m].at
                       /\ listCalls'[m].fresh => listCalls'[m].at.session = listPage.cur.session
                       /\ listCalls'[m].fresh /\ listCalls'[m].st = "rows" =>
                            /\ listCalls'[m].rows.ver >= ghost.told
                            /\ listCalls'[m].at.session = listPage.cur.session =>
                                 listCalls'[m].rows.ver >= ghost.cleared
                       /\ listCalls'[m].mine /\ ~listCalls'[m].aborted =>
                            m = abort' /\ listCalls'[m].st # "rows" /\ listCalls'[m].at = listPage.seen
                       /\ listCalls'[m].fresh /\ ~listCalls'[m].mine =>
                            listPage.at = List!NoView \/ listPage.rows.ver >= ghost.told
    BY <1>1, <1>2, <1>4, <1>8 DEF ListCallsFit
  <2>1. CASE m = latest'
    <3>1. listPage.cur.session \in 1..2  BY <1>2, ListValues
    <3>. QED  BY <1>2, <1>4, <2>1, <3>1
  <2>2. CASE m # latest'
    BY <1>2, <1>4, <2>2 DEF ListInv, ListCallsFit
  <2>. QED  BY <2>1, <2>2
<1>11. ListLagFit'
  <2>1. listPage.at # List!NoView => listPage.inited  BY DEF ListInv, ListShownFit
  <2>. QED  BY <1>4, <2>1 DEF ListLagFit, ListLive
<1>. QED  BY <1>5, <1>6, <1>7, <1>9, <1>10, <1>11 DEF ListInv

\* The cache is cleared: no call of this session is fresh any more.
LEMMA ListClearedIs ==
  ASSUME ListInv
  PROVE  LET cs == List!Outdated(listCalls, listPage.cur.session) IN
         /\ cs \in [Slots -> ListCallRecord]
         /\ \A m \in Slots :
              /\ cs[m].st = listCalls[m].st /\ (cs[m].mine <=> listCalls[m].mine)
              /\ (cs[m].aborted <=> listCalls[m].aborted)
              /\ cs[m].at = listCalls[m].at /\ cs[m].rows = listCalls[m].rows
              /\ (cs[m].fresh <=> listCalls[m].fresh /\ listCalls[m].at.session # listPage.cur.session)
<1>1. listCalls \in [Slots -> ListCallRecord]  BY DEF ListInv, ListVarTypes
<1>. QED  BY <1>1, ListOutdatedIs

\* Another page clears the cache: a load that is under way is dropped.
LEMMA ListClearedElsewhereInv == ASSUME ListInv, List!ClearedElsewhere PROVE ListInv'
<1>. DEFINE cs == List!Outdated(listCalls, listPage.cur.session)
            g == ghost.dropped \/ abort # 0
<1>1. /\ listSaved' = List!NoRows /\ listCalls' = cs
      /\ ghost' = [ghost EXCEPT !.cleared = server.ver, !.dropped = @ \/ abort # 0]
      /\ UNCHANGED <<list, listPage, latest, abort, server, toggle>>
  BY DEF List!ClearedElsewhere
<1>2. /\ cs \in [Slots -> ListCallRecord]
      /\ \A m \in Slots :
           /\ cs[m].st = listCalls[m].st /\ (cs[m].mine <=> listCalls[m].mine)
           /\ (cs[m].aborted <=> listCalls[m].aborted)
           /\ cs[m].at = listCalls[m].at /\ cs[m].rows = listCalls[m].rows
           /\ (cs[m].fresh <=> listCalls[m].fresh /\ listCalls[m].at.session # listPage.cur.session)
  BY ListClearedIs
<1>. HIDE DEF cs
<1>3. /\ server.ver \in Nat /\ ghost.told \in Nat /\ ghost.cleared \in Nat
      /\ ghost \in [told: Nat, cleared: Nat, dropped: BOOLEAN]
  BY DEF ListInv, ListVarTypes
<1>4. g \in BOOLEAN  BY <1>3
<1>5. /\ ghost' \in [told: Nat, cleared: Nat, dropped: BOOLEAN] /\ ghost'.told = ghost.told
      /\ ghost'.cleared = server.ver /\ ghost'.dropped = g
  <2>1. ghost' = [ghost EXCEPT !.cleared = server.ver, !.dropped = g]  BY <1>1
  <2>. HIDE DEF g
  <2>. QED  BY <1>3, <1>4, <2>1
<1>6. ListVarTypes'  BY <1>1, <1>2, <1>5, ListValues DEF ListInv, ListVarTypes
<1>7. ListVersFit'  BY <1>1, <1>2, <1>3, <1>5, ListValues DEF ListInv, ListVersFit
<1>8. ListRenderFit' /\ ListShownFit'  BY <1>1 DEF ListInv, ListRenderFit, ListShownFit
<1>9. ListToggleFit'  BY <1>1, <1>5 DEF ListInv, ListToggleFit
<1>10. ListCacheFit'  BY <1>1 DEF ListCacheFit
<1>11. ListSwitching' <=> ListSwitching  BY <1>1 DEF ListSwitching
<1>12. ListCallsFit'  BY <1>1, <1>2, <1>5, <1>11 DEF ListInv, ListCallsFit
<1>13. ListLive => ghost'.dropped
  <2>1. 0 \notin Slots  BY ListAssumption
  <2>. QED  BY <1>5, <2>1 DEF ListLive
<1>14. ListLagFit'
  <2>1. ghost.dropped => ghost'.dropped  BY <1>5
  <2>. QED  BY <1>1, <1>5, <1>13, <2>1 DEF ListInv, ListLagFit, List!Pending
<1>. QED  BY <1>6, <1>7, <1>8, <1>9, <1>10, <1>12, <1>14 DEF ListInv

\* The list changes on the server.
LEMMA ListServerGrows ==
  ASSUME ListInv, server' \in [ver: 0..MaxVer, pages: 0..2], server'.ver >= server.ver,
         toggle' \in ListToggleRecord, toggle'.ver <= server'.ver, toggle'.st # "none"
           => toggle.st # "none",
         toggle'.mine = toggle.mine, toggle'.at = toggle.at,
         UNCHANGED <<list, listPage, listCalls, latest, abort, listSaved, ghost>>
  PROVE  ListInv'
<1>1. ListVarTypes'  BY DEF ListInv, ListVarTypes
<1>2. /\ server.ver \in Nat /\ server'.ver \in Nat /\ listPage.rows.ver \in Nat /\ listSaved.ver \in Nat
      /\ ghost.cleared \in Nat
      /\ \A n \in Slots : listCalls[n].rows.ver \in Nat
  BY DEF ListInv, ListVarTypes, ListPageRecord, ListCallRecord, ListRowsRecord
<1>3. ListVersFit'  BY <1>2 DEF ListInv, ListVersFit
<1>4. ListRenderFit' /\ ListCallsFit' /\ ListCacheFit' /\ ListShownFit'
  BY DEF ListInv, ListRenderFit, ListCallsFit, ListCacheFit, ListShownFit, ListSwitching
<1>5. ListLagFit' /\ ListToggleFit'
  BY DEF ListInv, ListLagFit, ListToggleFit, ListLive, List!Pending
<1>. QED  BY <1>1, <1>3, <1>4, <1>5 DEF ListInv

\* Another user changes the list, or the API makes the change of the row or refuses it.
LEMMA ListChangesInv == ASSUME ListInv, List!Changes \/ List!Patches PROVE ListInv'
<1>1. server \in [ver: 0..MaxVer, pages: 0..2] /\ toggle \in ListToggleRecord
        /\ toggle.ver <= server.ver
  BY DEF ListInv, ListVarTypes, ListVersFit
<1>2. server.ver \in Nat /\ toggle.ver \in Nat  BY <1>1 DEF ListToggleRecord
<1>3. ASSUME NEW pages \in 0..2, server.ver < MaxVer,
             server' = [ver |-> server.ver + 1, pages |-> pages]
      PROVE  server' \in [ver: 0..MaxVer, pages: 0..2] /\ server'.ver = server.ver + 1
  BY <1>2, <1>3, ListAssumption
<1>4. CASE List!Changes
  <2>1. PICK pages \in 0..2 : server' = [ver |-> server.ver + 1, pages |-> pages]
    BY <1>4 DEF List!Changes
  <2>2. server.ver < MaxVer /\ UNCHANGED <<list, listPage, listCalls, latest, abort, listSaved, toggle,
          ghost>>
    BY <1>4 DEF List!Changes
  <2>3. server' \in [ver: 0..MaxVer, pages: 0..2] /\ server'.ver = server.ver + 1
    BY <1>3, <2>1, <2>2
  <2>. QED  BY <1>1, <1>2, <2>2, <2>3, ListServerGrows
<1>5. CASE List!Patches
  <2>1. toggle.st = "sent" /\ UNCHANGED <<list, listPage, listCalls, latest, abort, listSaved, ghost>>
    BY <1>5 DEF List!Patches
  <2>2. CASE toggle' = [toggle EXCEPT !.st = "failed"] /\ UNCHANGED server
    <3>1. /\ toggle' \in ListToggleRecord /\ toggle'.ver = toggle.ver /\ toggle'.mine = toggle.mine
          /\ toggle'.at = toggle.at
      BY <1>1, <2>2 DEF ListToggleRecord
    <3>. QED  BY <1>1, <1>2, <2>1, <2>2, <3>1, ListServerGrows
  <2>3. CASE /\ server.ver < MaxVer
             /\ \E pages \in 0..2 : server' = [ver |-> server.ver + 1, pages |-> pages]
             /\ toggle' = [toggle EXCEPT !.st = "ok", !.ver = server.ver + 1]
    <3>1. server' \in [ver: 0..MaxVer, pages: 0..2] /\ server'.ver = server.ver + 1
      BY <1>3, <2>3
    <3>. DEFINE w == server.ver + 1
    <3>2. w \in Nat  BY <1>2
    <3>. HIDE DEF w
    <3>3. toggle' = [toggle EXCEPT !.st = "ok", !.ver = w]  BY <2>3 DEF w
    <3>4. /\ toggle' \in ListToggleRecord /\ toggle'.ver = w /\ toggle'.mine = toggle.mine
          /\ toggle'.at = toggle.at
      BY <1>1, <3>2, <3>3 DEF ListToggleRecord
    <3>5. server'.ver = w /\ server'.ver >= server.ver  BY <1>2, <3>1 DEF w
    <3>6. toggle'.ver <= server'.ver  BY <3>2, <3>4, <3>5
    <3>. QED  BY <2>1, <3>1, <3>4, <3>5, <3>6, ListServerGrows
  <2>. QED  BY <1>5, <2>2, <2>3 DEF List!Patches
<1>. QED  BY <1>4, <1>5

\* The user changes a row, and is told when that failed.
LEMMA ListTogglesInv == ASSUME ListInv, List!Toggles \/ List!ToggleFails PROVE ListInv'
<1>1. UNCHANGED <<list, listPage, listCalls, latest, abort, listSaved, server, ghost>>
  BY DEF List!Toggles, List!ToggleFails
<1>2. listPage.seen \in ListAnyView /\ server.ver \in Nat
  BY DEF ListInv, ListVarTypes, ListPageRecord
<1>3. /\ toggle' \in ListToggleRecord /\ toggle'.ver = 0
      /\ toggle'.st # "none" => toggle'.mine /\ listPage.open
  <2>1. CASE List!Toggles
    <3>1. /\ toggle' = [st |-> "sent", mine |-> TRUE, ver |-> 0, at |-> listPage.seen]
          /\ listPage.open
      BY <2>1 DEF List!Toggles
    <3>. QED  BY <1>2, <3>1 DEF ListToggleRecord
  <2>2. CASE List!ToggleFails  BY <2>2, ListValues DEF List!ToggleFails
  <2>. QED  BY <2>1, <2>2
<1>4. ListVarTypes' /\ ListVersFit'  BY <1>1, <1>2, <1>3 DEF ListInv, ListVarTypes, ListVersFit
<1>5. ListRenderFit' /\ ListCallsFit' /\ ListCacheFit' /\ ListShownFit' /\ ListLagFit'
  BY <1>1
    DEF ListInv, ListRenderFit, ListCallsFit, ListCacheFit, ListShownFit, ListLagFit,
        ListSwitching, ListLive, List!Pending
<1>6. ListToggleFit'  BY <1>1, <1>3 DEF ListToggleFit
<1>. QED  BY <1>4, <1>5, <1>6 DEF ListInv

\* A call takes the place of one that is over.
LEMMA ListNewCallIs ==
  ASSUME List!Free # {}, NEW cs \in [Slots -> ListCallRecord], NEW g \in ListCallRecord,
         listCalls' = [cs EXCEPT ![List!NewCall] = g]
  PROVE  /\ List!NewCall \in Slots /\ listCalls[List!NewCall].st = "none"
         /\ listCalls' \in [Slots -> ListCallRecord] /\ listCalls'[List!NewCall] = g
         /\ \A m \in Slots \ {List!NewCall} : listCalls'[m] = cs[m]
<1>1. List!NewCall \in List!Free  BY DEF List!NewCall
<1>2. List!NewCall \in Slots /\ listCalls[List!NewCall].st = "none"  BY <1>1 DEF List!Free
<1>. QED  BY <1>2

\* The change of a row succeeded: the cache is cleared and the list loaded, which brings the
\* change; a page that was left loads for the cache only.
LEMMA ListReloadsInv == ASSUME ListInv, List!Reloads PROVE ListInv'
<1>. DEFINE cs == List!Outdated(listCalls, listPage.cur.session)
            own == [List!NoCall EXCEPT !.st = "sent", !.mine = TRUE, !.fresh = TRUE,
              !.at = listPage.seen]
            other == [List!NoCall EXCEPT !.st = "sent", !.fresh = TRUE, !.at = toggle.at]
            as == List!AbortCall(cs, abort)
<1>1. /\ toggle.st = "ok" /\ ~List!Pending /\ listSaved' = List!NoRows /\ toggle' = List!NoToggle
      /\ List!Free # {}
      /\ UNCHANGED <<list, server>>
      /\ toggle.mine =>
           /\ listCalls' = [as EXCEPT ![List!NewCall] = own]
           /\ latest' = List!NewCall /\ abort' = List!NewCall
           /\ listPage' = [listPage EXCEPT !.refreshing = List!Refreshes(listPage)]
           /\ ghost' = [told |-> toggle.ver, cleared |-> server.ver, dropped |-> FALSE]
      /\ ~toggle.mine =>
           /\ listCalls' = [cs EXCEPT ![List!NewCall] = other]
           /\ ghost' = [ghost EXCEPT !.cleared = server.ver, !.dropped = @ \/ abort # 0]
           /\ UNCHANGED <<listPage, latest, abort>>
  BY DEF List!Reloads
<1>2. /\ cs \in [Slots -> ListCallRecord]
      /\ \A m \in Slots :
           /\ cs[m].st = listCalls[m].st /\ (cs[m].mine <=> listCalls[m].mine)
           /\ (cs[m].aborted <=> listCalls[m].aborted)
           /\ cs[m].at = listCalls[m].at /\ cs[m].rows = listCalls[m].rows
           /\ (cs[m].fresh <=> listCalls[m].fresh /\ listCalls[m].at.session # listPage.cur.session)
  BY ListClearedIs
<1>. HIDE DEF cs
<1>3. /\ listPage \in ListPageRecord /\ toggle \in ListToggleRecord /\ abort \in {0} \cup Slots
      /\ server.ver \in Nat /\ ghost.told \in Nat /\ ghost.cleared \in Nat
      /\ ghost \in [told: Nat, cleared: Nat, dropped: BOOLEAN]
      /\ listPage.cur \in List!Views /\ listPage.seen \in ListAnyView /\ toggle.ver \in Nat
      /\ toggle.at \in ListAnyView
  BY DEF ListInv, ListVarTypes, ListPageRecord, ListToggleRecord
<1>4. toggle.ver <= server.ver /\ ghost.told <= server.ver
  BY <1>3 DEF ListInv, ListVersFit
<1>5. List!NewCall \in Slots  BY <1>1, ListNewCallIs DEF List!NewCall, List!Free
<1>6. CASE toggle.mine
  <2>1. listPage.open  BY <1>1, <1>6 DEF ListInv, ListToggleFit
  <2>2. /\ listPage.commit = listPage.cur /\ listPage.seen = listPage.cur
        /\ listPage.seen # List!NoView /\ ~ListSwitching
    BY <1>1, <2>1, ListQuietIs
  <2>3. /\ own \in ListCallRecord /\ own.st = "sent" /\ own.mine = TRUE /\ own.aborted = FALSE
        /\ own.fresh = TRUE /\ own.at = listPage.seen /\ own.rows = List!NoRows
    BY <1>3, ListValues DEF ListCallRecord
  <2>4. /\ as \in [Slots -> ListCallRecord]
        /\ \A m \in Slots :
             /\ as[m].st = cs[m].st /\ (as[m].mine <=> cs[m].mine)
             /\ (as[m].fresh <=> cs[m].fresh) /\ as[m].at = cs[m].at /\ as[m].rows = cs[m].rows
             /\ (as[m].aborted <=> cs[m].aborted \/ m = abort)
    BY <1>2, <1>3, ListAbortIs
  <2>. HIDE DEF own, as
  <2>5. listCalls' = [as EXCEPT ![List!NewCall] = own]  BY <1>1, <1>6
  <2>6. /\ listCalls' \in [Slots -> ListCallRecord] /\ listCalls'[List!NewCall] = own
        /\ \A m \in Slots \ {List!NewCall} : listCalls'[m] = as[m]
    BY <1>1, <2>3, <2>4, <2>5, ListNewCallIs
  <2>7. latest' = List!NewCall /\ abort' = List!NewCall  BY <1>1, <1>6
  <2>8. /\ listPage' \in ListPageRecord /\ listPage'.open = listPage.open
        /\ listPage'.cur = listPage.cur
        /\ listPage'.commit = listPage.commit /\ listPage'.seen = listPage.seen
        /\ listPage'.at = listPage.at
        /\ listPage'.rows = listPage.rows /\ listPage'.settled = listPage.settled
        /\ listPage'.error = listPage.error
        /\ listPage'.inited = listPage.inited /\ (listPage'.refreshing <=> listPage.refreshing
             \/ listPage.inited)
    <3>. DEFINE b == listPage.refreshing \/ listPage.inited
    <3>1. b \in BOOLEAN  BY <1>3 DEF ListPageRecord
    <3>. HIDE DEF b
    <3>2. listPage' = [listPage EXCEPT !.refreshing = b]  BY <1>1, <1>6 DEF List!Refreshes, b
    <3>3. (listPage'.refreshing <=> b)  BY <1>3, <3>2 DEF ListPageRecord
    <3>. QED  BY <1>3, <3>1, <3>2, <3>3 DEF ListPageRecord, b
  <2>9. /\ ghost' \in [told: Nat, cleared: Nat, dropped: BOOLEAN]
        /\ ghost'.told = toggle.ver /\ ghost'.cleared = server.ver
    <3>. DEFINE no == FALSE
    <3>1. no \in BOOLEAN  OBVIOUS
    <3>2. ghost' = [told |-> toggle.ver, cleared |-> server.ver, dropped |-> no]
      BY <1>1, <1>6
    <3>. HIDE DEF no
    <3>3. toggle.ver \in Nat /\ server.ver \in Nat  BY <1>3
    <3>. QED  BY <3>1, <3>2, <3>3
  <2>10. ListVarTypes'
    BY <1>1, <1>5, <2>6, <2>7, <2>8, <2>9, ListValues DEF ListInv, ListVarTypes
  <2>11. ListVersFit'
    <3>1. List!NoRows.ver <= server.ver /\ \A m \in Slots : listCalls[m].rows.ver <= server.ver
      BY <1>3, ListValues DEF ListInv, ListVersFit
    <3>2. \A m \in Slots : as[m].rows = listCalls[m].rows  BY <1>2, <2>4
    <3>3. ASSUME NEW m \in Slots PROVE listCalls'[m].rows.ver <= server.ver
      <4>1. CASE m = List!NewCall  BY <2>3, <2>6, <3>1, <4>1
      <4>2. CASE m # List!NewCall
        <5>1. listCalls'[m].rows = listCalls[m].rows  BY <2>6, <3>2, <4>2
        <5>. QED  BY <3>1, <5>1
      <4>. QED  BY <4>1, <4>2
    <3>. QED  BY <1>1, <1>3, <1>4, <2>8, <2>9, <3>3, ListValues DEF ListInv, ListVersFit
  <2>12. ListRenderFit' /\ ListShownFit'  BY <2>8 DEF ListInv, ListRenderFit, ListShownFit
  <2>13. ListCacheFit'  BY <1>1 DEF ListCacheFit
  <2>14. ~ListSwitching'  BY <2>2, <2>8 DEF ListSwitching
  <2>15. ListCallsFit'
    <3>. SUFFICES ASSUME NEW m \in Slots, listCalls'[m].st # "none"
                  PROVE  /\ listCalls'[m].at \in List!Views
                              /\ listCalls'[m].at.session <= listPage.cur.session
                         /\ listCalls'[m].st = "rows" => listCalls'[m].rows.of = listCalls'[m].at
                         /\ listCalls'[m].fresh => m = List!NewCall
                         /\ listCalls'[m].mine /\ ~listCalls'[m].aborted => m = List!NewCall
                         /\ m = List!NewCall =>
                              /\ listCalls'[m].st = "sent" /\ listCalls'[m].mine
                              /\ listCalls'[m].at = listPage.cur
      BY <2>1, <2>2, <2>7, <2>8, <2>14 DEF ListCallsFit
    <3>1. listPage.cur.session \in 1..2  BY <1>3, ListValues
    <3>2. CASE m = List!NewCall
      BY <1>3, <2>2, <2>3, <2>6, <3>1, <3>2
    <3>3. CASE m # List!NewCall
      <4>1. listCalls'[m] = as[m]  BY <2>6, <3>3
      <4>2. /\ listCalls'[m].st = listCalls[m].st /\ (listCalls'[m].mine <=> listCalls[m].mine)
            /\ listCalls'[m].at = listCalls[m].at /\ listCalls'[m].rows = listCalls[m].rows
            /\ (listCalls'[m].fresh <=> listCalls[m].fresh
                 /\ listCalls[m].at.session # listPage.cur.session)
            /\ (listCalls'[m].aborted <=> listCalls[m].aborted \/ m = abort)
        BY <1>2, <2>4, <4>1
      <4>3. /\ listCalls[m].at \in List!Views /\ listCalls[m].at.session <= listPage.cur.session
            /\ listCalls[m].st = "rows" => listCalls[m].rows.of = listCalls[m].at
            /\ listCalls[m].fresh => listCalls[m].at.session = listPage.cur.session
            /\ listCalls[m].mine /\ ~listCalls[m].aborted => m = abort
        BY <2>2, <4>2 DEF ListInv, ListCallsFit
      <4>. QED  BY <3>3, <4>2, <4>3
    <3>. QED  BY <3>2, <3>3
  <2>16. ListLagFit'
    <3>1. listPage.at # List!NoView => listPage.inited  BY DEF ListInv, ListShownFit
    <3>2. /\ listCalls'[List!NewCall].st # "none" /\ listCalls'[List!NewCall].mine
          /\ listCalls'[List!NewCall].fresh
          /\ ~listCalls'[List!NewCall].aborted
      BY <2>3, <2>6
    <3>. QED  BY <1>5, <2>7, <2>8, <3>1, <3>2 DEF ListLagFit, ListLive
  <2>17. ListToggleFit'  BY <1>1, ListValues DEF ListToggleFit
  <2>. QED  BY <2>10, <2>11, <2>12, <2>13, <2>15, <2>16, <2>17 DEF ListInv
<1>7. CASE ~toggle.mine
  <2>1. /\ toggle.at \in List!Views /\ toggle.at.session = listPage.cur.session
        /\ listPage.at = List!NoView \/ listPage.rows.ver >= ghost.told
    BY <1>1, <1>7 DEF ListInv, ListToggleFit
  <2>2. ~ListSwitching
    <3>1. CASE listPage.open  BY <1>1, <3>1, ListQuietIs
    <3>2. CASE ~listPage.open  BY <3>2 DEF ListInv, ListRenderFit, ListSwitching
    <3>. QED  BY <3>1, <3>2
  <2>3. /\ other \in ListCallRecord /\ other.st = "sent" /\ other.mine = FALSE
        /\ other.fresh = TRUE /\ other.at = toggle.at /\ other.rows = List!NoRows
    BY <1>3, ListValues DEF ListCallRecord
  <2>. HIDE DEF other
  <2>4. listCalls' = [cs EXCEPT ![List!NewCall] = other]  BY <1>1, <1>7
  <2>5. /\ listCalls' \in [Slots -> ListCallRecord] /\ listCalls'[List!NewCall] = other
        /\ \A m \in Slots \ {List!NewCall} : listCalls'[m] = cs[m]
    BY <1>1, <1>2, <2>3, <2>4, ListNewCallIs
  <2>6. UNCHANGED <<listPage, latest, abort>>  BY <1>1, <1>7
  <2>. DEFINE g == ghost.dropped \/ abort # 0
  <2>7. g \in BOOLEAN  BY <1>3
  <2>8. /\ ghost' \in [told: Nat, cleared: Nat, dropped: BOOLEAN] /\ ghost'.told = ghost.told
        /\ ghost'.cleared = server.ver /\ ghost'.dropped = g
    <3>1. ghost' = [ghost EXCEPT !.cleared = server.ver, !.dropped = g]  BY <1>1, <1>7
    <3>. HIDE DEF g
    <3>. QED  BY <1>3, <2>7, <3>1
  <2>9. ListVarTypes'  BY <1>1, <2>5, <2>6, <2>8, ListValues DEF ListInv, ListVarTypes
  <2>10. ListVersFit'
    <3>1. \A m \in Slots : listCalls'[m].rows.ver <= server.ver
      BY <1>2, <1>3, <2>3, <2>5, ListValues DEF ListInv, ListVersFit
    <3>. QED  BY <1>1, <1>3, <1>4, <2>6, <2>8, <3>1, ListValues DEF ListInv, ListVersFit
  <2>11. ListRenderFit' /\ ListShownFit'  BY <2>6 DEF ListInv, ListRenderFit, ListShownFit
  <2>12. ListCacheFit'  BY <1>1 DEF ListCacheFit
  <2>13. ~ListSwitching'  BY <2>2, <2>6 DEF ListSwitching
  <2>14. ListCallsFit'
    <3>. SUFFICES ASSUME NEW m \in Slots, listCalls'[m].st # "none"
                  PROVE  /\ listCalls'[m].at \in List!Views
                              /\ listCalls'[m].at.session <= listPage.cur.session
                         /\ listCalls'[m].st = "rows" => listCalls'[m].rows.of = listCalls'[m].at
                         /\ listCalls'[m].fresh =>
                              m = List!NewCall /\ listCalls'[m].at.session = listPage.cur.session
                         /\ m = List!NewCall => listCalls'[m].st = "sent" /\ ~listCalls'[m].mine
                         /\ listCalls'[m].mine => listPage.open /\ listPage.seen # List!NoView
                         /\ listCalls'[m].mine /\ ~listCalls'[m].aborted => m = abort
                         /\ listCalls'[m].mine /\ ~listCalls'[m].aborted /\ m = latest =>
                              /\ listCalls'[m].at = listPage.seen /\ listPage.commit = listPage.cur
                              /\ listCalls'[m].st = "rows"
                                   => listCalls'[m].rows.ver >= listPage.rows.ver
      BY <2>1, <2>6, <2>8, <2>13 DEF ListCallsFit
    <3>1. listPage.cur.session \in 1..2  BY <1>3, ListValues
    <3>2. CASE m = List!NewCall
      BY <2>1, <2>3, <2>5, <3>1, <3>2
    <3>3. CASE m # List!NewCall
      BY <1>2, <2>2, <2>5, <3>3 DEF ListInv, ListCallsFit
    <3>. QED  BY <3>2, <3>3
  <2>15. ListLagFit'
    <3>1. listPage.at # List!NoView => listPage.rows.ver \in Nat
      BY <1>3 DEF ListPageRecord, ListRowsRecord
    <3>. QED  BY <1>3, <2>1, <2>6, <2>8, <3>1 DEF ListLagFit
  <2>16. ListToggleFit'  BY <1>1, ListValues DEF ListToggleFit
  <2>. QED  BY <2>9, <2>10, <2>11, <2>12, <2>14, <2>15, <2>16 DEF ListInv
<1>. QED  BY <1>6, <1>7

\* Every step of a list page keeps the invariant.
LEMMA ListStepInv == ListInv /\ [List!Next]_(List!vars) => ListInv'
<1>. SUFFICES ASSUME ListInv, [List!Next]_(List!vars) PROVE ListInv'  OBVIOUS
<1>1. ASSUME NEW n \in Slots, List!Answers(n) \/ List!Arrives(n) PROVE ListInv'
  BY <1>1, ListAnswersInv, ListTakesInv, ListFailsInv, ListDeniedInv, ListDropsInv
    DEF List!Arrives
<1>2. ASSUME NEW key \in Filters, List!Enter(key) \/ List!FiltersBy(key) \/ List!Navigates(key)
               PROVE ListInv'
  BY <1>2, ListEnterInv, ListFiltersByInv, ListNavigatesInv
<1>3. CASE List!Leave \/ List!Turns \/ List!Switches \/ List!Toggles \/ List!ToggleFails
  BY <1>3, ListLeaveInv, ListTurnsInv, ListSwitchesInv, ListTogglesInv
<1>4. CASE List!Effects \/ List!Polls \/ List!Patches \/ List!Reloads
  BY <1>4, ListEffectsInv, ListPollsInv, ListChangesInv, ListReloadsInv
<1>5. CASE List!ClearedElsewhere \/ List!Changes  BY <1>5, ListClearedElsewhereInv, ListChangesInv
<1>6. CASE UNCHANGED List!vars
  BY <1>6
    DEF List!vars, ListInv, ListVarTypes, ListVersFit, ListRenderFit, ListCallsFit, ListCacheFit,
        ListShownFit, ListLagFit,
              ListToggleFit, ListSwitching, ListLive, List!Pending
<1>. QED  BY <1>1, <1>2, <1>3, <1>4, <1>5, <1>6 DEF List!Next, List!Steps

\* The invariant types the variables.
LEMMA ListInvTypes == ListInv => List!TypeOK
<1>. SUFFICES ASSUME ListInv PROVE List!TypeOK  OBVIOUS
<1>1. ListVarTypes  BY DEF ListInv
<1>2. server.ver \in 0..MaxVer /\ toggle.st \in {"none", "sent", "ok", "failed"}
  BY <1>1 DEF ListVarTypes, ListToggleRecord
<1>3. \A n \in Slots : listCalls[n].st \in {"none", "sent", "rows", "failed", "denied"}
  BY <1>1 DEF ListVarTypes, ListCallRecord
<1>4. /\ listPage.cur \in List!Views /\ listPage.commit \in List!Views /\ listPage.seen \in ListAnyView
      /\ listPage.at \in ListAnyView /\ listPage.settled \in ListAnyView
  BY <1>1 DEF ListVarTypes, ListPageRecord
<1>. QED  BY <1>1, <1>2, <1>3, <1>4 DEF ListVarTypes, List!TypeOK, ListAnyView

\* There is no way back from the first page.
LEMMA ListFirstPage == ASSUME listPage.cur.off = 0 PROVE ~List!CanGoBack
BY DEF List!CanGoBack

\* What a list of the console shows is what its user asked for.
LEMMA ListInvGives == ListInv => List!ListIsHonest
<1>. SUFFICES ASSUME ListInv PROVE List!ListIsHonest  OBVIOUS
<1>1. /\ listPage \in ListPageRecord /\ listPage.cur \in List!Views /\ listPage.cur # List!NoView
      /\ listPage.cur.off \in 0..1 /\ listPage.rows.ver \in Nat /\ ghost.told \in Nat
  <2>1. listPage \in ListPageRecord /\ ghost.told \in Nat  BY DEF ListInv, ListVarTypes
  <2>2. listPage.cur \in List!Views /\ listPage.rows.ver \in Nat
    BY <2>1 DEF ListPageRecord, ListRowsRecord
  <2>. QED  BY <2>1, <2>2, ListValues
<1>2. listPage.at = listPage.cur =>
        listPage.rows.of = listPage.cur /\ listPage.inited /\ (listPage.rows.some
          \/ listPage.cur.off = 0)
  BY <1>1 DEF ListInv, ListShownFit
<1>3. List!RowsBelong  BY <1>2 DEF List!RowsBelong, List!HasRows, List!IsCurrent
<1>4. List!CacheIsCurrent  BY DEF ListInv, ListCacheFit, List!CacheIsCurrent
<1>5. List!FreshWhenQuiet
  <2>. SUFFICES ASSUME listPage.at = listPage.cur, listPage.settled = listPage.cur,
                         ~listPage.refreshing,
                       ~listPage.error, ~ghost.dropped
                PROVE  listPage.rows.ver >= ghost.told
    BY DEF List!FreshWhenQuiet, List!HasRows, List!IsCurrent, List!IsInitial, List!ShownError
  <2>. QED  BY <1>1 DEF ListInv, ListLagFit, ListLive
<1>6. List!BodyIsHonest
  <2>. SUFFICES ASSUME listPage.open, ~List!Pending, NEW nothing \in {"nothing yet", "nothing matches"},
                       NEW body, body = List!Body(nothing)
                PROVE  /\ body \in {"nothing yet", "nothing matches"} =>
                            listPage.rows.of = listPage.cur /\ ~List!CanGoBack
                       /\ body = "blank" =>
                            List!ShownError \/ List!DeliveriesHead = "updating" \/ ghost.dropped
    <3>1. /\ List!DeliveriesEmpty \in {"nothing yet", "nothing matches"}
          /\ List!EventsEmpty \in {"nothing yet", "nothing matches"}
          /\ List!EndpointsEmpty \in {"nothing yet", "nothing matches"}
      BY DEF List!DeliveriesEmpty, List!EventsEmpty, List!EndpointsEmpty
    <3>. QED
      BY <3>1 DEF List!BodyIsHonest, List!DeliveriesBody, List!EventsBody, List!EndpointsBody
  <2>1. CASE List!IsInitial /\ ~List!HasRows
    <3>1. body = "skeleton"
      BY <2>1 DEF List!Body, List!IsEmpty, List!IsInitial, List!HasRows, List!IsCurrent
    <3>. QED  BY <3>1
  <2>2. CASE List!HasRows
    <3>1. body = "rows"
      BY <2>2 DEF List!Body, List!IsEmpty, List!IsInitial, List!HasRows, List!IsCurrent
    <3>. QED  BY <3>1
  <2>3. CASE ~(List!IsInitial /\ ~List!HasRows) /\ ~List!HasRows /\ List!IsEmpty
    <3>1. listPage.at = listPage.cur /\ ~listPage.rows.some
      BY <2>3 DEF List!IsEmpty, List!IsCurrent
    <3>2. body = nothing  BY <2>3 DEF List!Body
    <3>3. body # "blank"  BY <3>2
    <3>4. listPage.rows.of = listPage.cur /\ listPage.cur.off = 0  BY <1>2, <3>1
    <3>5. ~List!CanGoBack  BY <3>4, ListFirstPage
    <3>. QED  BY <3>3, <3>4, <3>5
  <2>4. CASE ~List!IsInitial /\ ~List!HasRows /\ ~List!IsEmpty
    <3>1. body = "blank"  BY <2>4 DEF List!Body
    <3>2. listPage.settled = listPage.cur  BY <2>4 DEF List!IsInitial
    <3>3. List!ShownError \/ listPage.refreshing \/ listPage.at # listPage.cur
      BY <2>4, <3>2 DEF List!IsEmpty, List!IsInitial, List!IsCurrent, List!HasRows
    <3>4. listPage.at # listPage.cur => List!ShownError
      BY <3>2 DEF ListInv, ListShownFit, List!ShownError, List!Pending
    <3>5. listPage.refreshing => List!DeliveriesHead = "updating"  BY DEF List!DeliveriesHead
    <3>. QED  BY <3>1, <3>3, <3>4, <3>5
  <2>. QED  BY <2>1, <2>2, <2>3, <2>4
<1>. QED  BY <1>3, <1>4, <1>5, <1>6 DEF List!ListIsHonest

\* Of the steps that leave the page open, only an answer that is taken changes its rows.
LEMMA ListRowsStay ==
  ASSUME ListInv, [List!Next]_(List!vars), listPage.open, listPage'.open,
         \A n \in Slots : ~List!Takes(n) /\ ~List!Denied(n)
  PROVE  listPage'.rows = listPage.rows
<1>1. listPage \in ListPageRecord  BY DEF ListInv, ListVarTypes
<1>2. ASSUME NEW n \in Slots, List!Fails(n) \/ List!Drops(n) PROVE listPage'.rows = listPage.rows
  <2>1. CASE List!Fails(n)
    <3>. DEFINE p == [listPage EXCEPT !.error = TRUE, !.inited = TRUE, !.settled = List!RequestKey(n)]
    <3>1. p.rows = listPage.rows /\ List!Ends(n, p)  BY <1>1, <2>1 DEF ListPageRecord, List!Fails
    <3>. HIDE DEF p
    <3>. QED  BY <3>1 DEF List!Ends, List!Rendered
  <2>2. CASE List!Drops(n)
    <3>1. List!Ends(n, listPage)  BY <2>2 DEF List!Drops
    <3>. QED  BY <1>1, <3>1 DEF List!Ends, List!Rendered
  <2>. QED  BY <1>2, <2>1, <2>2
<1>3. ASSUME NEW n \in Slots, List!Answers(n) PROVE listPage'.rows = listPage.rows
  BY <1>3 DEF List!Answers
<1>4. ASSUME NEW key \in Filters, List!FiltersBy(key) \/ List!Navigates(key)
               PROVE listPage'.rows = listPage.rows
  BY <1>1, <1>4 DEF List!FiltersBy, List!Navigates, List!Rendered, ListPageRecord
<1>5. CASE List!Turns \/ List!Switches
  BY <1>1, <1>5 DEF List!Turns, List!Switches, List!Rendered, ListPageRecord
<1>6. CASE List!Effects
  <2>. DEFINE p == [listPage EXCEPT !.seen = listPage.commit]
              back == List!Rendered([p EXCEPT !.cur.off = 0, !.armed = FALSE])
              yes == TRUE
              q == [p EXCEPT !.armed = yes]
              goes == List!Rendered(q)
  <2>1. back.rows = listPage.rows
    BY <1>1 DEF ListPageRecord, List!Rendered
  <2>3. goes \in ListPageRecord /\ goes.rows = listPage.rows
    <3>1. yes \in BOOLEAN  OBVIOUS
    <3>2. p \in ListPageRecord /\ p.rows = listPage.rows
      <4>1. listPage.commit \in ListAnyView  BY <1>1 DEF ListPageRecord, ListAnyView
      <4>. QED  BY <1>1, <4>1 DEF ListPageRecord
    <3>. HIDE DEF yes, p
    <3>3. q \in ListPageRecord /\ q.rows = listPage.rows  BY <3>1, <3>2 DEF ListPageRecord
    <3>. HIDE DEF q
    <3>. QED  BY <3>3, ListRenderedIs
  <2>2. listPage' = back \/ listPage' = [goes EXCEPT !.refreshing = List!Refreshes(goes)]
    BY <1>6 DEF List!Effects, List!LoadsPage
  <2>. HIDE DEF back, goes
  <2>. QED  BY <2>1, <2>2, <2>3 DEF ListPageRecord
<1>7. CASE List!Polls \/ List!Reloads
  <2>1. listPage' = listPage \/ listPage' = [listPage EXCEPT !.refreshing = List!Refreshes(listPage)]
    BY <1>7 DEF List!Polls, List!LoadsPage, List!Reloads
  <2>. QED  BY <1>1, <2>1 DEF ListPageRecord
<1>8. CASE List!Patches \/ List!ToggleFails \/ List!Toggles \/ List!ClearedElsewhere \/ List!Changes
  BY <1>8 DEF List!Patches, List!ToggleFails, List!Toggles, List!ClearedElsewhere, List!Changes
<1>9. CASE UNCHANGED List!vars  BY <1>9 DEF List!vars
<1>10. CASE List!Leave  BY <1>10 DEF List!Leave, List!Closed, List!Mounted
<1>11. ~(\E key \in Filters : List!Enter(key))  BY DEF List!Enter
<1>. QED
  BY <1>2, <1>3, <1>4, <1>5, <1>6, <1>7, <1>8, <1>9, <1>10, <1>11
    DEF List!Next, List!Steps, List!Arrives

\* Rows of one view are followed by newer ones only.
LEMMA ListStep == ListInv /\ [List!Next]_(List!vars) => List!NeverOlder
<1>. SUFFICES ASSUME ListInv, [List!Next]_(List!vars), listPage.open, listPage'.open, List!HasRows'
              PROVE  listPage'.rows.ver >= listPage.rows.ver
  BY DEF List!NeverOlder
<1>1. listPage \in ListPageRecord /\ listPage.rows.ver \in Nat
  BY DEF ListInv, ListVarTypes, ListPageRecord, ListRowsRecord
<1>2. listPage'.cur # List!NoView
  <2>1. ListInv'  BY ListStepInv
  <2>2. (listPage \in ListPageRecord)'  BY <2>1 DEF ListInv, ListVarTypes
  <2>. QED  BY <2>2, ListValues DEF ListPageRecord
<1>3. listPage'.at # List!NoView  BY <1>2 DEF List!HasRows, List!IsCurrent
<1>4. CASE listPage'.rows = listPage.rows  BY <1>1, <1>4
<1>5. ASSUME NEW n \in Slots, List!Denied(n) PROVE listPage'.rows = listPage.rows
  <2>. DEFINE p == [listPage EXCEPT !.rows = List!NoRows, !.at = List!NoView, !.error = TRUE,
                                    !.inited = TRUE, !.settled = List!RequestKey(n)]
  <2>1. List!Ends(n, p) /\ p.at = List!NoView  BY <1>1, <1>5 DEF List!Denied, ListPageRecord
  <2>. HIDE DEF p
  <2>2. CASE ~listCalls[n].mine  BY <2>1, <2>2 DEF List!Ends
  <2>3. CASE listCalls[n].mine
    <3>1. listPage' = List!Rendered([p EXCEPT !.refreshing = @ /\ ~List!Owns(n)])
      BY <2>1, <2>3 DEF List!Ends
    <3>2. listPage'.at = p.at  BY <3>1 DEF List!Rendered
    <3>. QED  BY <1>3, <2>1, <3>2
  <2>. QED  BY <2>2, <2>3
<1>6. ASSUME NEW n \in Slots, List!Takes(n)
      PROVE  listPage'.rows = listPage.rows \/ listPage'.rows.ver >= listPage.rows.ver
  <2>. DEFINE settles == [listPage EXCEPT !.inited = TRUE, !.settled = List!RequestKey(n)]
              back == [settles EXCEPT !.cur.off = listCalls[n].at.off - 1]
              shows == [settles EXCEPT !.at = List!RequestKey(n), !.rows = listCalls[n].rows,
                                       !.cur.off = listCalls[n].at.off, !.error = FALSE]
  <2>1. List!Ends(n, back) \/ List!Ends(n, shows)  BY <1>6 DEF List!Takes
  <2>2. /\ back.rows = listPage.rows /\ "rows" \in DOMAIN back
        /\ shows.rows = listCalls[n].rows /\ "rows" \in DOMAIN shows
    BY <1>1 DEF ListPageRecord
  <2>. HIDE DEF back, shows
  <2>3. listPage' = listPage \/ (listCalls[n].mine /\ (listPage'.rows = listPage.rows
          \/ listPage'.rows = listCalls[n].rows))
    BY <2>1, <2>2 DEF List!Ends, List!Rendered
  <2>4. listCalls[n].mine => listCalls[n].rows.ver >= listPage.rows.ver
    <3>1. listCalls[n].st = "rows" /\ ~List!Stale(n)  BY <1>6 DEF List!Takes
    <3>. QED  BY <3>1, ListFreshCallIs
  <2>. QED  BY <2>3, <2>4
<1>7. (\E n \in Slots : List!Takes(n) \/ List!Denied(n)) \/ listPage'.rows = listPage.rows
  BY ListRowsStay
<1>. QED  BY <1>4, <1>5, <1>6, <1>7

----------------------------------------------------------------------------
\* The dashboard (Dashboard).
BoardAnyAnswer ==
    {Board!Unread} \cup [at: Nat, today: Nat, active: Nat, succeeded: Nat, failed: Nat]
                   \cup [at: Nat, some: BOOLEAN] \cup [at: Nat, rows: SUBSET Nat]
BoardSnapshots == [Board!Parts -> BoardAnyAnswer]
BoardDashRecord ==
    [open: BOOLEAN, ran: BOOLEAN, snapshot: BoardSnapshots, error: BOOLEAN, initial: BOOLEAN,
     live: BOOLEAN, refreshing: BOOLEAN]
BoardLoadRecord ==
    [st: {"none", "sent", "failed", "denied"}, mine: BOOLEAN, aborted: BOOLEAN, fresh: BOOLEAN,
     parts: BoardSnapshots, failed: BOOLEAN]
BoardVarTypes ==
    /\ log \in Seq({"event", "good", "bad"})
    /\ done \in Nat /\ night \in Nat /\ day \in Nat
    /\ ends \in [active: Nat, disabled: Nat]
    /\ changes \in Nat /\ cleared \in Nat
    /\ dash \in BoardDashRecord
    /\ loads \in [Loads -> BoardLoadRecord]
    /\ held \in {0} \cup Loads
    /\ boardSaved \in BoardSnapshots

\* What has ended is a part of what was created, and what ended more than a day ago is
\* older than today.
BoardTenantFit ==
    /\ Len(log) <= MaxLog /\ done <= Len(log) /\ night <= Len(log) /\ day <= done /\ day <= night
    /\ cleared <= changes

\* A part was read in the past, and says what is, if nothing changed since.
BoardFits(p, answer) ==
         answer # Board!Unread => answer.at <= changes /\ (answer.at = changes
           => answer = Board!Answer(p))
BoardTimely(snapshot) == \A p \in Board!Parts : BoardFits(p, snapshot[p])

\* A snapshot has all of its parts but the one that is asked for last.
BoardWhole(snapshot) == snapshot = Board!NoSnapshot \/ \A p \in Board!First : snapshot[p] # Board!Unread

BoardSnapsFit ==
    /\ BoardTimely(dash.snapshot) /\ BoardTimely(boardSaved)
    /\ \A n \in Loads : BoardTimely(loads[n].parts)
    /\ BoardWhole(dash.snapshot) /\ BoardWhole(boardSaved)
    /\ boardSaved # Board!NoSnapshot => \A p \in Board!First : boardSaved[p].at >= cleared
    /\ dash.open => dash.initial \/ dash.error \/ dash.snapshot # Board!NoSnapshot

\* Only the load that the page holds may be taken: it reads later than what is shown, and,
\* while it is fresh, later than the last clear.
BoardLoadsFit ==
    \A n \in Loads : loads[n].st # "none" /\ ~loads[n].aborted =>
      /\ n = held /\ loads[n].mine
      /\ \A p \in Board!First : loads[n].parts[p] # Board!Unread =>
           /\ dash.snapshot # Board!NoSnapshot => loads[n].parts[p].at >= dash.snapshot[p].at
           /\ loads[n].fresh => loads[n].parts[p].at >= cleared

BoardHeldFit == /\ held # 0 => loads[held].st # "none"
                /\ \A n \in Loads : loads[n].st # "none" /\ loads[n].mine => dash.open

BoardInv == BoardVarTypes /\ BoardTenantFit /\ BoardSnapsFit /\ BoardLoadsFit /\ BoardHeldFit

\* Cardinality is that of FiniteSets.
LEMMA BoardCardinality == \A S : Board!Cardinality(S) = Cardinality(S)
BY DEF Cardinality, Board!Cardinality

\* The values that are no answer, no snapshot and no load.
LEMMA BoardValues ==
  /\ Board!Unread \in BoardAnyAnswer /\ Board!Unread.at = -1
  /\ Board!NoSnapshot \in BoardSnapshots /\ \A p \in Board!Parts : Board!NoSnapshot[p] = Board!Unread
  /\ Board!NoLoad \in BoardLoadRecord /\ Board!NoLoad.st = "none" /\ Board!NoLoad.mine = FALSE
  /\ Board!NoLoad.aborted = FALSE
  /\ Board!NoLoad.fresh = FALSE /\ Board!NoLoad.parts = Board!NoSnapshot /\ Board!NoLoad.failed = FALSE
  /\ Board!First \subseteq Board!Parts /\ \A a \in BoardAnyAnswer : a.at \in Int
       /\ (a # Board!Unread => a.at \in Nat)
<1>1. Board!Unread \in BoardAnyAnswer /\ Board!Unread.at = -1  BY DEF Board!Unread, BoardAnyAnswer
<1>2. Board!NoSnapshot \in BoardSnapshots /\ \A p \in Board!Parts : Board!NoSnapshot[p] = Board!Unread
  BY <1>1 DEF Board!NoSnapshot, BoardSnapshots
<1>3. /\ Board!NoLoad \in BoardLoadRecord /\ Board!NoLoad.st = "none" /\ Board!NoLoad.mine = FALSE
      /\ Board!NoLoad.aborted = FALSE
      /\ Board!NoLoad.fresh = FALSE /\ Board!NoLoad.parts = Board!NoSnapshot
      /\ Board!NoLoad.failed = FALSE
  BY <1>2 DEF Board!NoLoad, BoardLoadRecord
<1>4. Board!First \subseteq Board!Parts  BY DEF Board!First
<1>5. \A a \in BoardAnyAnswer : a.at \in Int /\ (a # Board!Unread => a.at \in Nat)
  BY <1>1 DEF BoardAnyAnswer
<1>. QED  BY <1>1, <1>2, <1>3, <1>4, <1>5

\* The rows are numbers up to the length of the log, so that every count of some is a
\* number.
LEMMA BoardCounts ==
  ASSUME BoardInv
  PROVE  /\ Board!Events \subseteq 1..Len(log) /\ Board!Deliveries \subseteq 1..Len(log)
         /\ \A S \in SUBSET (1..Len(log)) :
              /\ IsFiniteSet(S) /\ Cardinality(S) \in Nat
              /\ Cardinality(S) = 0 => S = {}
              /\ Board!Newest(S) \subseteq S
<1>1. Len(log) \in Nat  BY DEF BoardInv, BoardVarTypes
<1>2. IsFiniteSet(1..Len(log))  BY <1>1, FS_Interval
<1>3. \A S \in SUBSET (1..Len(log)) : IsFiniteSet(S)  BY <1>2, FS_Subset
<1>4. \A S \in SUBSET (1..Len(log)) :
        Cardinality(S) \in Nat /\ (Cardinality(S) = 0 => S = {})
  BY <1>3, FS_CardinalityType, FS_EmptySet
<1>5. Board!Events \subseteq 1..Len(log) /\ Board!Deliveries \subseteq 1..Len(log)
  BY DEF Board!Events, Board!Deliveries
<1>6. \A S : Board!Newest(S) \subseteq S  BY BoardCardinality DEF Board!Newest
<1>. QED  BY <1>3, <1>4, <1>5, <1>6

\* Every answer is one of the kinds of answers, of now, and fits.
LEMMA BoardAnswerIs ==
  ASSUME BoardInv, NEW p \in Board!Parts
  PROVE  /\ Board!Answer(p) \in BoardAnyAnswer /\ Board!Answer(p) # Board!Unread
              /\ Board!Answer(p).at = changes
         /\ BoardFits(p, Board!Answer(p))
<1>1. changes \in Nat  BY DEF BoardInv, BoardVarTypes
<1>2. CASE p = "stats"
  <2>1. Board!Answer(p) = Board!Stats  BY <1>2 DEF Board!Answer
  <2>. DEFINE today == {i \in Board!Events : i > night}
  <2>2. /\ today \in SUBSET (1..Len(log)) /\ Board!Open \in SUBSET (1..Len(log))
        /\ \A o : Board!Final(o) \in SUBSET (1..Len(log))
    BY BoardCounts DEF Board!Open, Board!Final
  <2>3. /\ Cardinality(today) \in Nat /\ Cardinality(Board!Open) \in Nat
        /\ Cardinality(Board!Final("good")) \in Nat /\ Cardinality(Board!Final("bad")) \in Nat
    BY <2>2, BoardCounts
  <2>. DEFINE t == Cardinality(today)
  <2>4. Board!Stats = [at |-> changes, today |-> t, active |-> Cardinality(Board!Open),
                       succeeded |-> Cardinality(Board!Final("good")),
                         failed |-> Cardinality(Board!Final("bad"))]
    BY BoardCardinality DEF Board!Stats
  <2>5. t \in Nat  BY <2>3
  <2>. HIDE DEF t, today
  <2>. QED  BY <1>1, <2>1, <2>3, <2>4, <2>5 DEF BoardAnyAnswer, BoardFits, Board!Unread
<1>3. CASE p = "disabled" \/ p = "active"
  <2>. DEFINE some == IF p = "disabled" THEN ends.disabled > 0 ELSE ends.active > 0
  <2>1. Board!Answer(p) = [at |-> changes, some |-> some]  BY <1>3 DEF Board!Answer
  <2>2. some \in BOOLEAN
    <3>1. ends.disabled \in Nat /\ ends.active \in Nat  BY DEF BoardInv, BoardVarTypes
    <3>2. (ends.disabled > 0) \in BOOLEAN /\ (ends.active > 0) \in BOOLEAN  BY <3>1
    <3>3. CASE p = "disabled"  BY <3>2, <3>3
    <3>4. CASE p # "disabled"  BY <3>2, <3>4
    <3>. QED  BY <3>3, <3>4
  <2>. HIDE DEF some
  <2>. QED  BY <1>1, <2>1, <2>2 DEF BoardAnyAnswer, BoardFits, Board!Unread
<1>4. CASE p = "events" \/ p = "deliveries"
  <2>. DEFINE listed == IF p = "events" THEN Board!Listed(Board!Events)
         ELSE Board!Listed(Board!Deliveries)
  <2>1. Board!Answer(p) = [at |-> changes, rows |-> listed]  BY <1>4 DEF Board!Answer
  <2>2. listed \in SUBSET Nat
    <3>1. Len(log) \in Nat  BY DEF BoardInv, BoardVarTypes
    <3>2. Board!Newest(Board!Events) \subseteq 1..Len(log)
            /\ Board!Newest(Board!Deliveries) \subseteq 1..Len(log)
      BY BoardCounts
    <3>. QED  BY <3>1, <3>2 DEF Board!Listed
  <2>. HIDE DEF listed
  <2>. QED  BY <1>1, <2>1, <2>2 DEF BoardAnyAnswer, BoardFits, Board!Unread
<1>. QED  BY <1>2, <1>3, <1>4 DEF Board!Parts

\* While the workspace stays as it is, so do its answers.
LEMMA BoardSameAnswers ==
  ASSUME UNCHANGED Board!tenantVars
  PROVE  \A p \in Board!Parts : Board!Answer(p)' = Board!Answer(p)
<1>1. /\ log' = log /\ done' = done /\ night' = night /\ day' = day /\ ends' = ends
      /\ changes' = changes
  BY DEF Board!tenantVars
<1>2. Board!Events' = Board!Events  BY <1>1 DEF Board!Events
<1>3. Board!Deliveries' = Board!Deliveries  BY <1>1, <1>2 DEF Board!Deliveries
<1>4. Board!Stats' = Board!Stats  BY <1>1, <1>2, <1>3, BoardCardinality DEF Board!Stats, Board!Open, Board!Final
<1>5. Board!Listed(Board!Events)' = Board!Listed(Board!Events)
        /\ Board!Listed(Board!Deliveries)' = Board!Listed(Board!Deliveries)
  BY <1>2, <1>3, BoardCardinality DEF Board!Listed, Board!Newest
<1>. QED  BY <1>1, <1>4, <1>5 DEF Board!Answer, Board!Parts

\* What a snapshot said it still says.
LEMMA BoardTimelyStays ==
  ASSUME UNCHANGED Board!tenantVars, NEW s, BoardTimely(s)
  PROVE  BoardTimely(s)'
<1>1. changes' = changes  BY DEF Board!tenantVars
<1>. QED  BY <1>1, BoardSameAnswers DEF BoardTimely, BoardFits

\* After a change every answer is an old one.
LEMMA BoardTimelyPasses ==
  ASSUME changes \in Nat, changes' = changes + 1, NEW s \in BoardSnapshots, BoardTimely(s)
  PROVE  BoardTimely(s)'
<1>1. \A p \in Board!Parts : s[p] # Board!Unread => s[p].at \in Nat
  BY BoardValues DEF BoardSnapshots
<1>. QED  BY <1>1 DEF BoardTimely, BoardFits

\* A page that is opened shows what it is given, or that it loads.
LEMMA BoardMountedIs ==
  ASSUME NEW s \in BoardSnapshots
  PROVE  /\ Board!Mounted(s) \in BoardDashRecord /\ Board!Mounted(s).open
              /\ Board!Mounted(s).snapshot = s
         /\ Board!Mounted(s).initial <=> s = Board!NoSnapshot
<1>. DEFINE yes == TRUE
            no == FALSE
            initial == s = Board!NoSnapshot
            refreshing == s # Board!NoSnapshot
<1>1. /\ yes \in BOOLEAN /\ no \in BOOLEAN /\ initial \in BOOLEAN /\ refreshing \in BOOLEAN
      /\ yes
  OBVIOUS
<1>2. Board!Mounted(s) = [open |-> yes, ran |-> no, snapshot |-> s, error |-> no, initial |-> initial,
                          live |-> no, refreshing |-> refreshing]
  BY DEF Board!Mounted
<1>3. initial <=> s = Board!NoSnapshot  OBVIOUS
<1>. HIDE DEF yes, no, initial, refreshing
<1>. QED  BY <1>1, <1>2, <1>3 DEF BoardDashRecord

\* The start.
LEMMA BoardInitInv == Board!Init => BoardInv
<1>. SUFFICES ASSUME Board!Init PROVE BoardInv  OBVIOUS
<1>1. /\ log = <<"event", "bad">> /\ done \in {0, 2} /\ day = done /\ night = 2
      /\ ends = [active |-> 1, disabled |-> 0] /\ changes = 0
      /\ dash = Board!Mounted(Board!NoSnapshot) /\ loads = [n \in Loads |-> Board!NoLoad]
      /\ held = 0 /\ boardSaved = Board!NoSnapshot /\ cleared = 0
  BY DEF Board!Init
<1>2. dash \in BoardDashRecord /\ dash.open /\ dash.initial /\ dash.snapshot = Board!NoSnapshot
  BY <1>1, BoardMountedIs, BoardValues
<1>3. log \in Seq({"event", "good", "bad"}) /\ Len(log) = 2  BY <1>1
<1>4. BoardVarTypes  BY <1>1, <1>2, <1>3, BoardValues DEF BoardVarTypes
<1>5. BoardTenantFit  BY <1>1, <1>3, BoardAssumption DEF BoardTenantFit
<1>6. BoardTimely(Board!NoSnapshot)  BY BoardValues DEF BoardTimely, BoardFits
<1>7. \A n \in Loads : loads[n].parts = Board!NoSnapshot /\ loads[n].st = "none"
  BY <1>1, BoardValues
<1>8. BoardSnapsFit  BY <1>1, <1>2, <1>6, <1>7 DEF BoardSnapsFit, BoardWhole
<1>9. BoardLoadsFit /\ BoardHeldFit  BY <1>1, <1>7 DEF BoardLoadsFit, BoardHeldFit
<1>. QED  BY <1>4, <1>5, <1>8, <1>9 DEF BoardInv

\* The load that the page begins; the one it held is aborted.
LEMMA BoardBeginsInv ==
  ASSUME BoardInv, NEW d \in BoardDashRecord, Board!Begins(d), dash.open, d.open,
           d.snapshot = dash.snapshot,
         d.error <=> dash.error, d.initial <=> dash.initial,
         UNCHANGED <<Board!tenantVars, boardSaved, cleared>>
  PROVE  BoardInv'
<1>1. /\ Board!NewLoad \in Loads /\ loads[Board!NewLoad].st = "none" /\ held' = Board!NewLoad
      /\ loads' = [n \in Loads |->
           CASE n = Board!NewLoad -> [Board!NoLoad EXCEPT !.st = "sent", !.mine = TRUE, !.fresh = TRUE]
             [] n # Board!NewLoad /\ n = held -> Board!AbortedLoad(n)
             [] OTHER -> loads[n]]
      /\ dash' = [d EXCEPT !.refreshing = TRUE]
  BY DEF Board!Begins, Board!NewLoad, Board!Free
<1>. DEFINE new == Board!NewLoad
            own == [Board!NoLoad EXCEPT !.st = "sent", !.mine = TRUE, !.fresh = TRUE]
<1>2. /\ own \in BoardLoadRecord /\ own.st = "sent" /\ own.mine /\ ~own.aborted /\ own.fresh
      /\ own.parts = Board!NoSnapshot
  BY BoardValues DEF BoardLoadRecord
<1>3. loads \in [Loads -> BoardLoadRecord]  BY DEF BoardInv, BoardVarTypes
<1>4. ASSUME NEW n \in Loads
      PROVE  /\ Board!AbortedLoad(n) \in BoardLoadRecord /\ Board!AbortedLoad(n).st = loads[n].st
             /\ Board!AbortedLoad(n).aborted /\ (Board!AbortedLoad(n).mine <=> loads[n].mine)
             /\ Board!AbortedLoad(n).parts \in {loads[n].parts, Board!NoSnapshot}
  <2>. DEFINE yes == TRUE
              parts == IF Board!Complete(n) \/ loads[n].st # "sent" THEN loads[n].parts
                ELSE Board!NoSnapshot
  <2>1. loads[n] \in BoardLoadRecord /\ yes \in BOOLEAN /\ yes  BY <1>3
  <2>2. parts \in {loads[n].parts, Board!NoSnapshot}  OBVIOUS
  <2>3. parts \in BoardSnapshots  BY <2>1, <2>2, BoardValues DEF BoardLoadRecord
  <2>4. Board!AbortedLoad(n) = [loads[n] EXCEPT !.aborted = yes, !.parts = parts]
    BY DEF Board!AbortedLoad
  <2>. HIDE DEF yes, parts
  <2>. QED  BY <2>1, <2>2, <2>3, <2>4 DEF BoardLoadRecord
<1>. HIDE DEF own
<1>5. /\ loads' \in [Loads -> BoardLoadRecord] /\ loads'[new] = own
      /\ \A n \in Loads \ {new} :
           (loads'[n] = loads[n] /\ n # held) \/ (loads'[n] = Board!AbortedLoad(n) /\ n = held)
  BY <1>1, <1>2, <1>3, <1>4 DEF own
<1>. HIDE DEF new
<1>6. dash' \in BoardDashRecord /\ dash'.open /\ dash'.snapshot = dash.snapshot
      /\ (dash'.error <=> dash.error) /\ (dash'.initial <=> dash.initial)
  <2>. DEFINE yes == TRUE
  <2>1. yes \in BOOLEAN /\ dash' = [d EXCEPT !.refreshing = yes]  BY <1>1
  <2>. HIDE DEF yes
  <2>. QED  BY <2>1 DEF BoardDashRecord
<1>7. UNCHANGED <<log, done, night, day, ends, changes, boardSaved, cleared>>
  BY DEF Board!tenantVars
<1>8. held' = new /\ new \in Loads  BY <1>1 DEF new
<1>9. BoardVarTypes'  BY <1>5, <1>6, <1>7, <1>8 DEF BoardInv, BoardVarTypes
<1>10. BoardTenantFit'  BY <1>7 DEF BoardInv, BoardTenantFit
<1>11. BoardTimely(Board!NoSnapshot)  BY BoardValues DEF BoardTimely, BoardFits
<1>12. \A s : BoardTimely(s) => BoardTimely(s)'  BY BoardTimelyStays
<1>13. BoardSnapsFit'
  <2>1. BoardTimely(dash.snapshot)' /\ BoardTimely(boardSaved)'
    BY <1>6, <1>7, <1>12 DEF BoardInv, BoardSnapsFit
  <2>2. \A n \in Loads : loads'[n].parts = loads[n].parts \/ loads'[n].parts = Board!NoSnapshot
    BY <1>2, <1>4, <1>5
  <2>3. \A n \in Loads : BoardTimely(loads'[n].parts)
    BY <1>11, <2>2 DEF BoardInv, BoardSnapsFit
  <2>4. (\A n \in Loads : BoardTimely(loads[n].parts))'  BY <1>12, <2>3
  <2>. QED  BY <1>6, <1>7, <2>1, <2>4 DEF BoardInv, BoardSnapsFit, BoardWhole
<1>14. BoardLoadsFit'
  <2>. SUFFICES ASSUME NEW n \in Loads, loads'[n].st # "none", ~loads'[n].aborted
                PROVE  n = new /\ loads'[n].mine /\ loads'[n].parts = Board!NoSnapshot
    BY <1>8, BoardValues DEF BoardLoadsFit
  <2>1. n = new  BY <1>4, <1>5 DEF BoardInv, BoardLoadsFit
  <2>. QED  BY <1>2, <1>5, <2>1
<1>15. BoardHeldFit'
  BY <1>2, <1>5, <1>6, <1>8 DEF BoardHeldFit
<1>. QED  BY <1>9, <1>10, <1>13, <1>14, <1>15 DEF BoardInv

\* The page is mounted, polls, or is asked to load again.
LEMMA BoardLoadsBeginInv ==
  ASSUME BoardInv, Board!Mounts \/ Board!Polls \/ Board!Refreshes
  PROVE  BoardInv'
<1>. DEFINE yes == TRUE
            d == [dash EXCEPT !.ran = yes]
<1>1. dash \in BoardDashRecord /\ dash.open
  BY DEF BoardInv, BoardVarTypes, Board!Mounts, Board!Polls, Board!Refreshes
<1>2. CASE Board!Mounts
  <2>1. Board!Begins(d) /\ UNCHANGED <<Board!tenantVars, boardSaved, cleared>>
    BY <1>2 DEF Board!Mounts
  <2>2. yes \in BOOLEAN  OBVIOUS
  <2>. HIDE DEF yes
  <2>3. /\ d \in BoardDashRecord /\ d.open = dash.open /\ d.snapshot = dash.snapshot
        /\ d.error = dash.error /\ d.initial = dash.initial
    BY <1>1, <2>2 DEF BoardDashRecord
  <2>. HIDE DEF d
  <2>. QED  BY <1>1, <2>1, <2>3, BoardBeginsInv
<1>3. CASE Board!Polls \/ Board!Refreshes
  <2>1. Board!Begins(dash) /\ UNCHANGED <<Board!tenantVars, boardSaved, cleared>>
    BY <1>3 DEF Board!Polls, Board!Refreshes
  <2>. QED  BY <1>1, <2>1, BoardBeginsInv
<1>. QED  BY <1>2, <1>3

\* A load that changed, while the rest stays.
LEMMA BoardReadsInv ==
  ASSUME BoardInv, NEW n \in Loads, NEW part \in Board!Parts, Board!Reads(n, part)
  PROVE  BoardInv'
<1>. DEFINE answered == [loads EXCEPT ![n].parts[part] = Board!Answer(part)]
<1>1. /\ loads[n].st = "sent" /\ ~loads[n].aborted
      /\ UNCHANGED <<Board!tenantVars, dash, held, boardSaved, cleared>>
      /\ \/ loads' = [loads EXCEPT ![n].parts[part] = Board!Answer(part)]
         \/ loads' = [loads EXCEPT ![n].failed = TRUE]
         \/ \E st \in {"failed", "denied"} : loads' = [loads EXCEPT ![n].st = st]
  BY DEF Board!Reads
<1>2. loads \in [Loads -> BoardLoadRecord] /\ loads[n] \in BoardLoadRecord
        /\ loads[n].parts \in BoardSnapshots
  BY DEF BoardInv, BoardVarTypes, BoardLoadRecord
<1>3. /\ loads' \in [Loads -> BoardLoadRecord] /\ \A m \in Loads \ {n} : loads'[m] = loads[m]
      /\ loads'[n].st # "none" /\ (loads'[n].aborted <=> loads[n].aborted)
      /\ (loads'[n].mine <=> loads[n].mine) /\ (loads'[n].fresh <=> loads[n].fresh)
      /\ \A p \in Board!Parts :
           loads'[n].parts[p] \in {loads[n].parts[p]} \cup {Board!Answer(p)}
  <2>1. CASE loads' = [loads EXCEPT ![n].parts[part] = Board!Answer(part)]
    <3>. DEFINE a == Board!Answer(part)
                parts == [loads[n].parts EXCEPT ![part] = a]
                l == [loads[n] EXCEPT !.parts = parts]
    <3>1. a \in BoardAnyAnswer  BY BoardAnswerIs
    <3>. HIDE DEF a
    <3>2. parts \in BoardSnapshots /\ \A p \in Board!Parts : parts[p] = IF p = part THEN a
            ELSE loads[n].parts[p]
      BY <1>2, <3>1 DEF BoardSnapshots
    <3>3. loads' = [loads EXCEPT ![n] = l]  BY <1>2, <2>1 DEF a
    <3>. HIDE DEF parts
    <3>4. /\ l \in BoardLoadRecord /\ l.st = loads[n].st /\ l.aborted = loads[n].aborted
          /\ l.mine = loads[n].mine /\ l.fresh = loads[n].fresh /\ l.parts = parts
      BY <1>2, <3>2 DEF BoardLoadRecord
    <3>. HIDE DEF l
    <3>5. /\ loads' \in [Loads -> BoardLoadRecord] /\ loads'[n] = l
          /\ \A m \in Loads \ {n} : loads'[m] = loads[m]
      BY <1>2, <3>3, <3>4
    <3>6. \A p \in Board!Parts : l.parts[p] \in {loads[n].parts[p]} \cup {Board!Answer(p)}
      BY <3>2, <3>4 DEF a
    <3>. QED  BY <1>1, <3>4, <3>5, <3>6
  <2>2. CASE loads' = [loads EXCEPT ![n].failed = TRUE]
    <3>. DEFINE yes == TRUE
                l == [loads[n] EXCEPT !.failed = yes]
    <3>1. yes \in BOOLEAN /\ loads' = [loads EXCEPT ![n] = l]  BY <1>2, <2>2
    <3>. HIDE DEF yes
    <3>2. /\ l \in BoardLoadRecord /\ l.st = loads[n].st /\ l.aborted = loads[n].aborted
          /\ l.mine = loads[n].mine /\ l.fresh = loads[n].fresh /\ l.parts = loads[n].parts
      BY <1>2, <3>1 DEF BoardLoadRecord
    <3>. HIDE DEF l
    <3>3. /\ loads' \in [Loads -> BoardLoadRecord] /\ loads'[n] = l
          /\ \A m \in Loads \ {n} : loads'[m] = loads[m]
      BY <1>2, <3>1, <3>2
    <3>. QED  BY <1>1, <3>2, <3>3
  <2>3. ASSUME NEW st \in {"failed", "denied"}, loads' = [loads EXCEPT ![n].st = st]
        PROVE  /\ loads' \in [Loads -> BoardLoadRecord] /\ \A m \in Loads \ {n} : loads'[m] = loads[m]
               /\ loads'[n].st # "none" /\ (loads'[n].aborted <=> loads[n].aborted)
               /\ (loads'[n].mine <=> loads[n].mine) /\ (loads'[n].fresh <=> loads[n].fresh)
               /\ loads'[n].parts = loads[n].parts
    <3>. DEFINE l == [loads[n] EXCEPT !.st = st]
    <3>1. loads' = [loads EXCEPT ![n] = l]  BY <1>2, <2>3
    <3>2. /\ l \in BoardLoadRecord /\ l.st = st /\ l.aborted = loads[n].aborted
          /\ l.mine = loads[n].mine /\ l.fresh = loads[n].fresh /\ l.parts = loads[n].parts
      BY <1>2 DEF BoardLoadRecord
    <3>. HIDE DEF l
    <3>3. /\ loads' \in [Loads -> BoardLoadRecord] /\ loads'[n] = l
          /\ \A m \in Loads \ {n} : loads'[m] = loads[m]
      BY <1>2, <3>1, <3>2
    <3>. QED  BY <3>2, <3>3
  <2>. QED  BY <1>1, <2>1, <2>2, <2>3
<1>4. UNCHANGED <<log, done, night, day, ends, changes, dash, held, boardSaved, cleared>>
  BY <1>1 DEF Board!tenantVars
<1>5. BoardVarTypes'  BY <1>3, <1>4 DEF BoardInv, BoardVarTypes
<1>6. BoardTenantFit'  BY <1>4 DEF BoardInv, BoardTenantFit
<1>7. \A s : BoardTimely(s) => BoardTimely(s)'  BY <1>1, BoardTimelyStays
<1>8. BoardSnapsFit'
  <2>1. BoardTimely(dash.snapshot)' /\ BoardTimely(boardSaved)'
    BY <1>4, <1>7 DEF BoardInv, BoardSnapsFit
  <2>2. BoardTimely(loads'[n].parts)
    <3>1. \A p \in Board!Parts : BoardFits(p, loads[n].parts[p])
      BY DEF BoardInv, BoardSnapsFit, BoardTimely
    <3>2. \A p \in Board!Parts : BoardFits(p, Board!Answer(p))  BY BoardAnswerIs
    <3>3. \A p \in Board!Parts : BoardFits(p, loads'[n].parts[p])  BY <1>3, <3>1, <3>2
    <3>. QED  BY <3>3 DEF BoardTimely
  <2>3. \A m \in Loads : BoardTimely(loads'[m].parts)
    BY <1>3, <2>2 DEF BoardInv, BoardSnapsFit
  <2>4. (\A m \in Loads : BoardTimely(loads[m].parts))'  BY <1>7, <2>3
  <2>. QED  BY <1>4, <2>1, <2>4 DEF BoardInv, BoardSnapsFit, BoardWhole
<1>9. BoardLoadsFit'
  <2>. SUFFICES ASSUME NEW m \in Loads, loads'[m].st # "none", ~loads'[m].aborted
                PROVE  /\ m = held /\ loads'[m].mine
                       /\ \A p \in Board!First : loads'[m].parts[p] # Board!Unread =>
                            /\ dash.snapshot # Board!NoSnapshot =>
                                 loads'[m].parts[p].at >= dash.snapshot[p].at
                            /\ loads'[m].fresh => loads'[m].parts[p].at >= cleared
    BY <1>4 DEF BoardLoadsFit
  <2>1. CASE m # n  BY <1>3, <2>1 DEF BoardInv, BoardLoadsFit
  <2>2. CASE m = n
    <3>1. n = held /\ loads'[n].mine  BY <1>1, <1>3 DEF BoardInv, BoardLoadsFit
    <3>2. ASSUME NEW p \in Board!First, loads'[n].parts[p] # Board!Unread
          PROVE  /\ dash.snapshot # Board!NoSnapshot => loads'[n].parts[p].at >= dash.snapshot[p].at
                 /\ loads'[n].fresh => loads'[n].parts[p].at >= cleared
      <4>1. p \in Board!Parts  BY BoardValues
      <4>2. CASE loads'[n].parts[p] = loads[n].parts[p]
        BY <1>1, <1>3, <3>2, <4>2 DEF BoardInv, BoardLoadsFit
      <4>3. CASE loads'[n].parts[p] = Board!Answer(p)
        <5>1. Board!Answer(p).at = changes /\ changes \in Nat /\ cleared <= changes /\ cleared \in Nat
          BY <4>1, BoardAnswerIs DEF BoardInv, BoardTenantFit, BoardVarTypes
        <5>2. dash.snapshot[p].at <= changes
          <6>1. dash.snapshot[p] \in BoardAnyAnswer
            BY <4>1 DEF BoardInv, BoardVarTypes, BoardDashRecord, BoardSnapshots
          <6>2. BoardFits(p, dash.snapshot[p])  BY <4>1 DEF BoardInv, BoardSnapsFit, BoardTimely
          <6>. QED  BY <5>1, <6>1, <6>2, BoardValues DEF BoardFits
        <5>3. dash.snapshot[p].at \in Int
          BY <4>1, BoardValues DEF BoardInv, BoardVarTypes, BoardDashRecord, BoardSnapshots
        <5>. QED  BY <4>3, <5>1, <5>2, <5>3
      <4>. QED  BY <1>3, <4>1, <4>2, <4>3
    <3>. QED  BY <2>2, <3>1, <3>2
  <2>. QED  BY <2>1, <2>2
<1>10. BoardHeldFit'  BY <1>1, <1>3, <1>4 DEF BoardInv, BoardHeldFit, BoardVarTypes
<1>. QED  BY <1>5, <1>6, <1>8, <1>9, <1>10 DEF BoardInv

\* The end of a load: what the page becomes.
LEMMA BoardEndsIs ==
  ASSUME NEW n \in Loads, NEW d \in BoardDashRecord, dash \in BoardDashRecord, Board!Ends(n, d)
  PROVE  /\ ~loads[n].mine => dash' = dash
         /\ loads[n].mine =>
              /\ dash' \in BoardDashRecord /\ dash'.open = d.open /\ dash'.snapshot = d.snapshot
              /\ dash'.error = d.error /\ (dash'.initial <=> d.initial /\ Board!Stale(n))
         /\ held' = (IF held = n THEN 0 ELSE held)
         /\ UNCHANGED Board!tenantVars
<1>. DEFINE r == d.refreshing /\ ~Board!Owns(n)
            i == d.initial /\ ~Board!EndsInitial(n)
<1>1. r \in BOOLEAN /\ i \in BOOLEAN  BY DEF BoardDashRecord
<1>2. loads[n].mine => dash' = [d EXCEPT !.refreshing = r, !.initial = i]
  BY DEF Board!Ends
<1>3. i <=> d.initial /\ Board!Stale(n)  BY DEF Board!EndsInitial
<1>. HIDE DEF r, i
<1>4. loads[n].mine =>
        /\ dash' \in BoardDashRecord /\ dash'.open = d.open /\ dash'.snapshot = d.snapshot
        /\ dash'.error = d.error /\ (dash'.initial <=> i)
  BY <1>1, <1>2 DEF BoardDashRecord
<1>5. /\ ~loads[n].mine => dash' = dash
      /\ held' = (IF held = n THEN 0 ELSE held)
      /\ UNCHANGED Board!tenantVars
  BY DEF Board!Ends, Board!Owns
<1>. QED  BY <1>3, <1>4, <1>5

\* A load that is over leaves the others, which may be stale by now.
LEMMA BoardOverInv ==
  ASSUME BoardInv, NEW n \in Loads,
         loads' \in [Loads -> BoardLoadRecord], loads'[n] = Board!NoLoad,
         \A m \in Loads \ {n} :
            /\ loads'[m].st = loads[m].st /\ loads'[m].parts = loads[m].parts
            /\ (loads'[m].aborted <=> loads[m].aborted) /\ (loads'[m].mine <=> loads[m].mine)
            /\ loads'[m].fresh => loads[m].fresh /\ cleared' = cleared,
         held' = (IF held = n THEN 0 ELSE held),
         dash' \in BoardDashRecord, dash'.open = dash.open,
         dash'.snapshot = dash.snapshot \/ n = held,
         BoardTimely(dash'.snapshot), BoardWhole(dash'.snapshot),
         boardSaved' \in BoardSnapshots, BoardTimely(boardSaved'), BoardWhole(boardSaved'),
         cleared' \in {cleared, changes},
         boardSaved' # Board!NoSnapshot => \A p \in Board!First : boardSaved'[p].at >= cleared',
         dash'.open => dash'.initial \/ dash'.error \/ dash'.snapshot # Board!NoSnapshot,
         UNCHANGED Board!tenantVars
  PROVE  BoardInv'
<1>1. UNCHANGED <<log, done, night, day, ends, changes>>  BY DEF Board!tenantVars
<1>2. BoardVarTypes'  BY <1>1 DEF BoardInv, BoardVarTypes
<1>3. BoardTenantFit'  BY <1>1 DEF BoardInv, BoardTenantFit, BoardVarTypes
<1>4. \A s : BoardTimely(s) => BoardTimely(s)'  BY BoardTimelyStays
<1>5. BoardSnapsFit'
  <2>1. BoardTimely(dash.snapshot)' /\ BoardTimely(boardSaved)'  BY <1>4
  <2>2. BoardTimely(Board!NoSnapshot)  BY BoardValues DEF BoardTimely, BoardFits
  <2>3. \A m \in Loads : BoardTimely(loads'[m].parts)
    BY <2>2, BoardValues DEF BoardInv, BoardSnapsFit
  <2>4. (\A m \in Loads : BoardTimely(loads[m].parts))'  BY <1>4, <2>3
  <2>. QED  BY <2>1, <2>4 DEF BoardSnapsFit, BoardWhole
<1>6. BoardLoadsFit'
  <2>. SUFFICES ASSUME NEW m \in Loads, loads'[m].st # "none", ~loads'[m].aborted
                PROVE  /\ m = held' /\ loads'[m].mine
                       /\ \A p \in Board!First : loads'[m].parts[p] # Board!Unread =>
                            /\ dash'.snapshot # Board!NoSnapshot =>
                                 loads'[m].parts[p].at >= dash'.snapshot[p].at
                            /\ loads'[m].fresh => loads'[m].parts[p].at >= cleared'
    BY DEF BoardLoadsFit
  <2>1. m # n  BY BoardValues
  <2>2. m = held /\ n # held  BY <2>1 DEF BoardInv, BoardLoadsFit
  <2>. QED  BY <2>1, <2>2 DEF BoardInv, BoardLoadsFit
<1>7. BoardHeldFit'
  <2>1. held' # 0 => held' \in Loads \ {n} /\ held' = held  BY DEF BoardInv, BoardVarTypes
  <2>. QED  BY <2>1, BoardValues DEF BoardInv, BoardHeldFit
<1>. QED  BY <1>2, <1>3, <1>5, <1>6, <1>7 DEF BoardInv

\* The load that is taken: all parts are there, and none is older than what is shown.
LEMMA BoardTakenIs ==
  ASSUME BoardInv, NEW n \in Loads, Board!Takes(n)
  PROVE  /\ n = held /\ loads[n].mine /\ loads[n].parts # Board!NoSnapshot
         /\ loads[n].parts \in BoardSnapshots /\ BoardTimely(loads[n].parts)
         /\ BoardWhole(loads[n].parts)
         /\ \A p \in Board!First :
              /\ loads[n].parts[p].at >= cleared
              /\ dash.snapshot # Board!NoSnapshot => loads[n].parts[p].at >= dash.snapshot[p].at
<1>1. /\ loads[n].st = "sent" /\ ~loads[n].aborted /\ loads[n].fresh
      /\ \A p \in Board!First : loads[n].parts[p] # Board!Unread
  BY DEF Board!Takes, Board!Stale, Board!Complete
<1>2. loads[n].parts # Board!NoSnapshot
  <2>1. "stats" \in Board!First  BY DEF Board!First, Board!Parts
  <2>. QED  BY <1>1, <2>1, BoardValues
<1>3. loads[n].parts \in BoardSnapshots  BY DEF BoardInv, BoardVarTypes, BoardLoadRecord
<1>. QED  BY <1>1, <1>2, <1>3 DEF BoardInv, BoardLoadsFit, BoardSnapsFit, BoardWhole

\* A load is taken.
LEMMA BoardTakesInv == ASSUME BoardInv, NEW n \in Loads, Board!Takes(n) PROVE BoardInv'
<1>. DEFINE parts == loads[n].parts
            no == FALSE
            yes == TRUE
            d == [dash EXCEPT !.snapshot = parts, !.error = no, !.live = yes]
<1>1. /\ loads' = [loads EXCEPT ![n] = Board!NoLoad] /\ boardSaved' = parts /\ cleared' = cleared
      /\ Board!Ends(n, d)
  BY DEF Board!Takes
<1>2. /\ n = held /\ loads[n].mine /\ parts # Board!NoSnapshot /\ parts \in BoardSnapshots
      /\ BoardTimely(parts) /\ BoardWhole(parts) /\ \A p \in Board!First : parts[p].at >= cleared
  BY BoardTakenIs
<1>3. /\ dash \in BoardDashRecord /\ loads \in [Loads -> BoardLoadRecord] /\ no \in BOOLEAN
      /\ yes \in BOOLEAN
  BY DEF BoardInv, BoardVarTypes
<1>. HIDE DEF parts, yes, no
<1>4. d \in BoardDashRecord /\ d.open = dash.open /\ d.snapshot = parts
  BY <1>2, <1>3 DEF BoardDashRecord
<1>. HIDE DEF d
<1>5. /\ dash' \in BoardDashRecord /\ dash'.open = dash.open /\ dash'.snapshot = parts
      /\ held' = (IF held = n THEN 0 ELSE held) /\ UNCHANGED Board!tenantVars
  BY <1>1, <1>2, <1>3, <1>4, BoardEndsIs
<1>6. /\ loads' \in [Loads -> BoardLoadRecord] /\ loads'[n] = Board!NoLoad
      /\ \A m \in Loads \ {n} : loads'[m] = loads[m]
  BY <1>1, <1>3, BoardValues
<1>. QED  BY <1>1, <1>2, <1>5, <1>6, BoardOverInv

\* A clear of the cache makes the loads one generation old.
LEMMA BoardOutdatedIs ==
  ASSUME loads \in [Loads -> BoardLoadRecord]
  PROVE  /\ Board!Outdated(loads) \in [Loads -> BoardLoadRecord]
         /\ \A m \in Loads :
              LET l == Board!Outdated(loads)[m] IN
              /\ l.st = loads[m].st /\ l.parts = loads[m].parts /\ ~l.fresh
              /\ (l.aborted <=> loads[m].aborted) /\ (l.mine <=> loads[m].mine)
<1>. DEFINE no == FALSE
            old(m) == [loads[m] EXCEPT !.fresh = no]
<1>1. no \in BOOLEAN /\ ~no  OBVIOUS
<1>2. Board!Outdated(loads) = [m \in Loads |-> old(m)]  BY DEF Board!Outdated
<1>. HIDE DEF no
<1>3. \A m \in Loads :
        /\ old(m) \in BoardLoadRecord /\ old(m).st = loads[m].st /\ old(m).parts = loads[m].parts
        /\ ~old(m).fresh /\ (old(m).aborted <=> loads[m].aborted)
        /\ (old(m).mine <=> loads[m].mine)
  BY <1>1 DEF BoardLoadRecord
<1>. HIDE DEF old
<1>. QED  BY <1>2, <1>3

\* A load failed: the snapshot stays, unless the session is over.
LEMMA BoardFailsInv == ASSUME BoardInv, NEW n \in Loads, Board!Fails(n) PROVE BoardInv'
<1>. DEFINE denied == loads[n].st = "denied"
            s == IF denied THEN Board!NoSnapshot ELSE dash.snapshot
            yes == TRUE
            no == FALSE
            d == [dash EXCEPT !.snapshot = s, !.error = yes, !.live = no]
<1>1. /\ ~Board!Stale(n) /\ loads[n].st # "none" /\ Board!Ends(n, d)
      /\ loads' = [IF denied THEN Board!Outdated(loads) ELSE loads EXCEPT ![n] = Board!NoLoad]
      /\ boardSaved' = (IF denied THEN Board!NoSnapshot ELSE boardSaved)
      /\ cleared' = (IF denied THEN changes ELSE cleared)
  BY DEF Board!Fails
<1>2. n = held /\ loads[n].mine  BY <1>1 DEF Board!Stale, BoardInv, BoardLoadsFit
<1>3. /\ dash \in BoardDashRecord /\ loads \in [Loads -> BoardLoadRecord]
      /\ boardSaved \in BoardSnapshots
      /\ no \in BOOLEAN /\ yes \in BOOLEAN /\ yes /\ dash.snapshot \in BoardSnapshots
  BY DEF BoardInv, BoardVarTypes, BoardDashRecord
<1>4. /\ s \in BoardSnapshots /\ BoardTimely(s) /\ BoardWhole(s) /\ BoardTimely(Board!NoSnapshot)
      /\ BoardWhole(Board!NoSnapshot)
  BY <1>3, BoardValues DEF BoardInv, BoardSnapsFit, BoardTimely, BoardFits, BoardWhole
<1>. HIDE DEF s, yes, no
<1>5. d \in BoardDashRecord /\ d.open = dash.open /\ d.snapshot = s /\ d.error
  BY <1>3, <1>4 DEF BoardDashRecord
<1>. HIDE DEF d
<1>6. /\ dash' \in BoardDashRecord /\ dash'.open = dash.open /\ dash'.snapshot = s /\ dash'.error
      /\ held' = (IF held = n THEN 0 ELSE held) /\ UNCHANGED Board!tenantVars
  BY <1>1, <1>2, <1>3, <1>5, BoardEndsIs
<1>7. /\ loads' \in [Loads -> BoardLoadRecord] /\ loads'[n] = Board!NoLoad
      /\ \A m \in Loads \ {n} :
            /\ loads'[m].st = loads[m].st /\ loads'[m].parts = loads[m].parts
            /\ (loads'[m].aborted <=> loads[m].aborted) /\ (loads'[m].mine <=> loads[m].mine)
            /\ loads'[m].fresh => loads[m].fresh /\ ~denied
  <2>1. CASE denied
    <3>1. loads' = [Board!Outdated(loads) EXCEPT ![n] = Board!NoLoad]  BY <1>1, <2>1
    <3>. QED  BY <1>3, <3>1, BoardOutdatedIs, BoardValues
  <2>2. CASE ~denied
    <3>1. loads' = [loads EXCEPT ![n] = Board!NoLoad]  BY <1>1, <2>2
    <3>. QED  BY <1>3, <2>2, <3>1, BoardValues
  <2>. QED  BY <2>1, <2>2
<1>8. /\ boardSaved' \in BoardSnapshots /\ BoardTimely(boardSaved') /\ BoardWhole(boardSaved')
      /\ cleared' \in {cleared, changes}
      /\ boardSaved' # Board!NoSnapshot => \A p \in Board!First : boardSaved'[p].at >= cleared'
      /\ ~denied => cleared' = cleared
  BY <1>1, <1>3, <1>4, BoardValues DEF BoardInv, BoardSnapsFit
<1>. HIDE DEF denied
<1>. QED  BY <1>2, <1>4, <1>6, <1>7, <1>8, BoardOverInv

\* A load that is dropped.
LEMMA BoardDropsInv == ASSUME BoardInv, NEW n \in Loads, Board!Drops(n) PROVE BoardInv'
<1>1. /\ Board!Stale(n) /\ Board!Ends(n, dash) /\ loads' = [loads EXCEPT ![n] = Board!NoLoad]
      /\ UNCHANGED <<boardSaved, cleared>>
  BY DEF Board!Drops
<1>2. dash \in BoardDashRecord /\ loads \in [Loads -> BoardLoadRecord] /\ boardSaved \in BoardSnapshots
  BY DEF BoardInv, BoardVarTypes
<1>3. /\ dash' \in BoardDashRecord /\ dash'.open = dash.open /\ dash'.snapshot = dash.snapshot
      /\ (dash'.initial <=> dash.initial) /\ dash'.error = dash.error
      /\ held' = (IF held = n THEN 0 ELSE held) /\ UNCHANGED Board!tenantVars
  BY <1>1, <1>2, BoardEndsIs
<1>4. /\ loads' \in [Loads -> BoardLoadRecord] /\ loads'[n] = Board!NoLoad
      /\ \A m \in Loads \ {n} : loads'[m] = loads[m]
  BY <1>1, <1>2, BoardValues
<1>5. /\ BoardTimely(dash.snapshot) /\ BoardWhole(dash.snapshot) /\ BoardTimely(boardSaved)
      /\ BoardWhole(boardSaved)
      /\ boardSaved # Board!NoSnapshot => \A p \in Board!First : boardSaved[p].at >= cleared
      /\ dash.open => dash.initial \/ dash.error \/ dash.snapshot # Board!NoSnapshot
  BY DEF BoardInv, BoardSnapsFit
<1>. QED  BY <1>1, <1>2, <1>3, <1>4, <1>5, BoardOverInv

\* The page is left: the load it holds is aborted.
LEMMA BoardLeaveInv == ASSUME BoardInv, Board!Leave PROVE BoardInv'
<1>. DEFINE left(n) == [IF n = held THEN Board!AbortedLoad(n) ELSE loads[n] EXCEPT !.mine = FALSE]
<1>1. /\ dash' = Board!Closed /\ loads' = [n \in Loads |-> left(n)] /\ held' = 0
      /\ UNCHANGED <<Board!tenantVars, boardSaved, cleared>>
  BY DEF Board!Leave
<1>2. loads \in [Loads -> BoardLoadRecord]  BY DEF BoardInv, BoardVarTypes
<1>3. ASSUME NEW n \in Loads
      PROVE  /\ left(n) \in BoardLoadRecord /\ left(n).st = loads[n].st /\ ~left(n).mine
             /\ left(n).aborted \/ (n # held /\ ~loads[n].aborted)
             /\ left(n).parts \in {loads[n].parts, Board!NoSnapshot}
  <2>. DEFINE yes == TRUE
              no == FALSE
              parts == IF Board!Complete(n) \/ loads[n].st # "sent" THEN loads[n].parts
                ELSE Board!NoSnapshot
              l == IF n = held THEN Board!AbortedLoad(n) ELSE loads[n]
  <2>1. loads[n] \in BoardLoadRecord /\ yes \in BOOLEAN /\ yes /\ no \in BOOLEAN /\ ~no  BY <1>2
  <2>2. parts \in {loads[n].parts, Board!NoSnapshot}  OBVIOUS
  <2>3. parts \in BoardSnapshots  BY <2>1, <2>2, BoardValues DEF BoardLoadRecord
  <2>4. Board!AbortedLoad(n) = [loads[n] EXCEPT !.aborted = yes, !.parts = parts]
    BY DEF Board!AbortedLoad
  <2>5. left(n) = [l EXCEPT !.mine = no]  OBVIOUS
  <2>. HIDE DEF yes, no, parts, left
  <2>6. /\ Board!AbortedLoad(n) \in BoardLoadRecord /\ Board!AbortedLoad(n).st = loads[n].st
        /\ Board!AbortedLoad(n).aborted /\ Board!AbortedLoad(n).parts = parts
    BY <2>1, <2>3, <2>4 DEF BoardLoadRecord
  <2>7. /\ l \in BoardLoadRecord /\ l.st = loads[n].st
        /\ l.aborted \/ (n # held /\ ~loads[n].aborted)
        /\ l.parts \in {loads[n].parts, Board!NoSnapshot}
    BY <2>1, <2>2, <2>6
  <2>. HIDE DEF l
  <2>. QED  BY <2>1, <2>5, <2>7 DEF BoardLoadRecord
<1>. HIDE DEF left
<1>4. /\ loads' \in [Loads -> BoardLoadRecord]
      /\ \A n \in Loads : loads'[n].st # "none" => loads'[n].aborted /\ ~loads'[n].mine
      /\ \A n \in Loads : loads'[n].parts \in {loads[n].parts, Board!NoSnapshot}
  <2>1. loads' \in [Loads -> BoardLoadRecord] /\ \A n \in Loads : loads'[n] = left(n)
    BY <1>1, <1>3
  <2>2. \A n \in Loads : loads[n].st # "none" /\ ~loads[n].aborted => n = held
    BY DEF BoardInv, BoardLoadsFit
  <2>. QED  BY <1>3, <2>1, <2>2
<1>5. dash' \in BoardDashRecord /\ ~dash'.open /\ dash'.snapshot = Board!NoSnapshot
  <2>. DEFINE no == FALSE
              m == Board!Mounted(Board!NoSnapshot)
  <2>1. no \in BOOLEAN /\ ~no /\ Board!Closed = [m EXCEPT !.open = no]  BY DEF Board!Closed
  <2>2. m \in BoardDashRecord /\ m.snapshot = Board!NoSnapshot  BY BoardMountedIs, BoardValues
  <2>. HIDE DEF no, m
  <2>. QED  BY <1>1, <2>1, <2>2 DEF BoardDashRecord
<1>6. UNCHANGED <<log, done, night, day, ends, changes, boardSaved, cleared>>
  BY <1>1 DEF Board!tenantVars
<1>7. BoardVarTypes'  BY <1>1, <1>4, <1>5, <1>6 DEF BoardInv, BoardVarTypes
<1>8. BoardTenantFit'  BY <1>6 DEF BoardInv, BoardTenantFit
<1>9. \A s : BoardTimely(s) => BoardTimely(s)'  BY <1>1, BoardTimelyStays
<1>10. BoardTimely(Board!NoSnapshot)  BY BoardValues DEF BoardTimely, BoardFits
<1>11. BoardSnapsFit'
  <2>1. BoardTimely(dash.snapshot)' /\ BoardTimely(boardSaved)'
    BY <1>5, <1>6, <1>9, <1>10 DEF BoardInv, BoardSnapsFit
  <2>2. \A n \in Loads : BoardTimely(loads'[n].parts)
    BY <1>4, <1>10 DEF BoardInv, BoardSnapsFit
  <2>3. (\A n \in Loads : BoardTimely(loads[n].parts))'  BY <1>9, <2>2
  <2>. QED  BY <1>5, <1>6, <2>1, <2>3 DEF BoardInv, BoardSnapsFit, BoardWhole
<1>12. BoardLoadsFit' /\ BoardHeldFit'  BY <1>1, <1>4 DEF BoardLoadsFit, BoardHeldFit
<1>. QED  BY <1>7, <1>8, <1>11, <1>12 DEF BoardInv

\* The page is opened: it starts from the cached snapshot, unless that is too old.
LEMMA BoardEnterInv == ASSUME BoardInv, Board!Enter PROVE BoardInv'
<1>1. ~dash.open /\ UNCHANGED <<Board!tenantVars, loads, held, cleared>>  BY DEF Board!Enter
<1>2. PICK s \in {boardSaved, Board!NoSnapshot} : boardSaved' = s /\ dash' = Board!Mounted(s)
  BY DEF Board!Enter
<1>3. /\ s \in BoardSnapshots /\ BoardTimely(s) /\ BoardWhole(s)
      /\ s # Board!NoSnapshot => \A p \in Board!First : s[p].at >= cleared
  BY BoardValues DEF BoardInv, BoardVarTypes, BoardSnapsFit, BoardTimely, BoardFits, BoardWhole
<1>4. /\ dash' \in BoardDashRecord /\ dash'.open /\ dash'.snapshot = s
      /\ (dash'.initial <=> s = Board!NoSnapshot)
  BY <1>2, <1>3, BoardMountedIs
<1>5. UNCHANGED <<log, done, night, day, ends, changes, loads, held, cleared>>
  BY <1>1 DEF Board!tenantVars
<1>6. BoardVarTypes'  BY <1>2, <1>3, <1>4, <1>5 DEF BoardInv, BoardVarTypes
<1>7. BoardTenantFit'  BY <1>5 DEF BoardInv, BoardTenantFit
<1>8. \A t : BoardTimely(t) => BoardTimely(t)'  BY <1>1, BoardTimelyStays
<1>9. BoardSnapsFit'
  <2>1. BoardTimely(dash.snapshot)' /\ BoardTimely(boardSaved)'  BY <1>2, <1>3, <1>4, <1>8
  <2>2. \A n \in Loads : BoardTimely(loads'[n].parts)  BY <1>5 DEF BoardInv, BoardSnapsFit
  <2>3. (\A n \in Loads : BoardTimely(loads[n].parts))'  BY <1>8, <2>2
  <2>. QED  BY <1>2, <1>3, <1>4, <1>5, <2>1, <2>3 DEF BoardSnapsFit, BoardWhole
<1>10. \A n \in Loads : loads[n].st # "none" => loads[n].aborted /\ ~loads[n].mine
  BY <1>1 DEF BoardInv, BoardLoadsFit, BoardHeldFit
<1>11. BoardLoadsFit' /\ BoardHeldFit'  BY <1>5, <1>10 DEF BoardInv, BoardLoadsFit, BoardHeldFit
<1>. QED  BY <1>6, <1>7, <1>9, <1>11 DEF BoardInv

\* Another page clears the cache: no load that was begun before is kept.
LEMMA BoardClearedElsewhereInv == ASSUME BoardInv, Board!ClearedElsewhere PROVE BoardInv'
<1>1. /\ boardSaved' = Board!NoSnapshot /\ loads' = Board!Outdated(loads) /\ cleared' = changes
      /\ UNCHANGED <<Board!tenantVars, dash, held>>
  BY DEF Board!ClearedElsewhere
<1>2. /\ loads' \in [Loads -> BoardLoadRecord]
      /\ \A m \in Loads :
           /\ loads'[m].st = loads[m].st /\ loads'[m].parts = loads[m].parts /\ ~loads'[m].fresh
           /\ (loads'[m].aborted <=> loads[m].aborted) /\ (loads'[m].mine <=> loads[m].mine)
  BY <1>1, BoardOutdatedIs DEF BoardInv, BoardVarTypes
<1>3. UNCHANGED <<log, done, night, day, ends, changes, dash, held>>  BY <1>1 DEF Board!tenantVars
<1>4. BoardVarTypes'  BY <1>1, <1>2, <1>3, BoardValues DEF BoardInv, BoardVarTypes
<1>5. BoardTenantFit'  BY <1>1, <1>3 DEF BoardInv, BoardTenantFit, BoardVarTypes
<1>6. \A t : BoardTimely(t) => BoardTimely(t)'  BY <1>1, BoardTimelyStays
<1>7. BoardTimely(Board!NoSnapshot)  BY BoardValues DEF BoardTimely, BoardFits
<1>8. BoardSnapsFit'
  <2>1. BoardTimely(dash.snapshot)' /\ BoardTimely(boardSaved)'
    BY <1>1, <1>3, <1>6, <1>7 DEF BoardInv, BoardSnapsFit
  <2>2. \A n \in Loads : BoardTimely(loads'[n].parts)  BY <1>2 DEF BoardInv, BoardSnapsFit
  <2>3. (\A n \in Loads : BoardTimely(loads[n].parts))'  BY <1>6, <2>2
  <2>. QED  BY <1>1, <1>3, <2>1, <2>3 DEF BoardInv, BoardSnapsFit, BoardWhole
<1>9. BoardLoadsFit'
  <2>. SUFFICES ASSUME NEW n \in Loads, loads[n].st # "none", ~loads[n].aborted
                PROVE  /\ n = held /\ loads[n].mine
                       /\ \A p \in Board!First :
                            loads[n].parts[p] # Board!Unread /\ dash.snapshot # Board!NoSnapshot =>
                              loads[n].parts[p].at >= dash.snapshot[p].at
    BY <1>2, <1>3 DEF BoardLoadsFit
  <2>. QED  BY DEF BoardInv, BoardLoadsFit
<1>10. BoardHeldFit'  BY <1>2, <1>3 DEF BoardInv, BoardHeldFit, BoardVarTypes
<1>. QED  BY <1>4, <1>5, <1>8, <1>9, <1>10 DEF BoardInv

\* The workspace goes on: what was read before is older than that.
LEMMA BoardTenantInv ==
  ASSUME BoardInv, Board!Ingests \/ Board!Delivers \/ Board!Midnight \/ Board!DayEnds \/ Board!Toggles
  PROVE  BoardInv'
<1>1. changes' = changes + 1 /\ UNCHANGED <<dash, loads, held, boardSaved, cleared>>
  BY
    DEF Board!Ingests, Board!Delivers, Board!Midnight, Board!DayEnds, Board!Toggles, Board!Changed
<1>2. BoardVarTypes  BY DEF BoardInv
<1>3. BoardTenantFit  BY DEF BoardInv
<1>. DEFINE LogKinds == {"event", "good", "bad"}
<1>4. /\ log' \in Seq(LogKinds) /\ done' \in Nat /\ night' \in Nat /\ day' \in Nat
      /\ Len(log') <= MaxLog /\ done' <= Len(log') /\ night' <= Len(log')
      /\ day' <= done' /\ day' <= night'
  <2>1. Len(log) \in Nat  BY <1>2 DEF BoardVarTypes
  <2>2. CASE Board!Ingests
    <3>1. PICK outcome \in {"good", "bad"} :
            log' = log \o (IF ends.active > 0 THEN <<"event", outcome>> ELSE <<"event">>)
      BY <2>2 DEF Board!Ingests
    <3>. DEFINE two == <<"event", outcome>>
                one == <<"event">>
    <3>2. two \in Seq(LogKinds) /\ Len(two) = 2 /\ one \in Seq(LogKinds) /\ Len(one) = 1
      OBVIOUS
    <3>3. log \in Seq(LogKinds)  BY <1>2 DEF BoardVarTypes
    <3>4. log' = log \o two \/ log' = log \o one  BY <3>1
    <3>. HIDE DEF two, one, LogKinds
    <3>5. ASSUME NEW t \in Seq(LogKinds), log' = log \o t
          PROVE  log' \in Seq(LogKinds) /\ Len(log') = Len(log) + Len(t)
      BY <3>3, <3>5
    <3>6. log' \in Seq(LogKinds) /\ Len(log') \in Len(log)..(Len(log) + 2)
      <4>1. CASE log' = log \o two
        <5>1. log' \in Seq(LogKinds) /\ Len(log') = Len(log) + Len(two)  BY <3>2, <3>5, <4>1
        <5>. QED  BY <2>1, <3>2, <5>1
      <4>2. CASE log' = log \o one
        <5>1. log' \in Seq(LogKinds) /\ Len(log') = Len(log) + Len(one)  BY <3>2, <3>5, <4>2
        <5>. QED  BY <2>1, <3>2, <5>1
      <4>. QED  BY <3>4, <4>1, <4>2
    <3>. QED
      BY <1>2, <1>3, <2>1, <2>2, <3>6, BoardAssumption
        DEF Board!Ingests, BoardVarTypes, BoardTenantFit
  <2>3. CASE Board!Delivers \/ Board!Midnight \/ Board!DayEnds \/ Board!Toggles
    BY <1>2, <1>3, <2>1, <2>3
      DEF Board!Delivers, Board!Midnight, Board!DayEnds, Board!Toggles, BoardVarTypes,
          BoardTenantFit
  <2>. QED  BY <2>2, <2>3
<1>5. ends' \in [active: Nat, disabled: Nat]
  <2>1. ends \in [active: Nat, disabled: Nat]  BY <1>2 DEF BoardVarTypes
  <2>2. CASE Board!Toggles  BY <2>1, <2>2 DEF Board!Toggles
  <2>3. CASE ~Board!Toggles
    BY <2>1, <2>3 DEF Board!Ingests, Board!Delivers, Board!Midnight, Board!DayEnds
  <2>. QED  BY <2>2, <2>3
<1>6. BoardVarTypes'  BY <1>1, <1>2, <1>4, <1>5 DEF BoardVarTypes
<1>7. BoardTenantFit'  BY <1>1, <1>2, <1>3, <1>4 DEF BoardTenantFit, BoardVarTypes
<1>8. \A s \in BoardSnapshots : BoardTimely(s) => BoardTimely(s)'
  BY <1>1, <1>2, BoardTimelyPasses DEF BoardVarTypes
<1>9. BoardSnapsFit'
  <2>1. /\ dash.snapshot \in BoardSnapshots /\ boardSaved \in BoardSnapshots
        /\ \A n \in Loads : loads[n].parts \in BoardSnapshots
    BY <1>2 DEF BoardVarTypes, BoardDashRecord, BoardLoadRecord
  <2>2. BoardTimely(dash.snapshot)' /\ BoardTimely(boardSaved)'
    BY <1>1, <1>8, <2>1 DEF BoardInv, BoardSnapsFit
  <2>3. (\A n \in Loads : BoardTimely(loads[n].parts))'
    BY <1>1, <1>8, <2>1 DEF BoardInv, BoardSnapsFit
  <2>. QED  BY <1>1, <2>2, <2>3 DEF BoardInv, BoardSnapsFit, BoardWhole
<1>10. BoardLoadsFit' /\ BoardHeldFit'  BY <1>1 DEF BoardInv, BoardLoadsFit, BoardHeldFit
<1>. QED  BY <1>6, <1>7, <1>9, <1>10 DEF BoardInv

\* Every step of the dashboard keeps the invariant.
LEMMA BoardStepInv == BoardInv /\ [Board!Next]_(Board!vars) => BoardInv'
<1>. SUFFICES ASSUME BoardInv, [Board!Next]_(Board!vars) PROVE BoardInv'  OBVIOUS
<1>1. ASSUME NEW n \in Loads, Board!Arrives(n) PROVE BoardInv'
  BY <1>1, BoardTakesInv, BoardFailsInv, BoardDropsInv DEF Board!Arrives
<1>2. ASSUME NEW n \in Loads, NEW part \in Board!Parts, Board!Reads(n, part) PROVE BoardInv'
  BY <1>2, BoardReadsInv
<1>3. CASE Board!Mounts \/ Board!Polls \/ Board!Refreshes  BY <1>3, BoardLoadsBeginInv
<1>4. CASE Board!Leave \/ Board!Enter \/ Board!ClearedElsewhere
  BY <1>4, BoardLeaveInv, BoardEnterInv, BoardClearedElsewhereInv
<1>5. CASE Board!Ingests \/ Board!Delivers \/ Board!Midnight \/ Board!DayEnds \/ Board!Toggles
  BY <1>5, BoardTenantInv
<1>6. CASE UNCHANGED Board!vars
  <2>1. UNCHANGED Board!tenantVars  BY <1>6 DEF Board!vars, Board!tenantVars
  <2>2. \A s : BoardTimely(s) => BoardTimely(s)'  BY <2>1, BoardTimelyStays
  <2>3. UNCHANGED <<log, done, night, day, ends, changes, dash, loads, held, boardSaved, cleared>>
    BY <1>6 DEF Board!vars
  <2>4. BoardSnapsFit'
    <3>1. BoardTimely(dash.snapshot)' /\ BoardTimely(boardSaved)'
      BY <2>2, <2>3 DEF BoardInv, BoardSnapsFit
    <3>2. (\A n \in Loads : BoardTimely(loads[n].parts))'
      BY <2>2, <2>3 DEF BoardInv, BoardSnapsFit
    <3>. QED  BY <2>3, <3>1, <3>2 DEF BoardInv, BoardSnapsFit, BoardWhole
  <2>5. BoardVarTypes' /\ BoardTenantFit'  BY <2>3 DEF BoardInv, BoardVarTypes, BoardTenantFit
  <2>6. BoardLoadsFit' /\ BoardHeldFit'  BY <2>3 DEF BoardInv, BoardLoadsFit, BoardHeldFit
  <2>. QED  BY <2>4, <2>5, <2>6 DEF BoardInv
<1>. QED  BY <1>1, <1>2, <1>3, <1>4, <1>5, <1>6 DEF Board!Next

\* The invariant types the variables.
LEMMA BoardInvTypes == BoardInv => Board!TypeOK
<1>. SUFFICES ASSUME BoardInv PROVE Board!TypeOK  OBVIOUS
<1>1. BoardVarTypes /\ BoardTenantFit  BY DEF BoardInv
<1>2. Len(log) \in Nat  BY <1>1 DEF BoardVarTypes
<1>3. \A n \in Loads : loads[n].st \in {"none", "sent", "failed", "denied"}
  BY <1>1 DEF BoardVarTypes, BoardLoadRecord
<1>4. DOMAIN dash.snapshot = Board!Parts /\ DOMAIN boardSaved = Board!Parts
  BY <1>1 DEF BoardVarTypes, BoardDashRecord, BoardSnapshots
<1>. QED  BY <1>1, <1>2, <1>3, <1>4 DEF BoardVarTypes, BoardTenantFit, Board!TypeOK

\* Rows that have fewer than Recent others after them in the log are the newest of any
\* rows they are among.
LEMMA BoardTopIsNewest ==
  ASSUME BoardInv, NEW S \in SUBSET (1..Len(log)), NEW i \in S, i > Len(log) - Recent
  PROVE  i \in Board!Newest(S)
<1>. DEFINE later == {j \in S : j > i}
<1>1. Len(log) \in Nat /\ Recent \in Nat /\ i \in 1..Len(log)
  BY BoardAssumption DEF BoardInv, BoardVarTypes
<1>2. /\ IsFiniteSet((i + 1)..Len(log))
      /\ Cardinality((i + 1)..Len(log)) = IF i + 1 > Len(log) THEN 0 ELSE Len(log) - (i + 1) + 1
  <2>1. i + 1 \in Int /\ Len(log) \in Int  BY <1>1
  <2>. QED  BY <2>1, FS_Interval
<1>3. later \in SUBSET ((i + 1)..Len(log))
  <2>. SUFFICES ASSUME NEW j \in S, j > i PROVE j \in (i + 1)..Len(log)  OBVIOUS
  <2>1. j \in 1..Len(log)  OBVIOUS
  <2>. QED  BY <1>1, <2>1
<1>4. IsFiniteSet(later) /\ Cardinality(later) <= Cardinality((i + 1)..Len(log))
  BY <1>2, <1>3, FS_Subset
<1>5. Cardinality(later) \in Nat  BY <1>4, FS_CardinalityType
<1>. HIDE DEF later
<1>6. Cardinality((i + 1)..Len(log)) < Recent  BY <1>1, <1>2
<1>7. Cardinality((i + 1)..Len(log)) \in Nat  BY <1>1, <1>2
<1>8. Cardinality(later) < Recent  BY <1>1, <1>4, <1>5, <1>6, <1>7
<1>. QED  BY <1>8, BoardCardinality DEF Board!Newest, later

\* And if all the last ones are among them, no other row is.
LEMMA BoardNewestIsTop ==
  ASSUME BoardInv, NEW S \in SUBSET (1..Len(log)),
         \A i \in 1..Len(log) : i > Len(log) - Recent => i \in S,
         NEW i \in Board!Newest(S)
  PROVE  i > Len(log) - Recent
<1>. DEFINE later == {j \in S : j > i}
            top == (Len(log) - Recent + 1)..Len(log)
<1>1. Len(log) \in Nat /\ Recent \in Nat /\ i \in 1..Len(log) /\ Cardinality(later) < Recent
  BY BoardAssumption, BoardCardinality DEF BoardInv, BoardVarTypes, Board!Newest
<1>. SUFFICES ASSUME i <= Len(log) - Recent PROVE FALSE  BY <1>1
<1>2. Cardinality(top) = Recent
  <2>1. Cardinality(top) = IF Len(log) - Recent + 1 > Len(log) THEN 0
                           ELSE Len(log) - (Len(log) - Recent + 1) + 1
    <3>1. Len(log) - Recent + 1 \in Int /\ Len(log) \in Int  BY <1>1
    <3>. QED  BY <3>1, FS_Interval
  <2>. QED  BY <1>1, <2>1
<1>3. top \in SUBSET later  BY <1>1
<1>4. later \in SUBSET (1..Len(log))  OBVIOUS
<1>5. IsFiniteSet(later) /\ Cardinality(later) \in Nat  BY <1>4, BoardCounts
<1>6. Cardinality(top) <= Cardinality(later)  BY <1>3, <1>5, FS_Subset
<1>. HIDE DEF later, top
<1>. QED  BY <1>1, <1>2, <1>5, <1>6

\* Both lists of one moment hold every one of the last rows of the log.
LEMMA BoardActivityIsTop ==
  ASSUME BoardInv, dash.snapshot["events"].at = changes, dash.snapshot["deliveries"].at = changes
  PROVE  /\ dash.snapshot["events"].rows = Board!Newest(Board!Events)
         /\ dash.snapshot["deliveries"].rows = Board!Newest(Board!Deliveries)
         /\ \A i \in 1..Len(log) : i > Len(log) - Recent <=> i \in Board!ActivityShown
<1>1. \A p \in Board!Parts : dash.snapshot[p].at = changes => dash.snapshot[p] = Board!Answer(p)
  <2>1. changes \in Nat  BY DEF BoardInv, BoardVarTypes
  <2>. QED  BY <2>1, BoardValues DEF BoardInv, BoardSnapsFit, BoardTimely, BoardFits
<1>2. /\ dash.snapshot["events"] = [at |-> changes, rows |-> Board!Listed(Board!Events)]
      /\ dash.snapshot["deliveries"] = [at |-> changes, rows |-> Board!Listed(Board!Deliveries)]
  BY <1>1 DEF Board!Answer, Board!Parts
<1>3. /\ dash.snapshot["events"].rows = Board!Newest(Board!Events)
      /\ dash.snapshot["deliveries"].rows = Board!Newest(Board!Deliveries)
  BY <1>2 DEF Board!Listed
<1>. DEFINE both == Board!Newest(Board!Events) \cup Board!Newest(Board!Deliveries)
<1>4. both \in SUBSET (1..Len(log))  BY BoardCounts
<1>5. ASSUME NEW i \in 1..Len(log), i > Len(log) - Recent PROVE i \in both
  <2>1. i \in Board!Events \/ i \in Board!Deliveries  BY DEF Board!Deliveries
  <2>. QED  BY <1>5, <2>1, BoardCounts, BoardTopIsNewest
<1>6. Board!ActivityShown = Board!Newest(both)  BY <1>3 DEF Board!ActivityShown, Board!Activity
<1>. HIDE DEF both
<1>7. ASSUME NEW i \in 1..Len(log) PROVE i > Len(log) - Recent <=> i \in Board!Newest(both)
  BY <1>4, <1>5, BoardTopIsNewest, BoardNewestIsTop
<1>. QED  BY <1>3, <1>6, <1>7

\* What a dashboard shows is true of one moment, or it says that there was an error.
LEMMA BoardInvGives == BoardInv => Board!DashboardIsHonest
<1>. SUFFICES ASSUME BoardInv PROVE Board!DashboardIsHonest  OBVIOUS
<1>1. Board!SnapshotIsCurrent  BY DEF BoardInv, BoardSnapsFit, Board!SnapshotIsCurrent
<1>2. Board!ActivityIsNewest  BY BoardActivityIsTop DEF Board!ActivityIsNewest
<1>3. Board!BlankIsError
  <2>. SUFFICES ASSUME dash.open, Board!Body = "blank", ~dash.error PROVE FALSE
    BY DEF Board!BlankIsError
  <2>1. dash.initial \/ dash.snapshot # Board!NoSnapshot  BY DEF BoardInv, BoardSnapsFit
  <2>2. Board!Body \in {"skeleton", "page"}
    <3>1. CASE dash.initial /\ dash.snapshot = Board!NoSnapshot
      BY <3>1 DEF Board!Body, Board!Loaded
    <3>2. CASE dash.snapshot # Board!NoSnapshot  BY <3>2 DEF Board!Body, Board!Loaded
    <3>. QED  BY <2>1, <3>1, <3>2
  <2>. QED  BY <2>2
<1>4. Board!QuietWithoutData
  <2>. SUFFICES ASSUME Board!Onboarding, \A p \in Board!First : dash.snapshot[p].at = changes
                PROVE  /\ Board!Deliveries \subseteq 1..done /\ Board!ActivityShown \subseteq 1..night
                       /\ Board!Metrics = <<0, 0>> /\ Board!Outcomes = <<0, 0>> /\ Board!Attention = {}
    BY DEF Board!QuietWithoutData
  <2>1. ~Board!Data /\ Board!Loaded  BY DEF Board!Onboarding
  <2>2. /\ dash.snapshot["stats"].at = changes /\ dash.snapshot["events"].at = changes
        /\ dash.snapshot["deliveries"].at = changes
    BY DEF Board!First, Board!Parts
  <2>. DEFINE stats == dash.snapshot["stats"]
              today == {i \in Board!Events : i > night}
  <2>3. stats = Board!Stats
    <3>1. "stats" \in Board!Parts /\ changes \in Nat  BY DEF Board!Parts, BoardInv, BoardVarTypes
    <3>2. BoardFits("stats", stats) /\ stats # Board!Unread
      BY <2>2, <3>1, BoardValues DEF BoardInv, BoardSnapsFit, BoardTimely
    <3>. QED  BY <2>2, <3>2 DEF BoardFits, Board!Answer
  <2>4. /\ stats.today = Cardinality(today) /\ stats.active = Cardinality(Board!Open)
        /\ stats.succeeded = Cardinality(Board!Final("good"))
        /\ stats.failed = Cardinality(Board!Final("bad"))
    BY <2>3, BoardCardinality DEF Board!Stats
  <2>5. /\ today \in SUBSET (1..Len(log)) /\ Board!Open \in SUBSET (1..Len(log))
        /\ \A o : Board!Final(o) \in SUBSET (1..Len(log))
    BY BoardCounts DEF Board!Open, Board!Final
  <2>6. ~Board!HasData(stats)  BY <2>1 DEF Board!Data
  <2>. HIDE DEF stats, today
  <2>7. /\ Cardinality(today) \in Nat /\ Cardinality(Board!Open) \in Nat
        /\ Cardinality(Board!Final("good")) \in Nat /\ Cardinality(Board!Final("bad")) \in Nat
    BY <2>5, BoardCounts
  <2>8. stats.today = 0 /\ stats.active = 0 /\ stats.succeeded = 0 /\ stats.failed = 0
    BY <2>4, <2>6, <2>7 DEF Board!HasData
  <2>9. today = {} /\ Board!Open = {} /\ Board!Final("good") = {} /\ Board!Final("bad") = {}
    BY <2>4, <2>5, <2>8, BoardCounts
  <2>10. /\ Len(log) \in Nat /\ done \in Nat /\ night \in Nat /\ day \in Nat /\ day <= night
         /\ \A i \in 1..Len(log) : log[i] \in {"event", "good", "bad"}
    BY DEF BoardInv, BoardVarTypes, BoardTenantFit
  <2>11. Board!Deliveries \subseteq 1..done
    BY <2>9, <2>10, BoardCounts DEF Board!Open
  <2>12. Board!Events \subseteq 1..night  BY <2>9, <2>10, BoardCounts DEF today
  <2>13. Board!Deliveries \subseteq 1..night
    <3>. SUFFICES ASSUME NEW i \in Board!Deliveries PROVE i \in 1..night  OBVIOUS
    <3>1. i \in 1..Len(log) /\ i <= done  BY <2>10, <2>11, BoardCounts
    <3>2. log[i] \in {"good", "bad"}  BY <2>10, <3>1 DEF Board!Deliveries, Board!Events
    <3>3. ~(i > day)  BY <2>9, <3>1, <3>2 DEF Board!Final
    <3>. QED  BY <2>10, <3>1, <3>3
  <2>14. Board!ActivityShown \subseteq 1..night
    <3>1. Board!ActivityShown = Board!Newest(Board!Newest(Board!Events) \cup Board!Newest(Board!Deliveries))
      BY <2>2, BoardActivityIsTop DEF Board!ActivityShown, Board!Activity
    <3>2. Board!ActivityShown \subseteq Board!Events \cup Board!Deliveries
      BY <3>1, BoardCardinality DEF Board!Newest
    <3>. QED  BY <2>12, <2>13, <3>2
  <2>15. Board!Metrics = <<0, 0>>  BY <2>8 DEF Board!Metrics, stats
  <2>16. Board!Outcomes = <<0, 0>>  BY <2>8 DEF Board!Outcomes, stats
  <2>17. Board!Attention = {}  BY <2>1 DEF Board!Attention
  <2>. QED  BY <2>11, <2>14, <2>15, <2>16, <2>17
<1>. QED  BY <1>1, <1>2, <1>3, <1>4 DEF Board!DashboardIsHonest

\* A part that is shown is followed by one that was read later.
LEMMA BoardStep == BoardInv /\ [Board!Next]_(Board!vars) => Board!NeverOlder
<1>. SUFFICES ASSUME BoardInv, [Board!Next]_(Board!vars), dash.open, dash'.open,
                       dash.snapshot # Board!NoSnapshot,
                     dash'.snapshot # Board!NoSnapshot, NEW p \in Board!First
              PROVE  dash'.snapshot[p].at >= dash.snapshot[p].at
  BY DEF Board!NeverOlder, Board!Loaded
<1>1. dash \in BoardDashRecord /\ dash.snapshot[p].at \in Int
  BY BoardValues DEF BoardInv, BoardVarTypes, BoardDashRecord, BoardSnapshots
<1>2. CASE dash'.snapshot = dash.snapshot  BY <1>1, <1>2
<1>3. ASSUME NEW n \in Loads, Board!Takes(n)
      PROVE  dash'.snapshot[p].at >= dash.snapshot[p].at
  <2>. DEFINE parts == loads[n].parts
              no == FALSE
              yes == TRUE
              d == [dash EXCEPT !.snapshot = parts, !.error = no, !.live = yes]
  <2>1. Board!Ends(n, d)  BY <1>3 DEF Board!Takes
  <2>2. /\ loads[n].mine /\ parts \in BoardSnapshots
        /\ parts[p].at >= dash.snapshot[p].at
    BY <1>3, BoardTakenIs
  <2>3. no \in BOOLEAN /\ yes \in BOOLEAN  OBVIOUS
  <2>. HIDE DEF parts, no, yes
  <2>4. d \in BoardDashRecord /\ d.snapshot = parts  BY <1>1, <2>2, <2>3 DEF BoardDashRecord
  <2>. HIDE DEF d
  <2>5. dash'.snapshot = parts  BY <1>1, <2>1, <2>2, <2>4, BoardEndsIs
  <2>. QED  BY <2>2, <2>5
<1>4. ASSUME NEW n \in Loads, Board!Fails(n) PROVE dash'.snapshot = dash.snapshot
  <2>. DEFINE s == IF loads[n].st = "denied" THEN Board!NoSnapshot ELSE dash.snapshot
              yes == TRUE
              no == FALSE
              d == [dash EXCEPT !.snapshot = s, !.error = yes, !.live = no]
  <2>1. Board!Ends(n, d)  BY <1>4 DEF Board!Fails
  <2>2. s \in BoardSnapshots /\ (s = Board!NoSnapshot \/ s = dash.snapshot)
    BY <1>1, BoardValues DEF BoardDashRecord
  <2>3. no \in BOOLEAN /\ yes \in BOOLEAN  OBVIOUS
  <2>. HIDE DEF s, no, yes
  <2>4. d \in BoardDashRecord /\ d.snapshot = s  BY <1>1, <2>2, <2>3 DEF BoardDashRecord
  <2>. HIDE DEF d
  <2>. QED  BY <1>1, <2>1, <2>2, <2>4, BoardEndsIs
<1>5. ASSUME NEW n \in Loads, Board!Drops(n) PROVE dash'.snapshot = dash.snapshot
  <2>1. Board!Ends(n, dash)  BY <1>5 DEF Board!Drops
  <2>. QED  BY <1>1, <2>1, BoardEndsIs
<1>6. CASE Board!Mounts \/ Board!Polls \/ Board!Refreshes
  <2>. DEFINE yes == TRUE
              d == [dash EXCEPT !.ran = yes]
  <2>1. yes \in BOOLEAN  OBVIOUS
  <2>2. dash' = [dash EXCEPT !.refreshing = yes] \/ dash' = [d EXCEPT !.refreshing = yes]
    BY <1>6 DEF Board!Mounts, Board!Polls, Board!Refreshes, Board!Begins
  <2>. HIDE DEF yes
  <2>3. d \in BoardDashRecord /\ d.snapshot = dash.snapshot  BY <1>1, <2>1 DEF BoardDashRecord
  <2>. HIDE DEF d
  <2>. QED  BY <1>1, <1>2, <2>2, <2>3 DEF BoardDashRecord
<1>7. CASE Board!Leave \/ Board!Enter
  BY <1>7 DEF Board!Leave, Board!Closed, Board!Enter, Board!Mounted
<1>8. CASE UNCHANGED dash  BY <1>2, <1>8
<1>9. CASE Board!ClearedElsewhere \/ Board!Ingests \/ Board!Delivers \/ Board!Midnight
             \/ Board!DayEnds \/ Board!Toggles
  BY <1>8, <1>9
    DEF Board!ClearedElsewhere, Board!Ingests, Board!Delivers, Board!Midnight, Board!DayEnds,
        Board!Toggles, Board!Changed
<1>10. ASSUME NEW n \in Loads, NEW part \in Board!Parts, Board!Reads(n, part) PROVE UNCHANGED dash
  BY <1>10 DEF Board!Reads
<1>11. CASE UNCHANGED Board!vars  BY <1>8, <1>11 DEF Board!vars
<1>. QED
  BY <1>2, <1>3, <1>4, <1>5, <1>6, <1>7, <1>8, <1>9, <1>10, <1>11 DEF Board!Next, Board!Arrives

----------------------------------------------------------------------------
\* The page that runs keeps its invariant.
PagesInv ==
    /\ scenario = "list" => ListInv
    /\ scenario = "dashboard" => BoardInv
    /\ scenario = "detail" => DetailInv
    /\ scenario = "send" => SendInv
    /\ scenario = "gate" => GateInv
    /\ scenario = "links" => LinkInv
    /\ scenario = "secrets" => SecretInv
    /\ scenario = "dialogs" => DialogInv

\* A page that runs starts as its module says.
LEMMA PagesStart ==
  ASSUME ConsoleInit
  PROVE  /\ scenario = "list" => List!Init
         /\ scenario = "dashboard" => Board!Init
         /\ scenario = "detail" => Detail!Init
         /\ scenario = "send" => Send!Init
         /\ scenario = "gate" => Gate!Init
         /\ scenario = "links" => Link!Init
         /\ scenario = "secrets" => Secret!Init
         /\ scenario = "dialogs" => Dialog!Init
BY DEF ConsoleInit

\* A step of the whole leaves the scenario, and is one of the page that runs or leaves it alone.
LEMMA PagesStep ==
  ASSUME [ConsoleNext]_allVars
  PROVE  /\ scenario' = scenario
         /\ scenario = "list" => [List!Next]_(List!vars)
         /\ scenario = "dashboard" => [Board!Next]_(Board!vars)
         /\ scenario = "detail" => [Detail!Next]_(Detail!vars)
         /\ scenario = "send" => [Send!Next]_(Send!vars)
         /\ scenario = "gate" => [Gate!Next]_(Gate!vars)
         /\ scenario = "links" => [Link!Next]_(Link!vars)
         /\ scenario = "secrets" => [Secret!Next]_(Secret!vars)
         /\ scenario = "dialogs" => [Dialog!Next]_(Dialog!vars)
<1>. DEFINE Goal == /\ scenario' = scenario
                    /\ scenario = "list" => List!Next \/ UNCHANGED <<turns, listVars>>
                    /\ scenario = "dashboard" => Board!Next \/ UNCHANGED <<turns, boardVars>>
                    /\ scenario = "detail" => Detail!Next \/ UNCHANGED <<turns, detailVars>>
                    /\ scenario = "send" => Send!Next \/ UNCHANGED <<turns, sendVars>>
                    /\ scenario = "gate" => Gate!Next \/ UNCHANGED <<turns, gateVars>>
                    /\ scenario = "links" => Link!Next \/ UNCHANGED <<turns, linkVars>>
                    /\ scenario = "secrets" => Secret!Next \/ UNCHANGED <<turns, secretVars>>
                    /\ scenario = "dialogs" => Dialog!Next \/ UNCHANGED <<turns, dialogVars>>
<1>1. SUFFICES Goal
  BY DEF listVars, boardVars, detailVars, sendVars, gateVars, linkVars, secretVars, dialogVars,
         List!vars, Board!vars, Detail!vars, Send!vars, Gate!vars, Link!vars, Secret!vars, Dialog!vars
<1>2. CASE UNCHANGED <<scenario, pageVars>>
  BY <1>2 DEF pageVars
<1>3. CASE UNCHANGED allVars  BY <1>2, <1>3 DEF allVars
<1>4. CASE Clients
  <2>1. UNCHANGED pageVars  BY <1>4 DEF Clients
  <2>2. CASE Services
    BY <2>1, <2>2, <1>2 DEF Services, MCNext, Limits, LimitsOf, Sweeps, Shutdowns, Requests
  <2>3. CASE Logins \/ Administers \/ UsesKeys \/ Ingests
    BY <2>1, <2>3, <1>2 DEF Logins, Administers, UsesKeys, Ingests
  <2>. QED  BY <1>4, <2>2, <2>3 DEF Clients, ApiNext
<1>5. CASE ListSteps  BY <1>5 DEF ListSteps
<1>6. CASE DetailSteps  BY <1>6 DEF DetailSteps
<1>7. CASE BoardSteps  BY <1>7 DEF BoardSteps
<1>8. CASE SendSteps  BY <1>8 DEF SendSteps
<1>9. CASE GateSteps  BY <1>9 DEF GateSteps
<1>10. CASE LinkSteps  BY <1>10 DEF LinkSteps
<1>11. CASE SecretSteps  BY <1>11 DEF SecretSteps
<1>12. CASE DialogSteps  BY <1>12 DEF DialogSteps
<1>. QED  BY <1>3, <1>4, <1>5, <1>6, <1>7, <1>8, <1>9, <1>10, <1>11, <1>12
          DEF ConsoleNext, Pages

\* At the start the page that runs has its invariant, and every step keeps it.
LEMMA PagesInvHolds == ConsoleSpec => []PagesInv
<1>1. ConsoleInit => PagesInv
  BY PagesStart, ListInitInv, BoardInitInv, DetailInitInv, SendInitInv, GateInitInv, LinkInitInv, SecretInitInv, DialogInitInv DEF PagesInv
<1>2. PagesInv /\ [ConsoleNext]_allVars => PagesInv'
  <2>. SUFFICES ASSUME PagesInv, [ConsoleNext]_allVars PROVE PagesInv'  OBVIOUS
  <2>1. (scenario = "list" => ListInv)'  BY PagesStep, ListStepInv DEF PagesInv
  <2>2. (scenario = "dashboard" => BoardInv)'  BY PagesStep, BoardStepInv DEF PagesInv
  <2>3. (scenario = "detail" => DetailInv)'  BY PagesStep, DetailStepInv DEF PagesInv
  <2>4. (scenario = "send" => SendInv)'  BY PagesStep, SendStepInv DEF PagesInv
  <2>5. (scenario = "gate" => GateInv)'  BY PagesStep, GateStepInv DEF PagesInv
  <2>6. (scenario = "links" => LinkInv)'  BY PagesStep, LinkStepInv DEF PagesInv
  <2>7. (scenario = "secrets" => SecretInv)'  BY PagesStep, SecretStepInv DEF PagesInv
  <2>8. (scenario = "dialogs" => DialogInv)'  BY PagesStep, DialogStepInv DEF PagesInv
  <2>. QED  BY <2>1, <2>2, <2>3, <2>4, <2>5, <2>6, <2>7, <2>8 DEF PagesInv
<1>. QED  BY <1>1, <1>2, PTL DEF ConsoleSpec

\* A retried form makes no second event and the event shown is the last one, a link's page
\* is about its own link, a secret that is shown is the current one, and a dialog's text is of
\* its own opening (SendEvent.tsx, AcceptInvite.tsx, the dialogs).
THEOREM FormsDoBelong == ConsoleSpec => []FormsBelong
<1>1. PagesInv => FormsBelong
  BY SendInvGives DEF PagesInv, FormsBelong, LinkInv, SecretInv, DialogInv
<1>. QED  BY <1>1, PagesInvHolds, PTL

\* A detail page shows the item of its route, and offers a replay only once it has news
\* of the last one (useDetailFetch.ts, DeliveryDetail.tsx).
THEOREM DetailsAreHonest == ConsoleSpec => []DetailIsHonest
<1>1. PagesInv => DetailIsHonest  BY DetailInvTypes DEF PagesInv, DetailIsHonest
<1>. QED  BY <1>1, PagesInvHolds, PTL

\* A list shows rows of its own session, filter and page only, none older than a change
\* the user was told of, and "nothing" only when there is nothing (usePaginatedList.ts).
THEOREM ListsAreHonest == ConsoleSpec => []ListIsHonest
<1>1. PagesInv => ListIsHonest  BY ListInvGives DEF PagesInv, ListIsHonest
<1>. QED  BY <1>1, PagesInvHolds, PTL

\* The dashboard keeps no snapshot older than what cleared it, lists the newest activity,
\* is blank only under an error, and sends nobody with traffic to the first steps
\* (useDashboardSnapshot.ts, Dashboard.tsx).
THEOREM DashboardsAreHonest == ConsoleSpec => []DashboardIsHonest
<1>1. PagesInv => DashboardIsHonest  BY BoardInvGives DEF PagesInv, DashboardIsHonest
<1>. QED  BY <1>1, PagesInvHolds, PTL

\* The variables of every service, request and page that runs have their types.
THEOREM AllTyped == ConsoleSpec => []ServicesTypeOK
<1>1. TypesOK /\ ApiTypesOK /\ PagesInv => ServicesTypeOK
  BY ListInvTypes, DetailInvTypes, BoardInvTypes, SendInvTypes, GateInvTypes, LinkInvTypes,
     SecretInvTypes, DialogInvTypes
     DEF PagesInv, ServicesTypeOK
<1>. QED  BY <1>1, ServicesTyped, ApiTyped, PagesInvHolds, PTL

\* Answers that come late or out of order never bring an older state back, on any page
\* (usePaginatedList.ts, useDetailFetch.ts, useDashboardSnapshot.ts, SendEvent.tsx,
\* SessionProvider.tsx).
THEOREM NothingGrowsOlder == ConsoleSpec => NeverOlder
<1>. DEFINE Later == /\ scenario = "list" => List!NeverOlder
                     /\ scenario = "detail" => Detail!NeverOlder
                     /\ scenario = "dashboard" => Board!NeverOlder
                     /\ scenario = "send" => Send!NeverOlder
                     /\ scenario = "gate" => Gate!NeverOlder
<1>1. PagesInv /\ [ConsoleNext]_allVars => Later
  <2>. SUFFICES ASSUME PagesInv, [ConsoleNext]_allVars PROVE Later  OBVIOUS
  <2>1. scenario = "list" => List!NeverOlder  BY PagesStep, ListStep DEF PagesInv
  <2>2. scenario = "detail" => Detail!NeverOlder  BY PagesStep, DetailStep DEF PagesInv
  <2>3. scenario = "dashboard" => Board!NeverOlder  BY PagesStep, BoardStep DEF PagesInv
  <2>4. scenario = "send" => Send!NeverOlder  BY PagesStep, SendNeverOlderStep DEF PagesInv
  <2>5. scenario = "gate" => Gate!NeverOlder  BY PagesStep, GateStep DEF PagesInv
  <2>. QED  BY <2>1, <2>2, <2>3, <2>4, <2>5
<1>2. PagesInv /\ [ConsoleNext]_allVars => [Later]_allVars
  BY <1>1
<1>. QED  BY <1>2, PagesInvHolds, PTL DEF ConsoleSpec, NeverOlder

\* The login keeps its banner and its way back, nobody is sent around in circles, a secret
\* goes only once it is saved, a revocation or a deletion closes its own dialog
\* (SessionProvider.tsx, Login.tsx, SettingsApiKeyDialogs.tsx, Endpoints.tsx).
THEOREM NothingTakenAway == ConsoleSpec => NotTakenAway
<1>. DEFINE Kept == /\ scenario = "gate" => Gate!NoFalseLogout /\ Gate!HandoffKept /\ Gate!FewHops'
                    /\ scenario = "secrets" => Secret!CloseOnlySaved /\ Secret!RevokeClosesOwn
                    /\ scenario = "dialogs" => Dialog!DeletionClosesOwn
<1>1. PagesInv /\ [ConsoleNext]_allVars => Kept
  <2>. SUFFICES ASSUME PagesInv, [ConsoleNext]_allVars PROVE Kept  OBVIOUS
  <2>1. scenario = "gate" => Gate!NoFalseLogout /\ Gate!HandoffKept /\ Gate!FewHops'
    BY PagesStep, GateStep DEF PagesInv
  <2>2. scenario = "secrets" => Secret!CloseOnlySaved /\ Secret!RevokeClosesOwn
    BY PagesStep, SecretStep DEF PagesInv
  <2>3. scenario = "dialogs" => Dialog!DeletionClosesOwn
    BY PagesStep, DeletionStep DEF PagesInv
  <2>. QED  BY <2>1, <2>2, <2>3
<1>2. PagesInv /\ [ConsoleNext]_allVars => [Kept]_allVars
  BY <1>1
<1>. QED  BY <1>2, PagesInvHolds, PTL DEF ConsoleSpec, NotTakenAway
=============================================================================
