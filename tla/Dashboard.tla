------------------------------ MODULE Dashboard ------------------------------
(***************************************************************************)
(* The dashboard: useDashboardSnapshot puts together one snapshot of several *)
(* calls, each answered at its own time, keeps it in the page cache, and      *)
(* polls.  The workspace goes on meanwhile: events come in, deliveries end,    *)
(* endpoints are made and disabled, a day begins.                            *)
(***************************************************************************)
EXTENDS Integers, Sequences, FiniteSets

CONSTANTS Loads,                  \* ids of the loads in flight
          Recent,                 \* rows of a list, 5 in the code
          ReadOnly,               \* the workspace is read only
          MaxLog, MaxTurns        \* bounds of the model

VARIABLES
    log,       \* what was created, in order: "event", or a delivery, "good" or "bad"
    done,      \* deliveries up to here have ended
    night,     \* what was created up to here was created before midnight
    day,       \* deliveries up to here ended more than 24 hours ago
    ends,      \* [active, disabled |-> number of endpoints]
    clock,     \* number of changes of the above
    dash,      \* the hook's state
    loads,     \* [Loads -> load in flight]
    held,      \* the load abortRef holds, 0 for none
    saved,     \* the cached snapshot
    turns,     \* what users and failures have done so far
    cleared    \* ghost: the time of the last clear of the cache

vars == <<log, done, night, day, ends, clock, dash, loads, held, saved, turns, cleared>>

\* The answers a snapshot is made of. The three queries of stats count as one.
Parts == {"stats", "disabled", "events", "deliveries", "active"}
First == Parts \ {"active"}
Unread == [at |-> -1]
NoSnapshot == [p \in Parts |-> Unread]
NoLoad == [st |-> "none", mine |-> FALSE, aborted |-> FALSE, fresh |-> FALSE,
           parts |-> NoSnapshot, failed |-> FALSE]
Mounted(snapshot) ==
    [open |-> TRUE, ran |-> FALSE, snapshot |-> snapshot, error |-> FALSE,
     initial |-> snapshot = NoSnapshot, live |-> FALSE, refreshing |-> snapshot # NoSnapshot]
Closed == [Mounted(NoSnapshot) EXCEPT !.open = FALSE]

TypeOK ==
    /\ Len(log) <= MaxLog /\ done \in 0..Len(log) /\ night \in 0..Len(log) /\ day \in 0..done
    /\ \A n \in Loads : loads[n].st \in {"none", "sent", "failed", "denied"}
    /\ held \in {0} \cup Loads
    /\ DOMAIN dash.snapshot = Parts /\ DOMAIN saved = Parts

Init ==
    /\ log = <<"event", "bad">> /\ done \in {0, 2} /\ day = done /\ night = 2    \* of yesterday
    /\ ends = [active |-> 1, disabled |-> 0]
    /\ clock = 0
    /\ dash = Mounted(NoSnapshot)
    /\ loads = [n \in Loads |-> NoLoad]
    /\ held = 0
    /\ saved = NoSnapshot
    /\ turns = 0
    /\ cleared = 0

tenantVars == <<log, done, night, day, ends, clock>>
Turn == turns < MaxTurns /\ turns' = turns + 1
Free == {n \in Loads : loads[n].st = "none"}
NewLoad == CHOOSE n \in Free : TRUE

----------------------------------------------------------------------------
\* The answers of the API.
Events == {i \in 1..Len(log) : log[i] = "event"}
Deliveries == 1..Len(log) \ Events
\* The newest of some rows, up to the limit.
Newest(rows) == {i \in rows : Cardinality({j \in rows : j > i}) < Recent}

\* The first page of a list.
Listed(rows) == Newest(rows)

Open == {i \in Deliveries : i > done}
Final(outcome) == {i \in Deliveries : i <= done /\ i > day /\ log[i] = outcome}
\* loadTenantStats
Stats == [at |-> clock, today |-> Cardinality({i \in Events : i > night}),
          active |-> Cardinality(Open),
          succeeded |-> Cardinality(Final("good")),
          failed |-> Cardinality(Final("bad"))]
Answer(part) ==
    CASE part = "stats" -> Stats
      [] part = "disabled" -> [at |-> clock, some |-> ends.disabled > 0]
      [] part = "active" -> [at |-> clock, some |-> ends.active > 0]
      [] part = "events" -> [at |-> clock, rows |-> Listed(Events)]
      [] part = "deliveries" -> [at |-> clock, rows |-> Listed(Deliveries)]

HasData(stats) ==
    stats.today > 0 \/ stats.active > 0 \/ stats.succeeded > 0 \/ stats.failed > 0

----------------------------------------------------------------------------
Complete(n) ==
    LET parts == loads[n].parts IN
    /\ \A p \in First : parts[p] # Unread
    /\ HasData(parts["stats"]) \/ parts["active"] # Unread \/ loads[n].failed

\* The calls of an aborted load end; one whose calls all came back may still be taken.
AbortedLoad(n) ==
    [loads[n] EXCEPT !.aborted = TRUE,
                     !.parts = IF Complete(n) \/ loads[n].st # "sent" THEN @ ELSE NoSnapshot]

\* load
Begins(d) ==
    /\ Free # {}
    /\ loads' = [n \in Loads |->
         CASE n = NewLoad -> [NoLoad EXCEPT !.st = "sent", !.mine = TRUE, !.fresh = TRUE]
           [] n # NewLoad /\ n = held -> AbortedLoad(n)
           [] OTHER -> loads[n]]
    /\ held' = NewLoad
    /\ dash' = [d EXCEPT !.refreshing = TRUE]

Mounts ==
    /\ dash.open /\ ~dash.ran
    /\ Begins([dash EXCEPT !.ran = TRUE])
    /\ UNCHANGED <<tenantVars, saved, turns, cleared>>

\* stale: aborted, or older than a clear of the cache.
Stale(n) == loads[n].aborted \/ ~loads[n].fresh

\* One of the calls of a load is answered; active endpoints are asked for last,
\* and only when there is no data.
Reads(n, part) ==
    LET parts == loads[n].parts IN
    /\ loads[n].st = "sent" /\ ~loads[n].aborted
    /\ parts[part] = Unread
    /\ part = "active" =>
         (\A p \in First : parts[p] # Unread) /\ ~HasData(parts["stats"]) /\ ~loads[n].failed
    /\ \/ /\ loads' = [loads EXCEPT ![n].parts[part] = Answer(part)]
          /\ UNCHANGED turns
       \/ /\ Turn
          /\ IF part = "active"
             THEN loads' = [loads EXCEPT ![n].failed = TRUE]
             ELSE \E st \in {"failed", "denied"} : loads' = [loads EXCEPT ![n].st = st]
    /\ UNCHANGED <<tenantVars, dash, held, saved, cleared>>

EndsInitial(n) == ~Stale(n)

\* abortRef still holds the load.
Owns(n) == held = n

\* finally, for a load whose page is still there.
Ends(n, d) ==
    /\ dash' = IF loads[n].mine
               THEN [d EXCEPT !.refreshing = @ /\ ~Owns(n), !.initial = @ /\ ~EndsInitial(n)]
               ELSE dash
    /\ held' = IF Owns(n) THEN 0 ELSE held
    /\ UNCHANGED <<tenantVars, turns>>

Takes(n) ==
    /\ loads[n].st = "sent" /\ Complete(n) /\ ~Stale(n)
    /\ saved' = loads[n].parts
    /\ loads' = [loads EXCEPT ![n] = NoLoad]
    /\ Ends(n, [dash EXCEPT !.snapshot = loads[n].parts, !.error = FALSE, !.live = TRUE])
    /\ UNCHANGED cleared

\* Faulty: a clear leaves the generation as it is.
OutdatedNone(ls) == ls

Outdated(ls) == [n \in Loads |-> [ls[n] EXCEPT !.fresh = FALSE]]

Fails(n) ==
    LET denied == loads[n].st = "denied" IN
    /\ loads[n].st \in {"failed", "denied"} /\ ~Stale(n)
    /\ loads' = [IF denied THEN Outdated(loads) ELSE loads EXCEPT ![n] = NoLoad]
    /\ saved' = IF denied THEN NoSnapshot ELSE saved
    /\ cleared' = IF denied THEN clock ELSE cleared
    /\ Ends(n, [dash EXCEPT !.snapshot = IF denied THEN NoSnapshot ELSE @, !.error = TRUE,
                            !.live = FALSE])

\* A load that was aborted, or is stale when it is complete or fails.
Drops(n) ==
    /\ loads[n].st # "none" /\ Stale(n)
    /\ loads[n].aborted \/ loads[n].st # "sent" \/ Complete(n)
    /\ loads' = [loads EXCEPT ![n] = NoLoad]
    /\ Ends(n, dash)
    /\ UNCHANGED <<saved, cleared>>

Polls ==
    /\ dash.open /\ dash.ran /\ held = 0
    /\ Begins(dash)
    /\ UNCHANGED <<tenantVars, saved, turns, cleared>>

----------------------------------------------------------------------------
\* What the page renders. Skeleton, page or nothing; the banners above it.
Loaded == dash.snapshot # NoSnapshot
Body == CASE dash.initial /\ ~Loaded -> "skeleton" [] Loaded -> "page" [] OTHER -> "blank"
Chip == CASE dash.refreshing /\ Loaded -> "updating"
          [] ~(dash.refreshing /\ Loaded) /\ dash.live -> "live"
          [] OTHER -> "none"
Data == Loaded /\ HasData(dash.snapshot["stats"])

\* buildOnboardingSteps
Steps(s) ==
    LET active == s["active"] # Unread /\ s["active"].some IN
    [create |-> active \/ ~s["disabled"].some, endpoint |-> active,
     event |-> s["events"].rows # {}, deliveries |-> s["deliveries"].rows # {}]
\* OnboardingStepRow: a step that is not done is a link.
ToDo(steps) == {step \in DOMAIN steps \ {"create"} : ~steps[step]}
\* EmptyDashboardCTA, absent when the endpoints could not be read.
Onboarding ==
    /\ Loaded /\ ~ReadOnly /\ ~Data /\ dash.snapshot["active"] # Unread
    /\ ToDo(Steps(dash.snapshot)) # {}

\* LiveMetrics
Metrics == LET s == dash.snapshot["stats"] IN <<s.today, s.active>>

\* buildAttentionItems
AttentionItems(s) ==
    {item \in {"failed", "active", "disabled"} :
        /\ item = "failed" => s["stats"].failed > 0
        /\ item = "active" => s["stats"].active > 0
        /\ item = "disabled" => s["disabled"].some}
\* AttentionStrip
Attention == IF Data THEN AttentionItems(dash.snapshot) ELSE {}

\* OutcomesPanel: rate of the final deliveries, as a pair, <<0, 0>> for no data yet.
Outcomes == LET s == dash.snapshot["stats"] IN <<s.succeeded, s.succeeded + s.failed>>

\* buildActivity: both lists, newest first, up to the limit of one.
Activity(events, deliveries) == Newest(events \cup deliveries)
ActivityShown == Activity(dash.snapshot["events"].rows, dash.snapshot["deliveries"].rows)

----------------------------------------------------------------------------
\* The button of RecentActivity loads again, also while a load is under way.
Refreshes ==
    /\ dash.open /\ dash.ran /\ Body = "page"
    /\ Begins(dash)
    /\ UNCHANGED <<tenantVars, saved, turns, cleared>>

Leave ==
    /\ dash.open /\ dash.ran /\ Turn
    /\ dash' = Closed
    /\ loads' = [n \in Loads |->
         [IF n = held THEN AbortedLoad(n) ELSE loads[n] EXCEPT !.mine = FALSE]]
    /\ held' = 0
    /\ UNCHANGED <<tenantVars, saved, cleared>>

Enter ==
    /\ ~dash.open
    /\ \E expired \in BOOLEAN :
         /\ saved' = IF expired THEN NoSnapshot ELSE saved
         /\ dash' = Mounted(IF expired THEN NoSnapshot ELSE saved)
    /\ UNCHANGED <<tenantVars, loads, held, turns, cleared>>

\* Another page's request changed the workspace, and its answer clears the cache.
ClearedElsewhere ==
    /\ cleared < clock
    /\ saved' = NoSnapshot
    /\ loads' = Outdated(loads)
    /\ cleared' = clock
    /\ UNCHANGED <<tenantVars, dash, held, turns>>

----------------------------------------------------------------------------
\* The workspace.
Changed == clock' = clock + 1 /\ Turn /\ UNCHANGED <<dash, loads, held, saved, cleared>>
Ingests ==
    /\ Changed /\ Len(log) + 2 <= MaxLog
    /\ \E outcome \in {"good", "bad"} :
         log' = log \o (IF ends.active > 0 THEN <<"event", outcome>> ELSE <<"event">>)
    /\ UNCHANGED <<done, night, day, ends>>
Delivers ==
    /\ Changed /\ done < Len(log)
    /\ done' = Len(log)
    /\ UNCHANGED <<log, night, day, ends>>
Midnight ==
    /\ Changed /\ night < Len(log)
    /\ night' = Len(log)
    /\ UNCHANGED <<log, done, day, ends>>
\* 24 hours after the last delivery ended.
DayEnds ==
    /\ Changed /\ day < done
    /\ day' = done /\ night' = Len(log)
    /\ UNCHANGED <<log, done, ends>>
Toggles ==
    /\ Changed
    /\ \/ ends.active > 0 /\ ends' = [active |-> ends.active - 1, disabled |-> ends.disabled + 1]
       \/ ends.disabled > 0 /\ ends' = [active |-> ends.active + 1, disabled |-> ends.disabled - 1]
    /\ UNCHANGED <<log, done, night, day>>

Arrives(n) == Takes(n) \/ Fails(n) \/ Drops(n)
Next ==
    \/ \E n \in Loads : Arrives(n) \/ \E part \in Parts : Reads(n, part)
    \/ Mounts \/ Polls \/ Refreshes \/ Leave \/ Enter \/ ClearedElsewhere
    \/ Ingests \/ Delivers \/ Midnight \/ DayEnds \/ Toggles

Fairness ==
    /\ WF_vars(Mounts) /\ WF_vars(Polls)
    /\ \A n \in Loads : WF_vars(Arrives(n) \/ \E part \in Parts : Reads(n, part))

Spec == Init /\ [][Next]_vars /\ Fairness

----------------------------------------------------------------------------
\* Of every part the page shows one read later than the one before: loads that
\* overlap do not bring an older state back.
NeverOlder ==
    dash.open /\ dash'.open /\ Loaded /\ dash'.snapshot # NoSnapshot =>
      \A p \in First : dash'.snapshot[p].at >= dash.snapshot[p].at

\* The cached snapshot was read after whatever made a page clear the cache.
SnapshotIsCurrent == saved # NoSnapshot => \A p \in First : saved[p].at >= cleared

\* Lists that were read at one time give the newest activity of that time: the
\* limit on either list hides nothing.
ActivityIsNewest ==
    Loaded /\ dash.snapshot["events"].at = clock /\ dash.snapshot["deliveries"].at = clock
      => \A i \in 1..Len(log) : i > Len(log) - Recent <=> i \in ActivityShown

\* The page is blank only under an error, also when the cache was cleared while it
\* loaded.
BlankIsError == dash.open /\ Body = "blank" => dash.error

\* A snapshot of one moment asks to get started only while no delivery is open,
\* and then nothing that it lists is of the last day or needs attention.
QuietWithoutData ==
    Onboarding /\ (\A p \in First : dash.snapshot[p].at = clock) =>
      /\ Deliveries \subseteq 1..done
      /\ ActivityShown \subseteq 1..night
      /\ Metrics = <<0, 0>> /\ Outcomes = <<0, 0>> /\ Attention = {}

\* What the dashboard shows.
DashboardIsHonest == SnapshotIsCurrent /\ ActivityIsNewest /\ BlankIsError /\ QuietWithoutData

\* Again and again: an open dashboard is loaded, whatever other pages clear meanwhile.
Settled == dash.open => Body # "skeleton"
=============================================================================
