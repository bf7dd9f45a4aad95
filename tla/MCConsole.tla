------------------------------ MODULE MCConsole ------------------------------
(* The pages of the web console, added to the services of MCApi: one of them a behaviour. *)
EXTENDS MCApi

CONSTANTS Slots, ReadOnly,                                  \* of several pages
          Filters, MaxVer, MaxMoves,                        \* ListFetch
          Items, MaxRuns, MaxSteps,                         \* DetailFetch
          Loads, Recent, MaxLog, BoardTurns,                \* Dashboard
          Typed, Broken, MaxSend, SendTurns,                \* SendEvent
          GateTurns,                                        \* SessionGate
          Asks, LinkTurns,                                  \* LinkPages
          Single, SecretTurns,                              \* SecretsOnce
          Kinds, DialogTurns                                \* TargetDialogs

\* Ids count from 1, turns are bounded, no filter stands for none, the log starts with two
\* rows, and a payload may be fit to be sent.
ASSUME ListAssumption ==
    Slots \subseteq Nat \ {0} /\ MaxVer \in Nat /\ Filters # {} /\ "none" \notin Filters
ASSUME BoardAssumption ==
    Loads \subseteq Nat \ {0} /\ Recent \in Nat /\ MaxLog \in Nat /\ MaxLog >= 2
ASSUME DetailAssumption == Slots \subseteq Nat \ {0} /\ Items \subseteq Nat \ {0} /\ 1 \in Items
ASSUME SendAssumption ==
    /\ Slots \subseteq Nat \ {0} /\ MaxSend \in Nat \ {0}
    /\ Broken \in Typed /\ Typed \ {Broken} # {}
ASSUME GateAssumption == GateTurns \in Nat
ASSUME AskAssumption == Asks \subseteq Nat \ {0}
ASSUME SecretAssumption == Single \subseteq {"rotate", "create", "invite"} /\ SecretTurns \in Nat
ASSUME DialogAssumption == Kinds \subseteq {"edit", "rename", "delete", "remove"} /\ DialogTurns \in Nat

VARIABLES
    turns,      \* what users and failures have done on the page that runs
    list, listPage, listCalls, latest, abort, listSaved, server, toggle, ghost,
    kind, view, fetches, current, detailHeld, replays, items, replayable, detailTold,
    log, done, night, day, ends, changes, dash, loads, held, boardSaved, cleared,
    gate, form, result, seen, post, status, checking, events, targets, sent,
    who, session, loading, error, newest, getMe, path, nav, handed, request, hops,
    signedIn, link, empty, linkSession, page, learnt, learning, typed, asks, ask, due,
    linkPost, stored,
    secrets, secretOf, issued, foreign, secretFlights, shown, saved, ticked, secretBusy,
    secretTarget, revoking, secretRows, secretTold,
    text, rows, told, target, field, opening, busy, flights

List == INSTANCE ListFetch WITH
    Keys <- Filters, page <- listPage, calls <- listCalls, saved <- listSaved, moves <- turns
Detail == INSTANCE DetailFetch WITH
    held <- detailHeld, active <- replayable, steps <- turns, told <- detailTold
Board == INSTANCE Dashboard WITH
    MaxTurns <- BoardTurns, clock <- changes, saved <- boardSaved
Send == INSTANCE SendEvent WITH
    MaxKey <- MaxSend, Bodies <- Typed, MaxTurns <- SendTurns, busy <- checking,
    endpoints <- targets, made <- sent
Gate == INSTANCE SessionGate WITH MaxTurns <- GateTurns, latest <- newest, calls <- getMe
Link == INSTANCE LinkPages WITH
    MaxTurns <- LinkTurns, who <- signedIn, session <- linkSession, view <- learnt,
    loading <- learning, post <- linkPost
Secret == INSTANCE SecretsOnce WITH
    MaxTurns <- SecretTurns, keys <- secrets, current <- secretOf, flights <- secretFlights,
    busy <- secretBusy, target <- secretTarget, rows <- secretRows, told <- secretTold
Dialog == INSTANCE TargetDialogs WITH MaxTurns <- DialogTurns

listVars == <<list, listPage, listCalls, latest, abort, listSaved, server, toggle, ghost>>
detailVars == <<kind, view, fetches, current, detailHeld, replays, items, replayable,
                detailTold>>
boardVars == <<log, done, night, day, ends, changes, dash, loads, held, boardSaved,
               cleared>>
sendVars == <<gate, form, result, seen, post, status, checking, events, targets, sent>>
gateVars == <<who, session, loading, error, newest, getMe, path, nav, handed, request,
              hops>>
linkVars == <<signedIn, link, empty, linkSession, page, learnt, learning, typed, asks, ask,
              due, linkPost, stored>>
secretVars == <<secrets, secretOf, issued, foreign, secretFlights, shown, saved, ticked,
                secretBusy, secretTarget, revoking, secretRows, secretTold>>
dialogVars == <<text, rows, told, target, field, opening, busy, flights>>
pageVars == <<turns, listVars, detailVars, boardVars, sendVars, gateVars, linkVars,
              secretVars, dialogVars>>
allVars == <<scenario, serviceVars, apiVars, pageVars>>

----------------------------------------------------------------------------
\* A page that does not run stays in a state in which it waits for nothing.
ListIdle ==
    /\ list = "log" /\ listPage = List!Closed(1) /\ server = [ver |-> 0, pages |-> 1]
    /\ listCalls = [n \in Slots |-> List!NoCall] /\ latest = 0 /\ abort = 0
    /\ listSaved = List!NoRows /\ toggle = List!NoToggle
    /\ ghost = [told |-> 0, cleared |-> 0, dropped |-> FALSE]
DetailIdle ==
    /\ kind = "event" /\ view = [Detail!Opened(1) EXCEPT !.seen = 1, !.loading = FALSE, !.error = TRUE]
    /\ fetches = [n \in Slots |-> Detail!NoFetch] /\ current = 0 /\ detailHeld = 0
    /\ replays = [i \in Items |-> Detail!NoReplay] /\ replayable = TRUE
    /\ items = [i \in Items |-> [st |-> "failed", ver |-> 0]] /\ detailTold = [i \in Items |-> 0]
BoardIdle ==
    /\ log = <<"event", "bad">> /\ done = 2 /\ night = 2 /\ day = 2
    /\ ends = [active |-> 1, disabled |-> 0] /\ changes = 0 /\ dash = Board!Closed
    /\ loads = [n \in Loads |-> Board!NoLoad] /\ held = 0 /\ boardSaved = Board!NoSnapshot
    /\ cleared = 0
SendIdle ==
    /\ gate = "closed" /\ form = Send!Initial(1) /\ result = Send!NoEvent /\ seen = Send!NoEvent
    /\ post = Send!NoPost /\ status = [n \in Slots |-> Send!NoCall] /\ checking = 0
    /\ events = [k \in Send!Ids |-> [body |-> Broken, ver |-> 0, open |-> FALSE]]
    /\ targets = "none" /\ sent = 0
GateIdle ==
    /\ who = Gate!NoOne /\ session = Gate!Unknown /\ loading = FALSE /\ error = FALSE
    /\ newest = 1 /\ getMe = [n \in Gate!Requests |-> Gate!NoCall]
    /\ path = "login" /\ nav = Gate!NoNav /\ handed = FALSE /\ request = Gate!NoRequest /\ hops = 0
LinkIdle ==
    /\ signedIn = FALSE /\ empty = FALSE
    /\ link = [t \in Link!Links |-> [kind |-> IF t = "i1" THEN "invite" ELSE "reset", open |-> TRUE]]
    /\ linkSession = [in |-> FALSE, loading |-> FALSE, error |-> FALSE]
    /\ page = Link!Page("login", "none") /\ learnt = Link!Blank /\ learning = FALSE
    /\ typed = "none" /\ asks = [n \in Asks |-> Link!NoAsk] /\ ask = 0 /\ due = FALSE
    /\ linkPost = Link!NoPost /\ stored = "none"

ConsoleInit ==
    /\ ApiInit
    /\ turns = 0
    /\ IF scenario = "list" THEN List!Init ELSE ListIdle
    /\ IF scenario = "detail" THEN Detail!Init ELSE DetailIdle
    /\ IF scenario = "dashboard" THEN Board!Init ELSE BoardIdle
    /\ IF scenario = "send" THEN Send!Init ELSE SendIdle
    /\ IF scenario = "gate" THEN Gate!Init ELSE GateIdle
    /\ IF scenario = "links" THEN Link!Init ELSE LinkIdle
    /\ Secret!Init /\ Dialog!Init

Clients == ApiNext /\ UNCHANGED pageVars

ListSteps ==
    /\ scenario = "list" /\ List!Next
    /\ UNCHANGED <<scenario, serviceVars, apiVars,
                   detailVars, boardVars, sendVars, gateVars, linkVars, secretVars, dialogVars>>

DetailSteps ==
    /\ scenario = "detail" /\ Detail!Next
    /\ UNCHANGED <<scenario, serviceVars, apiVars,
                   listVars, boardVars, sendVars, gateVars, linkVars, secretVars, dialogVars>>

BoardSteps ==
    /\ scenario = "dashboard" /\ Board!Next
    /\ UNCHANGED <<scenario, serviceVars, apiVars,
                   listVars, detailVars, sendVars, gateVars, linkVars, secretVars, dialogVars>>

SendSteps ==
    /\ scenario = "send" /\ Send!Next
    /\ UNCHANGED <<scenario, serviceVars, apiVars,
                   listVars, detailVars, boardVars, gateVars, linkVars, secretVars, dialogVars>>

GateSteps ==
    /\ scenario = "gate" /\ Gate!Next
    /\ UNCHANGED <<scenario, serviceVars, apiVars,
                   listVars, detailVars, boardVars, sendVars, linkVars, secretVars, dialogVars>>

LinkSteps ==
    /\ scenario = "links" /\ Link!Next
    /\ UNCHANGED <<scenario, serviceVars, apiVars,
                   listVars, detailVars, boardVars, sendVars, gateVars, secretVars, dialogVars>>

SecretSteps ==
    /\ scenario = "secrets" /\ Secret!Next
    /\ UNCHANGED <<scenario, serviceVars, apiVars,
                   listVars, detailVars, boardVars, sendVars, gateVars, linkVars, dialogVars>>

DialogSteps ==
    /\ scenario = "dialogs" /\ Dialog!Next
    /\ UNCHANGED <<scenario, serviceVars, apiVars,
                   listVars, detailVars, boardVars, sendVars, gateVars, linkVars, secretVars>>

Pages ==
    \/ ListSteps \/ DetailSteps \/ BoardSteps \/ SendSteps
    \/ GateSteps \/ LinkSteps \/ SecretSteps \/ DialogSteps

ConsoleNext == Clients \/ Pages
ConsoleSpec == ConsoleInit /\ [][ConsoleNext]_allVars

----------------------------------------------------------------------------
\* The properties are those of the modules, where they are explained, of the one that runs.

\* The variables of the service or page that runs have their types.
ServicesTypeOK ==
    /\ TypesOK /\ ApiTypesOK
    /\ scenario = "list" => List!TypeOK
    /\ scenario = "detail" => Detail!TypeOK
    /\ scenario = "dashboard" => Board!TypeOK
    /\ scenario = "send" => Send!TypeOK
    /\ scenario = "gate" => Gate!TypeOK
    /\ scenario = "links" => Link!TypeOK
    /\ scenario = "secrets" => Secret!TypeOK
    /\ scenario = "dialogs" => Dialog!TypeOK

\* A list shows rows of its own session, filter and page only, none older than a change
\* the user was told of, and "nothing" only when there is nothing (usePaginatedList.ts).
ListIsHonest == scenario = "list" => List!ListIsHonest

\* A detail page shows the item of its route, and offers a replay only once it has news
\* of the last one (useDetailFetch.ts, DeliveryDetail.tsx).
DetailIsHonest == scenario = "detail" => Detail!DetailIsHonest

\* The dashboard keeps no snapshot older than what cleared it, lists the newest activity,
\* is blank only under an error, and sends nobody with traffic to the first steps
\* (useDashboardSnapshot.ts, Dashboard.tsx).
DashboardIsHonest == scenario = "dashboard" => Board!DashboardIsHonest

\* What a form, a link's page or a dialog holds is about the thing it is shown for.
FormsBelong ==
    /\ scenario = "send" => Send!RetryMakesNoSecond /\ Send!ShownIsLast
    /\ scenario = "links" => Link!LinkIsOwn
    /\ scenario = "secrets" => Secret!ShownIsCurrent
    /\ scenario = "dialogs" => Dialog!TextOfOpening

\* Answers that come late or out of order never bring an older state back, on any page.
NeverOlder ==
    [][/\ scenario = "list" => List!NeverOlder
       /\ scenario = "detail" => Detail!NeverOlder
       /\ scenario = "dashboard" => Board!NeverOlder
       /\ scenario = "send" => Send!NeverOlder
       /\ scenario = "gate" => Gate!NeverOlder]_allVars

\* What belongs to somebody is not ended by the late step of somebody else.
OwnersOnly ==
    [][/\ scenario = "sweeper" => Sweeper!OwnerReleases
       /\ scenario = "login" => Login!CurrentSessionsKept
       /\ scenario = "accounts" => Account!UsersStay
       /\ scenario = "keys" => ApiKey!TouchedSparingly]_allVars

\* What the user has before him goes away only for the reason it should.
NotTakenAway ==
    [][/\ scenario = "gate" => Gate!NoFalseLogout /\ Gate!HandoffKept /\ Gate!FewHops'
       /\ scenario = "secrets" => Secret!CloseOnlySaved /\ Secret!RevokeClosesOwn
       /\ scenario = "dialogs" => Dialog!DeletionClosesOwn]_allVars
=============================================================================
