------------------------------ MODULE SessionGate ------------------------------
(***************************************************************************)
(* Who the console thinks is signed in, and where it therefore lets the user *)
(* go: SessionProvider, the guards around the routes, the login page, signing *)
(* out, and the change of one's password.  The cookie may change under it, by *)
(* another tab or the API.  Guards and effects redirect one after another,    *)
(* while calls of getMe are under way.                                       *)
(***************************************************************************)
EXTENDS Integers

CONSTANTS MaxTurns      \* bound of the model

VARIABLES
    who,        \* whose session the cookie is, of the API
    session,    \* [as |-> who it is for the console, of |-> the request that said so]
    loading, error,
    latest,     \* requestRef
    calls,      \* [Requests -> call of getMe]
    path,       \* the page
    nav,        \* [banner |-> of a new password, from |-> the page to return to, of |-> ghost:
                \* the last request before the new password]
    handed,     \* passwordHandoffCleared of the mounted login page
    request,    \* the form or the sign-out under way
    turns,      \* what users, other tabs and failures have done so far
    hops        \* ghost: redirects since one of them did something or a form was done

vars == <<who, session, loading, error, latest, calls, path, nav, handed, request, turns, hops>>

Requests == 1..(MaxTurns + 1)

\* platform: super admin without a workspace; owner: with one; member: a user of one.
Roles == {"platform", "owner", "member"}
Admins == {"platform", "owner"}
NoOne == "none"
Protected == {"dashboard", "settings", "admin"}
NoNav == [banner |-> FALSE, from |-> "none", of |-> 0]
NoRequest == [kind |-> "none", st |-> "none", as |-> NoOne, from |-> "none", call |-> 0]
Unknown == [as |-> NoOne, of |-> 0]
NoCall == [st |-> "none", as |-> NoOne]

TypeOK ==
    /\ who \in Roles \cup {NoOne} /\ session.as \in Roles \cup {NoOne} /\ session.of \in 0..latest
    /\ latest \in Requests /\ path \in Protected \cup {"login"}
    /\ \A n \in Requests : calls[n].st \in {"none", "sent", "answered", "failed"}
    /\ request.kind \in {"none", "login", "logout", "password", "workspace"}
    /\ request.st \in {"none", "sent", "ok", "failed", "refresh"}

\* SessionProvider is mounted with the page, and asks.
Loaded(p, from) ==
    /\ session' = Unknown /\ loading' = TRUE /\ error' = FALSE
    /\ latest' = 1
    /\ calls' = [n \in Requests |-> IF n = 1 THEN [NoCall EXCEPT !.st = "sent"] ELSE NoCall]
    /\ path' = p /\ nav' = [NoNav EXCEPT !.from = from] /\ handed' = FALSE
    /\ request' = NoRequest

Init ==
    /\ who \in Roles \cup {NoOne}
    /\ session = Unknown /\ loading = TRUE /\ error = FALSE
    /\ latest = 1
    /\ calls = [n \in Requests |-> IF n = 1 THEN [NoCall EXCEPT !.st = "sent"] ELSE NoCall]
    /\ path \in Protected \cup {"login"} /\ nav = NoNav /\ handed = FALSE
    /\ request = NoRequest
    /\ turns = 0 /\ hops = 0

Turn == turns < MaxTurns /\ turns' = turns + 1 /\ hops' = 0
Quiet == UNCHANGED <<turns, hops>>

----------------------------------------------------------------------------
\* refresh
Refreshes ==
    /\ latest + 1 \in Requests
    /\ latest' = latest + 1
    /\ calls' = [calls EXCEPT ![latest + 1].st = "sent"]
    /\ loading' = TRUE /\ error' = FALSE

Answers(n) ==
    /\ calls[n].st = "sent"
    /\ \/ /\ calls' = [calls EXCEPT ![n] = [st |-> "answered", as |-> who]]
          /\ Quiet
       \/ /\ Turn
          /\ calls' = [calls EXCEPT ![n].st = "failed"]
    /\ UNCHANGED <<who, session, loading, error, latest, path, nav, handed, request>>

Superseded(n) == n # latest

EndsLoading(n) == ~Superseded(n)

Arrives(n) ==
    /\ calls[n].st \in {"answered", "failed"}
    /\ calls' = [calls EXCEPT ![n] = NoCall]
    /\ loading' = (loading /\ ~EndsLoading(n))
    /\ CASE Superseded(n) -> UNCHANGED <<session, error>>
         [] ~Superseded(n) /\ calls[n].st = "answered" ->
              session' = [as |-> calls[n].as, of |-> n] /\ UNCHANGED error
         [] ~Superseded(n) /\ calls[n].st = "failed" -> error' = TRUE /\ UNCHANGED session
    /\ UNCHANGED <<who, latest, path, nav, handed, request, turns, hops>>

----------------------------------------------------------------------------
\* getDefaultHomePath
HomeOf(role) == IF role = "platform" THEN "admin" ELSE "dashboard"

\* getPostLoginPath: back to where the user was, if the account can see it.
PostLogin(from, role) ==
    CASE from = "none" -> HomeOf(role)
      [] from = "dashboard" /\ role = "platform" -> "admin"
      [] OTHER -> from

\* RequireSession shows neither page nor login while it loads, and for an error.
Waits == loading \/ error

\* Faulty: a session sends the login page home at once.
KeepsBannerNever == FALSE

KeepsBanner == nav.banner

\* RequireSession
Guards ==
    /\ path \in Protected /\ ~Waits /\ session.as = NoOne
    /\ path' = "login" /\ nav' = [NoNav EXCEPT !.from = path] /\ handed' = FALSE

\* RequireTenantUser and RequireSuperAdmin
Misplaced == path = "dashboard" /\ session.as = "platform"
NoAdmin == path = "admin" /\ session.as \notin Admins \cup {NoOne}
SendsHome ==
    /\ path \in Protected /\ ~Waits /\ (Misplaced \/ NoAdmin)
    /\ path' = HomeOf(session.as) /\ nav' = NoNav /\ UNCHANGED handed

\* The first effect of the login page.
Leaves ==
    /\ path = "login" /\ ~loading /\ session.as # NoOne /\ ~KeepsBanner
    /\ path' = PostLogin(nav.from, session.as) /\ nav' = NoNav /\ UNCHANGED handed

Redirects ==
    /\ Guards \/ SendsHome \/ Leaves
    /\ hops' = IF hops < 4 THEN hops + 1 ELSE hops
    /\ UNCHANGED <<who, session, loading, error, latest, calls, request, turns>>

Shown ==
    path \in Protected /\ ~Waits /\ session.as # NoOne /\ ~Misplaced /\ ~NoAdmin

\* "Try again" of RequireSession.
TriesAgain ==
    /\ path \in Protected /\ ~loading /\ error /\ Turn
    /\ Refreshes
    /\ UNCHANGED <<who, session, path, nav, handed, request>>

----------------------------------------------------------------------------
\* The forms and the menu are there for one request at a time; the menu also while the
\* session loads again, the form of Admin for a super admin without a workspace.
LoginForm == path = "login" /\ request = NoRequest
AccountMenu == path \in Protected /\ session.as # NoOne /\ request = NoRequest
PasswordForm == path = "settings" /\ Shown /\ request = NoRequest
WorkspaceForm == path = "admin" /\ Shown /\ session.as = "platform" /\ request = NoRequest

\* A form is submitted, or the user signs out.
Sends(kind, role) ==
    /\ Turn
    /\ request' = [NoRequest EXCEPT !.kind = kind, !.st = "sent", !.as = role, !.from = nav.from]
    /\ UNCHANGED <<who, session, loading, error, latest, calls, path, nav, handed>>

LogsIn(role) == LoginForm /\ Sends("login", role)
LogsOut == AccountMenu /\ Sends("logout", NoOne)
ChangesPassword == PasswordForm /\ Sends("password", session.as)
CreatesWorkspace == WorkspaceForm /\ Sends("workspace", session.as)

\* The API: a login replaces the cookie's session, a sign-out and a new password end it.
Serves ==
    /\ request.st = "sent"
    /\ \/ /\ request.kind \in {"login", "logout"}
          /\ who' = request.as
          /\ request' = [request EXCEPT !.st = "ok"]
       \/ /\ request.kind = "password"
          /\ who' = IF request.as = who THEN NoOne ELSE who
          /\ request' = [request EXCEPT !.st = IF request.as = who THEN "ok" ELSE "failed"]
       \/ /\ request.kind = "workspace"
          /\ who' = IF who = "platform" THEN "owner" ELSE who
          /\ request' = [request EXCEPT !.st = IF who = "platform" THEN "ok" ELSE "failed"]
    /\ UNCHANGED <<session, loading, error, latest, calls, path, nav, handed, turns, hops>>

Loses ==
    /\ request.st = "sent" /\ Turn
    /\ request' = [request EXCEPT !.st = "failed"]
    /\ UNCHANGED <<who, session, loading, error, latest, calls, path, nav, handed>>

\* The answer: a login, a sign-out and a new workspace refresh the session first; a new password
\* leaves for the login page at once, its session still there.
Answered ==
    \/ /\ request.st = "ok" /\ request.kind # "password"
       /\ Refreshes
       /\ request' = [request EXCEPT !.st = "refresh", !.call = latest']
       /\ UNCHANGED <<who, session, path, nav, handed>> /\ Quiet
    \/ /\ request.st = "ok" /\ request.kind = "password"
       /\ path' = "login" /\ nav' = [banner |-> TRUE, from |-> "settings", of |-> latest] /\ handed' = FALSE
       /\ request' = NoRequest
       /\ UNCHANGED <<who, session, loading, error, latest, calls>> /\ Quiet
    \/ /\ request.st = "failed"
       /\ request' = NoRequest
       /\ UNCHANGED <<who, session, loading, error, latest, calls, path, nav, handed>> /\ Quiet

\* The refresh ended, whatever it said.
Lands ==
    /\ request.st = "refresh" /\ calls[request.call].st = "none"
    /\ path' = CASE request.kind = "login" -> PostLogin(request.from, request.as)
                 [] request.kind = "logout" -> "login"
                 [] request.kind = "workspace" -> "dashboard"
    /\ nav' = NoNav
    /\ handed' = FALSE
    /\ request' = NoRequest /\ hops' = 0
    /\ UNCHANGED <<who, session, loading, error, latest, calls, turns>>

\* The effect of the login page after a new password: ask once whether the session ended.
HandsOver == nav.banner /\ ~handed

Handoff ==
    /\ path = "login" /\ HandsOver
    /\ Refreshes
    /\ handed' = TRUE
    /\ UNCHANGED <<who, session, path, nav, request, turns, hops>>

----------------------------------------------------------------------------
\* sessionApiFetch: a call of the page was not authorised, and the browser leaves for
\* the login page.
Unauthorized ==
    /\ Shown /\ who = NoOne /\ Turn
    /\ Loaded("login", path)
    /\ UNCHANGED who

\* Links of the console, and of the login page.
Goes(p) ==
    /\ p # path /\ Turn
    /\ path' = p /\ nav' = NoNav /\ handed' = FALSE
    /\ UNCHANGED <<who, session, loading, error, latest, calls, request>>

\* Another tab signs in or out, or the API ends the session.
Elsewhere ==
    /\ Turn
    /\ who' \in (Roles \cup {NoOne}) \ {who}
    /\ UNCHANGED <<session, loading, error, latest, calls, path, nav, handed, request>>

Steps == Redirects \/ Serves \/ Answered \/ Lands \/ Handoff
Next ==
    \/ Steps \/ LogsOut \/ ChangesPassword \/ CreatesWorkspace \/ Loses \/ TriesAgain \/ Unauthorized \/ Elsewhere
    \/ \E n \in Requests : Answers(n) \/ Arrives(n)
    \/ \E role \in Roles : LogsIn(role)
    \/ \E p \in Protected \cup {"login"} : Goes(p)

Fairness ==
    /\ WF_vars(Steps)
    /\ \A n \in Requests : WF_vars(Answers(n) \/ Arrives(n))

Spec == Init /\ [][Next]_vars /\ Fairness

----------------------------------------------------------------------------
\* The guards and the login page never send the user round in circles: to the
\* login page, back, and home at most, whoever the account turns out to be.
FewHops == hops <= 3

\* The session is never that of a request older than the one it came from, unless
\* the console is loaded anew.
NeverOlder == session'.of >= session.of \/ session' = Unknown

\* A guard sends the user to the login page only after the API said that there
\* is no session; when it could not be asked, there is an error to try again.
NoFalseLogout == path # "login" /\ path' = "login" /\ hops' > hops => session.of > 0

\* The word that the password was changed stays on the login page until the user
\* acts, whatever the session there is.
HandoffKept ==
    path = "login" /\ nav.banner /\ (path' # "login" \/ ~nav'.banner)
      => hops' = 0 \/ request # NoRequest

\* Again and again: the session that a new password ended does not stay on the login
\* page; a session there is one asked for after the change.
Followed == path = "login" /\ nav.banner /\ session.as # NoOne => session.of > nav.of \/ error

\* Again and again: the console has loaded its session.
Settled == ~loading
=============================================================================
