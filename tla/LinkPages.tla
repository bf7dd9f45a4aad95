------------------------------- MODULE LinkPages -------------------------------
(***************************************************************************)
(* The pages a visitor comes to with a link of an invitation or of a password *)
(* reset (AcceptInvite, ResetPassword), and the one-time setup (Bootstrap):   *)
(* each asks the API about the link or the deployment first, while the        *)
(* console finds out who is signed in, and the visitor may move on meanwhile. *)
(***************************************************************************)
EXTENDS Integers

CONSTANTS Asks, MaxTurns        \* bounds of the model: questions at once, what users do

VARIABLES
    who,        \* whether the cookie is a session, of the API
    link,       \* [Links -> [kind, open]], of the API
    empty,      \* no account exists: the deployment is to be set up
    session,    \* what the console knows: [in, loading, error]
    page,       \* [at, token, banner]
    view,       \* what the page learnt: [is |-> "none", "form" or "error", of, at]
    loading,    \* the page's own
    typed,      \* the token for which there is something in the fields
    asks,       \* [Asks -> question to the API about a token or the deployment]
    ask,        \* the one whose answer is not cancelled; 0: none
    due,        \* the effect of the page is to run
    post,       \* the form or sign-out under way
    stored,     \* the remembered status of the setup, of the tab
    turns

vars == <<who, link, empty, session, page, view, loading, typed, asks, ask, due, post, stored, turns>>

Links == {"i1", "r1"}
LinkPage == {"invite", "reset"}
Blank == [is |-> "none", of |-> "none", at |-> "none"]
NoAsk == [st |-> "none", at |-> "none", token |-> "none", says |-> "none"]
NoPost == [kind |-> "none", st |-> "none", token |-> "none"]
Page(at, token) == [at |-> at, token |-> token, banner |-> "none"]

TypeOK ==
    /\ \A t \in Links : link[t].kind \in LinkPage /\ link[t].open \in BOOLEAN
    /\ page.at \in LinkPage \cup {"bootstrap", "login", "home"}
    /\ view.is \in {"none", "form", "error"} /\ ask \in Asks \cup {0} /\ due \in BOOLEAN
    /\ \A n \in Asks : asks[n].st \in {"none", "sent", "came"}
    /\ post.st \in {"none", "sent", "ok", "gone", "failed"}
    /\ stored \in {"none", "yes", "no"}

Init ==
    /\ who \in BOOLEAN
    /\ empty \in BOOLEAN /\ (who => ~empty)
    /\ link = [t \in Links |-> [kind |-> IF t = "i1" THEN "invite" ELSE "reset", open |-> ~empty]]
    /\ session = [in |-> FALSE, loading |-> TRUE, error |-> FALSE]
    /\ page = Page("login", "none") /\ view = Blank /\ loading = FALSE /\ typed = "none"
    /\ asks = [n \in Asks |-> NoAsk] /\ ask = 0 /\ due = FALSE
    /\ post = NoPost /\ stored = "none"
    /\ turns = 0

Turn == turns < MaxTurns /\ turns' = turns + 1
Outside == <<who, link, empty>>
Pages == <<page, view, loading, typed, ask, due>>

----------------------------------------------------------------------------
\* refresh of the session (its requests are SessionGate's), and what comes of it; the
\* effect of the setup page depends on it.
Refreshes ==
    /\ session' = [session EXCEPT !.loading = TRUE, !.error = FALSE]
    /\ ask' = IF page.at = "bootstrap" THEN 0 ELSE ask

Told ==
    /\ session.loading
    /\ \/ session' = [in |-> who, loading |-> FALSE, error |-> FALSE] /\ UNCHANGED turns
       \/ Turn /\ session' = [session EXCEPT !.loading = FALSE, !.error = TRUE]
    /\ due' = (due \/ page.at = "bootstrap")
    /\ ask' = IF page.at = "bootstrap" THEN 0 ELSE ask
    /\ UNCHANGED <<Outside, page, view, loading, typed, asks, post, stored>>

----------------------------------------------------------------------------
Clears(old) == "none"

\* Mounted, or of another token: nothing is known, nothing typed, and the effect is to run.
Comes(to) ==
    /\ page' = to /\ view' = Blank
    /\ typed' = IF to.at = page.at THEN Clears(typed) ELSE "none"
    /\ loading' = (to.at \in LinkPage \cup {"bootstrap"})
    /\ ask' = 0 /\ due' = loading'

Goes(at, token) ==
    /\ Turn /\ Page(at, token) # page
    /\ Comes(Page(at, token))
    /\ UNCHANGED <<Outside, session, asks, post, stored>>

\* A question about what the page is for, asked of the API unless the answer is known.
AsksAbout(known) ==
    \E n \in Asks :
      /\ asks[n].st = "none" /\ \A m \in Asks : m < n => asks[m].st # "none"
      /\ asks' = [asks EXCEPT ![n] =
            [at |-> page.at, token |-> page.token, says |-> known,
             st |-> IF known = "none" THEN "sent" ELSE "came"]]
      /\ ask' = n /\ due' = FALSE
      /\ UNCHANGED <<page, view, loading, typed>>

\* The effects of AcceptInvite and ResetPassword.
AsksInvite == page.at = "invite" /\ AsksAbout("none")
AsksReset == page.at = "reset" /\ AsksAbout("none")

\* loadBootstrapStatus needs no request when the status is remembered.
LoadsStatus == AsksAbout(stored)

\* That of the setup waits for the session, and leaves for home with one.
SetsUp ==
    /\ page.at = "bootstrap"
    /\ \/ /\ session.loading
          /\ due' = FALSE /\ UNCHANGED <<page, view, loading, typed, asks, ask>>
       \/ /\ ~session.loading /\ session.in
          /\ Comes(Page("home", "none")) /\ UNCHANGED asks
       \/ /\ ~session.loading /\ ~session.in
          /\ LoadsStatus

Effect ==
    /\ due
    /\ AsksInvite \/ AsksReset \/ SetsUp
    /\ UNCHANGED <<Outside, session, post, stored, turns>>

\* validateInvite, which knows the links of both kinds, validatePasswordReset, and the
\* status; used and expired links, and failures, are errors.
Says(a) ==
    CASE a.at = "bootstrap" -> IF empty THEN "yes" ELSE "no"
      [] a.at # "bootstrap" /\ a.token \notin Links -> "error"
      [] a.at = "reset" /\ a.token \in Links /\ link[a.token].kind # "reset" -> "error"
      [] OTHER -> IF link[a.token].open THEN link[a.token].kind ELSE "error"

Answers(n) ==
    /\ asks[n].st = "sent"
    /\ \/ /\ asks' = [asks EXCEPT ![n].st = "came", ![n].says = Says(asks[n])]
          /\ UNCHANGED turns
       \/ /\ Turn
          /\ asks' = [asks EXCEPT ![n].st = "came", ![n].says = "error"]
    /\ UNCHANGED <<Outside, session, Pages, post, stored>>

Cancelled(n) == n # ask

EndsLoading(says) == TRUE

\* The status that comes is remembered, also when its page was left.
Remembers(a) == IF a.at = "bootstrap" /\ a.says # "error" THEN a.says ELSE stored

\* An invite page forwards a reset link.
Forwards(a) == a.at = "invite" /\ a.says = "reset" /\ Comes(Page("reset", a.token))

\* The setup page leaves a deployment that is set up.
LeavesSetup(a) ==
    a.at = "bootstrap" /\ a.says = "no"
      /\ Comes([Page("login", "none") EXCEPT !.banner = "already_set_up"])

\* resolveInviteLoadError and resolveResetLoadError, or the form.
Judged(says) == IF says = "error" THEN "error" ELSE "form"

Judges(a) ==
    /\ ~(a.at = "invite" /\ a.says = "reset") /\ a.says # "no"
    /\ view' = [is |-> Judged(a.says), of |-> a.token, at |-> a.at]
    /\ loading' = (loading /\ ~EndsLoading(a.says))
    /\ UNCHANGED <<page, typed, ask, due>>

Arrives(n) ==
    LET a == asks[n] IN
    /\ a.st = "came"
    /\ asks' = [asks EXCEPT ![n] = NoAsk]
    /\ stored' = Remembers(a)
    /\ IF Cancelled(n) THEN UNCHANGED Pages ELSE Forwards(a) \/ LeavesSetup(a) \/ Judges(a)
    /\ UNCHANGED <<Outside, session, post, turns>>

----------------------------------------------------------------------------
\* What the page shows; a link's form is for nobody who is signed in.
Checked == view.is = "form" /\ ~loading /\ ~session.loading
InviteForm == page.at = "invite" /\ Checked /\ ~session.in
ResetForm == page.at = "reset" /\ Checked /\ ~session.in
SetupForm == page.at = "bootstrap" /\ view.is = "form"
SetupError == page.at = "bootstrap" /\ view.is = "error"
PromptShown == page.at \in LinkPage /\ Checked /\ session.in

Types ==
    /\ InviteForm \/ ResetForm
    /\ typed # page.token /\ post.kind = "none"
    /\ typed' = page.token
    /\ UNCHANGED <<Outside, session, page, view, loading, asks, ask, due, post, stored, turns>>

\* "Try again" of the setup.
TriesAgain ==
    /\ SetupError /\ Turn
    /\ view' = Blank /\ loading' = TRUE /\ due' = TRUE /\ ask' = 0
    /\ UNCHANGED <<Outside, session, page, typed, asks, post, stored>>

\* handleSubmit of the three forms, and handleSignOut of the prompt.
SubmitsInvite == InviteForm /\ typed # "none"
SubmitsReset == ResetForm /\ typed # "none"
Submits ==
    /\ post = NoPost /\ Turn
    /\ \/ /\ SubmitsInvite \/ SubmitsReset \/ SetupForm
          /\ post' = [kind |-> page.at, st |-> "sent", token |-> page.token]
       \/ /\ PromptShown
          /\ post' = [NoPost EXCEPT !.kind = "logout", !.st = "sent"]
    /\ UNCHANGED <<Outside, session, Pages, asks, stored>>

\* The API: a link is used once, a deployment set up once.
Serves ==
    /\ post.st = "sent"
    /\ \/ /\ post.kind \in LinkPage
          /\ link' = [link EXCEPT ![post.token].open = FALSE]
          /\ post' = [post EXCEPT !.st = IF link[post.token].open THEN "ok" ELSE "failed"]
          /\ UNCHANGED <<who, empty>>
       \/ /\ post.kind = "bootstrap"
          /\ empty' = FALSE
          /\ post' = [post EXCEPT !.st = IF empty THEN "ok" ELSE "failed"]
          /\ UNCHANGED <<who, link>>
       \/ /\ post.kind = "logout"
          /\ who' = FALSE
          /\ post' = [post EXCEPT !.st = IF who THEN "ok" ELSE "gone"]
          /\ UNCHANGED <<link, empty>>
    /\ UNCHANGED <<session, Pages, asks, stored, turns>>

Loses ==
    /\ post.st \in {"sent", "ok"} /\ Turn
    /\ post' = [post EXCEPT !.st = "failed"]
    /\ UNCHANGED <<Outside, session, Pages, asks, stored>>

Banner(kind) ==
    CASE kind = "invite" -> "invite_accepted"
      [] kind = "reset" -> "password_updated"
      [] OTHER -> "bootstrap_complete"

\* Faulty: a session that ended meanwhile is an error of the sign-out.
AsksAgainOk(st) == st = "ok"

AsksAgain(st) == st \in {"ok", "gone"}

\* The answer: to the login page, wherever the user is now; a sign-out stays and asks
\* who is signed in, also when the API knew of no session.
Answered ==
    /\ \/ /\ post.st = "ok" /\ post.kind # "logout"
          /\ Comes([Page("login", "none") EXCEPT !.banner = Banner(post.kind)])
          /\ stored' = IF post.kind = "bootstrap" THEN "no" ELSE stored
          /\ UNCHANGED session
       \/ /\ post.kind = "logout" /\ AsksAgain(post.st)
          /\ Refreshes /\ UNCHANGED <<page, view, loading, typed, due, stored>>
       \/ /\ post.st = "failed" \/ (post.kind = "logout" /\ post.st = "gone" /\ ~AsksAgain(post.st))
          /\ UNCHANGED <<session, Pages, stored>>
    /\ post' = NoPost
    /\ UNCHANGED <<Outside, asks, turns>>

\* Other tabs sign in or out, use a link, or a link expires.
Elsewhere ==
    /\ Turn
    /\ \/ who' = ~who /\ (who' => ~empty) /\ UNCHANGED <<link, empty>>
       \/ \E t \in Links : link[t].open /\ link' = [link EXCEPT ![t].open = FALSE]
                            /\ UNCHANGED <<who, empty>>
       \/ empty /\ empty' = FALSE /\ UNCHANGED <<who, link>>
    /\ UNCHANGED <<session, Pages, asks, post, stored>>

Steps == Told \/ Effect \/ Serves \/ Answered
Next ==
    \/ Steps \/ Types \/ TriesAgain \/ Submits \/ Loses \/ Elsewhere
    \/ \E n \in Asks : Answers(n) \/ Arrives(n)
    \/ \E at \in LinkPage, t \in Links : Goes(at, t)
    \/ Goes("bootstrap", "none") \/ Goes("login", "none")

Fairness ==
    /\ WF_vars(Steps)
    /\ \A n \in Asks : WF_vars(Answers(n) \/ Arrives(n))

Spec == Init /\ [][Next]_vars /\ Fairness

----------------------------------------------------------------------------
\* The form, or the error, on a page is about the link of its address, as the check
\* of this page judged it, although the answer of another link may come later.
ViewOfLink ==
    view.is # "none" => view.of = page.token /\ view.at = page.at

\* A password typed for one link is never sent with another.
FieldsOfLink ==
    typed # "none" => typed = page.token

\* What is shown and typed is about the link of the page.
LinkIsOwn == ViewOfLink /\ FieldsOfLink

\* Again and again: a link's page and the setup page show a form, an error or another page.
Settled == ~loading

\* A sign-out on the way to a link that the API has done, or had nothing to do for, has
\* the console see that nobody is signed in, or that it could not find out: the link's
\* form is not out of reach.
SignOutClears ==
    (post.kind = "logout" /\ post.st \in {"ok", "gone"})
      ~> (~session.in \/ session.error \/ who \/ post.st = "failed")
=============================================================================
