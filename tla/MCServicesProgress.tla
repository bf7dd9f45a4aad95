-------------------------- MODULE MCServicesProgress --------------------------
(* The services under fairness, each followed to its end. *)
EXTENDS MCConsole

\* Jobs are answered within a tick of the clock.
Deferrals ==
    /\ LimitsOf("jobs", Jobs, MaxTime)
    /\ now' # now => \A c \in Jobs : call[c].st # "sent" /\ ~CanStart(c)

\* Nothing that is fair is enabled in the initial state of a service that does not run.
Fair ==
    /\ \A c \in Jobs :
         /\ WF_vars(scenario = "jobs" /\ Start(c))
         /\ WF_vars(scenario = "jobs" /\ (Admit(c) \/ Refuse(c)))
    /\ WF_vars(scenario = "jobs" /\ Tick)
    /\ Sweeper!Fairness /\ Process!Fairness /\ Webhook!Fairness
    /\ Account!Fairness
    /\ List!Fairness /\ Detail!Fairness /\ Board!Fairness /\ Send!Fairness
    /\ Gate!Fairness /\ Link!Fairness /\ Secret!Fairness /\ Dialog!Fairness

ProgressNext ==
    \/ (Deferrals \/ Sweeps \/ Shutdowns \/ Requests) /\ UNCHANGED <<apiVars, pageVars>>
    \/ Administers /\ UNCHANGED pageVars
    \/ Pages
ProgressSpec ==
    /\ ConsoleInit
    /\ [][ProgressNext]_allVars
    /\ Fair

\* Every job is admitted in the end: refusals only delay it (takeRateLimitToken).
JobsAdmitted == scenario = "jobs" => EveryJobAdmitted

\* Whatever crashed while it held the lock, sweeps go on while a process has its timer.
SweepsGoOn == scenario = "sweeper" => Sweeper!SweepsGoOn

\* stopSweeper returns, a signal ends the process, a call and a transaction end.
ServicesEnd ==
    /\ Sweeper!StopReturns
    /\ []<>(/\ scenario = "shutdown" => Process!Ended
            /\ scenario = "webhook" => Webhook!CallsEnded
            /\ scenario = "accounts" => Account!RequestsEnded)

\* No page of the console loads, and no dialog is busy, for ever.
PagesSettle ==
    []<>(/\ scenario = "list" => List!Settled
         /\ scenario = "detail" => Detail!Settled
         /\ scenario = "dashboard" => Board!Settled
         /\ scenario = "gate" => Gate!Settled
         /\ scenario = "links" => Link!Settled
         /\ scenario = "secrets" => Secret!Settled
         /\ scenario = "dialogs" => Dialog!Settled)

\* What has changed comes to be shown, or an error does.
ChangesFollow ==
    []<>(/\ scenario = "detail" => Detail!Followed
         /\ scenario = "send" => Send!Followed
         /\ scenario = "gate" => Gate!Followed
         /\ scenario = "secrets" => Secret!Followed
         /\ scenario = "dialogs" => Dialog!Followed)

\* A sign-out on the way to a link puts its form in reach.
SignOutClears == Link!SignOutClears
=============================================================================
