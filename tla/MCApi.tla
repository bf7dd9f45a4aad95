-------------------------------- MODULE MCApi --------------------------------
(* The requests of the API's clients, added to the services of MCServices. *)
EXTENDS MCServices, FiniteSets

CONSTANTS LoginRequests, ResetTokens, MaxHash, MaxSid,      \* Sessions
          AccountRequests, Emails, MaxInvite,               \* Accounts
          KeyRequests, Interval, MaxKey, MaxHour,           \* ApiKeys
          EventRequests, Bodies, NoBody, Endpoints,         \* TenantIngest
          Steady                                            \* of Endpoints

\* What stands for nothing is none of the things.
ASSUME LoginAssumption ==
    /\ MaxHash \in Nat \ {0} /\ MaxSid \in Nat \ {0}
    /\ IsFiniteSet(ResetTokens) /\ "nobody" \notin LoginRequests
ASSUME AccountAssumption ==
    /\ MaxInvite \in Nat
    /\ IsFiniteSet(Emails) /\ "none" \notin Emails /\ "nobody" \notin AccountRequests
ASSUME KeyAssumption == Interval \in Nat /\ MaxHour \in Nat
ASSUME EventAssumption == NoBody \notin Bodies

VARIABLES
    hash, workspace, workspaces, locked, sessions, nextSid, resets, loginReq, resetCount, lost,
    tenants, admins, users, invites, tx, made,
    keys, hour, keyReq,
    event, endpoints, deliveries, outbox, queue, eventReq, watch

Login == INSTANCE Sessions WITH Requests <- LoginRequests, req <- loginReq
Account == INSTANCE Accounts WITH Requests <- AccountRequests
ApiKey == INSTANCE ApiKeys WITH Requests <- KeyRequests, req <- keyReq
Tenant == INSTANCE TenantIngest WITH Requests <- EventRequests, req <- eventReq

loginVars == <<hash, workspace, workspaces, locked, sessions, nextSid, resets, loginReq, resetCount, lost>>
accountVars == <<tenants, admins, users, invites, tx, made>>
keyVars == <<keys, hour, keyReq>>
eventVars == <<event, endpoints, deliveries, outbox, queue, eventReq, watch>>
apiVars == <<loginVars, accountVars, keyVars, eventVars>>

ApiInit ==
    /\ MCInit
    /\ Login!Init /\ Account!Init /\ ApiKey!Init /\ Tenant!Init
    /\ scenario # "accounts" => Account!Empty

Services == MCNext /\ UNCHANGED apiVars

Logins ==
    /\ scenario = "login" /\ Login!Next
    /\ UNCHANGED <<scenario, serviceVars, accountVars, keyVars, eventVars>>

Administers ==
    /\ scenario = "accounts" /\ Account!Next
    /\ UNCHANGED <<scenario, serviceVars, loginVars, keyVars, eventVars>>

UsesKeys ==
    /\ scenario = "keys" /\ ApiKey!Next
    /\ UNCHANGED <<scenario, serviceVars, loginVars, accountVars, eventVars>>

\* Some endpoints are never paused, and slow.
Ingests ==
    /\ scenario = "events" /\ Tenant!Next
    /\ \A e \in Steady : endpoints'[e] # "paused" /\ deliveries'[e] # "done"
    /\ UNCHANGED <<scenario, serviceVars, loginVars, accountVars, keyVars>>

ApiNext == Services \/ Logins \/ Administers \/ UsesKeys \/ Ingests

----------------------------------------------------------------------------
\* The properties are those of the modules, where they are explained, of the one that runs.

\* The variables of the service that runs have their types.
ApiTypesOK ==
    /\ scenario = "login" => Login!TypeOK
    /\ scenario = "accounts" => Account!TypeOK
    /\ scenario = "keys" => ApiKey!TypeOK
    /\ scenario = "events" => Tenant!TypeOK

\* An accepted session knew the current password, no change overwrites one it has not
\* verified, a reset link works once, an account gets one workspace (auth/handlers.ts).
PasswordRules == scenario = "login" => Login!PasswordRules

\* One bootstrap, one pending signup invite per address, every link used at most once,
\* every open reset link has its user (invites.ts, admin/handlers.ts).
AccountsAgree == scenario = "accounts" => Account!AccountsAgree

\* A key is revoked or rotated once: it has one successor at most (api-keys/handlers.ts).
RotatedOnce == scenario = "keys" => ApiKey!RotatedOnce

\* What ingestEvent answers with 202 is stored with the body that was sent, fanned out to
\* every endpoint that was active throughout, and stays in the outbox or the queue
\* while it is open (ingest/fanout.ts, queue/publish.ts).
AcceptedIsKept == scenario = "events" => Tenant!AcceptedIsKept
=============================================================================
