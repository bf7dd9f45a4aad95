------------------------------ MODULE Accounts ------------------------------
(***************************************************************************)
(* Users, workspaces, invites and password reset links. Every request is a  *)
(* transaction at READ COMMITTED: its writes are visible when it commits,   *)
(* and the rows it wrote or selected FOR UPDATE are locked until then.       *)
(* Workspaces are never read-only here; the demo workspace is seeded.       *)
(***************************************************************************)
EXTENDS Integers, FiniteSets

CONSTANTS Requests, Emails,
          MaxInvite               \* bound of the model

VARIABLES
    tenants,  \* ids of the workspaces
    admins,   \* the workspaces of the super-admins, one for each
    users,    \* [Emails -> id and workspace of the user], unique by index
    invites,  \* [ids -> invite or reset link]
    tx,       \* [Requests -> its transaction]
    made      \* ghost: [invite -> users made, or passwords set of another user]

vars == <<tenants, admins, users, invites, tx, made>>

Invites == 1..MaxInvite
Tenants == 1..2 + MaxInvite
NoUser == [id |-> 0, tenant |-> 0]
\* st: pending, used (accepted_at is set), expired, deleted, or none (not made yet).
NoInvite == [st |-> "none", kind |-> "none", email |-> "none", tenant |-> 0, user |-> 0]
Signup == {"tenant_owner", "tenant_user"}

\* rows, tenant and email are the locks of the transaction: invites it wrote,
\* the workspace it selected FOR UPDATE, the email of its advisory lock.
Idle == [pc |-> "idle", kind |-> "none", of |-> "none", to |-> 0, invite |-> 0, user |-> NoUser,
         rows |-> {}, tenant |-> 0, email |-> "none"]

TypeOK ==
    /\ tenants \subseteq Tenants /\ admins \subseteq Tenants
    /\ \A e \in Emails : users[e] = NoUser \/ (users[e].id > 0 /\ users[e].tenant \in Tenants)
    /\ \A i \in Invites : invites[i].st \in {"none", "pending", "used", "expired", "deleted"}
    /\ \A r \in Requests : tx[r].rows \subseteq Invites /\ tx[r].tenant \in {0} \cup Tenants

Empty ==
    /\ tenants = {} /\ admins = {}
    /\ users = [e \in Emails |-> NoUser]
    /\ invites = [i \in Invites |-> NoInvite]

\* Workspace 1 of the super-admin; workspace 2 has a member, and an invite or
\* a second member.
Populated ==
    /\ tenants = {1, 2} /\ admins = {1}
    /\ \E member, other \in Emails, joined \in BOOLEAN :
         /\ member # other
         /\ users = [e \in Emails |-> CASE e = member -> [id |-> 1, tenant |-> 2]
                                        [] e = other /\ joined -> [id |-> 2, tenant |-> 2]
                                        [] OTHER -> NoUser]
         /\ invites = [i \in Invites |->
              IF i = 1 /\ ~joined
              THEN [st |-> "pending", kind |-> "tenant_user", email |-> other, tenant |-> 2, user |-> 0]
              ELSE NoInvite]

Init ==
    /\ Empty \/ Populated
    /\ tx = [r \in Requests |-> Idle]
    /\ made = [i \in Invites |-> 0]

----------------------------------------------------------------------------
At(r, pc) == tx[r].pc = pc
Begins(r, t) == tx' = [tx EXCEPT ![r] = t]
Steps(r, pc) == tx' = [tx EXCEPT ![r].pc = pc]

\* Faulty: the advisory lock of the email is held by the connection.
EndsHolding(r) == tx' = [tx EXCEPT ![r] = [Idle EXCEPT !.pc = "ended", !.email = tx[r].email]]

\* Commit and rollback release the locks.
Ends(r) == tx' = [tx EXCEPT ![r] = [Idle EXCEPT !.pc = "ended"]]

RowsFree(r, rows) == \A s \in Requests \ {r} : tx[s].rows \cap rows = {}
TenantFree(r, t) == \A s \in Requests \ {r} : tx[s].tenant # t
EmailFree(r, e) == \A s \in Requests \ {r} : tx[s].email # e

Pending(e, kinds, states) ==
    {i \in Invites : invites[i].email = e /\ invites[i].kind \in kinds /\ invites[i].st \in states}
NextInvite == CHOOSE i \in Invites : invites[i].st = "none"
RoomForInvite == \E i \in Invites : invites[i].st = "none"
\* The ids of what a request makes: fresh, as every invite makes one user.
NewId(r) == tx[r].invite + 2
NewTenant == Cardinality(tenants) + 1
Members(t) == {e \in Emails : users[e].tenant = t}
UsedUp(rows) == [i \in Invites |-> IF i \in rows THEN [invites[i] EXCEPT !.st = "used"] ELSE invites[i]]

----------------------------------------------------------------------------
\* bootstrap: an advisory lock of its own, then the users are counted.
BootstrapFree(r) == \A s \in Requests \ {r} : ~At(s, "bootstrap")

BootstrapCounts(r) ==
    /\ At(r, "idle") /\ BootstrapFree(r)
    /\ IF admins = {} THEN Steps(r, "bootstrap") ELSE Ends(r)
    /\ UNCHANGED <<tenants, admins, users, invites, made>>

BootstrapCommits(r) ==
    /\ At(r, "bootstrap")
    /\ tenants' = tenants \cup {NewTenant} /\ admins' = admins \cup {NewTenant}
    /\ Ends(r)
    /\ UNCHANGED <<users, invites, made>>

----------------------------------------------------------------------------
\* createInvite: an owner's invite has no workspace yet.
InviteBegins(r, e, kind, t) ==
    /\ At(r, "idle") /\ admins # {}
    /\ (t = 0) = (kind = "tenant_owner")
    /\ Begins(r, [Idle EXCEPT !.pc = "invite", !.of = e, !.kind = kind, !.to = t])
    /\ UNCHANGED <<tenants, admins, users, invites, made>>

\* Faulty: the check and the insert are not serialised.
SerialisedAlways(r, e) == TRUE

Serialised(r, e) == EmailFree(r, e)

\* The advisory lock of the email, and assertEmailAvailable.
InviteLocks(r) ==
    /\ At(r, "invite") /\ Serialised(r, tx[r].of)
    /\ IF users[tx[r].of] = NoUser
       THEN tx' = [tx EXCEPT ![r].pc = "invite_replace", ![r].email = tx[r].of]
       ELSE Ends(r)
    /\ UNCHANGED <<tenants, admins, users, invites, made>>

\* invalidatePendingSignupInvites
InviteReplaces(r) ==
    LET rows == Pending(tx[r].of, Signup, {"pending"}) IN
    /\ At(r, "invite_replace") /\ RowsFree(r, rows)
    /\ tx' = [tx EXCEPT ![r].pc = "invite_insert", ![r].rows = rows]
    /\ UNCHANGED <<tenants, admins, users, invites, made>>

\* The rows a transaction replaced are used up, and its new row is there.
Issues(r, invite) ==
    invites' = [UsedUp(tx[r].rows) EXCEPT ![NextInvite] = invite]

InviteCommits(r) ==
    LET t == tx[r] IN
    /\ At(r, "invite_insert") /\ RoomForInvite
    /\ \/ /\ t.to # 0 => t.to \in tenants /\ TenantFree(r, t.to)
          /\ Issues(r, [st |-> "pending", kind |-> t.kind, email |-> t.of, tenant |-> t.to, user |-> 0])
       \/ t.to \notin tenants \cup {0} /\ UNCHANGED invites
    /\ Ends(r)
    /\ UNCHANGED <<tenants, admins, users, made>>

----------------------------------------------------------------------------
\* acceptInvite and resetPassword: findInviteByToken, and the checks on what it read.
Finds(r, i) ==
    /\ At(r, "idle") /\ invites[i].st = "pending"
    /\ Begins(r, [Idle EXCEPT !.pc = "consume", !.invite = i, !.kind = invites[i].kind,
                              !.of = invites[i].email, !.to = invites[i].tenant])
    /\ UNCHANGED <<tenants, admins, users, invites, made>>

\* WHERE accepted_at IS NULL AND expires_at > now()
StillUsable(i) == invites[i].st = "pending"

\* consumeInvite
Consumes(r) ==
    LET i == tx[r].invite IN
    /\ At(r, "consume") /\ RowsFree(r, {i})
    /\ IF StillUsable(i)
       THEN tx' = [tx EXCEPT ![r].rows = {i},
                             ![r].pc = IF tx[r].kind \in Signup THEN "accept" ELSE "reset"]
       ELSE Ends(r)
    /\ UNCHANGED <<tenants, admins, users, invites, made>>

Joins(r, t) ==
    /\ users' = [users EXCEPT ![tx[r].of] = [id |-> NewId(r), tenant |-> t]]
    /\ invites' = UsedUp(tx[r].rows)
    /\ made' = [made EXCEPT ![tx[r].invite] = @ + 1]

\* The new user, and the workspace of a new owner. Otherwise 409 or 404, and the
\* invite is not consumed.
AcceptCommits(r) ==
    LET t == tx[r].to IN
    /\ At(r, "accept")
    /\ \/ users[tx[r].of] = NoUser /\ t = 0 /\ Joins(r, NewId(r))
          /\ tenants' = tenants \cup {NewId(r)}
       \/ users[tx[r].of] = NoUser /\ t \in tenants /\ TenantFree(r, t) /\ Joins(r, t)
          /\ UNCHANGED tenants
       \/ /\ users[tx[r].of] # NoUser \/ t \notin tenants \cup {0}
          /\ UNCHANGED <<tenants, users, invites, made>>
    /\ Ends(r)
    /\ UNCHANGED admins

\* The password of whoever has the email now, or 404.
ResetCommits(r) ==
    LET i == tx[r].invite
        user == users[tx[r].of]
    IN
    /\ At(r, "reset")
    /\ IF user = NoUser THEN UNCHANGED <<invites, made>>
       ELSE /\ invites' = UsedUp(tx[r].rows)
            /\ made' = [made EXCEPT ![i] = @ + (IF user.id = invites[i].user THEN 1 ELSE 2)]
    /\ Ends(r)
    /\ UNCHANGED <<tenants, admins, users>>

----------------------------------------------------------------------------
\* createPasswordReset
LinkBegins(r, e) ==
    /\ At(r, "idle") /\ users[e] # NoUser
    /\ Begins(r, [Idle EXCEPT !.pc = "link", !.of = e, !.to = users[e].tenant, !.user = users[e]])
    /\ UNCHANGED <<tenants, admins, users, invites, made>>

SameUser(r) == users[tx[r].of] = tx[r].user

LinkLocks(r) ==
    /\ At(r, "link") /\ EmailFree(r, tx[r].of)
    /\ IF SameUser(r)
       THEN tx' = [tx EXCEPT ![r].pc = "link_replace", ![r].email = tx[r].of]
       ELSE Ends(r)
    /\ UNCHANGED <<tenants, admins, users, invites, made>>

LinkReplaces(r) ==
    LET rows == Pending(tx[r].of, {"password_reset"}, {"pending", "expired"}) IN
    /\ At(r, "link_replace") /\ RowsFree(r, rows)
    /\ tx' = [tx EXCEPT ![r].pc = "link_insert", ![r].rows = rows]
    /\ UNCHANGED <<tenants, admins, users, invites, made>>

\* The row refers to the workspace, so the insert waits for its lock.
LinkCommits(r) ==
    LET t == tx[r] IN
    /\ At(r, "link_insert") /\ RoomForInvite
    /\ \/ /\ t.to \in tenants /\ TenantFree(r, t.to)
          /\ Issues(r, [st |-> "pending", kind |-> "password_reset", email |-> t.of,
                        tenant |-> t.to, user |-> t.user.id])
       \/ t.to \notin tenants /\ UNCHANGED invites
    /\ Ends(r)
    /\ UNCHANGED <<tenants, admins, users, made>>

----------------------------------------------------------------------------
\* deleteTenantUser: a member of the workspace, which is locked first.
\* Faulty: the workspace is not locked.
AloneAlways(r, t) == TRUE

Alone(r, t) == TenantFree(r, t)

RemoveLocks(r, e) ==
    /\ At(r, "idle") /\ users[e] # NoUser /\ Alone(r, users[e].tenant)
    /\ Begins(r, [Idle EXCEPT !.pc = "remove", !.of = e, !.tenant = users[e].tenant, !.user = users[e]])
    /\ UNCHANGED <<tenants, admins, users, invites, made>>

\* The advisory lock of the email, and the count: the last user stays.
RemoveCounts(r) ==
    /\ At(r, "remove") /\ EmailFree(r, tx[r].of)
    /\ IF Cardinality(Members(tx[r].tenant)) > 1
       THEN tx' = [tx EXCEPT ![r].pc = "remove_links", ![r].email = tx[r].of]
       ELSE Ends(r)
    /\ UNCHANGED <<tenants, admins, users, invites, made>>

\* The unused reset links of the user
LinksOf(e) == Pending(e, {"password_reset"}, {"pending", "expired"})

RemoveReplaces(r) ==
    LET rows == LinksOf(tx[r].of) IN
    /\ At(r, "remove_links") /\ RowsFree(r, rows)
    /\ tx' = [tx EXCEPT ![r].pc = "remove_commit", ![r].rows = rows]
    /\ UNCHANGED <<tenants, admins, users, invites, made>>

RemoveCommits(r) ==
    /\ At(r, "remove_commit")
    /\ users' = [users EXCEPT ![tx[r].of] = IF @ = tx[r].user THEN NoUser ELSE @]
    /\ invites' = UsedUp(tx[r].rows)
    /\ Ends(r)
    /\ UNCHANGED <<tenants, admins, made>>

\* deleteTenant: not the workspace of a super-admin.
DropLocks(r, t) ==
    /\ At(r, "idle") /\ TenantFree(r, t)
    /\ IF t \in tenants \ admins THEN Begins(r, [Idle EXCEPT !.pc = "drop", !.tenant = t]) ELSE Ends(r)
    /\ UNCHANGED <<tenants, admins, users, invites, made>>

\* Its users and invites go with it, once nobody has locked one of them.
DropCommits(r) ==
    LET t == tx[r].tenant
        gone == {i \in Invites : invites[i].tenant = t}
    IN
    /\ At(r, "drop") /\ RowsFree(r, gone)
    /\ tenants' = tenants \ {t}
    /\ users' = [e \in Emails |-> IF users[e].tenant = t THEN NoUser ELSE users[e]]
    /\ invites' = [i \in Invites |-> IF i \in gone THEN [NoInvite EXCEPT !.st = "deleted"] ELSE invites[i]]
    /\ Ends(r)
    /\ UNCHANGED <<admins, made>>

----------------------------------------------------------------------------
\* The transaction is rolled back: an error, a lost connection, or the victim of
\* a deadlock between two of these locks.
RollsBack(r) ==
    /\ tx[r].pc \notin {"idle", "ended"}
    /\ Ends(r)
    /\ UNCHANGED <<tenants, admins, users, invites, made>>

Expires(i) ==
    /\ invites[i].st = "pending" /\ RowsFree("nobody", {i})
    /\ invites' = [invites EXCEPT ![i].st = "expired"]
    /\ UNCHANGED <<tenants, admins, users, tx, made>>

Handles(r) ==
    \/ BootstrapCounts(r) \/ BootstrapCommits(r)
    \/ \E e \in Emails, kind \in Signup, t \in {0, 2} : InviteBegins(r, e, kind, t)
    \/ InviteLocks(r) \/ InviteReplaces(r) \/ InviteCommits(r)
    \/ \E i \in Invites : Finds(r, i)
    \/ Consumes(r) \/ AcceptCommits(r) \/ ResetCommits(r)
    \/ \E e \in Emails : LinkBegins(r, e) \/ RemoveLocks(r, e)
    \/ LinkLocks(r) \/ LinkReplaces(r) \/ LinkCommits(r)
    \/ RemoveCounts(r) \/ RemoveReplaces(r) \/ RemoveCommits(r)
    \/ \E t \in tenants : DropLocks(r, t)
    \/ DropCommits(r)

Next == (\E r \in Requests : Handles(r) \/ RollsBack(r)) \/ \E i \in Invites : Expires(i)

Spec == Init /\ [][Next]_vars

\* s holds a lock that the next step of r needs.
WaitsFor(r, s) ==
    \/ tx[r].pc \in {"invite", "link", "remove"} /\ tx[s].email = tx[r].of
    \/ tx[r].pc \in {"invite_insert", "accept", "link_insert"} /\ tx[r].to # 0 /\ tx[s].tenant = tx[r].to
    \/ At(r, "consume") /\ tx[r].invite \in tx[s].rows
    \/ At(r, "drop") /\ \E i \in tx[s].rows : invites[i].tenant = tx[r].tenant
    \/ \E i \in tx[s].rows :
         /\ invites[i].email = tx[r].of
         /\ \/ At(r, "invite_replace") /\ invites[i].kind \in Signup
            \/ tx[r].pc \in {"link_replace", "remove_links"} /\ invites[i].kind = "password_reset"

\* The database finds a cycle, and rolls one of its transactions back.
Victim(r) ==
    /\ \E S \in SUBSET Requests :
         r \in S /\ \A p \in S : \E q \in S \ {p} : WaitsFor(p, q)
    /\ RollsBack(r)

\* A handler that has begun goes on, and the deadlock detector runs.
Fairness ==
    \A r \in Requests :
      WF_vars(tx[r].pc # "idle" /\ Handles(r)) /\ WF_vars(Victim(r))

----------------------------------------------------------------------------
\* bootstrap makes one super-admin, however many ask at once.
OneAdmin == Cardinality(admins) <= 1

\* Removals that run together never take the last user of a workspace: only the
\* workspace itself goes.
UsersStay == \A t \in tenants \cap tenants' : Members(t) # {} => Members(t)' # {}

\* An email has one invite that can be accepted: a new one replaces the others.
OnePendingSignup == \A e \in Emails : Cardinality(Pending(e, Signup, {"pending"})) <= 1

\* An invite makes one user and a reset link sets the password once, of the user
\* it was issued for, also when that user was removed and invited again.
UsedOnce == \A i \in Invites : made[i] <= 1

\* Again and again: no request waits for a lock for ever, although removing a user and making a
\* reset link for the same user take their two locks in opposite orders.
RequestsEnded == \A r \in Requests : tx[r].pc = "idle" \/ At(r, "ended")

\* Nobody can use a reset link of a user who is gone.
LinksHaveUsers ==
    \A e \in Emails : \A i \in Pending(e, {"password_reset"}, {"pending"}) : users[e].id = invites[i].user

\* Of users, invites and reset links, whatever requests interleave.
AccountsAgree == OneAdmin /\ OnePendingSignup /\ UsedOnce /\ LinksHaveUsers
=============================================================================
