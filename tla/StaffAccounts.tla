---------------------------- MODULE StaffAccounts ----------------------------
(***************************************************************************)
(* The accounts of the staff: invitations, roles, two-factor resets and    *)
(* deactivation by admins, beside the sign-ins of the accounts' owners.    *)
(*                                                                         *)
(* A request is admitted once: the session's user is read, and from then   *)
(* on the request carries who it is and that it is an admin.  The change   *)
(* itself is one transaction: it locks the target's row, deletes the       *)
(* target's sessions, and writes an audit row whose foreign key to the     *)
(* actor waits for anyone who has the actor's row locked.  An invitation   *)
(* is not one transaction: the account, the e-mail and the audit row are   *)
(* three steps, and a failed e-mail takes the account back.                *)
(*                                                                         *)
(* Sessions, passwords and second factors are Better Auth's; its writes    *)
(* are single statements outside any transaction of ours.                  *)
(***************************************************************************)
EXTENDS FiniteSets

CONSTANTS
    User,       \* accounts that may exist, each with an address of its own
    Seeded,     \* those scripts/seed-admin.ts made admins
    Request,    \* requests of the users page
    Session,    \* session tokens
    Asked,      \* bound: what admins ask for
    NoUser

Role == {"admin", "editor"}
Op == {"changeRole", "resetTwoFactor", "deactivate", "reactivate", "invite"}
Job == [op : Op, target : User, role : Role]   \* a role is part of changeRole and invite only

ASSUME SeededAssumption == Seeded \subseteq User
ASSUME AskedAssumption == Asked \subseteq Job
ASSUME NullAssumption == NoUser \notin User

VARIABLES
    account,    \* [User -> Account]: ready once it has a password of its own
    role,       \* [User -> Role]
    enrolled,   \* users with two-factor
    off,        \* deactivated users
    acted,      \* users that audit rows name as actor
    links,      \* users with an unused link to set a password
    signing,    \* [User -> what a sign-in under way still has to do]
    owner,      \* [Session -> User or NoUser]: the session rows
    pc, actor, job, seen, doomed,   \* locals of each request
    outdated    \* history: sessions older than their user's last rotation

accounts == <<account, role, enrolled, off, acted>>
owners == <<links, signing>>
locals == <<pc, actor, job, seen, doomed>>
vars == <<accounts, owners, owner, locals, outdated>>

Account == {"none", "invited", "ready", "removed"}
NoJob == [op |-> "invite", target |-> NoUser, role |-> "editor"]
PC == {"idle", "invite", "create", "resend", "send", "undo", "queued", "locked", "written"}

Exists(u) == account[u] \in {"invited", "ready"}
SessionsOf(u) == {s \in Session : owner[s] = u}

TypeOK ==
    /\ account \in [User -> Account]
    /\ role \in [User -> Role]
    /\ enrolled \subseteq User
    /\ off \subseteq User
    /\ acted \subseteq User
    /\ links \subseteq User
    /\ signing \in [User -> {"no", "session", "second factor"}]
    /\ owner \in [Session -> User \cup {NoUser}]
    /\ pc \in [Request -> PC]
    /\ actor \in [Request -> User \cup {NoUser}]
    /\ job \in [Request -> Job \cup {NoJob}]
    /\ seen \in [Request -> Role]
    /\ doomed \in [Request -> SUBSET Session]
    /\ outdated \subseteq Session
    /\ \A s \in Session : owner[s] # NoUser => Exists(owner[s])
    /\ \A q \in Request : pc[q] = "idle" => actor[q] = NoUser

Init ==
    /\ account = [u \in User |-> IF u \in Seeded THEN "ready" ELSE "none"]
    /\ role = [u \in User |-> IF u \in Seeded THEN "admin" ELSE "editor"]
    /\ enrolled = {}
    /\ off = {}
    /\ acted = {}
    /\ links = {}
    /\ signing = [u \in User |-> "no"]
    /\ owner = [s \in Session |-> NoUser]
    /\ pc = [q \in Request |-> "idle"]
    /\ actor = [q \in Request |-> NoUser]
    /\ job = [q \in Request |-> NoJob]
    /\ seen = [q \in Request |-> "editor"]
    /\ doomed = [q \in Request |-> {}]
    /\ outdated = {}

Target(q) == job[q].target

-----------------------------------------------------------------------------
(* Row locks *)

\* Bugs: lockUser without .for("update") locks nothing while it decides, or nothing that a
\* session's foreign key would wait for.
HeldOnWrite(q) == IF pc[q] = "written" THEN {Target(q)} ELSE {}
HeldNever(q) == {}

\* SELECT ... FOR UPDATE, until the transaction ends.
Held(q) == IF pc[q] \in {"locked", "written"} THEN {Target(q)} ELSE {}

RowFree(u) == \A q \in Request : u \notin Held(q)
RowFreeFor(q, u) == \A p \in Request \ {q} : u \notin Held(p)

-----------------------------------------------------------------------------
(* Admission and the end of a request *)

\* getSessionStatus: any other session is as good as none.
Authed(u) == Exists(u) /\ u \in enrolled \ off

\* requireAdmin: the context is built here and is not checked against the account again.
Admit(q) ==
    /\ pc[q] = "idle"
    /\ \E u \in User, j \in Asked :
        /\ SessionsOf(u) # {} /\ Authed(u) /\ role[u] = "admin"
        /\ actor' = [actor EXCEPT ![q] = u]
        /\ job' = [job EXCEPT ![q] = j]
        /\ pc' = [pc EXCEPT ![q] = IF j.op = "invite" THEN "invite" ELSE "queued"]
    /\ UNCHANGED <<accounts, owners, owner, seen, doomed, outdated>>

\* The request is over, whatever its answer.
End(q) ==
    /\ pc' = [pc EXCEPT ![q] = "idle"]
    /\ actor' = [actor EXCEPT ![q] = NoUser]
    /\ job' = [job EXCEPT ![q] = NoJob]
    /\ seen' = [seen EXCEPT ![q] = "editor"]
    /\ doomed' = [doomed EXCEPT ![q] = {}]

Proceed(q, to) ==
    /\ pc' = [pc EXCEPT ![q] = to]
    /\ UNCHANGED <<actor, job, seen, doomed>>

\* The server stops, a statement fails, or Postgres breaks a deadlock: an open transaction rolls back.
Fail(q) ==
    /\ pc[q] # "idle"
    /\ End(q)
    /\ UNCHANGED <<accounts, owners, owner, outdated>>

-----------------------------------------------------------------------------
(* changeRole, resetTwoFactor, deactivate, reactivate, and an invitation's audit row *)

NoChange(q) ==
    CASE job[q].op = "changeRole" -> role[Target(q)] = job[q].role
      [] job[q].op = "deactivate" -> Target(q) \in off
      [] job[q].op = "reactivate" -> Target(q) \notin off
      [] OTHER                    -> FALSE

\* A bug: only a role change is refused to oneself.
RefusedRoleOnly(q) == job[q].op = "changeRole" /\ Target(q) = actor[q]

Refused(q) == job[q].op \in {"changeRole", "deactivate"} /\ Target(q) = actor[q]

LockUser(q) ==
    /\ pc[q] = "queued"
    /\ RowFreeFor(q, Target(q))
    /\ IF ~Exists(Target(q)) \/ NoChange(q) \/ Refused(q)
       THEN End(q)
       ELSE /\ pc' = [pc EXCEPT ![q] = "locked"]
            /\ seen' = [seen EXCEPT ![q] = role[Target(q)]]
            /\ UNCHANGED <<actor, job, doomed>>
    /\ UNCHANGED <<accounts, owners, owner, outdated>>

Rotates(q) == job[q].op \in {"changeRole", "resetTwoFactor", "deactivate"}

\* The UPDATE, and the DELETE of the sessions that are committed by now.
WriteUser(q) ==
    /\ pc[q] = "locked"
    /\ doomed' = [doomed EXCEPT ![q] = IF Rotates(q) THEN SessionsOf(Target(q)) ELSE {}]
    /\ pc' = [pc EXCEPT ![q] = "written"]
    /\ UNCHANGED <<accounts, owners, owner, actor, job, seen, outdated>>

\* The audit row, whose foreign key needs the actor's row and waits for a lock on it, and the commit.
Commit(q) ==
    /\ pc[q] = "written"
    /\ Exists(actor[q])
    /\ RowFreeFor(q, actor[q])
    /\ LET u == Target(q)
       IN  /\ role' = IF job[q].op = "changeRole" THEN [role EXCEPT ![u] = job[q].role] ELSE role
           /\ enrolled' = IF job[q].op = "resetTwoFactor" THEN enrolled \ {u} ELSE enrolled
           /\ off' = CASE job[q].op = "deactivate" -> off \cup {u}
                       [] job[q].op = "reactivate" -> off \ {u}
                       [] OTHER                    -> off
           /\ owner' = [s \in Session |->
                 IF s \in doomed[q] /\ owner[s] = u THEN NoUser ELSE owner[s]]
           /\ outdated' = IF Rotates(q) THEN outdated \cup SessionsOf(u) ELSE outdated
    /\ acted' = acted \cup {actor[q]}
    /\ End(q)
    /\ UNCHANGED <<account, owners>>

-----------------------------------------------------------------------------
(* inviteUser *)

CheckEmail(q) ==
    /\ pc[q] = "invite"
    /\ IF account[Target(q)] = "none" THEN Proceed(q, "create")
       ELSE IF ~Exists(Target(q)) THEN End(q)   \* bound: an address gets one account
       ELSE IF Target(q) \in enrolled \cup off THEN End(q)
       ELSE Proceed(q, "resend")
    /\ UNCHANGED <<accounts, owners, owner, outdated>>

\* createCredentialUser; the unique index on the address refuses a second account.
CreateAccount(q) ==
    /\ pc[q] = "create"
    /\ LET u == Target(q)
       IN  IF account[u] # "none" THEN End(q) /\ UNCHANGED accounts
           ELSE /\ account' = [account EXCEPT ![u] = "invited"]
                /\ role' = [role EXCEPT ![u] = job[q].role]
                /\ Proceed(q, "send")
                /\ UNCHANGED <<enrolled, off, acted>>
    /\ UNCHANGED <<owners, owner, outdated>>

\* A deactivated or missing account is sent nothing, and nobody is told.
SendLink(u) == links' = IF Exists(u) /\ u \notin off THEN links \cup {u} ELSE links

Resend(q) ==
    /\ pc[q] = "resend"
    /\ SendLink(Target(q))
    /\ End(q)
    /\ UNCHANGED <<accounts, signing, owner, outdated>>

Send(q) ==
    /\ pc[q] = "send"
    /\ SendLink(Target(q))
    /\ Proceed(q, "queued")
    /\ UNCHANGED <<accounts, signing, owner, outdated>>

SendFails(q) ==
    /\ pc[q] = "send"
    /\ Proceed(q, "undo")
    /\ UNCHANGED <<accounts, owners, owner, outdated>>

\* ON DELETE CASCADE
Cascade(u) == [s \in Session |-> IF owner[s] = u THEN NoUser ELSE owner[s]]

\* The account and, by cascade, its sessions; audit rows that name it as actor forbid it.
UndoInvite(q) ==
    /\ pc[q] = "undo"
    /\ RowFreeFor(q, Target(q))
    /\ LET u == Target(q)
       IN  IF u \in acted THEN UNCHANGED <<account, owners, owner>>
           ELSE /\ account' = [account EXCEPT ![u] = "removed"]
                /\ links' = links \ {u}
                /\ signing' = [signing EXCEPT ![u] = "no"]
                /\ owner' = Cascade(u)
    /\ End(q)
    /\ UNCHANGED <<role, enrolled, off, acted, outdated>>

-----------------------------------------------------------------------------
(* What an account's owner does, through Better Auth *)

\* Setting a password revokes the sessions too.
SetPassword(u) ==
    /\ u \in links
    /\ links' = links \ {u}
    /\ account' = [account EXCEPT ![u] = "ready"]
    /\ owner' = [s \in Session |-> IF owner[s] = u THEN NoUser ELSE owner[s]]
    /\ UNCHANGED <<role, enrolled, off, acted, signing, locals, outdated>>

\* refuseDeactivated and the password; with two-factor only a challenge is started.
SignIn(u) ==
    /\ signing[u] = "no"
    /\ account[u] = "ready" /\ u \notin off
    /\ signing' = [signing EXCEPT ![u] = IF u \in enrolled THEN "second factor" ELSE "session"]
    /\ UNCHANGED <<accounts, links, owner, locals, outdated>>

\* The insert's foreign key waits for a locked user row; a reset leaves nothing to verify a code by.
OpenSession(u) ==
    /\ signing[u] = "session" \/ (signing[u] = "second factor" /\ u \in enrolled)
    /\ RowFree(u)
    /\ \E s \in Session :
        /\ owner[s] = NoUser
        /\ owner' = [owner EXCEPT ![s] = u]
        /\ outdated' = outdated \ {s}
    /\ signing' = [signing EXCEPT ![u] = "no"]
    /\ UNCHANGED <<accounts, links, locals>>

AbandonSignIn(u) ==
    /\ signing[u] # "no"
    /\ signing' = [signing EXCEPT ![u] = "no"]
    /\ UNCHANGED <<accounts, links, owner, locals, outdated>>

\* Any session of the account may enrol; the users row is updated, so a lock on it makes this wait.
Enrol(u) ==
    /\ SessionsOf(u) # {} /\ u \notin enrolled
    /\ RowFree(u)
    /\ enrolled' = enrolled \cup {u}
    /\ UNCHANGED <<account, role, off, acted, owners, owner, locals, outdated>>

\* Sign-out, or the session expires.
EndSession(s) ==
    /\ owner[s] # NoUser
    /\ owner' = [owner EXCEPT ![s] = NoUser]
    /\ UNCHANGED <<accounts, owners, locals, outdated>>

-----------------------------------------------------------------------------
RequestStep(q) ==
    \/ LockUser(q) \/ WriteUser(q) \/ Commit(q)
    \/ CheckEmail(q) \/ CreateAccount(q) \/ Resend(q)
    \/ Send(q) \/ SendFails(q) \/ UndoInvite(q)

Next ==
    \/ \E q \in Request : Admit(q) \/ RequestStep(q) \/ Fail(q)
    \/ \E u \in User : SetPassword(u) \/ SignIn(u) \/ OpenSession(u) \/ AbandonSignIn(u) \/ Enrol(u)
    \/ \E s \in Session : EndSession(s)

Spec == Init /\ [][Next]_vars

-----------------------------------------------------------------------------
(* Properties *)

Admins == {u \in User : Exists(u) /\ role[u] = "admin" /\ u \notin off}

\* SEC-04: a session never outlives a role change, a two-factor reset or a deactivation of its
\* user, also when it is opened while that transaction deletes the sessions it can see.
SessionsRotated == \A s \in outdated : owner[s] = NoUser

\* The role that an audit row says was replaced is the role that was replaced, however many
\* admins change one account at once.
AuditTellsTruth ==
    [][\A q \in Request : Commit(q) => seen[q] = role[Target(q)]]_vars

\* The admins run out only by a request that goes on after its own actor lost the role, was
\* deactivated or is gone: nothing an admin who still is one does can remove the last one.
LastAdminLostToStaleRequest ==
    [][Admins # {} /\ Admins' = {} =>
         \E q \in Request : actor[q] \notin Admins /\ (Commit(q) \/ UndoInvite(q))]_vars
=============================================================================
