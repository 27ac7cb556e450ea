-------------------------- MODULE StaffAccessProofs --------------------------
(***************************************************************************)
(* How the staff get in, for any number of accounts, requests, browsers    *)
(* and attempts: first their accounts (StaffAccounts), why sessions are    *)
(* rotated and audit rows are true and how the admins can run out; then    *)
(* the limits (SignIn), why windows bound what is let through and waiting  *)
(* as told is enough.                                                      *)
(*                                                                         *)
(* Accounts.  A request that has locked an account is the only one         *)
(* (Locks): the role it read stays, and no session is opened, so those it  *)
(* saw are all there are when it commits (Sweeps).  It was not refused, so *)
(* an actor who is still an admin is not its own target; an invitation's   *)
(* target had no account when its actor already had one (Actors).          *)
(*                                                                         *)
(* Limits.  A counter begins with its first hit and lives as long as a     *)
(* window, so counters of one key expire a window apart at least (Apart),  *)
(* and each numbers what it lets through (HitOK): what is left of the last *)
(* window's time was let through under two of them at most (TwoCounters).  *)
(***************************************************************************)
EXTENDS StaffAccess, FiniteSetTheorems, FunctionTheorems, TLAPS

\* One request at a time has an account locked; what it read of it is still so.
Locks ==
    \A q \in Request : pc[q] \in {"locked", "written"} =>
        /\ Exists(Target(q))
        /\ seen[q] = role[Target(q)]
        /\ ~Refused(q)
        /\ RowFreeFor(q, Target(q))

\* The sessions a rotating request deletes are all there are.
Sweeps ==
    \A q \in Request : pc[q] = "written" /\ Rotates(q) =>
        \A s \in Session : owner[s] = Target(q) => s \in doomed[q]

\* Links and sign-ins are those of accounts that are there.
Guests == \A u \in User : u \in links \/ signing[u] # "no" => Exists(u)

\* A request has an actor and a job; nobody takes back their own account.
Actors ==
    \A q \in Request : pc[q] # "idle" =>
        /\ actor[q] \in User /\ account[actor[q]] # "none"
        /\ job[q] \in Job
        /\ pc[q] \in {"send", "undo"} => Target(q) # actor[q]

IInv == TypeOK /\ Locks /\ Sweeps /\ Guests /\ Actors /\ SessionsRotated

LEMMA InitIInv == Init => IInv
<1> SUFFICES ASSUME Init PROVE IInv
  OBVIOUS
<1>1. TypeOK
  BY SeededAssumption, NullAssumption DEF Init, TypeOK, Account, Role, PC, Exists, NoJob
<1>2. Locks /\ Sweeps /\ Actors
  BY DEF Init, Locks, Sweeps, Actors
<1>3. Guests /\ SessionsRotated
  BY DEF Init, Guests, SessionsRotated
<1> QED
  BY <1>1, <1>2, <1>3 DEF IInv

-----------------------------------------------------------------------------
(* What a request's step leaves of the others *)

SameLocals(p) ==
    /\ pc'[p] = pc[p] /\ actor'[p] = actor[p] /\ job'[p] = job[p]
    /\ seen'[p] = seen[p] /\ doomed'[p] = doomed[p]

OnlyLocalsOf(q) == \A p \in Request : p # q => SameLocals(p)

LocalTypes ==
    /\ pc \in [Request -> PC]
    /\ actor \in [Request -> User \cup {NoUser}]
    /\ job \in [Request -> Job \cup {NoJob}]
    /\ seen \in [Request -> Role]
    /\ doomed \in [Request -> SUBSET Session]
    /\ \A q \in Request : pc[q] = "idle" => actor[q] = NoUser

LEMMA EndLocals ==
    ASSUME TypeOK, NEW q \in Request, End(q)
    PROVE  LocalTypes' /\ OnlyLocalsOf(q) /\ pc'[q] = "idle"
  BY DEF TypeOK, End, LocalTypes, OnlyLocalsOf, SameLocals, PC, Role

LEMMA ProceedLocals ==
    ASSUME TypeOK, NEW q \in Request, NEW to \in PC \ {"idle"}, Proceed(q, to), pc[q] # "idle"
    PROVE  /\ LocalTypes' /\ OnlyLocalsOf(q)
           /\ pc'[q] = to /\ actor'[q] = actor[q] /\ job'[q] = job[q]
  BY DEF TypeOK, Proceed, LocalTypes, OnlyLocalsOf, SameLocals, PC

\* The locks of the others stay if their accounts do, and q has none to add.
LEMMA LocksOfOthers ==
    ASSUME TypeOK, Locks, NEW q \in Request, OnlyLocalsOf(q),
           pc'[q] \notin {"locked", "written"},
           \A p \in Request : p # q /\ pc[p] \in {"locked", "written"} =>
               Exists(Target(p))' /\ role'[Target(p)] = role[Target(p)]
    PROVE  Locks'
<1> SUFFICES ASSUME NEW p \in Request, pc'[p] \in {"locked", "written"}
             PROVE  /\ Exists(Target(p))'
                    /\ seen'[p] = role'[Target(p)']
                    /\ ~Refused(p)'
                    /\ RowFreeFor(p, Target(p))'
  BY DEF Locks
<1>1. p # q /\ SameLocals(p) /\ pc[p] \in {"locked", "written"} /\ Target(p)' = Target(p)
  BY DEF OnlyLocalsOf, SameLocals, Target
<1>2. Exists(Target(p))' /\ seen'[p] = role'[Target(p)'] /\ ~Refused(p)'
  BY <1>1 DEF Locks, SameLocals, Target, Refused
<1>3. RowFreeFor(p, Target(p))'
  <2> SUFFICES ASSUME NEW r \in Request, r # p PROVE Target(p)' \notin Held(r)'
    BY DEF RowFreeFor
  <2>1. CASE r = q
    BY <2>1 DEF Held
  <2>2. CASE r # q
    BY <2>2, <1>1 DEF OnlyLocalsOf, SameLocals, Locks, RowFreeFor, Held, Target
  <2> QED
    BY <2>1, <2>2
<1> QED
  BY <1>2, <1>3

\* So do the sessions they are about to delete, if no session is added to an account they have.
LEMMA SweepsOfOthers ==
    ASSUME TypeOK, Sweeps, NEW q \in Request, OnlyLocalsOf(q), pc'[q] # "written",
           \A s \in Session : owner'[s] = owner[s] \/ owner'[s] = NoUser,
           \A p \in Request : p # q /\ pc[p] = "written" => Target(p) # NoUser
    PROVE  Sweeps'
  BY DEF Sweeps, OnlyLocalsOf, SameLocals, Target, Rotates

LEMMA ActorsOfOthers ==
    ASSUME TypeOK, Actors, NEW q \in Request, OnlyLocalsOf(q),
           \A u \in User : account[u] # "none" => account'[u] # "none",
           pc'[q] # "idle" =>
               /\ actor'[q] \in User /\ account[actor'[q]] # "none"
               /\ job'[q] \in Job
               /\ pc'[q] \in {"send", "undo"} => Target(q)' # actor'[q]
    PROVE  Actors'
  BY DEF Actors, OnlyLocalsOf, SameLocals, Target

\* The targets of requests under way are accounts.
LEMMA Targets ==
    ASSUME Actors, NEW q \in Request, pc[q] # "idle"
    PROVE  Target(q) \in User /\ Target(q) # NoUser /\ job[q].role \in Role
  BY NullAssumption DEF Actors, Target, Job

-----------------------------------------------------------------------------
(* Every step keeps the invariant *)

LEMMA AdmitKeeps ==
    ASSUME IInv, NEW q \in Request, Admit(q) PROVE IInv'
<1> USE DEF IInv
<1>1. PICK u \in User, j \in Asked :
        /\ Authed(u)
        /\ actor' = [actor EXCEPT ![q] = u]
        /\ job' = [job EXCEPT ![q] = j]
        /\ pc' = [pc EXCEPT ![q] = IF j.op = "invite" THEN "invite" ELSE "queued"]
  BY DEF Admit
<1>2. UNCHANGED <<account, role, enrolled, off, acted, links, signing, owner, seen, doomed, outdated>>
  BY DEF Admit, accounts, owners
<1>3. j \in Job /\ pc'[q] \in {"invite", "queued"} /\ OnlyLocalsOf(q)
  BY <1>1, <1>2, AskedAssumption DEF TypeOK, OnlyLocalsOf, SameLocals
<1>4. pc' \in [Request -> PC] /\ actor' \in [Request -> User \cup {NoUser}]
      /\ job' \in [Request -> Job \cup {NoJob}]
  BY <1>1, <1>3 DEF TypeOK, PC
<1>5. TypeOK'
  <2>1. \A p \in Request : pc'[p] = "idle" => actor'[p] = NoUser
    BY <1>3 DEF TypeOK, OnlyLocalsOf, SameLocals
  <2> QED
    BY <1>2, <1>4, <2>1 DEF TypeOK, Exists
<1>6. Locks'
  BY <1>2, <1>3, LocksOfOthers DEF Locks, Exists, Target, OnlyLocalsOf, SameLocals
<1>7. Sweeps'
  BY <1>2, <1>3, SweepsOfOthers, Targets
<1>8. Actors'
  <2>1. u \in User /\ account[u] # "none" /\ actor'[q] = u /\ job'[q] = j
    BY <1>1 DEF TypeOK, Authed, Exists
  <2> QED
    BY <1>2, <1>3, <2>1, ActorsOfOthers
<1>9. Guests' /\ SessionsRotated'
  BY <1>2 DEF Guests, SessionsRotated, Exists
<1> QED
  BY <1>5, <1>6, <1>7, <1>8, <1>9

\* A request that ends without writing anything.
LEMMA EndKeeps ==
    ASSUME IInv, NEW q \in Request, pc[q] # "idle", End(q),
           UNCHANGED <<accounts, owners, owner, outdated>>
    PROVE  IInv'
<1> USE DEF IInv, accounts, owners
<1>1. LocalTypes' /\ OnlyLocalsOf(q) /\ pc'[q] = "idle"
  BY EndLocals
<1>2. TypeOK'
  BY <1>1 DEF TypeOK, LocalTypes, Exists
<1>3. Locks'
  BY <1>1, LocksOfOthers DEF Locks, Exists, Target, OnlyLocalsOf, SameLocals
<1>4. Sweeps'
  BY <1>1, SweepsOfOthers, Targets
<1>5. Actors'
  BY <1>1, ActorsOfOthers
<1>6. Guests' /\ SessionsRotated'
  BY DEF Guests, SessionsRotated, Exists
<1> QED
  BY <1>2, <1>3, <1>4, <1>5, <1>6

\* An invitation that goes on to its next step without touching an account.
LEMMA ProceedKeeps ==
    ASSUME IInv, NEW q \in Request, pc[q] # "idle",
           NEW to \in {"create", "resend", "undo", "queued"}, Proceed(q, to),
           to = "undo" => Target(q) # actor[q],
           UNCHANGED <<accounts, signing, owner, outdated>>,
           links' \subseteq User, \A u \in links' : Exists(u)
    PROVE  IInv'
<1> USE DEF IInv, accounts, owners
<1>1. LocalTypes' /\ OnlyLocalsOf(q) /\ pc'[q] = to /\ actor'[q] = actor[q] /\ job'[q] = job[q]
  BY ProceedLocals DEF PC
<1>2. TypeOK'
  BY <1>1 DEF TypeOK, LocalTypes, Exists
<1>3. Locks'
  BY <1>1, LocksOfOthers DEF Locks, Exists, Target, OnlyLocalsOf, SameLocals
<1>4. Sweeps'
  BY <1>1, SweepsOfOthers, Targets
<1>5. Actors'
  <2>1. actor[q] \in User /\ account[actor[q]] # "none" /\ job[q] \in Job
    BY DEF Actors
  <2>2. Target(q)' = Target(q)
    BY <1>1 DEF Target
  <2> QED
    BY <1>1, <2>1, <2>2, ActorsOfOthers
<1>6. Guests' /\ SessionsRotated'
  BY DEF Guests, SessionsRotated, Exists
<1> QED
  BY <1>2, <1>3, <1>4, <1>5, <1>6

LEMMA LockUserKeeps ==
    ASSUME IInv, NEW q \in Request, LockUser(q) PROVE IInv'
<1> USE DEF IInv, accounts, owners
<1>1. CASE End(q)
  BY <1>1, EndKeeps DEF LockUser
<1>2. CASE ~End(q)
  <2>1. /\ Exists(Target(q)) /\ ~Refused(q) /\ RowFreeFor(q, Target(q)) /\ pc[q] = "queued"
        /\ pc' = [pc EXCEPT ![q] = "locked"]
        /\ seen' = [seen EXCEPT ![q] = role[Target(q)]]
        /\ UNCHANGED <<actor, job, doomed, account, role, enrolled, off, acted, links, signing, owner, outdated>>
    BY <1>2 DEF LockUser
  <2>2. Target(q) \in User /\ \A p \in Request : Target(p)' = Target(p)
    BY <2>1, Targets DEF Target
  <2>3. TypeOK'
    <3>1. seen' \in [Request -> Role] /\ pc' \in [Request -> PC]
      BY <2>1, <2>2 DEF TypeOK, PC
    <3>2. \A p \in Request : pc'[p] = "idle" => actor'[p] = NoUser
      BY <2>1 DEF TypeOK
    <3> QED
      BY <2>1, <3>1, <3>2 DEF TypeOK, Exists
  <2>4. Locks'
    <3> SUFFICES ASSUME NEW p \in Request, pc'[p] \in {"locked", "written"}
                 PROVE  /\ Exists(Target(p))'
                        /\ seen'[p] = role'[Target(p)']
                        /\ ~Refused(p)'
                        /\ RowFreeFor(p, Target(p))'
      BY DEF Locks
    <3>1. Exists(Target(p))' /\ seen'[p] = role'[Target(p)'] /\ ~Refused(p)'
      BY <2>1, <2>2 DEF TypeOK, Locks, Exists, Refused, Target
    <3>2. RowFreeFor(p, Target(p))'
      BY <2>1, <2>2, ZenonT(60) DEF TypeOK, Locks, RowFreeFor, Held
    <3> QED
      BY <3>1, <3>2
  <2>5. Sweeps'
    BY <2>1, <2>2 DEF TypeOK, Sweeps, Rotates
  <2>6. Actors'
    BY <2>1, <2>2 DEF TypeOK, Actors
  <2>7. Guests' /\ SessionsRotated'
    BY <2>1 DEF Guests, SessionsRotated, Exists
  <2> QED
    BY <2>3, <2>4, <2>5, <2>6, <2>7
<1> QED
  BY <1>1, <1>2

LEMMA WriteUserKeeps ==
    ASSUME IInv, NEW q \in Request, WriteUser(q) PROVE IInv'
<1> USE DEF IInv, accounts, owners
<1>1. /\ pc[q] = "locked" /\ pc' = [pc EXCEPT ![q] = "written"]
      /\ doomed' = [doomed EXCEPT ![q] = IF Rotates(q) THEN SessionsOf(Target(q)) ELSE {}]
      /\ UNCHANGED <<actor, job, seen, account, role, enrolled, off, acted, links, signing, owner, outdated>>
  BY DEF WriteUser
<1>2. \A p \in Request : Target(p)' = Target(p) /\ Held(p)' = Held(p)
  BY <1>1 DEF TypeOK, Held, Target
<1>3. TypeOK'
  <2>1. pc' \in [Request -> PC] /\ doomed' \in [Request -> SUBSET Session]
    BY <1>1 DEF TypeOK, PC, SessionsOf
  <2>2. \A p \in Request : pc'[p] = "idle" => actor'[p] = NoUser
    BY <1>1 DEF TypeOK
  <2> QED
    BY <1>1, <2>1, <2>2 DEF TypeOK, Exists
<1>4. Locks'
  <2>1. \A p \in Request : pc'[p] \in {"locked", "written"} => pc[p] \in {"locked", "written"}
    BY <1>1 DEF TypeOK
  <2>2. \A p \in Request : Refused(p)' = Refused(p) /\ RowFreeFor(p, Target(p))' = RowFreeFor(p, Target(p))
    BY <1>1, <1>2 DEF Refused, RowFreeFor
  <2> QED
    BY <1>1, <1>2, <2>1, <2>2 DEF Locks, Exists
<1>5. Sweeps'
  BY <1>1, <1>2 DEF TypeOK, Sweeps, Rotates, SessionsOf
<1>6. Actors'
  BY <1>1, <1>2 DEF TypeOK, Actors
<1>7. Guests' /\ SessionsRotated'
  BY <1>1 DEF Guests, SessionsRotated, Exists
<1> QED
  BY <1>3, <1>4, <1>5, <1>6, <1>7

LEMMA CommitKeeps ==
    ASSUME IInv, NEW q \in Request, Commit(q) PROVE IInv'
<1> USE DEF IInv, accounts, owners
<1> DEFINE t == Target(q)
<1>1. pc[q] = "written" /\ End(q) /\ UNCHANGED <<account, links, signing>>
  BY DEF Commit
<1>2. LocalTypes' /\ OnlyLocalsOf(q) /\ pc'[q] = "idle"
  BY <1>1, EndLocals
<1>3. t \in User /\ job[q].role \in Role /\ actor[q] \in User
  BY <1>1, Targets DEF Actors
<1>4. /\ role' = IF job[q].op = "changeRole" THEN [role EXCEPT ![t] = job[q].role] ELSE role
      /\ owner' = [s \in Session |-> IF s \in doomed[q] /\ owner[s] = t THEN NoUser ELSE owner[s]]
      /\ outdated' = IF Rotates(q) THEN outdated \cup SessionsOf(t) ELSE outdated
  BY DEF Commit
<1>5. enrolled' \subseteq User /\ off' \subseteq User /\ acted' \subseteq User
  BY <1>3 DEF Commit, TypeOK
<1>6. TypeOK'
  <2>1. role' \in [User -> Role] /\ owner' \in [Session -> User \cup {NoUser}] /\ outdated' \subseteq Session
    BY <1>3, <1>4 DEF TypeOK, SessionsOf
  <2>2. \A s \in Session : owner'[s] # NoUser => account'[owner'[s]] \in {"invited", "ready"}
    BY <1>1, <1>4 DEF TypeOK, Exists
  <2> QED
    BY <1>1, <1>2, <1>5, <2>1, <2>2 DEF TypeOK, LocalTypes, Exists
<1>7. Locks'
  <2>1. \A p \in Request : p # q /\ pc[p] \in {"locked", "written"} => Target(p) # t /\ Target(p) \in User
    BY <1>1, Targets DEF Locks, RowFreeFor, Held
  <2>2. \A p \in Request : p # q /\ pc[p] \in {"locked", "written"} =>
            Exists(Target(p))' /\ role'[Target(p)] = role[Target(p)]
    <3> SUFFICES ASSUME NEW p \in Request, p # q, pc[p] \in {"locked", "written"}
                 PROVE  Exists(Target(p))' /\ role'[Target(p)] = role[Target(p)]
      OBVIOUS
    <3>1. Target(p)' = Target(p) /\ Target(p) # t /\ Target(p) \in User /\ Exists(Target(p))
      BY <1>2, <2>1 DEF OnlyLocalsOf, SameLocals, Target, Locks
    <3>2. role'[Target(p)] = role[Target(p)]
      BY <3>1, <1>3, <1>4 DEF TypeOK
    <3> QED
      BY <3>1, <3>2, <1>1 DEF Exists
  <2> QED
    BY <1>2, <2>2, LocksOfOthers
<1>8. Sweeps'
  <2>1. \A s \in Session : owner'[s] = owner[s] \/ owner'[s] = NoUser
    BY <1>4
  <2> QED
    BY <1>2, <2>1, SweepsOfOthers, Targets
<1>9. Actors' /\ Guests'
  BY <1>1, <1>2, ActorsOfOthers DEF Guests, Exists
<1>10. SessionsRotated'
  <2> SUFFICES ASSUME NEW s \in Session, s \in outdated' PROVE owner'[s] = NoUser
    BY <1>6 DEF SessionsRotated, TypeOK
  <2>1. CASE s \in outdated
    BY <2>1, <1>4 DEF SessionsRotated
  <2>2. CASE s \notin outdated
    BY <2>2, <1>1, <1>4 DEF Sweeps, SessionsOf
  <2> QED
    BY <2>1, <2>2
<1> QED
  BY <1>6, <1>7, <1>8, <1>9, <1>10

LEMMA CheckEmailKeeps ==
    ASSUME IInv, NEW q \in Request, CheckEmail(q) PROVE IInv'
<1>1. pc[q] # "idle" /\ UNCHANGED <<accounts, owners, owner, outdated>>
  BY DEF CheckEmail
<1>2. links' \subseteq User /\ \A u \in links' : Exists(u)
  BY <1>1 DEF owners, IInv, TypeOK, Guests
<1>3. End(q) \/ Proceed(q, "create") \/ Proceed(q, "resend")
  BY DEF CheckEmail
<1> QED
  BY <1>1, <1>2, <1>3, EndKeeps, ProceedKeeps DEF owners

LEMMA CreateAccountKeeps ==
    ASSUME IInv, NEW q \in Request, CreateAccount(q) PROVE IInv'
<1> USE DEF IInv, accounts, owners
<1> DEFINE t == Target(q)
<1>1. CASE account[t] # "none"
  BY <1>1, EndKeeps DEF CreateAccount
<1>2. CASE account[t] = "none"
  <2>1. /\ pc[q] = "create" /\ Proceed(q, "send")
        /\ account' = [account EXCEPT ![t] = "invited"]
        /\ role' = [role EXCEPT ![t] = job[q].role]
        /\ UNCHANGED <<enrolled, off, acted, links, signing, owner, outdated>>
    BY <1>2 DEF CreateAccount
  <2>2. /\ LocalTypes' /\ OnlyLocalsOf(q)
        /\ pc'[q] = "send" /\ actor'[q] = actor[q] /\ job'[q] = job[q]
    BY <2>1, ProceedLocals DEF PC
  <2>3. t \in User /\ job[q].role \in Role /\ Target(q)' = t
    BY <2>1, <2>2, Targets DEF Target
  <2>4. account' \in [User -> Account] /\ role' \in [User -> Role]
    BY <2>1, <2>3 DEF TypeOK, Account
  <2>5. \A u \in User : Exists(u) => Exists(u)' /\ u # t
    BY <1>2, <2>1 DEF TypeOK, Exists
  <2>6. TypeOK'
    <3>1. \A s \in Session : owner'[s] # NoUser => account'[owner'[s]] \in {"invited", "ready"}
      BY <2>1, <2>5 DEF TypeOK, Exists
    <3> QED
      BY <2>1, <2>2, <2>4, <3>1 DEF TypeOK, LocalTypes, Exists
  <2>7. Locks'
    <3>1. \A p \in Request : p # q /\ pc[p] \in {"locked", "written"} =>
              Exists(Target(p))' /\ role'[Target(p)] = role[Target(p)]
      <4> SUFFICES ASSUME NEW p \in Request, p # q, pc[p] \in {"locked", "written"}
                   PROVE  Exists(Target(p))' /\ role'[Target(p)] = role[Target(p)]
        OBVIOUS
      <4>1. Target(p)' = Target(p) /\ Target(p) \in User /\ Exists(Target(p))
        BY <2>2, Targets DEF OnlyLocalsOf, SameLocals, Target, Locks
      <4>2. Target(p) # t
        BY <4>1, <2>5
      <4>3. role'[Target(p)] = role[Target(p)]
        BY <4>1, <4>2, <2>1, <2>3 DEF TypeOK
      <4>4. account'[Target(p)] = account[Target(p)]
        BY <4>1, <4>2, <2>1, <2>3 DEF TypeOK
      <4> QED
        BY <4>1, <4>3, <4>4 DEF Exists
    <3> QED
      BY <2>2, <3>1, LocksOfOthers
  <2>8. Sweeps'
    BY <2>1, <2>2, SweepsOfOthers, Targets
  <2>9. Actors'
    <3>1. \A u \in User : account[u] # "none" => account'[u] # "none"
      BY <2>1 DEF TypeOK
    <3>2. /\ actor[q] \in User /\ account[actor[q]] # "none" /\ job[q] \in Job
          /\ t # actor[q]
      BY <1>2, <2>1 DEF Actors
    <3> QED
      BY <2>2, <2>3, <3>1, <3>2, ActorsOfOthers
  <2>10. Guests' /\ SessionsRotated'
    BY <2>1, <2>5 DEF Guests, SessionsRotated
  <2> QED
    BY <2>6, <2>7, <2>8, <2>9, <2>10
<1> QED
  BY <1>1, <1>2

LEMMA SendLinkKeeps ==
    ASSUME IInv, NEW q \in Request, pc[q] # "idle", SendLink(Target(q))
    PROVE  links' \subseteq User /\ \A u \in links' : Exists(u)
<1>1. Target(q) \in User
  BY Targets DEF IInv
<1> QED
  BY <1>1 DEF SendLink, IInv, TypeOK, Guests

LEMMA SendKeeps ==
    ASSUME IInv, NEW q \in Request, Send(q) \/ SendFails(q) PROVE IInv'
<1>1. pc[q] # "idle" /\ UNCHANGED <<accounts, signing, owner, outdated>>
  BY DEF Send, SendFails, owners
<1>2. CASE Send(q)
  BY <1>1, <1>2, SendLinkKeeps, ProceedKeeps DEF Send
<1>3. CASE SendFails(q)
  <2>1. Target(q) # actor[q] /\ Proceed(q, "undo") /\ links' = links
    BY <1>3 DEF SendFails, owners, IInv, Actors
  <2>2. links' \subseteq User /\ \A u \in links' : Exists(u)
    BY <2>1 DEF IInv, TypeOK, Guests
  <2> QED
    BY <1>1, <2>1, <2>2, ProceedKeeps
<1> QED
  BY <1>2, <1>3

LEMMA ResendKeeps ==
    ASSUME IInv, NEW q \in Request, Resend(q) PROVE IInv'
<1> USE DEF IInv, accounts, owners
<1>1. End(q) /\ pc[q] # "idle" /\ UNCHANGED <<accounts, signing, owner, outdated>>
  BY DEF Resend
<1>2. LocalTypes' /\ OnlyLocalsOf(q) /\ pc'[q] = "idle"
  BY <1>1, EndLocals
<1>3. links' \subseteq User /\ \A u \in links' : Exists(u)
  BY <1>1, SendLinkKeeps DEF Resend
<1>4. TypeOK'
  BY <1>1, <1>2, <1>3 DEF TypeOK, LocalTypes, Exists
<1>5. Locks'
  BY <1>1, <1>2, LocksOfOthers DEF Locks, Exists, Target, OnlyLocalsOf, SameLocals
<1>6. Sweeps'
  BY <1>1, <1>2, SweepsOfOthers, Targets
<1>7. Actors'
  BY <1>1, <1>2, ActorsOfOthers
<1>8. Guests' /\ SessionsRotated'
  BY <1>1, <1>3 DEF Guests, SessionsRotated, Exists
<1> QED
  BY <1>4, <1>5, <1>6, <1>7, <1>8

LEMMA UndoInviteKeeps ==
    ASSUME IInv, NEW q \in Request, UndoInvite(q) PROVE IInv'
<1> USE DEF IInv, accounts, owners
<1> DEFINE t == Target(q)
<1>1. CASE t \in acted
  BY <1>1, EndKeeps DEF UndoInvite
<1>2. CASE t \notin acted
  <2>1. /\ pc[q] = "undo" /\ End(q) /\ RowFreeFor(q, t)
        /\ account' = [account EXCEPT ![t] = "removed"]
        /\ links' = links \ {t}
        /\ signing' = [signing EXCEPT ![t] = "no"]
        /\ owner' = [s \in Session |-> IF owner[s] = t THEN NoUser ELSE owner[s]]
        /\ UNCHANGED <<role, enrolled, off, acted, outdated>>
    BY <1>2 DEF UndoInvite, Cascade
  <2>2. LocalTypes' /\ OnlyLocalsOf(q) /\ pc'[q] = "idle" /\ t \in User
    BY <2>1, EndLocals, Targets
  <2>3. /\ account' \in [User -> Account] /\ account'[t] = "removed"
        /\ \A u \in User : u # t => account'[u] = account[u]
    BY <2>1, <2>2 DEF TypeOK, Account
  <2>4. TypeOK'
    <3>1. signing' \in [User -> {"no", "session", "second factor"}]
          /\ owner' \in [Session -> User \cup {NoUser}]
      BY <2>1, <2>2 DEF TypeOK
    <3>2. \A s \in Session : owner'[s] # NoUser => account'[owner'[s]] \in {"invited", "ready"}
      BY <2>1, <2>2, <2>3, ZenonT(60) DEF TypeOK, Exists
    <3> QED
      BY <2>1, <2>2, <2>3, <3>1, <3>2 DEF TypeOK, LocalTypes, Exists
  <2>5. Locks'
    <3>1. \A p \in Request : p # q /\ pc[p] \in {"locked", "written"} =>
              Exists(Target(p))' /\ role'[Target(p)] = role[Target(p)]
      <4> SUFFICES ASSUME NEW p \in Request, p # q, pc[p] \in {"locked", "written"}
                   PROVE  Exists(Target(p))' /\ role'[Target(p)] = role[Target(p)]
        OBVIOUS
      <4>1. Target(p)' = Target(p) /\ Target(p) \in User /\ Exists(Target(p))
        BY <2>2, Targets DEF OnlyLocalsOf, SameLocals, Target, Locks
      <4>2. Target(p) # t
        BY <2>1 DEF RowFreeFor, Held
      <4> QED
        BY <4>1, <4>2, <2>1, <2>3 DEF Exists
    <3> QED
      BY <2>2, <3>1, LocksOfOthers
  <2>6. Sweeps'
    <3>1. \A s \in Session : owner'[s] = owner[s] \/ owner'[s] = NoUser
      BY <2>1
    <3> QED
      BY <2>2, <3>1, SweepsOfOthers, Targets
  <2>7. Actors'
    <3>1. \A u \in User : account[u] # "none" => account'[u] # "none"
      BY <2>3
    <3> QED
      BY <2>2, <3>1, ActorsOfOthers
  <2>8. Guests'
    BY <2>1, <2>2, <2>3 DEF Guests, Exists, TypeOK
  <2>9. SessionsRotated'
    BY <2>1 DEF SessionsRotated, TypeOK
  <2> QED
    BY <2>4, <2>5, <2>6, <2>7, <2>8, <2>9
<1> QED
  BY <1>1, <1>2

\* What the owner of an account or the clock does touches no request.
LEMMA LocksKept ==
    ASSUME Locks, Actors, UNCHANGED <<locals, role>>, \A u \in User : Exists(u) => Exists(u)'
    PROVE  Locks'
<1>1. \A p \in Request : /\ Target(p)' = Target(p) /\ Held(p)' = Held(p)
                         /\ Refused(p)' = Refused(p)
  BY DEF locals, Target, Held, Refused
<1>2. \A p \in Request : RowFreeFor(p, Target(p))' = RowFreeFor(p, Target(p))
  BY <1>1 DEF RowFreeFor
<1>3. \A p \in Request : pc[p] # "idle" => Target(p) \in User
  BY Targets
<1> QED
  BY <1>1, <1>2, <1>3 DEF Locks, locals, Exists, Target

LEMMA SweepsKept ==
    ASSUME TypeOK, Sweeps, Actors, UNCHANGED locals,
           \A s \in Session : owner'[s] = owner[s] \/ owner'[s] = NoUser
    PROVE  Sweeps'
<1>1. \A p \in Request : pc[p] # "idle" => Target(p) # NoUser
  BY Targets
<1>2. \A p \in Request : Target(p)' = Target(p) /\ Rotates(p)' = Rotates(p)
  BY DEF locals, Target, Rotates
<1> QED
  BY <1>1, <1>2 DEF Sweeps, locals

LEMMA ActorsKept ==
    ASSUME Actors, UNCHANGED locals, \A u \in User : account[u] # "none" => account'[u] # "none"
    PROVE  Actors'
  BY DEF Actors, locals, Target

LEMMA OwnerKeeps ==
    ASSUME IInv, NEW u \in User,
           SetPassword(u) \/ SignIn(u) \/ OpenSession(u) \/ AbandonSignIn(u) \/ Enrol(u)
    PROVE  IInv'
<1> USE DEF IInv, accounts, owners
<1>1. UNCHANGED <<locals, role>>
  BY DEF SetPassword, SignIn, OpenSession, AbandonSignIn, Enrol
<1>2. CASE SetPassword(u)
  <2>1. /\ u \in links /\ links' = links \ {u}
        /\ account' = [account EXCEPT ![u] = "ready"]
        /\ owner' = [s \in Session |-> IF owner[s] = u THEN NoUser ELSE owner[s]]
        /\ UNCHANGED <<role, enrolled, off, acted, signing, outdated>>
    BY <1>2 DEF SetPassword
  <2>2. Exists(u) /\ account' \in [User -> Account] /\ \A v \in User : Exists(v) => Exists(v)'
    BY <2>1 DEF Guests, TypeOK, Account, Exists
  <2>3. TypeOK'
    <3>1. owner' \in [Session -> User \cup {NoUser}] /\ links' \subseteq User
      BY <2>1 DEF TypeOK
    <3>2. \A s \in Session : owner'[s] # NoUser => account'[owner'[s]] \in {"invited", "ready"}
      BY <2>1 DEF TypeOK, Exists
    <3> QED
      BY <1>1, <2>1, <2>2, <3>1, <3>2 DEF TypeOK, Exists, locals
  <2>4. Locks' /\ Sweeps' /\ Actors'
    <3>1. \A v \in User : account[v] # "none" => account'[v] # "none"
      BY <2>1 DEF TypeOK
    <3>2. \A s \in Session : owner'[s] = owner[s] \/ owner'[s] = NoUser
      BY <2>1
    <3>3. UNCHANGED locals /\ UNCHANGED <<locals, role>>
      BY <1>1
    <3>4. Locks'
      BY <2>2, <3>3, LocksKept
    <3>5. Sweeps'
      BY <3>2, <3>3, SweepsKept
    <3>6. Actors'
      BY <3>1, <3>3, ActorsKept
    <3> QED
      BY <3>4, <3>5, <3>6
  <2>5. Guests' /\ SessionsRotated'
    BY <2>1, <2>2 DEF Guests, SessionsRotated, TypeOK
  <2> QED
    BY <2>3, <2>4, <2>5
<1>3. CASE SignIn(u) \/ AbandonSignIn(u)
  <2>1. UNCHANGED <<accounts, links, owner, outdated>>
    BY <1>3 DEF SignIn, AbandonSignIn
  <2>2. /\ signing' \in [User -> {"no", "session", "second factor"}]
        /\ \A v \in User : signing'[v] # "no" => Exists(v)
    BY <1>3 DEF SignIn, AbandonSignIn, TypeOK, Guests, Exists
  <2>3. TypeOK'
    BY <1>1, <2>1, <2>2 DEF TypeOK, Exists, locals
  <2>4. Locks' /\ Sweeps' /\ Actors'
    BY <1>1, <2>1, LocksKept, SweepsKept, ActorsKept DEF Exists
  <2>5. Guests' /\ SessionsRotated'
    BY <2>1, <2>2 DEF Guests, SessionsRotated, Exists
  <2> QED
    BY <2>3, <2>4, <2>5
<1>4. CASE OpenSession(u)
  <2>1. PICK s \in Session :
          /\ owner[s] = NoUser /\ owner' = [owner EXCEPT ![s] = u] /\ outdated' = outdated \ {s}
    BY <1>4 DEF OpenSession
  <2>2. /\ RowFree(u) /\ signing[u] # "no" /\ signing' = [signing EXCEPT ![u] = "no"]
        /\ UNCHANGED <<accounts, links>>
    BY <1>4 DEF OpenSession
  <2>3. Exists(u)
    BY <2>2 DEF Guests
  <2>4. TypeOK'
    BY <1>1, <2>1, <2>2, <2>3 DEF TypeOK, Exists, locals
  <2>5. Locks' /\ Actors'
    BY <1>1, <2>2, LocksKept, ActorsKept DEF Exists
  <2>6. Sweeps'
    <3>1. \A p \in Request : pc[p] = "written" => Target(p) # u
      BY <2>2 DEF RowFree, Held
    <3>2. \A p \in Request : Target(p)' = Target(p) /\ Rotates(p)' = Rotates(p)
      BY <1>1 DEF locals, Target, Rotates
    <3> QED
      BY <1>1, <2>1, <3>1, <3>2 DEF Sweeps, locals, TypeOK
  <2>7. Guests' /\ SessionsRotated'
    BY <2>1, <2>2 DEF Guests, SessionsRotated, Exists, TypeOK
  <2> QED
    BY <2>4, <2>5, <2>6, <2>7
<1>5. CASE Enrol(u)
  <2>1. enrolled' = enrolled \cup {u} /\ UNCHANGED <<account, role, off, acted, owners, owner, outdated>>
    BY <1>5 DEF Enrol
  <2>2. TypeOK'
    BY <1>1, <2>1 DEF TypeOK, Exists, locals
  <2>3. Locks' /\ Sweeps' /\ Actors'
    BY <1>1, <2>1, LocksKept, SweepsKept, ActorsKept DEF Exists
  <2>4. Guests' /\ SessionsRotated'
    BY <2>1 DEF Guests, SessionsRotated, Exists
  <2> QED
    BY <2>2, <2>3, <2>4
<1> QED
  BY <1>2, <1>3, <1>4, <1>5

LEMMA EndSessionKeeps ==
    ASSUME IInv, NEW s \in Session, EndSession(s) PROVE IInv'
<1> USE DEF IInv, accounts, owners
<1>1. owner' = [owner EXCEPT ![s] = NoUser] /\ UNCHANGED <<accounts, owners, locals, outdated>>
  BY DEF EndSession
<1>2. TypeOK'
  BY <1>1 DEF TypeOK, Exists, locals
<1>3. Locks' /\ Sweeps' /\ Actors'
  BY <1>1, LocksKept, SweepsKept, ActorsKept DEF Exists, TypeOK
<1>4. Guests' /\ SessionsRotated'
  BY <1>1 DEF Guests, SessionsRotated, Exists, TypeOK
<1> QED
  BY <1>2, <1>3, <1>4

LEMMA StutterKeeps == ASSUME IInv, UNCHANGED vars PROVE IInv'
<1> USE DEF IInv, vars, accounts, owners
<1>1. TypeOK'
  BY DEF TypeOK, Exists, locals
<1>2. Locks' /\ Sweeps' /\ Actors'
  BY LocksKept, SweepsKept, ActorsKept DEF Exists
<1>3. Guests' /\ SessionsRotated'
  BY DEF Guests, SessionsRotated, Exists
<1> QED
  BY <1>1, <1>2, <1>3

-----------------------------------------------------------------------------
(* The theorems *)

\* The inductive invariant holds in every reachable state: row locks, sessions to delete, actors.
THEOREM Invariance == Spec => []IInv
<1>1. IInv /\ [Next]_vars => IInv'
  <2> SUFFICES ASSUME IInv, [Next]_vars PROVE IInv'
    OBVIOUS
  <2>1. ASSUME NEW q \in Request, Admit(q) \/ RequestStep(q) \/ Fail(q) PROVE IInv'
    <3>1. CASE Admit(q)
      BY <3>1, AdmitKeeps
    <3>2. CASE Fail(q)
      BY <3>2, EndKeeps DEF Fail
    <3>3. CASE LockUser(q) \/ WriteUser(q) \/ Commit(q)
      BY <3>3, LockUserKeeps, WriteUserKeeps, CommitKeeps
    <3>4. CASE CheckEmail(q) \/ CreateAccount(q) \/ Resend(q)
      BY <3>4, CheckEmailKeeps, CreateAccountKeeps, ResendKeeps
    <3>5. CASE Send(q) \/ SendFails(q) \/ UndoInvite(q)
      BY <3>5, SendKeeps, UndoInviteKeeps
    <3> QED
      BY <2>1, <3>1, <3>2, <3>3, <3>4, <3>5 DEF RequestStep
  <2> QED
    BY <2>1, OwnerKeeps, EndSessionKeeps, StutterKeeps DEF Next
<1> QED
  BY <1>1, InitIInv, PTL DEF Spec

\* Every reachable state of the staff accounts is well typed, and every session has an account.
THEOREM TypeCorrect == Spec => []TypeOK
<1>1. IInv => TypeOK
  BY DEF IInv
<1> QED
  BY <1>1, Invariance, PTL

\* SEC-04: no session of an account is older than its last role change, two-factor reset or
\* deactivation, for any number of requests and sign-ins at once.
THEOREM SessionsAlwaysRotated == Spec => []SessionsRotated
<1>1. IInv => SessionsRotated
  BY DEF IInv
<1> QED
  BY <1>1, Invariance, PTL

\* FR-405: an audit row names the role that was really replaced.
THEOREM AuditAlwaysTrue == Spec => AuditTellsTruth
<1>1. IInv /\ [Next]_vars => [\A q \in Request : Commit(q) => seen[q] = role[Target(q)]]_vars
  BY DEF IInv, Locks, Commit
<1> QED
  BY <1>1, Invariance, PTL DEF Spec, AuditTellsTruth

\* An actor who is still an admin when its request commits is one afterwards.
LEMMA ActorStays ==
    ASSUME IInv, NEW q \in Request, Commit(q) \/ UndoInvite(q), actor[q] \in Admins
    PROVE  actor[q] \in Admins'
<1> USE DEF IInv
<1>1. actor[q] \in User /\ Exists(actor[q]) /\ role[actor[q]] = "admin" /\ actor[q] \notin off
  BY DEF Admins
<1>2. CASE Commit(q)
  <2>1. account' = account /\ ~Refused(q)
    BY <1>2 DEF Commit, Locks
  <2>2. role'[actor[q]] = "admin"
    BY <1>1, <1>2, <2>1 DEF Commit, Refused, TypeOK
  <2>3. actor[q] \notin off'
    BY <1>1, <1>2, <2>1 DEF Commit, Refused
  <2> QED
    BY <1>1, <2>1, <2>2, <2>3 DEF Admins, Exists
<1>3. CASE UndoInvite(q)
  <2>1. Target(q) # actor[q] /\ role' = role /\ off' = off
    BY <1>3 DEF UndoInvite, Actors
  <2>2. account'[actor[q]] = account[actor[q]]
    BY <1>1, <1>3, <2>1 DEF UndoInvite, TypeOK
  <2> QED
    BY <1>1, <2>1, <2>2 DEF Admins, Exists
<1> QED
  BY <1>2, <1>3

\* No other step takes an admin away: a new account replaces nothing.
LEMMA OthersKeepAdmins ==
    ASSUME IInv, Next, \A q \in Request : ~Commit(q) /\ ~UndoInvite(q)
    PROVE  Admins \subseteq Admins'
<1> USE DEF IInv
<1>1. ASSUME NEW q \in Request, CreateAccount(q) PROVE Admins \subseteq Admins'
  <2> SUFFICES ASSUME NEW v \in Admins PROVE v \in Admins'
    OBVIOUS
  <2>1. v \in User /\ account[v] # "none" /\ off' = off
    BY <1>1 DEF Admins, Exists, CreateAccount, accounts
  <2>2. account'[v] = account[v] /\ role'[v] = role[v]
    BY <1>1, <2>1 DEF CreateAccount, TypeOK, accounts
  <2> QED
    BY <2>1, <2>2 DEF Admins, Exists
<1>2. ASSUME NEW u \in User, SetPassword(u) PROVE Admins \subseteq Admins'
  <2> SUFFICES ASSUME NEW v \in Admins PROVE v \in Admins'
    OBVIOUS
  <2>1. v \in User /\ Exists(v) /\ role' = role /\ off' = off
    BY <1>2 DEF Admins, SetPassword
  <2>2. account'[v] \in {"invited", "ready"}
    BY <1>2, <2>1 DEF SetPassword, TypeOK, Exists
  <2> QED
    BY <2>1, <2>2 DEF Admins, Exists
<1>3. ASSUME UNCHANGED <<account, role, off>> PROVE Admins \subseteq Admins'
  BY <1>3 DEF Admins, Exists
<1>4. ASSUME NEW u \in User, SignIn(u) \/ OpenSession(u) \/ AbandonSignIn(u) \/ Enrol(u)
      PROVE  UNCHANGED <<account, role, off>>
  BY <1>4 DEF SignIn, OpenSession, AbandonSignIn, Enrol, accounts
<1>5. ASSUME NEW q \in Request, \/ Admit(q) \/ Fail(q) \/ LockUser(q) \/ WriteUser(q)
                                \/ CheckEmail(q) \/ Resend(q) \/ Send(q) \/ SendFails(q)
      PROVE  UNCHANGED <<account, role, off>>
  BY <1>5 DEF Admit, Fail, LockUser, WriteUser, CheckEmail, Resend, Send, SendFails, accounts
<1>6. ASSUME NEW s \in Session, EndSession(s) PROVE UNCHANGED <<account, role, off>>
  BY <1>6 DEF EndSession, accounts
<1> QED
  BY <1>1, <1>2, <1>3, <1>4, <1>5, <1>6 DEF Next, RequestStep

\* However many admins there are, only a request whose own actor is an admin no longer can take
\* the last one away.
THEOREM OnlyStaleRequestsLoseLastAdmin == Spec => LastAdminLostToStaleRequest
<1>1. IInv /\ [Next]_vars =>
        [Admins # {} /\ Admins' = {} =>
            \E q \in Request : actor[q] \notin Admins /\ (Commit(q) \/ UndoInvite(q))]_vars
  <2> SUFFICES ASSUME IInv, Next, Admins # {}, Admins' = {}
               PROVE  \E q \in Request : actor[q] \notin Admins /\ (Commit(q) \/ UndoInvite(q))
    OBVIOUS
  <2>1. PICK q \in Request : Commit(q) \/ UndoInvite(q)
    BY OthersKeepAdmins
  <2>2. actor[q] \notin Admins
    BY <2>1, ActorStays
  <2> QED
    BY <2>1, <2>2
<1> QED
  BY <1>1, Invariance, PTL DEF Spec, LastAdminLostToStaleRequest

-----------------------------------------------------------------------------
(* The limits *)

\* A hit lies within the life of its counter, which began at the counter's first hit.
HitOK(k, h) ==
    /\ h \in Login!Hits
    /\ h.at <= clock /\ clock < h.at + WindowTicks[k]
    /\ h.at < h.until /\ h.until <= h.at + WindowTicks[k]
    /\ h.nth <= Limit[k]

\* Counters of one key follow each other, and each numbers its hits.
Apart(k, h, g) ==
    /\ h.until # g.until =>
          h.until + WindowTicks[k] <= g.until \/ g.until + WindowTicks[k] <= h.until
    /\ h.until = g.until /\ h.nth = g.nth => h = g

\* The counter of k, and the hits that were let through under it and before it.
CounterOK(k) ==
    /\ window[k] \in [count : Nat, until : Nat]
    /\ IF window[k].count > 0
       THEN /\ clock < window[k].until /\ window[k].until <= clock + WindowTicks[k]
            /\ \A h \in admitted[k] :
                  \/ h.until = window[k].until /\ h.nth <= window[k].count
                  \/ h.until + WindowTicks[k] <= window[k].until
       ELSE \A h \in admitted[k] : h.until <= clock
    /\ IsFiniteSet(admitted[k])
    /\ \A h \in admitted[k] : HitOK(k, h)
    /\ \A h, g \in admitted[k] : Apart(k, h, g)

FailuresOK ==
    /\ failures \in [n : Nat, notBefore : Nat, until : Nat]
    /\ failures.n > 0 => failures.until > clock
    /\ failures.notBefore <= clock + MaxDelay * Second
    /\ wrong \in Nat /\ clean \in BOOLEAN
    /\ Login!CountExact

FormsOK ==
    /\ form \in [Browser -> Login!Forms]
    /\ \A b \in Browser : form[b].now <= clock
    /\ Login!WaitIsEnough

LoginInv ==
    /\ clock \in Login!Ticks /\ attempts \in 0 .. MaxAttempts
    /\ DOMAIN window = Login!Key /\ window = [k \in Login!Key |-> window[k]]
    /\ DOMAIN admitted = Login!Key /\ admitted = [k \in Login!Key |-> admitted[k]]
    /\ \A k \in Login!Key : CounterOK(k)
    /\ FailuresOK /\ FormsOK

\* The cardinality that the instance of SignIn speaks of.
LEMMA SameCardinality ==
  ASSUME NEW S
  PROVE  Login!Cardinality(S) = Cardinality(S)
  BY DEF Login!Cardinality, Cardinality

LEMMA Limits ==
    /\ \A b \in Browser : AddressOf[b] \in Login!Key
    /\ \A k \in Login!Key : /\ Limit[k] \in Nat \ {0} /\ WindowTicks[k] \in Nat \ {0}
                      /\ WindowTicks[k] % Second = 0
    /\ Second \in Nat \ {0} /\ MaxDelay \in Nat \ {0} /\ FreeFailures \in Nat \ {0}
    /\ Memory \in Nat /\ MaxClock \in Nat /\ MaxAttempts \in Nat
  BY LimitsAssumption DEF Login!LimitsAssumption, Login!Key

-----------------------------------------------------------------------------
(* Seconds and ticks *)

LEMMA RoundedUp ==
  ASSUME NEW n \in Int, NEW s \in Nat \ {0}
  PROVE  (n + s - 1) \div s \in Int /\ n <= ((n + s - 1) \div s) * s
  OBVIOUS

LEMMA RoundedToNearest ==
  ASSUME NEW n \in Nat, NEW s \in Nat \ {0}
  PROVE  (2 * n + s) \div (2 * s) \in Int /\ n <= ((2 * n + s) \div (2 * s)) * s + s \div 2
  OBVIOUS

LEMMA WholeSeconds ==
  ASSUME NEW n \in Nat, NEW s \in Nat \ {0}, n % s = 0
  PROVE  n \div s \in Int /\ n = (n \div s) * s
  OBVIOUS

LEMMA MoreSeconds ==
  ASSUME NEW d \in Nat, NEW m \in Nat, d <= m, NEW s \in Nat \ {0}
  PROVE  d * s \in Nat /\ d * s <= m * s
  OBVIOUS

\* What the store's TTL becomes is long enough for the counter to expire.
LEMMA TtlIsEnough ==
  ASSUME NEW k \in Login!Key, NEW w \in [count : Nat, until : Nat], clock \in Nat,
         clock < w.until, w.until <= clock + WindowTicks[k]
  PROVE  /\ Login!SecondsLeft(k, w) \in Int
         /\ w.until <= clock + Login!SecondsLeft(k, w) * Second + Second \div 2
<1> DEFINE n == w.until - clock
           ttl == (2 * n + Second) \div (2 * Second)
<1>1. n \in Nat /\ n <= WindowTicks[k] /\ Second \div 2 \in Nat
  BY Limits
<1>2. ttl \in Int /\ n <= ttl * Second + Second \div 2
  BY <1>1, Limits, RoundedToNearest
<1>3. /\ WindowTicks[k] \div Second \in Int
      /\ WindowTicks[k] = (WindowTicks[k] \div Second) * Second
  BY Limits, WholeSeconds
<1>4. Login!SecondsLeft(k, w) = IF ttl > 0 THEN ttl ELSE WindowTicks[k] \div Second
  BY DEF Login!SecondsLeft
<1> HIDE DEF ttl
<1>5. CASE ttl > 0
  <2>1. w.until = clock + n /\ ttl * Second \in Int
    BY <1>2, Limits
  <2> QED
    BY <1>1, <1>2, <1>4, <1>5, <2>1
<1>6. CASE ~(ttl > 0)
  <2>1. w.until = clock + n /\ Login!SecondsLeft(k, w) * Second = WindowTicks[k]
    BY <1>3, <1>4, <1>6
  <2> QED
    BY <1>1, <1>3, <1>4, <1>6, <2>1, Limits
<1> QED
  BY <1>5, <1>6

LEMMA DelayIsEnough ==
  ASSUME NEW b \in Browser, clock \in Nat, form[b].now \in Nat, form[b].now <= clock,
         failures.notBefore \in Nat
  PROVE  /\ Login!DelayLeft(b) \in Int
         /\ failures.notBefore <= clock + Login!DelayLeft(b) * Second + Second \div 2
<1> DEFINE n == failures.notBefore - form[b].now
<1>1. n \in Int /\ Second \div 2 \in Nat
  BY Limits
<1>2. Login!DelayLeft(b) = (n + Second - 1) \div Second
  BY DEF Login!DelayLeft
<1>3. Login!DelayLeft(b) \in Int /\ n <= Login!DelayLeft(b) * Second
  BY <1>1, <1>2, Limits, RoundedUp
<1>4. Login!DelayLeft(b) * Second \in Int
  BY <1>3, Limits
<1> QED
  BY <1>1, <1>3, <1>4

LEMMA DelayCapped ==
  ASSUME NEW n \in Nat
  PROVE  Login!DelayAfter(n) \in 0 .. MaxDelay
  BY Limits DEF Login!DelayAfter

-----------------------------------------------------------------------------
(* Hits *)

LEMMA InitLoginInv == Login!Init => LoginInv
<1> SUFFICES ASSUME Login!Init PROVE LoginInv
  OBVIOUS
<1>1. \A k \in Login!Key : CounterOK(k)
  BY FS_EmptySet, Limits DEF Login!Init, CounterOK, Login!NoWindow
<1>2. FailuresOK
  BY Limits DEF Login!Init, FailuresOK, Login!NoFailures, Login!CountExact
<1>3. FormsOK
  BY Limits DEF Login!Init, FormsOK, Login!Forms, Login!Opened, Login!WaitIsEnough, Login!Ticks
<1> QED
  BY <1>1, <1>2, <1>3, Limits DEF Login!Init, LoginInv, Login!Ticks

\* A hit is of the counter that is there, or starts one; its number is new under it.
LEMMA HitCounts ==
  ASSUME LoginInv, NEW k \in Login!Key
  PROVE  LET w == Login!Hit(k)
         IN  /\ w \in [count : Nat, until : Nat] /\ w.count > 0
             /\ clock < w.until /\ w.until <= clock + WindowTicks[k]
             /\ \A h \in admitted[k] :
                   \/ h.until = w.until /\ h.nth < w.count
                   \/ h.until + WindowTicks[k] <= w.until
<1>1. CounterOK(k) /\ clock \in Nat /\ WindowTicks[k] \in Nat \ {0}
  BY Limits DEF LoginInv, Login!Ticks
<1>2. CASE window[k].count = 0
  BY <1>1, <1>2 DEF Login!Hit, CounterOK, HitOK, Login!Hits, Login!Ticks
<1>3. CASE window[k].count > 0
  BY <1>1, <1>3 DEF Login!Hit, CounterOK, HitOK, Login!Hits, Login!Ticks
<1> QED
  BY <1>1, <1>2, <1>3 DEF CounterOK

\* A counter that was hit, whether or not the hit was let through.
LEMMA CountedOK ==
  ASSUME LoginInv, NEW k \in Login!Key, window' = [window EXCEPT ![k] = Login!Hit(k)],
         UNCHANGED <<clock, admitted>>
  PROVE  \A j \in Login!Key : CounterOK(j)'
<1> SUFFICES ASSUME NEW j \in Login!Key PROVE CounterOK(j)'
  OBVIOUS
<1>1. CounterOK(j) /\ window'[j] = IF j = k THEN Login!Hit(k) ELSE window[j]
  BY DEF LoginInv
<1>2. CASE j = k
  BY <1>1, <1>2, HitCounts DEF CounterOK, HitOK, Apart, Login!Hits
<1>3. CASE j # k
  BY <1>1, <1>3 DEF CounterOK, HitOK, Apart
<1> QED
  BY <1>2, <1>3

LEMMA LetThroughOK ==
  ASSUME LoginInv, NEW k \in Login!Key, ~Login!Over(k, Login!Hit(k)),
         window' = [window EXCEPT ![k] = Login!Hit(k)],
         Login!LetThrough(k, Login!Hit(k)), UNCHANGED clock
  PROVE  /\ \A j \in Login!Key : CounterOK(j)'
         /\ DOMAIN admitted' = Login!Key /\ admitted' = [j \in Login!Key |-> admitted'[j]]
<1> DEFINE w == Login!Hit(k)
           new == [at |-> clock, until |-> w.until, nth |-> w.count,
                   after |-> Cardinality(admitted[k])]
<1>1. /\ w \in [count : Nat, until : Nat] /\ w.count > 0
      /\ clock < w.until /\ w.until <= clock + WindowTicks[k]
      /\ \A h \in admitted[k] :
            \/ h.until = w.until /\ h.nth < w.count
            \/ h.until + WindowTicks[k] <= w.until
  BY HitCounts
<1>2. /\ clock \in Login!Ticks /\ clock \in Nat /\ WindowTicks[k] \in Nat \ {0} /\ Limit[k] \in Nat
      /\ CounterOK(k) /\ w.count <= Limit[k]
  BY <1>1, Limits DEF LoginInv, Login!Ticks, Login!Over
<1>3. Cardinality(admitted[k]) \in Nat
  BY <1>2, FS_CardinalityType DEF CounterOK
<1>4. /\ admitted' = [admitted EXCEPT ![k] = admitted[k] \cup {new}]
      /\ DOMAIN admitted = Login!Key
  BY SameCardinality DEF Login!LetThrough, LoginInv
<1> HIDE DEF w
<1>5. new \in Login!Hits /\ new.at = clock /\ new.until = w.until /\ new.nth = w.count
  BY <1>1, <1>2, <1>3 DEF Login!Hits
<1> HIDE DEF new
<1>6. admitted'[k] = admitted[k] \cup {new} /\ window'[k] = w
  BY <1>4 DEF LoginInv, w
<1>7. CounterOK(k)'
  <2>1. IsFiniteSet(admitted[k] \cup {new})
    BY <1>2, FS_AddElement DEF CounterOK
  <2>2. HitOK(k, new)
    BY <1>1, <1>2, <1>5 DEF HitOK
  <2>3. \A h \in admitted[k] : Apart(k, h, new) /\ Apart(k, new, h)
    BY <1>1, <1>2, <1>5 DEF Apart, CounterOK, HitOK, Login!Hits
  <2>4. Apart(k, new, new)
    BY DEF Apart
  <2>5. \A h \in admitted'[k] : HitOK(k, h)'
    BY <1>2, <1>6, <2>2 DEF CounterOK, HitOK
  <2>6. \A h, g \in admitted'[k] : Apart(k, h, g)'
    BY <1>2, <1>6, <2>3, <2>4 DEF CounterOK, Apart
  <2>7. \A h \in admitted'[k] :
            \/ h.until = w.until /\ h.nth <= w.count
            \/ h.until + WindowTicks[k] <= w.until
    BY <1>1, <1>2, <1>5, <1>6 DEF CounterOK, HitOK, Login!Hits
  <2> QED
    BY <1>1, <1>6, <2>1, <2>5, <2>6, <2>7 DEF CounterOK
<1>8. ASSUME NEW j \in Login!Key, j # k PROVE CounterOK(j)'
  <2>1. admitted'[j] = admitted[j] /\ window'[j] = window[j]
    BY <1>4, <1>8 DEF LoginInv
  <2>2. CounterOK(j)
    BY DEF LoginInv
  <2> QED
    BY <2>1, <2>2 DEF CounterOK, HitOK, Apart
<1> QED
  BY <1>4, <1>7, <1>8

-----------------------------------------------------------------------------
(* Answers *)

LEMMA AnsweredOK ==
  ASSUME NEW f \in Login!Forms, NEW step \in {"password", "code", "enrol", "in"}
  PROVE  /\ Login!Answered(f, step) \in Login!Forms /\ Login!Answered(f, step).now = 0
         /\ Login!Answered(f, step).misled <=> f.misled
<1>1. 0 \in Login!Ticks /\ 0 \in Nat
  BY Limits DEF Login!Ticks
<1> QED
  BY <1>1 DEF Login!Answered, Login!Forms

LEMMA ToldOK ==
  ASSUME NEW f \in Login!Forms, NEW m \in BOOLEAN
  PROVE  LET g == [f EXCEPT !.misled = m]
         IN  g \in Login!Forms /\ g.now = f.now /\ (g.misled <=> m)
  BY DEF Login!Forms

\* One form changes, and is not told to wait too short.
LEMMA OneForm ==
  ASSUME LoginInv, NEW b \in Browser, NEW f \in Login!Forms, f.now <= clock, ~f.misled,
         form' = [form EXCEPT ![b] = f], UNCHANGED clock
  PROVE  FormsOK'
  BY DEF LoginInv, FormsOK, Login!WaitIsEnough

LEMMA RefuseOK ==
  ASSUME LoginInv, NEW b \in Browser, NEW seconds \in Int, NEW ends \in Nat,
         ends <= clock + seconds * Second + Second \div 2,
         Login!Refuse(b, seconds, ends), UNCHANGED clock
  PROVE  FormsOK'
<1> DEFINE late == ends > clock + seconds * Second + Second \div 2
           g == Login!Answered(form[b], form[b].step)
           f == [g EXCEPT !.misled = late]
<1>1. form[b] \in Login!Forms /\ form[b].step \in {"password", "code", "enrol",
"in"} /\ clock \in Nat
  BY Limits DEF LoginInv, FormsOK, Login!Forms, Login!Ticks
<1>2. clock + seconds * Second + Second \div 2 \in Int
  BY <1>1, Limits
<1>3. ~late
  BY <1>2
<1>4. g \in Login!Forms /\ g.now = 0
  BY <1>1, AnsweredOK
<1>5. form' = [form EXCEPT ![b] = f]
  BY DEF Login!Refuse, LoginInv, FormsOK
<1>6. late \in BOOLEAN
  OBVIOUS
<1> HIDE DEF late, g
<1>7. f \in Login!Forms /\ f.now = 0 /\ ~f.misled
  BY <1>3, <1>4, <1>6, ToldOK
<1> HIDE DEF f
<1>8. f.now <= clock
  BY <1>1, <1>7
<1> QED
  BY <1>5, <1>7, <1>8, OneForm
-----------------------------------------------------------------------------
(* Steps *)

\* A step of a form alone.
LEMMA FormStep ==
  ASSUME LoginInv, FormsOK', UNCHANGED <<clock, window, failures, attempts, Login!history>>
  PROVE  LoginInv'
  BY DEF LoginInv, Login!history, CounterOK, HitOK, Apart, FailuresOK, Login!CountExact

LEMMA FormOf ==
  ASSUME LoginInv, NEW b \in Browser
  PROVE  /\ form[b] \in Login!Forms /\ form[b].now <= clock /\ ~form[b].misled
         /\ form[b].step \in {"password", "code", "enrol", "in"}
         /\ form[b].now \in Nat /\ form[b].seen \in Nat /\ 0 \in Login!Ticks /\ 0 <= clock
         /\ clock \in Login!Ticks /\ clock \in Nat
  BY Limits DEF LoginInv, FormsOK, Login!WaitIsEnough, Login!Forms, Login!Ticks

LEMMA AnsweredForm ==
  ASSUME LoginInv, NEW b \in Browser, NEW step \in {"password", "code", "enrol", "in"},
         form' = [form EXCEPT ![b] = Login!Answered(form[b], step)], UNCHANGED clock
  PROVE  FormsOK'
<1>1. /\ Login!Answered(form[b], step) \in Login!Forms /\ Login!Answered(form[b], step).now = 0
      /\ ~Login!Answered(form[b], step).misled
  BY FormOf, AnsweredOK
<1>2. Login!Answered(form[b], step).now <= clock
  BY <1>1, FormOf
<1> QED
  BY <1>1, <1>2, OneForm

\* The pc moves, and the clock is read or put aside or not.
LEMMA PcForm ==
  ASSUME LoginInv, NEW b \in Browser, NEW n \in Login!Ticks, n <= clock,
         NEW to \in {"idle", "asked", "counted", "allowed", "wrong", "read", "right"},
         form' = [form EXCEPT ![b].pc = to, ![b].now = n], UNCHANGED clock
  PROVE  FormsOK'
<1> DEFINE f == [form[b] EXCEPT !.pc = to, !.now = n]
<1>1. f \in Login!Forms /\ f.now = n /\ ~f.misled
  BY FormOf DEF Login!Forms
<1>2. form' = [form EXCEPT ![b] = f]
  BY DEF LoginInv, FormsOK
<1> HIDE DEF f
<1>3. f.now <= clock
  BY <1>1
<1> QED
  BY <1>1, <1>2, <1>3, OneForm

LEMMA PcOnlyForm ==
  ASSUME LoginInv, NEW b \in Browser,
         NEW to \in {"idle", "asked", "counted", "allowed", "wrong", "read", "right"},
         form' = [form EXCEPT ![b].pc = to], UNCHANGED clock
  PROVE  FormsOK'
<1> DEFINE f == [form[b] EXCEPT !.pc = to]
<1>1. f \in Login!Forms /\ f.now = form[b].now /\ ~f.misled
  BY FormOf DEF Login!Forms
<1>2. form' = [form EXCEPT ![b] = f]
  BY DEF LoginInv, FormsOK
<1> HIDE DEF f
<1>3. f.now <= clock
  BY <1>1, FormOf
<1> QED
  BY <1>1, <1>2, <1>3, OneForm

LEMMA SubmitOK ==
  ASSUME LoginInv, NEW b \in Browser, Login!Submit(b)
  PROVE  LoginInv'
<1> DEFINE f == [form[b] EXCEPT !.pc = "asked", !.now = clock, !.misled = FALSE]
<1>1. f \in Login!Forms /\ f.now = clock /\ ~f.misled
  BY FormOf DEF Login!Forms
<1>2. form' = [form EXCEPT ![b] = f] /\ UNCHANGED clock
  BY DEF LoginInv, FormsOK, Login!Submit
<1> HIDE DEF f
<1>3. f.now <= clock
  BY <1>1, FormOf
<1>4. FormsOK'
  BY <1>1, <1>2, <1>3, OneForm
<1>5. attempts' \in 0 .. MaxAttempts
  BY Limits DEF Login!Submit, LoginInv
<1> QED
  BY <1>4, <1>5 DEF LoginInv, Login!Submit, Login!history, CounterOK, HitOK, Apart, FailuresOK,
     Login!CountExact

LEMMA CountAttemptOK ==
  ASSUME LoginInv, NEW b \in Browser, Login!CountAttempt(b)
  PROVE  LoginInv'
<1> DEFINE k == AddressOf[b]
           w == Login!Hit(k)
<1>1. k \in Login!Key /\ window' = [window EXCEPT ![k] = w]
      /\ UNCHANGED <<clock, failures, attempts, wrong, clean>>
  BY Limits DEF Login!CountAttempt
<1>2. /\ w \in [count : Nat, until : Nat] /\ clock < w.until
      /\ w.until <= clock + WindowTicks[k]
  BY <1>1, HitCounts
<1>3. /\ \A j \in Login!Key : CounterOK(j)'
      /\ DOMAIN admitted' = Login!Key /\ admitted' = [j \in Login!Key |-> admitted'[j]]
      /\ FormsOK'
  <2>1. CASE Login!Over(k, w)
    <3>1. Login!Refuse(b, Login!SecondsLeft(k, w), w.until) /\ UNCHANGED admitted
      BY <2>1 DEF Login!CountAttempt
    <3>2. /\ Login!SecondsLeft(k, w) \in Int
          /\ w.until <= clock + Login!SecondsLeft(k, w) * Second + Second \div 2
      BY <1>1, <1>2, FormOf, TtlIsEnough
    <3>3. FormsOK'
      BY <1>1, <1>2, <3>1, <3>2, RefuseOK
    <3>4. \A j \in Login!Key : CounterOK(j)'
      BY <1>1, <3>1, CountedOK
    <3> QED
      BY <3>1, <3>3, <3>4 DEF LoginInv
  <2>2. CASE ~Login!Over(k, w)
    <3>1. Login!LetThrough(k, w)
      BY <2>2 DEF Login!CountAttempt
    <3>2. /\ \A j \in Login!Key : CounterOK(j)'
          /\ DOMAIN admitted' = Login!Key /\ admitted' = [j \in Login!Key |-> admitted'[j]]
      BY <1>1, <2>2, <3>1, LetThroughOK
    <3>3. FormsOK'
      <4>1. CASE form[b].step = "password"
        <5>1. form' = [form EXCEPT ![b].pc = "counted"]
          BY <2>2, <4>1 DEF Login!CountAttempt
        <5> QED
          BY <1>1, <5>1, PcOnlyForm
      <4>2. CASE form[b].step # "password"
        <5>1. form' = [form EXCEPT ![b].pc = "allowed", ![b].now = 0]
          BY <2>2, <4>2 DEF Login!CountAttempt
        <5> QED
          BY <1>1, <5>1, FormOf, PcForm
      <4> QED
        BY <4>1, <4>2
    <3> QED
      BY <3>2, <3>3
  <2> QED
    BY <2>1, <2>2
<1>4. DOMAIN window' = Login!Key /\ window' = [j \in Login!Key |-> window'[j]]
  BY <1>1 DEF LoginInv
<1>5. FailuresOK'
  BY <1>1 DEF LoginInv, FailuresOK, Login!CountExact
<1> QED
  BY <1>1, <1>3, <1>4, <1>5 DEF LoginInv

LEMMA CheckDelayOK ==
  ASSUME LoginInv, NEW b \in Browser, Login!CheckDelay(b)
  PROVE  LoginInv'
<1>1. UNCHANGED <<clock, window, failures, attempts, Login!history>>
  BY DEF Login!CheckDelay
<1>2. FormsOK'
  <2>1. CASE failures.n > 0 /\ failures.notBefore > form[b].now
    <3>1. Login!Refuse(b, Login!DelayLeft(b), failures.notBefore)
      BY <2>1 DEF Login!CheckDelay
    <3>2. failures.notBefore \in Nat
      BY DEF LoginInv, FailuresOK
    <3>3. /\ Login!DelayLeft(b) \in Int
          /\ failures.notBefore <= clock + Login!DelayLeft(b) * Second + Second \div 2
      BY <3>2, FormOf, DelayIsEnough
    <3> QED
      BY <1>1, <3>1, <3>2, <3>3, RefuseOK
  <2>2. CASE ~(failures.n > 0 /\ failures.notBefore > form[b].now)
    <3>1. form' = [form EXCEPT ![b].pc = "allowed", ![b].now = 0]
      BY <2>2 DEF Login!CheckDelay
    <3> QED
      BY <1>1, <3>1, FormOf, PcForm
  <2> QED
    BY <2>1, <2>2
<1> QED
  BY <1>1, <1>2, FormStep

LEMMA JudgeOK ==
  ASSUME LoginInv, NEW b \in Browser, Login!Judge(b)
  PROVE  LoginInv'
<1>1. UNCHANGED <<clock, window, failures, attempts, Login!history>>
  BY DEF Login!Judge
<1>2. CASE form' = [form EXCEPT ![b].pc = "wrong", ![b].now = clock]
  <2>1. clock \in Login!Ticks /\ clock <= clock
    BY FormOf
  <2>2. FormsOK'
    BY <1>1, <1>2, <2>1, PcForm
  <2> QED
    BY <1>1, <2>2, FormStep
<1>3. CASE form' = [form EXCEPT ![b].pc = "right"]
  BY <1>1, <1>3, PcOnlyForm, FormStep
<1>4. CASE \E next \in {"code", "password", "in"} :
              form' = [form EXCEPT ![b] = Login!Answered(@, next)]
  <2>1. PICK next \in {"code", "password", "in"} :
              form' = [form EXCEPT ![b] = Login!Answered(form[b], next)]
    BY <1>4 DEF LoginInv, FormsOK
  <2> QED
    BY <1>1, <2>1, AnsweredForm, FormStep
<1> QED
  BY <1>2, <1>3, <1>4 DEF Login!Judge

LEMMA ReadFailuresOK ==
  ASSUME LoginInv, NEW b \in Browser, Login!ReadFailures(b)
  PROVE  LoginInv'
<1> DEFINE f == [form[b] EXCEPT !.pc = "read", !.seen = failures.n]
<1>1. UNCHANGED <<clock, window, failures, attempts, Login!history>> /\ failures.n \in Nat
  BY DEF Login!ReadFailures, LoginInv, FailuresOK
<1>2. f \in Login!Forms /\ f.now = form[b].now /\ ~f.misled
  BY <1>1, FormOf DEF Login!Forms
<1>3. form' = [form EXCEPT ![b] = f]
  BY DEF LoginInv, FormsOK, Login!ReadFailures
<1> HIDE DEF f
<1>4. f.now <= clock
  BY <1>2, FormOf
<1> QED
  BY <1>1, <1>2, <1>3, <1>4, OneForm, FormStep

\* What a wrong password leaves is within the longest delay, and one more than was read.
LEMMA RecordedOK ==
  ASSUME LoginInv, NEW b \in Browser
  PROVE  /\ Login!Recorded(b) \in [n : Nat, notBefore : Nat, until : Nat]
         /\ Login!Recorded(b).n = form[b].seen + 1
         /\ Login!Recorded(b).notBefore <= clock + MaxDelay * Second
         /\ Login!Recorded(b).until > clock
<1> DEFINE n == form[b].seen + 1
           d == Login!DelayAfter(n) * Second
<1>1. n \in Nat /\ clock \in Nat /\ form[b].now \in Nat /\ form[b].now <= clock
  BY FormOf
<1>2. d \in Nat /\ d <= MaxDelay * Second
  BY <1>1, Limits, DelayCapped, MoreSeconds
<1>3. MaxDelay * Second \in Nat \ {0} /\ MaxDelay * Second <= Memory
  BY Limits, LimitsAssumption DEF Login!LimitsAssumption
<1>4. Login!Recorded(b) = [n |-> n, notBefore |-> form[b].now + d, until |-> clock + Memory]
  BY DEF Login!Recorded
<1> HIDE DEF n, d
<1>5. n = form[b].seen + 1
  BY DEF n
<1> QED
  BY <1>1, <1>2, <1>3, <1>4, <1>5, Limits

LEMMA RecordsOK ==
  ASSUME LoginInv, NEW b \in Browser, failures' = Login!Recorded(b), wrong' = wrong + 1,
         clean' = (clean /\ failures.n = form[b].seen), UNCHANGED clock
  PROVE  FailuresOK'
<1>1. clean' \in BOOLEAN /\ wrong' \in Nat
  BY DEF LoginInv, FailuresOK
<1>2. Login!CountExact'
  BY RecordedOK, FormOf DEF LoginInv, FailuresOK, Login!CountExact
<1> QED
  BY <1>1, <1>2, RecordedOK DEF FailuresOK

LEMMA ForgetsOK ==
  ASSUME LoginInv, failures' = Login!NoFailures, wrong' = 0, clean' = TRUE, clock' \in Nat
  PROVE  FailuresOK'
<1>1. MaxDelay * Second \in Nat
  BY Limits
<1> QED
  BY <1>1 DEF FailuresOK, Login!NoFailures, Login!CountExact

LEMMA WriteFailuresOK ==
  ASSUME LoginInv, NEW b \in Browser, Login!WriteFailures(b)
  PROVE  LoginInv'
<1>1. UNCHANGED <<clock, window, attempts, admitted>>
  BY DEF Login!WriteFailures
<1>2. FailuresOK'
  BY RecordsOK DEF Login!WriteFailures
<1>3. form' = [form EXCEPT ![b] = Login!Answered(form[b], "password")]
  BY DEF LoginInv, FormsOK, Login!WriteFailures
<1>4. FormsOK'
  BY <1>1, <1>3, AnsweredForm
<1> QED
  BY <1>1, <1>2, <1>4 DEF LoginInv, CounterOK, HitOK, Apart

LEMMA ForgetOK ==
  ASSUME LoginInv, NEW b \in Browser, Login!Forget(b)
  PROVE  LoginInv'
<1>1. UNCHANGED <<clock, window, attempts, admitted>>
  BY DEF Login!Forget
<1>2. FailuresOK'
  BY <1>1, FormOf, ForgetsOK DEF Login!Forget
<1>3. PICK next \in {"code", "enrol"} : form' = [form EXCEPT ![b] = Login!Answered(form[b], next)]
  BY DEF LoginInv, FormsOK, Login!Forget
<1>4. FormsOK'
  BY <1>1, <1>3, AnsweredForm
<1> QED
  BY <1>1, <1>2, <1>4 DEF LoginInv, CounterOK, HitOK, Apart

LEMMA StoreFailsOK ==
  ASSUME LoginInv, NEW b \in Browser, Login!StoreFails(b)
  PROVE  LoginInv'
<1>1. UNCHANGED <<clock, attempts, admitted>>
  BY DEF Login!StoreFails
<1>2. FormsOK'
  <2>1. Login!Refuse(b, 60, 0)
    BY DEF Login!StoreFails
  <2>2. 0 <= clock + 60 * Second + Second \div 2
    BY Limits, FormOf
  <2> QED
    BY <1>1, <2>1, <2>2, RefuseOK
<1>3. /\ \A k \in Login!Key : CounterOK(k)'
      /\ DOMAIN window' = Login!Key /\ window' = [k \in Login!Key |-> window'[k]]
  <2>1. CASE window' = [window EXCEPT ![AddressOf[b]] = Login!Hit(AddressOf[b])]
    <3>1. \A k \in Login!Key : CounterOK(k)'
      BY <1>1, <2>1, Limits, CountedOK
    <3> QED
      BY <2>1, <3>1 DEF LoginInv
  <2>2. CASE UNCHANGED window
    BY <1>1, <2>2 DEF LoginInv, CounterOK, HitOK, Apart
  <2> QED
    BY <2>1, <2>2 DEF Login!StoreFails
<1>4. FailuresOK'
  <2>1. CASE /\ failures' = Login!Recorded(b) /\ wrong' = wrong + 1
             /\ clean' = (clean /\ failures.n = form[b].seen)
    BY <1>1, <2>1, RecordsOK
  <2>2. CASE failures' = Login!NoFailures /\ wrong' = 0 /\ clean' = TRUE
    BY <1>1, <2>2, FormOf, ForgetsOK
  <2>3. CASE /\ UNCHANGED failures
             /\ wrong' = IF form[b].pc \in {"wrong", "read"} THEN wrong + 1 ELSE wrong
             /\ clean' = (clean /\ form[b].pc \notin {"wrong", "read", "right"})
    <3>1. wrong' \in Nat /\ clean' \in BOOLEAN
      BY <2>3 DEF LoginInv, FailuresOK
    <3>2. Login!CountExact'
      BY <2>3 DEF LoginInv, FailuresOK, Login!CountExact
    <3> QED
      BY <1>1, <2>3, <3>1, <3>2 DEF LoginInv, FailuresOK
  <2> QED
    BY <2>1, <2>2, <2>3 DEF Login!StoreFails
<1> QED
  BY <1>1, <1>2, <1>3, <1>4 DEF LoginInv

LEMMA EnrolOK ==
  ASSUME LoginInv, NEW b \in Browser, Login!Enrol(b)
  PROVE  LoginInv'
<1> DEFINE f == [form[b] EXCEPT !.step = "in"]
<1>1. UNCHANGED <<clock, window, failures, attempts, Login!history>>
  BY DEF Login!Enrol
<1>2. f \in Login!Forms /\ f.now = form[b].now /\ ~f.misled
  BY FormOf DEF Login!Forms
<1>3. form' = [form EXCEPT ![b] = f]
  BY DEF LoginInv, FormsOK, Login!Enrol
<1> HIDE DEF f
<1>4. f.now <= clock
  BY <1>2, FormOf
<1> QED
  BY <1>1, <1>2, <1>3, <1>4, OneForm, FormStep

LEMMA SignOutOK ==
  ASSUME LoginInv, NEW b \in Browser, Login!SignOut(b)
  PROVE  LoginInv'
<1>1. UNCHANGED <<clock, window, failures, attempts, Login!history>>
  BY DEF Login!SignOut
<1>2. Login!Opened \in Login!Forms /\ Login!Opened.now <= clock /\ ~Login!Opened.misled
  BY FormOf DEF Login!Opened, Login!Forms
<1> QED
  BY <1>1, <1>2, OneForm, FormStep DEF Login!SignOut

LEMMA WriteOK ==
  ASSUME LoginInv, Login!Write
  PROVE  attempts' \in 0 .. MaxAttempts /\ FailuresOK' /\ FormsOK'
  BY Limits DEF Login!Write, LoginInv, FailuresOK, Login!CountExact, FormsOK, Login!WaitIsEnough

LEMMA SpendWriteOK ==
  ASSUME LoginInv, NEW s \in User, Login!SpendWrite(s)
  PROVE  LoginInv'
<1>1. /\ s \in Login!Key /\ window' = [window EXCEPT ![s] = Login!Hit(s)]
      /\ Login!Write /\ UNCHANGED clock
  BY DEF Login!SpendWrite, Login!Write, Login!Key
<1>2. /\ \A j \in Login!Key : CounterOK(j)'
      /\ DOMAIN admitted' = Login!Key /\ admitted' = [j \in Login!Key |-> admitted'[j]]
  <2>1. CASE Login!Over(s, Login!Hit(s))
    <3>1. UNCHANGED admitted
      BY <2>1 DEF Login!SpendWrite
    <3>2. \A j \in Login!Key : CounterOK(j)'
      BY <1>1, <3>1, CountedOK
    <3> QED
      BY <3>1, <3>2 DEF LoginInv
  <2>2. CASE ~Login!Over(s, Login!Hit(s))
    <3>1. Login!LetThrough(s, Login!Hit(s))
      BY <2>2 DEF Login!SpendWrite
    <3> QED
      BY <1>1, <2>2, <3>1, LetThroughOK
  <2> QED
    BY <2>1, <2>2
<1>3. DOMAIN window' = Login!Key /\ window' = [j \in Login!Key |-> window'[j]]
  BY <1>1 DEF LoginInv
<1> QED
  BY <1>1, <1>2, <1>3, WriteOK DEF LoginInv

\* A write that goes on without an answer leaves its counter counted, or as it was.
LEMMA WriteUnansweredOK ==
  ASSUME LoginInv, NEW s \in User, Login!WriteUnanswered(s)
  PROVE  LoginInv'
<1>1. /\ s \in Login!Key /\ Login!Write /\ UNCHANGED <<clock, admitted>>
      /\ window' = window \/ window' = [window EXCEPT ![s] = Login!Hit(s)]
  BY DEF Login!WriteUnanswered, Login!Write, Login!Key
<1>2. \A j \in Login!Key : CounterOK(j)'
  <2>1. CASE window' = window
    BY <1>1, <2>1 DEF LoginInv, CounterOK, HitOK, Apart
  <2>2. CASE window' = [window EXCEPT ![s] = Login!Hit(s)]
    BY <1>1, <2>2, CountedOK
  <2> QED
    BY <1>1, <2>1, <2>2
<1>3. /\ DOMAIN window' = Login!Key /\ window' = [j \in Login!Key |-> window'[j]]
      /\ DOMAIN admitted' = Login!Key /\ admitted' = [j \in Login!Key |-> admitted'[j]]
  BY <1>1 DEF LoginInv
<1> QED
  BY <1>1, <1>2, <1>3, WriteOK DEF LoginInv

LEMMA TickOK ==
  ASSUME LoginInv, Login!Tick
  PROVE  LoginInv'
<1>1. /\ clock' = clock + 1 /\ clock \in Nat /\ clock' \in Login!Ticks
      /\ UNCHANGED <<form, attempts>>
  BY Limits DEF Login!Tick, LoginInv, Login!Ticks
<1>2. ASSUME NEW k \in Login!Key PROVE CounterOK(k)'
  <2>1. /\ CounterOK(k) /\ WindowTicks[k] \in Nat \ {0}
        /\ window'[k] = IF window[k].until <= clock + 1 THEN Login!NoWindow ELSE window[k]
        /\ admitted'[k] = {h \in admitted[k] : h.at + WindowTicks[k] > clock + 1}
    BY Limits DEF Login!Tick, LoginInv
  <2>2. admitted'[k] \subseteq admitted[k] /\ IsFiniteSet(admitted'[k])
    BY <2>1, FS_Subset DEF CounterOK
  <2>3. \A h \in admitted'[k] : HitOK(k, h)'
    BY <1>1, <2>1 DEF CounterOK, HitOK, Login!Hits, Login!Ticks
  <2>4. \A h, g \in admitted'[k] : Apart(k, h, g)'
    BY <2>1, <2>2 DEF CounterOK, Apart
  <2>5. window'[k] \in [count : Nat, until : Nat]
    BY <2>1 DEF CounterOK, Login!NoWindow
  <2>6. IF window'[k].count > 0
        THEN /\ clock' < window'[k].until /\ window'[k].until <= clock' + WindowTicks[k]
             /\ \A h \in admitted'[k] :
                   \/ h.until = window'[k].until /\ h.nth <= window'[k].count
                   \/ h.until + WindowTicks[k] <= window'[k].until
        ELSE \A h \in admitted'[k] : h.until <= clock'
    <3>1. CASE window[k].until <= clock + 1
      BY <1>1, <2>1, <2>2, <3>1 DEF CounterOK, HitOK, Login!Hits, Login!Ticks, Login!NoWindow
    <3>2. CASE ~(window[k].until <= clock + 1)
      BY <1>1, <2>1, <2>2, <3>2 DEF CounterOK, HitOK, Login!Hits, Login!Ticks
    <3> QED
      BY <3>1, <3>2
  <2> QED
    BY <2>2, <2>3, <2>4, <2>5, <2>6 DEF CounterOK
<1>3. /\ DOMAIN window' = Login!Key /\ window' = [k \in Login!Key |-> window'[k]]
      /\ DOMAIN admitted' = Login!Key /\ admitted' = [k \in Login!Key |-> admitted'[k]]
  BY DEF Login!Tick
<1>4. FailuresOK'
  <2> DEFINE expired == failures.n > 0 /\ failures.until <= clock + 1
  <2>1. CASE expired
    <3>1. failures' = Login!NoFailures /\ wrong' = 0 /\ clean' = TRUE
      BY <2>1 DEF Login!Tick
    <3> QED
      BY <1>1, <3>1, ForgetsOK
  <2>2. CASE ~expired
    <3>1. UNCHANGED <<failures, wrong>> /\ clean' = clean
      BY <2>2 DEF Login!Tick, LoginInv, FailuresOK
    <3>2. MaxDelay * Second \in Nat
      BY Limits
    <3> QED
      BY <1>1, <2>2, <3>1, <3>2 DEF LoginInv, FailuresOK, Login!CountExact
  <2> QED
    BY <2>1, <2>2
<1>5. FormsOK'
  BY <1>1 DEF LoginInv, FormsOK, Login!WaitIsEnough, Login!Forms, Login!Ticks
<1> QED
  BY <1>1, <1>2, <1>3, <1>4, <1>5 DEF LoginInv

LEMMA NextLoginInv == LoginInv /\ [Login!Next]_(Login!vars) => LoginInv'
<1> SUFFICES ASSUME LoginInv, [Login!Next]_(Login!vars) PROVE LoginInv'
  OBVIOUS
<1>1. CASE Login!Tick
  BY <1>1, TickOK
<1>2. ASSUME NEW b \in Browser,
             \/ Login!Submit(b) \/ Login!CountAttempt(b) \/ Login!CheckDelay(b) \/ Login!Judge(b)
             \/ Login!ReadFailures(b) \/ Login!WriteFailures(b)
             \/ Login!Forget(b) \/ Login!StoreFails(b)
             \/ Login!Enrol(b) \/ Login!SignOut(b)
      PROVE  LoginInv'
  BY <1>2, SubmitOK, CountAttemptOK, CheckDelayOK, JudgeOK, ReadFailuresOK, WriteFailuresOK,
     ForgetOK, StoreFailsOK, EnrolOK, SignOutOK
<1>3. ASSUME NEW s \in User, Login!SpendWrite(s) \/ Login!WriteUnanswered(s) PROVE LoginInv'
  BY <1>3, SpendWriteOK, WriteUnansweredOK
<1>4. CASE UNCHANGED Login!vars
  BY <1>4 DEF Login!vars, Login!history, LoginInv, CounterOK, HitOK, Apart, FailuresOK,
     Login!CountExact, FormsOK,
     Login!WaitIsEnough
<1> QED
  BY <1>1, <1>2, <1>3, <1>4 DEF Login!Next

\* The inductive invariant of the limits.
LEMMA LoginInvAlways == Login!Spec => []LoginInv
  BY InitLoginInv, NextLoginInv, PTL DEF Login!Spec

-----------------------------------------------------------------------------
(* The bound *)

\* What remains of a stretch as long as a window was let through under two counters at most: a
\* third would have begun after the second had ended, and the first began before the stretch did.
LEMMA TwoCounters ==
  ASSUME NEW k \in Login!Key, CounterOK(k), clock \in Nat
  PROVE  \E u, v \in Nat : \A h \in admitted[k] : h.until \in {u, v}
<1>1. /\ WindowTicks[k] \in Nat \ {0}
      /\ \A h \in admitted[k] : /\ h.until \in Nat /\ h.at \in Nat
                                /\ h.at <= clock /\ clock < h.at + WindowTicks[k]
                                /\ h.at < h.until /\ h.until <= h.at + WindowTicks[k]
      /\ \A h, g \in admitted[k] : Apart(k, h, g)
  BY Limits DEF CounterOK, HitOK, Login!Hits, Login!Ticks
<1>2. CASE \E h, g \in admitted[k] : h.until # g.until
  <2>1. PICK h, g \in admitted[k] : h.until # g.until
    BY <1>2
  <2>2. ASSUME NEW f \in admitted[k] PROVE f.until \in {h.until, g.until}
    BY <1>1, <2>1 DEF Apart
  <2> QED
    BY <1>1, <2>2
<1>3. CASE \A h, g \in admitted[k] : h.until = g.until
  <2>1. CASE admitted[k] = {}
    BY <2>1
  <2>2. CASE admitted[k] # {}
    <3>1. PICK h \in admitted[k] : TRUE
      BY <2>2
    <3> QED
      BY <1>1, <1>3, <3>1
  <2> QED
    BY <2>1, <2>2
<1> QED
  BY <1>2, <1>3

LEMMA AdmittedBounded ==
  ASSUME NEW k \in Login!Key, CounterOK(k), clock \in Nat
  PROVE  Cardinality(admitted[k]) <= 2 * Limit[k]
<1>1. PICK u, v \in Nat : \A h \in admitted[k] : h.until \in {u, v}
  BY TwoCounters
<1>2. /\ Limit[k] \in Nat \ {0} /\ IsFiniteSet(admitted[k])
      /\ \A h \in admitted[k] : h.nth \in 1 .. Limit[k]
      /\ \A h, g \in admitted[k] : h.until = g.until /\ h.nth = g.nth => h = g
  BY Limits DEF CounterOK, HitOK, Login!Hits, Apart
<1> DEFINE numbers == 1 .. Limit[k]
           places == {u, v} \X numbers
           place == [h \in admitted[k] |-> <<h.until, h.nth>>]
<1>3. IsFiniteSet(numbers) /\ Cardinality(numbers) = Limit[k]
  BY <1>2, FS_Interval
<1>4. IsFiniteSet({u, v}) /\ Cardinality({u, v}) \in Nat /\ Cardinality({u, v}) <= 2
  <2>1. CASE u = v
    <3>1. {u, v} = {u}
      BY <2>1
    <3>2. IsFiniteSet({u}) /\ Cardinality({u}) = 1
      BY FS_Singleton
    <3> QED
      BY <3>1, <3>2
  <2>2. CASE u # v
    <3>1. IsFiniteSet({v}) /\ Cardinality({v}) = 1
      BY FS_Singleton
    <3>2. {u, v} = {v} \cup {u} /\ u \notin {v}
      BY <2>2
    <3> QED
      BY <3>1, <3>2, FS_AddElement, SMTT(60)
  <2> QED
    BY <2>1, <2>2
<1>5. IsFiniteSet(places) /\ Cardinality(places) = Cardinality({u, v}) * Cardinality(numbers)
  BY <1>3, <1>4, FS_Product
<1>6. place \in Injection(admitted[k], places)
  <2>1. place \in [admitted[k] -> places]
    BY <1>1, <1>2
  <2>2. \A h, g \in admitted[k] : place[h] = place[g] => h = g
    BY <1>2
  <2> QED
    BY <2>1, <2>2 DEF Injection, IsInjective
<1>7. Cardinality(admitted[k]) <= Cardinality(places)
  BY <1>5, <1>6, FS_Injection
<1>8. Cardinality({u, v}) * Limit[k] <= 2 * Limit[k]
  BY <1>2, <1>4
<1>9. Cardinality(admitted[k]) \in Nat
  BY <1>2, FS_CardinalityType
<1> HIDE DEF places, numbers
<1>10. Cardinality(places) = Cardinality({u, v}) * Limit[k]
  BY <1>3, <1>5
<1> QED
  BY <1>2, <1>4, <1>7, <1>8, <1>9, <1>10

-----------------------------------------------------------------------------
(* Theorems *)

\* The counters, the failures and the forms keep their types.
THEOREM LoginTypeCorrect == Login!Spec => []Login!TypeOK
<1>1. LoginInv => Login!TypeOK
  BY DEF LoginInv, CounterOK, HitOK, FailuresOK, FormsOK, Login!TypeOK
<1> QED
  BY <1>1, LoginInvAlways, PTL

\* SEC-08: whatever is tried, lost and waited for, in no stretch of time as long as a window does the
\* store let more than two limits through, beside the writes it did not answer; and the failures of
\* an account are its wrong passwords in a row.
THEOREM LimitsAlwaysKept == Login!Spec => []LimitsKept
<1>1. LoginInv => LimitsKept
  BY AdmittedBounded, SameCardinality DEF LoginInv, FailuresOK, LimitsKept, Login!LimitsKept,
     Login!AtMostTwoWindows, Login!Ticks
<1> QED
  BY <1>1, LoginInvAlways, PTL

\* A 429 tells a wait that is long enough, for the window of an address and the delay of an account.
THEOREM WaitingSuffices == Login!Spec => []WaitIsEnough
<1>1. LoginInv => WaitIsEnough
  BY DEF LoginInv, FormsOK, WaitIsEnough
<1> QED
  BY <1>1, LoginInvAlways, PTL
=============================================================================
