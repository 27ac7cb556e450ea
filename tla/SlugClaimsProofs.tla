-------------------------- MODULE SlugClaimsProofs --------------------------
(***************************************************************************)
(* Why old slugs are kept, for any number of records, slugs and requests.  *)
(*                                                                         *)
(* A request that renames or deletes a record holds its row, so nobody     *)
(* else writes the record's slug or its redirects (Locks).  The redirect   *)
(* it is about to commit is absent and no other request is about to commit *)
(* the same one, because both indexes make it wait (Indexes).  So a commit *)
(* replaces no redirect of another record.                                 *)
(***************************************************************************)
EXTENDS SlugClaims, TLAPS

Holds(t, e) == owner[t] = e \/ pending[t][e] # NoSlug

\* One request holds a row; it writes new records, or the one it locked.
Locks ==
    /\ \A t \in Tx : owner[t] # Nobody => Exists(owner[t])
    /\ \A t, u \in Tx : t # u => \A e \in Entity : ~(Holds(t, e) /\ Holds(u, e))
    /\ \A t \in Tx, e \in Entity : pending[t][e] # NoSlug =>
        /\ owner[t] = Nobody => status[e] = "unborn"
        /\ owner[t] # Nobody => e = owner[t]

\* How far a request is says what it has done.
Phase(t) ==
    /\ pc[t] = "idle" => fresh[t] = {}
    /\ pc[t] = "claimed" => claim[t] \in Slug
    /\ pc[t] \in {"moved", "deleting"} => owner[t] # Nobody
    /\ owner[t] # Nobody =>
        /\ pc[t] \in {"claiming", "claimed", "deleting"} => pending[t] = NoWrites
        /\ pc[t] = "claiming" =>
            want[t] = <<>> \/ \E s \in Slug : want[t] = <<s>> /\ s # live[owner[t]]
        /\ pc[t] = "claimed" => claim[t] # live[owner[t]]
        /\ pending[t][owner[t]] # live[owner[t]]

Phases == \A t \in Tx : Phase(t)

\* A record that is not there has no slug and no redirect; one that is there had its slug.
Records ==
    \A e \in Entity :
        /\ ~Exists(e) => live[e] = NoSlug /\ \A s \in Slug : redirect[s] # e
        /\ Exists(e) => live[e] \in had[e]
        /\ status[e] = "unborn" => had[e] = {}

Renamed(t) == pc[t] = "written" /\ owner[t] # Nobody

\* The redirects about to be committed are new, and each is about to be committed once.
Indexes ==
    \A t \in Tx : Renamed(t) =>
        /\ redirect[live[owner[t]]] = Nobody
        /\ \A u \in Tx : u # t /\ Renamed(u) => live[owner[u]] # live[owner[t]]

\* A slug belongs to one record, and a slug about to be committed to none yet.
Unique ==
    /\ \A e, f \in Entity : e # f /\ live[e] # NoSlug => live[e] # live[f]
    /\ \A t \in Tx, e \in Entity : pending[t][e] # NoSlug =>
        \A f \in Entity :
            /\ live[f] # pending[t][e]
            /\ \A u \in Tx : <<u, f>> # <<t, e>> => pending[u][f] # pending[t][e]

FreshIsFree ==
    \A t \in Tx : \A s \in fresh[t] : redirect[s] \in {Nobody, owner[t]}

IInv ==
    TypeOK /\ Locks /\ Phases /\ Records /\ Indexes /\ Unique /\ FreshIsFree
    /\ OldSlugsKept /\ OnlyRacesTakeOldSlugs

\* Everything a step can be, with the steps that only end a transaction together.
LEMMA StepCases ==
    ASSUME [Next]_vars
    PROVE  \/ \E t \in Tx, slugs \in {Candidates[n] : n \in Name} \cup {<<s>> : s \in Slug} :
                StartCreate(t, slugs)
           \/ \E t \in Tx, e \in Entity, s \in Slug : StartRename(t, e, s)
           \/ \E t \in Tx, e \in Entity : StartDelete(t, e)
           \/ \E t \in Tx : Try(t)
           \/ \E t \in Tx, e \in Entity : Insert(t, e)
           \/ \E t \in Tx : Move(t)
           \/ \E t \in Tx : InsertRedirect(t)
           \/ \E t \in Tx : Commit(t)
           \/ \E t \in Tx : CommitDelete(t)
           \/ \E t \in Tx : Rollback(t)
           \/ \E e \in Entity : Transition(e)
           \/ UNCHANGED <<rows, locals, fresh>> /\ (TypeOK => TypeOK')
<1>1. CASE UNCHANGED vars
  BY <1>1 DEF vars, rows, locals, TypeOK
<1>2. CASE \E r \in Reader : SecondLookup(r) \/ \E s \in Slug : FirstLookup(r, s)
  <2>1. UNCHANGED <<rows, locals, fresh>>
    BY <1>2 DEF SecondLookup, FirstLookup
  <2>2. TypeOK => reader' \in [Reader -> Lookups]
    <3> SUFFICES ASSUME TypeOK PROVE reader' \in [Reader -> Lookups]
      OBVIOUS
    <3>0. reader \in [Reader -> Lookups]
      BY DEF TypeOK
    <3>1. ASSUME NEW r \in Reader, SecondLookup(r) PROVE reader' \in [Reader -> Lookups]
      <4>1. Resting \in Lookups
        BY DEF Resting, Lookups
      <4>2. [reader[r] EXCEPT !.at = "missed"] \in Lookups
        <5>1. reader[r] \in Lookups
          BY <3>0
        <5> QED
          BY <5>1 DEF Lookups
      <4> QED
        BY <3>0, <3>1, <4>1, <4>2 DEF SecondLookup
    <3>2. ASSUME NEW r \in Reader, NEW s \in Slug, FirstLookup(r, s)
          PROVE  reader' \in [Reader -> Lookups]
      <4>1. [at |-> "looking", slug |-> s, kept |-> Holders(s), back |-> {}] \in Lookups
        BY DEF Lookups, Holders
      <4> QED
        BY <3>0, <3>2, <4>1 DEF FirstLookup
    <3> QED
      BY <1>2, <3>1, <3>2
  <2> QED
    BY <2>1, <2>2 DEF rows, locals, TypeOK, NoWrites
<1>3. CASE \E e \in Entity : Transition(e)
  BY <1>3
<1>4. ASSUME NEW t \in Tx, Request(t) PROVE
           \/ \E slugs \in {Candidates[n] : n \in Name} \cup {<<s>> : s \in Slug} :
                StartCreate(t, slugs)
           \/ \E e \in Entity, s \in Slug : StartRename(t, e, s)
           \/ \E e \in Entity : StartDelete(t, e)
  BY <1>4 DEF Request, StartErase, StartHardDelete
<1>5. ASSUME NEW t \in Tx, TxStep(t) PROVE
           \/ Try(t) \/ (\E e \in Entity : Insert(t, e)) \/ Move(t) \/ InsertRedirect(t)
           \/ Commit(t) \/ CommitDelete(t) \/ Rollback(t)
  BY <1>5 DEF TxStep, NoCandidate, UniqueViolation, DeadlockVictim, IdsRunOut
<1> QED
  BY <1>1, <1>2, <1>3, <1>4, <1>5 DEF Next

LEMMA ObserveType ==
    ASSUME TypeOK, Observe
    PROVE  reader' \in [Reader -> Lookups]
<1> DEFINE after(r) ==
        [reader[r] EXCEPT
            !.kept = {e \in @ : /\ status'[e] = "published"
                                /\ live'[e] = reader[r].slug \/ redirect'[reader[r].slug] = e},
            !.back = @ \cup {e \in Entity : live[e] # reader[r].slug /\ live'[e] = reader[r].slug}]
<1>1. ASSUME NEW r \in Reader PROVE after(r) \in Lookups
  <2>1. reader[r] \in Lookups
    BY DEF TypeOK
  <2> QED
    BY <2>1 DEF Lookups
<1>2. \A r \in Reader : reader[r] \in Lookups
  BY DEF TypeOK
<1>3. reader' = [r \in Reader |-> IF reader[r].at # "looking" THEN reader[r] ELSE after(r)]
  BY DEF Observe
<1> HIDE DEF after
<1> QED
  BY <1>1, <1>2, <1>3

\* What a request that ends leaves of itself.
LEMMA ReleaseLocals ==
    ASSUME TypeOK, NEW t \in Tx, Release(t)
    PROVE  /\ pc' \in [Tx -> PC] /\ owner' \in [Tx -> Entity \cup {Nobody}]
           /\ want' \in [Tx -> Seq(Slug)] /\ claim' \in [Tx -> Slug \cup {NoSlug}]
           /\ pending' \in [Tx -> [Entity -> Slug \cup {NoSlug}]]
           /\ pc'[t] = "idle" /\ owner'[t] = Nobody /\ pending'[t] = NoWrites
           /\ \A u \in Tx \ {t} :
                /\ pc'[u] = pc[u] /\ owner'[u] = owner[u] /\ want'[u] = want[u]
                /\ claim'[u] = claim[u] /\ pending'[u] = pending[u]
<1>1. NoWrites \in [Entity -> Slug \cup {NoSlug}]
  BY DEF NoWrites
<1>2. <<>> \in Seq(Slug)
  OBVIOUS
<1> QED
  BY <1>1, <1>2 DEF TypeOK, Release, PC

LEMMA StaleType ==
    ASSUME TypeOK, NEW t \in Tx, NEW S, Stale(t, S)
    PROVE  /\ fresh' \in [Tx -> SUBSET Slug] /\ fresh'[t] = {}
           /\ \A u \in Tx \ {t} : fresh'[u] = fresh[u] \ S
BY DEF TypeOK, Stale

LEMMA TypeStep ==
    ASSUME TypeOK, [Next]_vars
    PROVE  TypeOK'
<1> DEFINE OthersIdle == \A t \in Tx : pc[t] = "idle" => owner[t] = Nobody /\ pending[t] = NoWrites
<1>0. OthersIdle
  BY DEF TypeOK
<1>1. ASSUME NEW t \in Tx, NEW slugs \in {Candidates[n] : n \in Name} \cup {<<s>> : s \in Slug},
             StartCreate(t, slugs)
      PROVE  TypeOK'
  <2>1. slugs \in Seq(Slug)
    <3>1. \A s \in Slug : <<s>> \in Seq(Slug)
      OBVIOUS
    <3>2. \A n \in Name : Candidates[n] \in Seq(Slug)
      BY CandidatesAssumption
    <3>3. (\E n \in Name : slugs = Candidates[n]) \/ (\E s \in Slug : slugs = <<s>>)
      OBVIOUS
    <3> QED
      BY <3>1, <3>2, <3>3
  <2> QED
    BY <1>1, <2>1 DEF TypeOK, StartCreate, rows, PC
<1>2. ASSUME NEW t \in Tx, NEW e \in Entity, NEW s \in Slug, StartRename(t, e, s) PROVE TypeOK'
  <2>1. <<s>> \in Seq(Slug)
    OBVIOUS
  <2> QED
    BY <1>2, <2>1 DEF TypeOK, StartRename, rows, PC
<1>3. ASSUME NEW t \in Tx, NEW e \in Entity, StartDelete(t, e) PROVE TypeOK'
  BY <1>3 DEF TypeOK, StartDelete, rows, PC
<1>4. ASSUME NEW t \in Tx, Try(t) PROVE TypeOK'
  <2>1. want[t] \in Seq(Slug) /\ want[t] # <<>>
    BY <1>4 DEF TypeOK, Try
  <2>2. Tail(want[t]) \in Seq(Slug) /\ Head(want[t]) \in Slug /\ <<>> \in Seq(Slug)
    BY <2>1
  <2>3. want' \in [Tx -> Seq(Slug)]
    BY <1>4, <2>2 DEF TypeOK, Try
  <2>4. UNCHANGED <<rows, owner, pending, reader>>
    BY <1>4 DEF Try
  <2>5. pc[t] = "claiming" /\ pc' \in [Tx -> PC] /\ \A u \in Tx : pc'[u] = "idle" => pc[u] = "idle"
    BY <1>4 DEF TypeOK, Try, PC
  <2>6. claim' \in [Tx -> Slug \cup {NoSlug}]
    BY <1>4, <2>2 DEF TypeOK, Try
  <2>7. fresh' \in [Tx -> SUBSET Slug]
    <3>1. fresh \in [Tx -> SUBSET Slug]
      BY DEF TypeOK
    <3> DEFINE first == Head(want[t])
    <3>2. first \in Slug /\ (fresh' = fresh \/ fresh' = [fresh EXCEPT ![t] = @ \cup {first}])
      BY <1>4, <2>2 DEF Try
    <3> HIDE DEF first
    <3> QED
      BY <3>1, <3>2
  <2> QED
    BY <1>0, <2>3, <2>4, <2>5, <2>6, <2>7 DEF TypeOK, rows, NoWrites
<1>5. ASSUME NEW t \in Tx, NEW e \in Entity, Insert(t, e) PROVE TypeOK'
  BY <1>5 DEF TypeOK, Insert, rows, PC
<1>6. ASSUME NEW t \in Tx, Move(t) PROVE TypeOK'
  BY <1>6 DEF TypeOK, Move, rows, PC
<1>7. ASSUME NEW t \in Tx, InsertRedirect(t) PROVE TypeOK'
  BY <1>7 DEF TypeOK, InsertRedirect, rows, PC
<1>8. ASSUME NEW t \in Tx, Commit(t) PROVE TypeOK'
  <2>1. Release(t) /\ Observe /\ Stale(t, Touched(t)) /\ UNCHANGED listed
    BY <1>8 DEF Commit
  <2>2. pending \in [Tx -> [Entity -> Slug \cup {NoSlug}]] /\ live \in [Entity -> Slug \cup {NoSlug}]
    BY DEF TypeOK
  <2>3. live' \in [Entity -> Slug \cup {NoSlug}]
    BY <1>8, <2>2 DEF Commit, SlugSeen
  <2>4. status' \in [Entity -> Status]
    BY <1>8 DEF Commit, TypeOK, Status
  <2>5. redirect' \in [Slug -> Entity \cup {Nobody}]
    BY <1>8 DEF Commit, RedirectsAfter, TypeOK
  <2>6. had' \in [Entity -> SUBSET Slug]
    BY <1>8, <2>2 DEF Commit, Moved, TypeOK
  <2>7. raced' \subseteq Slug
    BY <1>8, <2>2 DEF Commit, TypeOK
  <2> QED
    BY <1>0, <2>1, <2>3, <2>4, <2>5, <2>6, <2>7, ObserveType, ReleaseLocals, StaleType DEF TypeOK
<1>9. ASSUME NEW t \in Tx, CommitDelete(t) PROVE TypeOK'
  <2>1. /\ Release(t) /\ Observe /\ UNCHANGED <<listed, had, raced>>
        /\ \E S : Stale(t, S)
    BY <1>9 DEF CommitDelete
  <2>2. live' \in [Entity -> Slug \cup {NoSlug}] /\ status' \in [Entity -> Status]
        /\ redirect' \in [Slug -> Entity \cup {Nobody}]
    BY <1>9 DEF CommitDelete, TypeOK, Status
  <2> QED
    BY <1>0, <2>1, <2>2, ObserveType, ReleaseLocals, StaleType DEF TypeOK
<1>10. ASSUME NEW t \in Tx, Rollback(t) PROVE TypeOK'
  BY <1>0, <1>10, ReleaseLocals DEF TypeOK, Rollback, rows
<1>11. ASSUME NEW e \in Entity, Transition(e) PROVE TypeOK'
  <2>1. status' \in [Entity -> Status] /\ listed' \subseteq Entity
    BY <1>11 DEF Transition, Transitions, TypeOK, Status
  <2> QED
    BY <1>0, <1>11, <2>1, ObserveType DEF Transition, TypeOK, locals, NoWrites
<1>12. CASE UNCHANGED <<rows, locals, fresh>> /\ (TypeOK => TypeOK')
  BY <1>12
<1> QED
  BY <1>1, <1>2, <1>3, <1>4, <1>5, <1>6, <1>7, <1>8, <1>9, <1>10, <1>11, <1>12, StepCases

LEMMA LocksStep ==
    ASSUME TypeOK, TypeOK', Locks, Phases, [Next]_vars
    PROVE  Locks'
<1> USE NullAssumption
<1>1. ASSUME NEW t \in Tx, NEW slugs, StartCreate(t, slugs) PROVE Locks'
  BY <1>1 DEF StartCreate, Locks, Holds, Exists, rows
<1>2. ASSUME NEW t \in Tx, NEW e \in Entity, NEW s \in Slug, StartRename(t, e, s) PROVE Locks'
  <2>1. pending[t] = NoWrites
    BY <1>2 DEF StartRename, TypeOK
  <2>2. owner' = [owner EXCEPT ![t] = e] /\ UNCHANGED <<pending, status>> /\ Exists(e) /\ RowFree(e)
    BY <1>2 DEF StartRename, rows
  <2> QED
    BY <2>1, <2>2 DEF Locks, Holds, Exists, RowFree, NoWrites, TypeOK
<1>3. ASSUME NEW t \in Tx, NEW e \in Entity, StartDelete(t, e) PROVE Locks'
  <2>1. pending[t] = NoWrites
    BY <1>3 DEF StartDelete, TypeOK
  <2>2. owner' = [owner EXCEPT ![t] = e] /\ UNCHANGED <<pending, status>> /\ Exists(e) /\ RowFree(e)
    BY <1>3 DEF StartDelete, rows
  <2> QED
    BY <2>1, <2>2 DEF Locks, Holds, Exists, RowFree, NoWrites, TypeOK
<1>4. ASSUME NEW t \in Tx, Try(t) PROVE Locks'
  <2>1. UNCHANGED <<owner, pending, status>>
    BY <1>4 DEF Try, rows
  <2> QED
    BY <2>1 DEF Locks, Holds, Exists
<1>5. ASSUME NEW t \in Tx, NEW e \in Entity, Insert(t, e) PROVE Locks'
  BY <1>5 DEF Insert, Locks, Holds, Exists, RowFree, TypeOK, rows
<1>6. ASSUME NEW t \in Tx, Move(t) PROVE Locks'
  BY <1>6 DEF Move, Locks, Holds, Exists, TypeOK, rows
<1>7. ASSUME NEW t \in Tx, InsertRedirect(t) PROVE Locks'
  BY <1>7 DEF InsertRedirect, Locks, Holds, Exists, rows
<1>8. ASSUME NEW t \in Tx, Release(t),
             \A e \in Entity : ~Holds(t, e) => status'[e] = status[e] PROVE Locks'
  <2>1. owner'[t] = Nobody /\ pending'[t] = NoWrites
    BY <1>8, ReleaseLocals
  <2>2. \A u \in Tx \ {t} : owner'[u] = owner[u] /\ pending'[u] = pending[u]
    BY <1>8, ReleaseLocals
  <2>3. ASSUME NEW u \in Tx, owner'[u] # Nobody PROVE Exists(owner[u])' /\ u # t
    <3>1. u # t /\ owner[u] = owner'[u] /\ owner[u] \in Entity
      BY <2>1, <2>2, <2>3 DEF TypeOK
    <3>2. Exists(owner[u]) /\ ~Holds(t, owner[u])
      BY <2>3, <3>1 DEF Locks, Holds
    <3> QED
      BY <1>8, <3>1, <3>2 DEF Exists
  <2>4. ASSUME NEW u \in Tx, NEW e \in Entity, pending'[u][e] # NoSlug
        PROVE  /\ owner'[u] = Nobody => status'[e] = "unborn"
               /\ owner'[u] # Nobody => e = owner'[u]
    <3>1. u # t
      BY <2>1, <2>4 DEF NoWrites
    <3>2. ~Holds(t, e)
      BY <2>2, <2>4, <3>1 DEF Locks, Holds
    <3> QED
      BY <1>8, <2>2, <2>4, <3>1, <3>2 DEF Locks
  <2>5. ASSUME NEW u \in Tx, NEW v \in Tx, u # v, NEW e \in Entity PROVE ~(Holds(u, e) /\ Holds(v, e))'
    <3>1. ~Holds(t, e)'
      BY <2>1 DEF Holds, NoWrites
    <3>2. CASE u = t \/ v = t
      BY <3>1, <3>2
    <3>3. CASE u # t /\ v # t
      BY <2>2, <2>5, <3>3 DEF Locks, Holds
    <3> QED
      BY <3>2, <3>3
  <2> QED
    BY <2>3, <2>4, <2>5 DEF Locks
<1>9. ASSUME NEW t \in Tx, Commit(t) PROVE Locks'
  <2>1. \A e \in Entity : ~Holds(t, e) => status'[e] = status[e]
    BY <1>9 DEF Commit, Moved, Holds, TypeOK
  <2> QED
    BY <1>8, <1>9, <2>1 DEF Commit
<1>10. ASSUME NEW t \in Tx, CommitDelete(t) PROVE Locks'
  <2>1. \A e \in Entity : ~Holds(t, e) => status'[e] = status[e]
    BY <1>10 DEF CommitDelete, Holds, TypeOK
  <2> QED
    BY <1>8, <1>10, <2>1 DEF CommitDelete
<1>11. ASSUME NEW t \in Tx, Rollback(t) PROVE Locks'
  BY <1>8, <1>11 DEF Rollback, rows
<1>12. ASSUME NEW e \in Entity, Transition(e) PROVE Locks'
  BY <1>12 DEF Transition, Transitions, RowFree, Locks, Holds, Exists, TypeOK, locals
<1>13. CASE UNCHANGED <<rows, locals, fresh>> /\ (TypeOK => TypeOK')
  BY <1>13 DEF Locks, Holds, Exists, rows, locals
<1> QED
  BY <1>1, <1>2, <1>3, <1>4, <1>5, <1>6, <1>7, <1>9, <1>10, <1>11, <1>12, <1>13, StepCases

\* A commit without a locked record only adds records.
LEMMA CreateCommit ==
    ASSUME TypeOK, Locks, Records, NEW t \in Tx, Commit(t), owner[t] = Nobody
    PROVE  /\ redirect' = redirect
           /\ \A e \in Entity :
                IF pending[t][e] = NoSlug
                THEN live'[e] = live[e] /\ status'[e] = status[e] /\ had'[e] = had[e]
                ELSE /\ status[e] = "unborn" /\ live[e] = NoSlug /\ status'[e] = "draft"
                     /\ live'[e] = pending[t][e] /\ had'[e] = {pending[t][e]}
<1>1. \A e \in Entity : Moved(t, e) => status[e] = "unborn" /\ live[e] = NoSlug /\ had[e] = {}
  BY DEF Locks, Moved, Records, Exists
<1>2. \A s \in Slug : ~\E e \in Entity : Moved(t, e) /\ live[e] = s
  BY <1>1, NullAssumption
<1>3. redirect' = redirect
  BY <1>2 DEF Commit, RedirectsAfter, TypeOK
<1>4. ASSUME NEW e \in Entity, pending[t][e] = NoSlug
      PROVE  live'[e] = live[e] /\ status'[e] = status[e] /\ had'[e] = had[e]
  BY <1>4 DEF Commit, SlugSeen, Moved
<1>5. ASSUME NEW e \in Entity, pending[t][e] # NoSlug
      PROVE  /\ status'[e] = "draft"
             /\ live'[e] = pending[t][e] /\ had'[e] = {pending[t][e]}
  BY <1>1, <1>5 DEF Commit, SlugSeen, Moved
<1> QED
  BY <1>1, <1>3, <1>4, <1>5 DEF Moved

\* A commit with a locked record changes that record, its old slug's redirect and the redirect of
\* the slug it moved to.
LEMMA RenameCommit ==
    ASSUME TypeOK, Locks, Records, NEW t \in Tx, Commit(t), owner[t] # Nobody
    PROVE  /\ \A e \in Entity : e # owner[t] =>
                live'[e] = live[e] /\ status'[e] = status[e] /\ had'[e] = had[e]
           /\ owner[t] \in Entity /\ Exists(owner[t]) /\ status'[owner[t]] = status[owner[t]]
           /\ IF pending[t][owner[t]] = NoSlug
              THEN redirect' = redirect /\ live' = live /\ had' = had
              ELSE /\ live'[owner[t]] = pending[t][owner[t]]
                   /\ had'[owner[t]] = had[owner[t]] \cup {pending[t][owner[t]]}
                   /\ \A s \in Slug : redirect'[s] =
                        IF s = live[owner[t]] THEN owner[t]
                        ELSE IF redirect[s] = owner[t] /\ pending[t][owner[t]] = s THEN Nobody
                        ELSE redirect[s]
<1> DEFINE o == owner[t]
<1>1. o \in Entity /\ Exists(o)
  BY DEF TypeOK, Locks
<1>2. \A e \in Entity : Moved(t, e) => e = o
  BY DEF Locks, Moved
<1>3. ASSUME NEW e \in Entity, ~Moved(t, e)
      PROVE  live'[e] = live[e] /\ status'[e] = status[e] /\ had'[e] = had[e]
  BY <1>3 DEF Commit, SlugSeen, Moved
<1>4. status'[o] = status[o]
  BY <1>1 DEF Commit, Exists, TypeOK
<1>5. CASE pending[t][o] = NoSlug
  <2>1. \A e \in Entity : ~Moved(t, e)
    BY <1>2, <1>5 DEF Moved
  <2>2. live' = live /\ had' = had
    BY <2>1 DEF Commit, SlugSeen, Moved, TypeOK
  <2>3. redirect' = redirect
    BY <2>1, <1>5, NullAssumption DEF Commit, RedirectsAfter, TypeOK
  <2> QED
    BY <1>1, <1>3, <1>4, <1>5, <2>1, <2>2, <2>3
<1>6. CASE pending[t][o] # NoSlug
  <2>1. Moved(t, o)
    BY <1>6 DEF Moved
  <2>2. live'[o] = pending[t][o] /\ had'[o] = had[o] \cup {pending[t][o]}
    BY <1>1, <2>1 DEF Commit, SlugSeen, Moved
  <2>3. \A s \in Slug : (\E e \in Entity : Moved(t, e) /\ live[e] = s) <=> s = live[o]
    BY <1>1, <1>2, <2>1
  <2>4. \A s \in Slug : redirect'[s] =
                        IF s = live[o] THEN o
                        ELSE IF redirect[s] = o /\ pending[t][o] = s THEN Nobody
                        ELSE redirect[s]
    BY <2>3 DEF Commit, RedirectsAfter
  <2> QED
    BY <1>1, <1>2, <1>3, <1>4, <1>6, <2>2, <2>4
<1> QED
  BY <1>5, <1>6

LEMMA DeleteCommit ==
    ASSUME TypeOK, Phases, NEW t \in Tx, CommitDelete(t)
    PROVE  /\ owner[t] \in Entity
           /\ live' = [live EXCEPT ![owner[t]] = NoSlug]
           /\ status' = [status EXCEPT ![owner[t]] = "gone"]
           /\ \A s \in Slug : redirect'[s] = IF redirect[s] = owner[t] THEN Nobody ELSE redirect[s]
           /\ UNCHANGED <<had, raced>>
BY DEF CommitDelete, TypeOK, Phases, Phase

LEMMA RecordsStep ==
    ASSUME TypeOK, TypeOK', Locks, Phases, Records, [Next]_vars
    PROVE  Records'
<1> USE NullAssumption
<1>1. CASE UNCHANGED rows
  BY <1>1 DEF Records, Exists, rows
<1>2. ASSUME NEW t \in Tx, Commit(t), owner[t] = Nobody PROVE Records'
  BY <1>2, CreateCommit DEF Records, Exists
<1>3. ASSUME NEW t \in Tx, Commit(t), owner[t] # Nobody PROVE Records'
  <2> DEFINE o == owner[t]
  <2>1. pending[t][o] \in Slug \cup {NoSlug} /\ live[o] \in Slug
    BY <1>3, RenameCommit DEF TypeOK, Records
  <2>2. ASSUME NEW e \in Entity, ~Exists(e)' PROVE live'[e] = NoSlug /\ \A s \in Slug : redirect'[s] # e
    <3>1. ~Exists(e) /\ e # o
      BY <1>3, <2>2, RenameCommit DEF Exists
    <3>2. live[e] = NoSlug /\ \A s \in Slug : redirect[s] # e
      BY <3>1 DEF Records
    <3> QED
      BY <1>3, <3>1, <3>2, RenameCommit
  <2>3. ASSUME NEW e \in Entity, Exists(e)' PROVE live'[e] \in had'[e]
    BY <1>3, <2>3, RenameCommit DEF Records, Exists
  <2>4. ASSUME NEW e \in Entity, status'[e] = "unborn" PROVE had'[e] = {}
    <3>1. status[e] = "unborn" /\ e # o
      BY <1>3, <2>4, RenameCommit DEF Exists
    <3> QED
      BY <1>3, <3>1, RenameCommit DEF Records
  <2> QED
    BY <2>2, <2>3, <2>4 DEF Records
<1>4. ASSUME NEW t \in Tx, CommitDelete(t) PROVE Records'
  <2>1. ASSUME NEW e \in Entity, e # owner[t]
        PROVE  live'[e] = live[e] /\ status'[e] = status[e] /\ had'[e] = had[e]
    BY <1>4, <2>1, DeleteCommit DEF TypeOK
  <2>2. ASSUME NEW e \in Entity, e = owner[t] PROVE live'[e] = NoSlug /\ status'[e] = "gone"
    BY <1>4, <2>2, DeleteCommit DEF TypeOK
  <2>3. \A e \in Entity, s \in Slug : redirect'[s] = e => redirect[s] = e /\ e # owner[t]
    BY <1>4, DeleteCommit
  <2>4. ASSUME NEW e \in Entity, e # owner[t]
        PROVE  /\ ~Exists(e)' => live'[e] = NoSlug /\ \A s \in Slug : redirect'[s] # e
               /\ Exists(e)' => live'[e] \in had'[e]
               /\ status'[e] = "unborn" => had'[e] = {}
    BY <2>1, <2>3, <2>4 DEF Records, Exists
  <2>5. ASSUME NEW e \in Entity, e = owner[t]
        PROVE  /\ ~Exists(e)' => live'[e] = NoSlug /\ \A s \in Slug : redirect'[s] # e
               /\ Exists(e)' => live'[e] \in had'[e]
               /\ status'[e] = "unborn" => had'[e] = {}
    BY <2>2, <2>3, <2>5 DEF Exists
  <2> QED
    BY <2>4, <2>5 DEF Records
<1>5. ASSUME NEW e \in Entity, Transition(e) PROVE Records'
  <2>1. UNCHANGED <<live, redirect, had>>
    BY <1>5 DEF Transition
  <2>2. /\ \A f \in Entity : Exists(f)' <=> Exists(f)
        /\ \A f \in Entity : status'[f] = "unborn" => status[f] = "unborn"
    BY <1>5 DEF Transition, Transitions, Exists, TypeOK
  <2> QED
    BY <2>1, <2>2 DEF Records
<1>6. UNCHANGED rows \/ (\E t \in Tx : Commit(t) \/ CommitDelete(t)) \/ \E e \in Entity : Transition(e)
  BY StepCases DEF StartCreate, StartRename, StartDelete, Try, Insert, Move, InsertRedirect, Rollback
<1> QED
  BY <1>1, <1>2, <1>3, <1>4, <1>5, <1>6

\* A request that ends leaves the records others have locked as they were.
LEMMA OthersKept ==
    ASSUME TypeOK, Locks, Phases, Records, NEW t \in Tx, Commit(t) \/ CommitDelete(t),
           NEW u \in Tx, u # t, owner[u] # Nobody
    PROVE  live'[owner[u]] = live[owner[u]] /\ owner[u] \in Entity
<1> USE NullAssumption
<1>1. owner[u] \in Entity /\ Exists(owner[u])
  BY DEF TypeOK, Locks
<1>2. owner[u] # owner[t] /\ pending[t][owner[u]] = NoSlug
  BY <1>1 DEF Locks, Holds
<1>3. CASE Commit(t) /\ owner[t] = Nobody
  BY <1>1, <1>2, <1>3, CreateCommit
<1>4. CASE Commit(t) /\ owner[t] # Nobody
  BY <1>1, <1>2, <1>4, RenameCommit
<1>5. CASE CommitDelete(t)
  BY <1>1, <1>2, <1>5, DeleteCommit DEF TypeOK
<1> QED
  BY <1>1, <1>3, <1>4, <1>5

\* The others' phases survive a step that leaves their locals alone.
LEMMA PhaseOfOthers ==
    ASSUME NEW u \in Tx, Phase(u), pc'[u] = pc[u], owner'[u] = owner[u], want'[u] = want[u],
           claim'[u] = claim[u], pending'[u] = pending[u], fresh'[u] \subseteq fresh[u],
           owner[u] # Nobody => live'[owner[u]] = live[owner[u]]
    PROVE  Phase(u)'
BY DEF Phase, NoWrites

LEMMA PhasesStep ==
    ASSUME TypeOK, TypeOK', Locks, Phases, Records, [Next]_vars
    PROVE  Phases'
<1> USE NullAssumption DEF Phases
<1>0. \A u \in Tx : Phase(u)
  OBVIOUS
<1>1. ASSUME NEW t \in Tx, NEW slugs, StartCreate(t, slugs) PROVE Phases'
  <2>1. owner'[t] = Nobody /\ pc'[t] = "claiming"
    BY <1>1 DEF StartCreate, TypeOK
  <2>2. Phase(t)'
    BY <2>1 DEF Phase
  <2>3. \A u \in Tx \ {t} : Phase(u)'
    BY <1>0, <1>1, PhaseOfOthers DEF StartCreate, rows, TypeOK
  <2> QED
    BY <2>2, <2>3
<1>2. ASSUME NEW t \in Tx, NEW e \in Entity, NEW s \in Slug, StartRename(t, e, s) PROVE Phases'
  <2>1. /\ owner'[t] = e /\ pc'[t] = "claiming" /\ want'[t] = <<s>> /\ s # live'[e]
        /\ pending'[t] = NoWrites
    BY <1>2 DEF StartRename, TypeOK, rows
  <2>2. live'[e] # NoSlug
    BY <1>2 DEF StartRename, Records, TypeOK, rows
  <2>3. Phase(t)'
    BY <2>1, <2>2 DEF Phase, NoWrites
  <2>4. \A u \in Tx \ {t} : Phase(u)'
    BY <1>0, <1>2, PhaseOfOthers DEF StartRename, rows, TypeOK
  <2> QED
    BY <2>3, <2>4
<1>3. ASSUME NEW t \in Tx, NEW e \in Entity, StartDelete(t, e) PROVE Phases'
  <2>1. /\ owner'[t] = e /\ pc'[t] = "deleting" /\ pending'[t] = NoWrites
    BY <1>3 DEF StartDelete, TypeOK
  <2>2. live'[e] # NoSlug
    BY <1>3 DEF StartDelete, Records, TypeOK, rows
  <2>3. Phase(t)'
    BY <2>1, <2>2 DEF Phase, NoWrites
  <2>4. \A u \in Tx \ {t} : Phase(u)'
    BY <1>0, <1>3, PhaseOfOthers DEF StartDelete, rows, TypeOK
  <2> QED
    BY <2>3, <2>4
<1>4. ASSUME NEW t \in Tx, Try(t) PROVE Phases'
  <2>1. \A u \in Tx \ {t} : Phase(u)'
    BY <1>0, <1>4, PhaseOfOthers DEF Try, rows, TypeOK
  <2>2. /\ pc[t] = "claiming" /\ want[t] # <<>> /\ want[t] \in Seq(Slug)
        /\ UNCHANGED <<owner, pending, live>>
    BY <1>4 DEF Try, TypeOK, rows
  <2>3. Head(want[t]) \in Slug
    BY <2>2
  <2>4. ASSUME owner[t] # Nobody
        PROVE  Head(want[t]) # live[owner[t]] /\ Tail(want[t]) = <<>> /\ pending[t] = NoWrites
    <3>1. PICK s \in Slug : want[t] = <<s>> /\ s # live[owner[t]]
      BY <1>0, <2>2, <2>4 DEF Phase
    <3> QED
      BY <1>0, <2>2, <2>4, <3>1 DEF Phase
  <2>5. CASE IsTaken(t, Head(want[t]))
    <3>1. want'[t] = Tail(want[t]) /\ pc' = pc
      BY <1>4, <2>5 DEF Try, TypeOK
    <3> QED
      BY <1>0, <2>1, <2>2, <2>4, <3>1, ZenonT(60) DEF Phase
  <2>6. CASE ~IsTaken(t, Head(want[t]))
    <3>1. claim'[t] = Head(want[t]) /\ pc'[t] = "claimed"
      BY <1>4, <2>6 DEF Try, TypeOK
    <3>2. Phase(t)'
      BY <1>0, <2>2, <2>3, <2>4, <3>1 DEF Phase
    <3> QED
      BY <2>1, <3>2
  <2> QED
    BY <2>5, <2>6
<1>5. ASSUME NEW t \in Tx, NEW e \in Entity, Insert(t, e) PROVE Phases'
  <2>1. owner'[t] = Nobody /\ pc'[t] = "written"
    BY <1>5 DEF Insert, TypeOK
  <2>2. Phase(t)'
    BY <2>1 DEF Phase
  <2>3. \A u \in Tx \ {t} : Phase(u)'
    BY <1>0, <1>5, PhaseOfOthers DEF Insert, rows, TypeOK
  <2> QED
    BY <2>2, <2>3
<1>6. ASSUME NEW t \in Tx, Move(t) PROVE Phases'
  <2>1. /\ owner'[t] = owner[t] /\ owner[t] \in Entity /\ pc[t] = "claimed" /\ pc'[t] = "moved"
        /\ pending'[t][owner[t]] = claim[t] /\ live' = live
    BY <1>6 DEF Move, TypeOK, rows
  <2>2. Phase(t)'
    BY <1>0, <2>1 DEF Phase
  <2>3. \A u \in Tx \ {t} : Phase(u)'
    BY <1>0, <1>6, PhaseOfOthers DEF Move, rows, TypeOK
  <2> QED
    BY <2>2, <2>3
<1>7. ASSUME NEW t \in Tx, InsertRedirect(t) PROVE Phases'
  <2>1. /\ pc'[t] = "written" /\ UNCHANGED <<owner, pending, live, fresh>>
    BY <1>7 DEF InsertRedirect, TypeOK, rows
  <2>2. Phase(t)'
    BY <1>0, <2>1 DEF Phase
  <2>3. \A u \in Tx \ {t} : Phase(u)'
    BY <1>0, <1>7, PhaseOfOthers DEF InsertRedirect, rows, TypeOK
  <2> QED
    BY <2>2, <2>3
<1>8. ASSUME NEW t \in Tx, Commit(t) \/ CommitDelete(t) PROVE Phases'
  <2>1. Release(t) /\ \E S : Stale(t, S)
    BY <1>8 DEF Commit, CommitDelete
  <2>2. pc'[t] = "idle" /\ owner'[t] = Nobody /\ fresh'[t] = {}
    BY <2>1, ReleaseLocals, StaleType
  <2>3. Phase(t)'
    BY <2>2 DEF Phase
  <2>4. \A u \in Tx \ {t} : fresh'[u] \subseteq fresh[u]
    BY <2>1, StaleType
  <2>5. \A u \in Tx \ {t} : Phase(u)'
    BY <1>0, <1>8, <2>1, <2>4, ReleaseLocals, OthersKept, PhaseOfOthers
  <2> QED
    BY <2>3, <2>5
<1>9. ASSUME NEW t \in Tx, Rollback(t) PROVE Phases'
  <2>1. Release(t) /\ live' = live /\ fresh' = [fresh EXCEPT ![t] = {}]
    BY <1>9 DEF Rollback, rows
  <2>2. pc'[t] = "idle" /\ owner'[t] = Nobody /\ fresh'[t] = {}
    BY <2>1, ReleaseLocals DEF TypeOK
  <2>3. Phase(t)'
    BY <2>2 DEF Phase
  <2>4. \A u \in Tx \ {t} : Phase(u)'
    BY <1>0, <2>1, ReleaseLocals, PhaseOfOthers DEF TypeOK
  <2> QED
    BY <2>3, <2>4
<1>10. ASSUME NEW e \in Entity, Transition(e) PROVE Phases'
  BY <1>0, <1>10, PhaseOfOthers DEF Transition, locals
<1>11. CASE UNCHANGED <<rows, locals, fresh>> /\ (TypeOK => TypeOK')
  BY <1>0, <1>11, PhaseOfOthers DEF rows, locals
<1> QED
  BY <1>1, <1>2, <1>3, <1>4, <1>5, <1>6, <1>7, <1>8, <1>9, <1>10, <1>11, StepCases

\* A record that exists has a slug.
LEMMA LiveSlug ==
    ASSUME TypeOK, Records, NEW e \in Entity, Exists(e)
    PROVE  live[e] \in Slug
BY DEF TypeOK, Records

LEMMA IndexesStep ==
    ASSUME TypeOK, TypeOK', Locks, Phases, Records, Indexes, [Next]_vars
    PROVE  Indexes'
<1> USE NullAssumption
<1>1. ASSUME UNCHANGED <<live, redirect>>, \A t \in Tx : Renamed(t)' => Renamed(t) /\ owner'[t] = owner[t]
      PROVE  Indexes'
  BY <1>1 DEF Indexes
<1>2. ASSUME NEW t \in Tx, InsertRedirect(t) PROVE Indexes'
  <2>1. /\ pc[t] = "moved" /\ pc'[t] = "written" /\ \A u \in Tx \ {t} : pc'[u] = pc[u]
        /\ UNCHANGED <<owner, live, redirect, pending>>
        /\ redirect[live[owner[t]]] = Nobody /\ Waits(t) = {}
    BY <1>2 DEF InsertRedirect, rows, TypeOK
  <2>2. owner[t] \in Entity /\ Exists(owner[t])
    BY <2>1 DEF Phases, Phase, Locks, TypeOK
  <2>3. live[owner[t]] \in Slug
    BY <2>2, LiveSlug
  <2>4. RedirectWaits(t, live[owner[t]]) = {}
    BY <2>1 DEF Waits
  <2>5. ASSUME NEW u \in Tx, u # t, Renamed(u) PROVE live[owner[u]] # live[owner[t]]
    <3>1. live[owner[t]] \notin RedirectsInDoubt(u)
      BY <2>4, <2>5 DEF RedirectWaits
    <3> QED
      BY <2>3, <2>5, <3>1 DEF RedirectsInDoubt, Renamed
  <2>6. \A u \in Tx : Renamed(u)' => u = t \/ Renamed(u)
    BY <2>1 DEF Renamed
  <2> QED
    BY <2>1, <2>5, <2>6 DEF Indexes
<1>3. ASSUME NEW t \in Tx, Commit(t) \/ CommitDelete(t) PROVE Indexes'
  <2>1. Release(t)
    BY <1>3 DEF Commit, CommitDelete
  <2>2. \A u \in Tx : Renamed(u)' => u # t /\ Renamed(u) /\ owner'[u] = owner[u]
    BY <2>1, ReleaseLocals DEF Renamed
  <2>3. \A u \in Tx : u # t /\ Renamed(u) => live'[owner[u]] = live[owner[u]]
    BY <1>3, OthersKept DEF Renamed
  <2>4. ASSUME NEW u \in Tx, u # t, Renamed(u) PROVE redirect'[live[owner[u]]] = Nobody
    <3>1. owner[u] \in Entity /\ Exists(owner[u])
      BY <2>4 DEF Renamed, Locks, TypeOK
    <3>2. live[owner[u]] \in Slug /\ redirect[live[owner[u]]] = Nobody
      BY <2>4, <3>1, LiveSlug DEF Indexes
    <3>3. CASE Commit(t) /\ owner[t] = Nobody
      BY <3>2, <3>3, CreateCommit
    <3>4. CASE Commit(t) /\ owner[t] # Nobody
      <4>1. Renamed(t)
        BY <3>4 DEF Commit, Renamed
      <4>2. live[owner[t]] # live[owner[u]]
        BY <2>4, <4>1 DEF Indexes
      <4> QED
        BY <3>2, <3>4, <4>2, RenameCommit
    <3>5. CASE CommitDelete(t)
      BY <3>2, <3>5, DeleteCommit
    <3> QED
      BY <1>3, <3>3, <3>4, <3>5
  <2> QED
    BY <2>2, <2>3, <2>4 DEF Indexes
<1>4. ASSUME NEW t \in Tx, \/ \E slugs : StartCreate(t, slugs)
                           \/ \E e \in Entity : Insert(t, e)
                           \/ \E e \in Entity, s \in Slug : StartRename(t, e, s)
                           \/ \E e \in Entity : StartDelete(t, e)
                           \/ Try(t) \/ Move(t)
      PROVE  Indexes'
  <2>1. UNCHANGED <<live, redirect>>
    BY <1>4 DEF StartCreate, Insert, StartRename, StartDelete, Try, Move, rows
  <2>2. \A u \in Tx \ {t} : pc'[u] = pc[u] /\ owner'[u] = owner[u]
    BY <1>4 DEF StartCreate, Insert, StartRename, StartDelete, Try, Move, TypeOK
  <2>3. ~Renamed(t)'
    BY <1>4 DEF StartCreate, Insert, StartRename, StartDelete, Try, Move, TypeOK, Renamed
  <2> QED
    BY <1>1, <2>1, <2>2, <2>3 DEF Renamed
<1>5. ASSUME NEW t \in Tx, Rollback(t) PROVE Indexes'
  <2>1. Release(t) /\ UNCHANGED <<live, redirect>>
    BY <1>5 DEF Rollback, rows
  <2> QED
    BY <1>1, <2>1, ReleaseLocals DEF Renamed
<1>6. ASSUME NEW e \in Entity, Transition(e) PROVE Indexes'
  BY <1>1, <1>6 DEF Transition, locals, Renamed
<1>7. CASE UNCHANGED <<rows, locals, fresh>> /\ (TypeOK => TypeOK')
  BY <1>1, <1>7 DEF rows, locals, Renamed
<1> QED
  BY <1>2, <1>3, <1>4, <1>5, <1>6, <1>7, StepCases

LEMMA UniqueStep ==
    ASSUME TypeOK, TypeOK', Locks, Phases, Records, Unique, [Next]_vars
    PROVE  Unique'
<1> USE NullAssumption
<1>1. ASSUME live' = live, \A t \in Tx, e \in Entity : pending'[t][e] \in {NoSlug, pending[t][e]}
      PROVE  Unique'
  BY <1>1 DEF Unique
<1>2. ASSUME NEW t \in Tx, NEW e \in Entity, NEW s \in Slug, live' = live,
             \A u \in Tx, f \in Entity : pending'[u][f] = IF u = t /\ f = e THEN s ELSE pending[u][f],
             \A f \in Entity : live[f] # s,
             \A u \in Tx, f \in Entity : <<u, f>> # <<t, e>> => pending[u][f] # s
      PROVE  Unique'
  BY <1>2 DEF Unique
<1>3. ASSUME NEW t \in Tx, NEW e \in Entity, Insert(t, e) PROVE Unique'
  <2> DEFINE s == claim[t]
  <2>1. /\ s \in Slug /\ live' = live /\ pending' = [pending EXCEPT ![t][e] = s]
        /\ SlugWaits(t, s) = {} /\ \A f \in Entity : SlugSeen(t, f) # s
    BY <1>3 DEF Insert, Phases, Phase, rows, Waits, SlugClash
  <2>2. \A f \in Entity : live[f] # s
    <3> SUFFICES ASSUME NEW f \in Entity PROVE live[f] # s
      OBVIOUS
    <3>1. CASE pending[t][f] = NoSlug
      BY <2>1, <3>1 DEF SlugSeen
    <3>2. CASE pending[t][f] # NoSlug
      BY <1>3, <2>1, <3>2 DEF Insert, Locks, Records, Exists
    <3> QED
      BY <3>1, <3>2
  <2>3. \A u \in Tx, f \in Entity : pending[u][f] # s
    BY <2>1 DEF SlugWaits, SlugSeen
  <2>4. \A u \in Tx, f \in Entity : pending'[u][f] = IF u = t /\ f = e THEN s ELSE pending[u][f]
    BY <2>1 DEF TypeOK
  <2> QED
    BY <1>2, <2>1, <2>2, <2>3, <2>4
<1>4. ASSUME NEW t \in Tx, Move(t) PROVE Unique'
  <2> DEFINE s == claim[t]
  <2> DEFINE e == owner[t]
  <2>1. /\ s \in Slug /\ live' = live /\ pending' = [pending EXCEPT ![t][e] = s] /\ e \in Entity
        /\ SlugWaits(t, s) = {} /\ \A f \in Entity : SlugSeen(t, f) # s
        /\ pending[t] = NoWrites
    BY <1>4 DEF Move, Phases, Phase, rows, Waits, SlugClash, TypeOK
  <2>2. \A f \in Entity : live[f] # s
    BY <2>1 DEF SlugSeen, NoWrites
  <2>3. \A u \in Tx, f \in Entity : pending[u][f] # s
    BY <2>1 DEF SlugWaits, SlugSeen, NoWrites
  <2>4. \A u \in Tx, f \in Entity : pending'[u][f] = IF u = t /\ f = e THEN s ELSE pending[u][f]
    BY <2>1 DEF TypeOK
  <2> QED
    BY <1>2, <2>1, <2>2, <2>3, <2>4
<1>5. ASSUME NEW t \in Tx, Release(t)
      PROVE  \A u \in Tx, e \in Entity :
                pending'[u][e] \in {NoSlug, pending[u][e]} /\ (u = t => pending'[u][e] = NoSlug)
  BY <1>5, ReleaseLocals DEF NoWrites
<1>6. ASSUME NEW t \in Tx, Commit(t) PROVE Unique'
  <2>1. \A e \in Entity : live'[e] = IF pending[t][e] # NoSlug THEN pending[t][e] ELSE live[e]
    BY <1>6 DEF Commit, SlugSeen
  <2>2. \A u \in Tx, e \in Entity :
            pending'[u][e] \in {NoSlug, pending[u][e]} /\ (u = t => pending'[u][e] = NoSlug)
    BY <1>5, <1>6 DEF Commit
  <2>3. ASSUME NEW e \in Entity, NEW f \in Entity, e # f, live'[e] # NoSlug PROVE live'[e] # live'[f]
    BY <2>1, <2>3 DEF Unique
  <2>4. ASSUME NEW u \in Tx, NEW e \in Entity, pending'[u][e] # NoSlug, NEW f \in Entity
        PROVE  /\ live'[f] # pending'[u][e]
               /\ \A v \in Tx : <<v, f>> # <<u, e>> => pending'[v][f] # pending'[u][e]
    <3>1. u # t /\ pending[u][e] = pending'[u][e]
      BY <2>2, <2>4
    <3>2. live[f] # pending[u][e] /\ pending[t][f] # pending[u][e]
      BY <2>4, <3>1 DEF Unique
    <3>3. \A v \in Tx : <<v, f>> # <<u, e>> => pending[v][f] # pending[u][e]
      BY <2>4, <3>1 DEF Unique
    <3> QED
      BY <2>1, <2>2, <2>4, <3>1, <3>2, <3>3
  <2> QED
    BY <2>3, <2>4 DEF Unique
<1>7. ASSUME NEW t \in Tx, CommitDelete(t) PROVE Unique'
  <2>1. \A e \in Entity : live'[e] \in {NoSlug, live[e]}
    BY <1>7, DeleteCommit DEF TypeOK
  <2>2. \A u \in Tx, e \in Entity : pending'[u][e] \in {NoSlug, pending[u][e]}
    BY <1>5, <1>7 DEF CommitDelete
  <2> QED
    BY <2>1, <2>2 DEF Unique
<1>8. ASSUME NEW t \in Tx, Rollback(t) PROVE Unique'
  BY <1>1, <1>5, <1>8 DEF Rollback, rows
<1>9. ASSUME UNCHANGED <<live, pending>> PROVE Unique'
  BY <1>9 DEF Unique
<1>10. UNCHANGED <<live, pending>> \/ (\E t \in Tx : \/ \E e \in Entity : Insert(t, e)
                                                     \/ Move(t) \/ Commit(t) \/ CommitDelete(t) \/ Rollback(t))
  BY StepCases DEF StartCreate, StartRename, StartDelete, Try, InsertRedirect, Transition, rows, locals
<1> QED
  BY <1>3, <1>4, <1>6, <1>7, <1>8, <1>9, <1>10

LEMMA FreshStep ==
    ASSUME TypeOK, TypeOK', Locks, Phases, Records, FreshIsFree, [Next]_vars
    PROVE  FreshIsFree'
<1> USE NullAssumption
<1>1. ASSUME redirect' = redirect, \A t \in Tx : fresh'[t] = {} \/ (fresh'[t] = fresh[t] /\ owner'[t] = owner[t])
      PROVE  FreshIsFree'
  BY <1>1 DEF FreshIsFree
<1>2. ASSUME NEW t \in Tx, Try(t) PROVE FreshIsFree'
  <2> DEFINE first == Head(want[t])
  <2>1. UNCHANGED <<redirect, owner>> /\ \A u \in Tx : u # t => fresh'[u] = fresh[u]
    BY <1>2 DEF Try, TypeOK, rows
  <2>2. first \in Slug
    BY <1>2 DEF Try, TypeOK
  <2>3. CASE IsTaken(t, first)
    BY <1>1, <1>2, <2>1, <2>3 DEF Try
  <2>4. CASE ~IsTaken(t, first)
    <3>1. redirect[first] \in {Nobody, owner[t]}
      BY <2>2, <2>4 DEF IsTaken, TypeOK
    <3>2. fresh'[t] = fresh[t] \cup {first}
      BY <1>2, <2>4 DEF Try, TypeOK
    <3> HIDE DEF first
    <3> QED
      BY <2>1, <3>1, <3>2 DEF FreshIsFree
  <2> QED
    BY <2>3, <2>4
<1>3. ASSUME NEW t \in Tx, \/ \E e \in Entity, s \in Slug : StartRename(t, e, s)
                           \/ \E e \in Entity : StartDelete(t, e)
      PROVE  FreshIsFree'
  <2>1. pc[t] = "idle" /\ UNCHANGED <<redirect, fresh>> /\ \A u \in Tx \ {t} : owner'[u] = owner[u]
    BY <1>3 DEF StartRename, StartDelete, TypeOK, rows
  <2>2. fresh[t] = {}
    BY <2>1 DEF Phases, Phase
  <2> QED
    BY <1>1, <2>1, <2>2
<1>4. ASSUME NEW t \in Tx, Commit(t) PROVE FreshIsFree'
  <2>1. Release(t) /\ Stale(t, Touched(t))
    BY <1>4 DEF Commit
  <2>2. ASSUME NEW u \in Tx, NEW s \in fresh'[u] PROVE redirect'[s] \in {Nobody, owner'[u]}
    <3>1. u # t /\ s \in fresh[u] \ Touched(t) /\ owner'[u] = owner[u]
      BY <2>1, <2>2, ReleaseLocals, StaleType
    <3>2. s \in Slug /\ redirect[s] \in {Nobody, owner[u]}
      BY <3>1 DEF FreshIsFree, TypeOK
    <3>3. CASE owner[t] = Nobody
      BY <1>4, <3>1, <3>2, <3>3, CreateCommit
    <3>4. CASE owner[t] # Nobody
      <4>1. pending[t][owner[t]] # NoSlug => s # live[owner[t]]
        BY <3>1, <3>2, <3>4 DEF Touched, Moved, TypeOK
      <4> QED
        BY <1>4, <3>1, <3>2, <3>4, <4>1, RenameCommit
    <3> QED
      BY <3>3, <3>4
  <2> QED
    BY <2>2 DEF FreshIsFree
<1>5. ASSUME NEW t \in Tx, CommitDelete(t) PROVE FreshIsFree'
  <2>1. Release(t) /\ \E S : Stale(t, S)
    BY <1>5 DEF CommitDelete
  <2>2. ASSUME NEW u \in Tx, NEW s \in fresh'[u] PROVE redirect'[s] \in {Nobody, owner'[u]}
    <3>1. u # t /\ s \in fresh[u] /\ owner'[u] = owner[u]
      BY <2>1, <2>2, ReleaseLocals, StaleType
    <3>2. s \in Slug /\ redirect[s] \in {Nobody, owner[u]}
      BY <3>1 DEF FreshIsFree, TypeOK
    <3> QED
      BY <1>5, <3>1, <3>2, DeleteCommit
  <2> QED
    BY <2>2 DEF FreshIsFree
<1>6. ASSUME NEW t \in Tx, Rollback(t) PROVE FreshIsFree'
  <2>1. Release(t) /\ redirect' = redirect /\ fresh' = [fresh EXCEPT ![t] = {}]
    BY <1>6 DEF Rollback, rows
  <2>2. fresh'[t] = {}
    BY <2>1 DEF TypeOK
  <2>3. \A u \in Tx \ {t} : fresh'[u] = fresh[u] /\ owner'[u] = owner[u]
    BY <2>1, ReleaseLocals DEF TypeOK
  <2> QED
    BY <2>1, <2>2, <2>3 DEF FreshIsFree
<1>7. ASSUME UNCHANGED <<redirect, owner, fresh>> PROVE FreshIsFree'
  BY <1>7 DEF FreshIsFree
<1>8. \/ UNCHANGED <<redirect, owner, fresh>>
      \/ \E t \in Tx : \/ Try(t) \/ Commit(t) \/ CommitDelete(t) \/ Rollback(t)
                       \/ \E e \in Entity, s \in Slug : StartRename(t, e, s)
                       \/ \E e \in Entity : StartDelete(t, e)
  BY StepCases DEF StartCreate, Insert, Move, InsertRedirect, Transition, rows, locals
<1> QED
  BY <1>2, <1>3, <1>4, <1>5, <1>6, <1>7, <1>8

\* The heart of it: a commit replaces no redirect of another record, because the one it inserts was
\* absent when it was inserted and both indexes kept it so.
LEMMA KeptStep ==
    ASSUME TypeOK, TypeOK', Locks, Phases, Records, Indexes, OldSlugsKept, [Next]_vars
    PROVE  OldSlugsKept'
<1> USE NullAssumption
<1>1. ASSUME UNCHANGED <<live, redirect, had>>, \A e \in Entity : Exists(e)' => Exists(e)
      PROVE  OldSlugsKept'
  BY <1>1 DEF OldSlugsKept
<1>2. ASSUME NEW t \in Tx, Commit(t), owner[t] = Nobody PROVE OldSlugsKept'
  <2> SUFFICES ASSUME NEW e \in Entity, Exists(e)', NEW s \in had'[e]
               PROVE  (live'[e] = s) # (redirect'[s] = e)
    BY DEF OldSlugsKept
  <2>1. redirect' = redirect
    BY <1>2, CreateCommit
  <2>2. CASE pending[t][e] = NoSlug
    BY <1>2, <2>1, <2>2, CreateCommit DEF OldSlugsKept, Exists
  <2>3. CASE pending[t][e] # NoSlug
    <3>1. status[e] = "unborn" /\ live'[e] = s /\ s \in Slug
      BY <1>2, <2>3, CreateCommit DEF TypeOK
    <3>2. redirect[s] # e
      BY <3>1 DEF Records, Exists
    <3> QED
      BY <2>1, <3>1, <3>2
  <2> QED
    BY <2>2, <2>3
<1>3. ASSUME NEW t \in Tx, Commit(t), owner[t] # Nobody PROVE OldSlugsKept'
  <2> DEFINE o == owner[t]
  <2> DEFINE new == pending[t][o]
  <2>0. o \in Entity /\ Exists(o) /\ live[o] \in Slug /\ new # live[o]
    BY <1>3, RenameCommit, LiveSlug DEF Phases, Phase
  <2>1. redirect[live[o]] = Nobody
    BY <1>3 DEF Commit, Indexes, Renamed
  <2> SUFFICES ASSUME NEW e \in Entity, Exists(e)', NEW s \in had'[e]
               PROVE  (live'[e] = s) # (redirect'[s] = e)
    BY DEF OldSlugsKept
  <2>2. Exists(e) /\ s \in Slug
    BY <1>3, RenameCommit DEF Exists, TypeOK
  <2>3. CASE new = NoSlug
    BY <1>3, <2>2, <2>3, RenameCommit DEF OldSlugsKept
  <2>4. CASE new # NoSlug /\ e # o
    <3>1. live'[e] = live[e] /\ s \in had[e]
      BY <1>3, <2>4, RenameCommit
    <3>2. (live[e] = s) # (redirect[s] = e)
      BY <2>2, <3>1 DEF OldSlugsKept
    <3>3. redirect'[s] = e <=> redirect[s] = e
      BY <1>3, <2>1, <2>2, <2>4, RenameCommit
    <3> QED
      BY <3>1, <3>2, <3>3
  <2>5. CASE new # NoSlug /\ e = o /\ s = new
    <3>1. live'[e] = s /\ s # live[o]
      BY <1>3, <2>0, <2>5, RenameCommit
    <3>2. redirect'[s] = IF redirect[s] = o /\ new = s THEN Nobody ELSE redirect[s]
      BY <1>3, <2>2, <2>5, <3>1, RenameCommit
    <3>3. redirect'[s] # e
      BY <2>5, <3>2
    <3> QED
      BY <3>1, <3>3
  <2>6. CASE new # NoSlug /\ e = o /\ s # new
    <3>1. s \in had[e] /\ live'[e] = new
      BY <1>3, <2>6, RenameCommit
    <3>2. (live[e] = s) # (redirect[s] = e)
      BY <2>2, <3>1 DEF OldSlugsKept
    <3>3. redirect'[s] = e
      BY <1>3, <2>2, <2>6, <3>2, RenameCommit
    <3> QED
      BY <2>6, <3>1, <3>3
  <2> QED
    BY <2>3, <2>4, <2>5, <2>6
<1>4. ASSUME NEW t \in Tx, CommitDelete(t) PROVE OldSlugsKept'
  <2> SUFFICES ASSUME NEW e \in Entity, Exists(e)', NEW s \in had'[e]
               PROVE  (live'[e] = s) # (redirect'[s] = e)
    BY DEF OldSlugsKept
  <2>1. e # owner[t] /\ live'[e] = live[e] /\ status'[e] = status[e] /\ s \in had[e] /\ s \in Slug
    BY <1>4, DeleteCommit DEF Exists, TypeOK
  <2>2. (live[e] = s) # (redirect[s] = e)
    BY <2>1 DEF OldSlugsKept, Exists
  <2>3. redirect'[s] = e <=> redirect[s] = e
    BY <1>4, <2>1, DeleteCommit
  <2> QED
    BY <2>1, <2>2, <2>3
<1>5. ASSUME NEW e \in Entity, Transition(e) PROVE OldSlugsKept'
  <2>1. UNCHANGED <<live, redirect, had>>
    BY <1>5 DEF Transition
  <2>2. \A f \in Entity : Exists(f)' => Exists(f)
    BY <1>5 DEF Transition, Transitions, Exists, TypeOK
  <2> QED
    BY <1>1, <2>1, <2>2
<1>6. CASE UNCHANGED rows
  BY <1>1, <1>6 DEF rows, Exists
<1>7. UNCHANGED rows \/ (\E t \in Tx : Commit(t) \/ CommitDelete(t)) \/ \E e \in Entity : Transition(e)
  BY StepCases DEF StartCreate, StartRename, StartDelete, Try, Insert, Move, InsertRedirect, Rollback
<1> QED
  BY <1>2, <1>3, <1>4, <1>5, <1>6, <1>7

LEMMA RacesStep ==
    ASSUME TypeOK, TypeOK', Locks, Phases, Records, Unique, FreshIsFree, OnlyRacesTakeOldSlugs, [Next]_vars
    PROVE  OnlyRacesTakeOldSlugs'
<1> USE NullAssumption
<1>1. ASSUME UNCHANGED <<live, redirect, raced>> PROVE OnlyRacesTakeOldSlugs'
  BY <1>1 DEF OnlyRacesTakeOldSlugs, Taken
<1>2. ASSUME NEW t \in Tx, Commit(t) PROVE OnlyRacesTakeOldSlugs'
  <2> SUFFICES ASSUME NEW s \in Slug, NEW e \in Entity, NEW f \in Entity, e # f,
                      redirect'[s] = e, live'[f] = s, s \notin raced'
               PROVE  FALSE
    BY DEF OnlyRacesTakeOldSlugs, Taken
  <2>1. s \notin raced /\ \A g \in Entity : pending[t][g] = s => s \in fresh[t]
    BY <1>2 DEF Commit
  <2>2. ~(redirect[s] = e /\ live[f] = s)
    BY <2>1 DEF OnlyRacesTakeOldSlugs, Taken
  <2>3. \A g \in Entity : pending[t][g] = s => redirect[s] \in {Nobody, owner[t]}
    BY <2>1 DEF FreshIsFree
  <2>4. CASE owner[t] = Nobody
    <3>1. redirect[s] = e /\ (pending[t][f] = s \/ live[f] = s)
      BY <1>2, <2>4, CreateCommit
    <3> QED
      BY <2>2, <2>3, <2>4, <3>1
  <2>5. CASE owner[t] # Nobody /\ f = owner[t]
    <3>1. redirect[s] = e
      BY <1>2, <2>5, RenameCommit
    <3>2. pending[t][f] = s \/ live[f] = s
      BY <1>2, <2>5, RenameCommit
    <3> QED
      BY <2>2, <2>3, <2>5, <3>1, <3>2
  <2>6. CASE owner[t] # Nobody /\ f # owner[t]
    <3>1. live[f] = s
      BY <1>2, <2>6, RenameCommit
    <3>2. e = owner[t] /\ live[owner[t]] = s
      BY <1>2, <2>2, <2>6, <3>1, RenameCommit
    <3> QED
      BY <2>6, <3>1, <3>2 DEF Unique
  <2> QED
    BY <2>4, <2>5, <2>6
<1>3. ASSUME NEW t \in Tx, CommitDelete(t) PROVE OnlyRacesTakeOldSlugs'
  <2>1. \A e \in Entity, s \in Slug : (live'[e] = s => live[e] = s) /\ (redirect'[s] = e => redirect[s] = e)
    BY <1>3, DeleteCommit DEF TypeOK
  <2> QED
    BY <1>3, <2>1, DeleteCommit DEF OnlyRacesTakeOldSlugs, Taken
<1>4. UNCHANGED <<live, redirect, raced>> \/ \E t \in Tx : Commit(t) \/ CommitDelete(t)
  BY StepCases DEF StartCreate, StartRename, StartDelete, Try, Insert, Move, InsertRedirect, Rollback,
                   Transition, rows
<1> QED
  BY <1>1, <1>2, <1>3, <1>4

LEMMA InvInit == Init => IInv
<1> SUFFICES ASSUME Init PROVE IInv
  OBVIOUS
<1>1. TypeOK
  <2>1. Resting \in Lookups
    BY DEF Resting, Lookups
  <2>2. <<>> \in Seq(Slug)
    OBVIOUS
  <2> QED
    BY <2>1, <2>2 DEF Init, TypeOK, NoWrites, Status, PC
<1>2. Locks /\ Phases /\ Records /\ Indexes /\ Unique /\ FreshIsFree
  BY NullAssumption DEF Init, Locks, Holds, Phases, Phase, Records, Indexes, Renamed, Unique,
                        FreshIsFree, Exists, NoWrites
<1>3. OldSlugsKept /\ OnlyRacesTakeOldSlugs
  BY NullAssumption DEF Init, OldSlugsKept, OnlyRacesTakeOldSlugs, Taken, Exists
<1> QED
  BY <1>1, <1>2, <1>3 DEF IInv

LEMMA InvStep == IInv /\ [Next]_vars => IInv'
BY TypeStep, LocksStep, PhasesStep, RecordsStep, IndexesStep, UniqueStep, FreshStep, KeptStep, RacesStep
   DEF IInv

\* The state is always of its type and every conjunct of the inductive invariant holds: who holds a
\* row, how far each request is, what both unique indexes exclude.
THEOREM Invariance == Spec => []IInv
<1>1. Init => IInv
  BY InvInit
<1>2. IInv /\ [Next]_vars => IInv'
  BY InvStep
<1> QED
  BY <1>1, <1>2, PTL DEF Spec

\* For any number of records, slugs, names and requests the state is of its type, and a request that
\* rests has no record, no claim and nothing it has not committed.
THEOREM TypeCorrect == Spec => []TypeOK
<1>1. IInv => TypeOK
  BY DEF IInv
<1> QED
  BY <1>1, Invariance, PTL

\* For any number of records, slugs, names and requests: every slug a record ever had is its slug or
\* redirects to it, and never both (services/slug-writes.ts, changeSlug).
THEOREM OldSlugsAlwaysKept == Spec => []OldSlugsKept
<1>1. IInv => OldSlugsKept
  BY DEF IInv
<1> QED
  BY <1>1, Invariance, PTL

\* No redirect outlives its record, though no foreign key says so (db/schema/redirects.ts).
THEOREM RedirectsAlwaysHaveRecords == Spec => []RedirectsHaveRecords
<1>1. IInv => RedirectsHaveRecords
  BY NullAssumption DEF IInv, RedirectsHaveRecords, Records, TypeOK
<1> QED
  BY <1>1, Invariance, PTL

\* A claim that no other request raced takes no slug that another record's redirect keeps
\* (db/writes/slugs.ts, isTaken).
THEOREM LoneClaimsTakeNoOldSlug == Spec => []OnlyRacesTakeOldSlugs
<1>1. IInv => OnlyRacesTakeOldSlugs
  BY DEF IInv
<1> QED
  BY <1>1, Invariance, PTL

\* What a lookup between its two statements knows of each record that had the slug throughout: it
\* still has it, and if live, it came back to it meanwhile.
LookupOK(r) ==
    /\ reader[r].at = "looking" => \A e \in reader[r].kept :
        /\ Visible(e)
        /\ live[e] = reader[r].slug \/ redirect[reader[r].slug] = e
        /\ live[e] = reader[r].slug => e \in reader[r].back
    /\ reader[r].at = "missed" => reader[r].kept \subseteq reader[r].back

LEMMA ObservedLookup ==
    ASSUME TypeOK, Observe, NEW r \in Reader, LookupOK(r)
    PROVE  LookupOK(r)'
<1> DEFINE after(q) ==
        [reader[q] EXCEPT
            !.kept = {e \in @ : /\ status'[e] = "published"
                                /\ live'[e] = reader[q].slug \/ redirect'[reader[q].slug] = e},
            !.back = @ \cup {e \in Entity : live[e] # reader[q].slug /\ live'[e] = reader[q].slug}]
<1>1. reader' = [q \in Reader |-> IF reader[q].at # "looking" THEN reader[q] ELSE after(q)]
  BY DEF Observe
<1>2. reader[r] \in Lookups
  BY DEF TypeOK
<1>3. reader[r].kept \subseteq Entity
  BY <1>2 DEF Lookups
<1>4. /\ after(r).at = reader[r].at /\ after(r).slug = reader[r].slug
      /\ after(r).kept = {e \in reader[r].kept :
                            /\ status'[e] = "published"
                            /\ live'[e] = reader[r].slug \/ redirect'[reader[r].slug] = e}
      /\ after(r).back = reader[r].back
                           \cup {e \in Entity : live[e] # reader[r].slug /\ live'[e] = reader[r].slug}
  BY <1>2 DEF Lookups
<1> HIDE DEF after
<1>5. CASE reader[r].at # "looking"
  <2>1. reader'[r] = reader[r]
    BY <1>1, <1>5
  <2> QED
    BY <2>1, <1>5 DEF LookupOK
<1>6. CASE reader[r].at = "looking"
  <2>1. reader'[r] = after(r)
    BY <1>1, <1>6
  <2> QED
    BY <1>3, <1>4, <1>6, <2>1 DEF LookupOK, Visible
<1> QED
  BY <1>5, <1>6

LEMMA FirstLooked ==
    ASSUME TypeOK, NEW r \in Reader, NEW s \in Slug, FirstLookup(r, s)
    PROVE  LookupOK(r)'
<1> DEFINE x == [at |-> "looking", slug |-> s, kept |-> Holders(s), back |-> {}]
<1>1. reader'[r] = x /\ UNCHANGED rows
  BY DEF FirstLookup, TypeOK
<1>2. \A e \in Holders(s) : Visible(e) /\ live[e] # s /\ redirect[s] = e
  BY DEF FirstLookup, Lookup, Holders
<1>3. x.at = "looking" /\ x.slug = s /\ x.kept = Holders(s) /\ x.back = {}
  OBVIOUS
<1> HIDE DEF x
<1> QED
  BY <1>1, <1>2, <1>3 DEF LookupOK, Visible, rows

LEMMA SecondLooked ==
    ASSUME TypeOK, NEW r \in Reader, LookupOK(r), SecondLookup(r)
    PROVE  LookupOK(r)'
<1> DEFINE x == reader[r]
           y == [x EXCEPT !.at = "missed"]
<1>1. /\ x \in Lookups /\ x.at = "looking" /\ UNCHANGED rows
      /\ reader'[r] = IF Lookup(2, x.slug) = {} THEN y ELSE Resting
  BY DEF SecondLookup, TypeOK
<1>2. CASE Lookup(2, x.slug) # {}
  BY <1>1, <1>2 DEF LookupOK, Resting
<1>3. CASE Lookup(2, x.slug) = {}
  <2>1. y.at = "missed" /\ y.kept = x.kept /\ y.back = x.back /\ x.kept \subseteq Entity
    BY <1>1 DEF Lookups
  <2>2. \A e \in x.kept : live[e] = x.slug
    BY <1>1, <1>3, <2>1 DEF LookupOK, Lookup
  <2>3. x.kept \subseteq x.back
    BY <1>1, <2>2 DEF LookupOK
  <2>4. reader'[r] = y
    BY <1>1, <1>3
  <2> HIDE DEF y
  <2> QED
    BY <2>1, <2>3, <2>4 DEF LookupOK
<1> QED
  BY <1>2, <1>3

LEMMA LookupsStep ==
    ASSUME TypeOK, [Next]_vars, NEW r \in Reader, LookupOK(r)
    PROVE  LookupOK(r)'
<1>1. ASSUME UNCHANGED <<rows, reader>> PROVE LookupOK(r)'
  BY <1>1 DEF LookupOK, Visible, rows
<1>2. ASSUME Observe PROVE LookupOK(r)'
  BY <1>2, ObservedLookup
<1>3. ASSUME NEW q \in Reader, SecondLookup(q) \/ \E s \in Slug : FirstLookup(q, s) PROVE LookupOK(r)'
  <2>1. CASE q = r
    BY <1>3, <2>1, FirstLooked, SecondLooked
  <2>2. CASE q # r
    <3>1. reader'[r] = reader[r] /\ UNCHANGED rows
      BY <1>3, <2>2 DEF FirstLookup, SecondLookup, TypeOK
    <3> QED
      BY <3>1 DEF LookupOK, Visible, rows
  <2> QED
    BY <2>1, <2>2
<1>4. ASSUME NEW t \in Tx, Request(t) \/ TxStep(t) \/ Rollback(t) PROVE UNCHANGED <<rows, reader>> \/ Observe
  <2>1. ASSUME Rollback(t) PROVE UNCHANGED <<rows, reader>>
    BY <2>1 DEF Rollback
  <2>2. CASE Request(t)
    BY <2>2 DEF Request, StartCreate, StartRename, StartErase, StartHardDelete, StartDelete
  <2>3. CASE Commit(t) \/ CommitDelete(t)
    BY <2>3 DEF Commit, CommitDelete
  <2>4. CASE Try(t) \/ Move(t) \/ InsertRedirect(t) \/ \E e \in Entity : Insert(t, e)
    BY <2>4 DEF Try, Move, InsertRedirect, Insert
  <2>5. CASE NoCandidate(t) \/ UniqueViolation(t) \/ DeadlockVictim(t) \/ IdsRunOut(t)
    BY <2>1, <2>5 DEF NoCandidate, UniqueViolation, DeadlockVictim, IdsRunOut
  <2> QED
    BY <1>4, <2>1, <2>2, <2>3, <2>4, <2>5 DEF TxStep
<1>5. ASSUME NEW e \in Entity, Transition(e) PROVE Observe
  BY <1>5 DEF Transition
<1>6. CASE UNCHANGED vars
  BY <1>1, <1>6 DEF vars
<1> QED
  BY <1>1, <1>2, <1>3, <1>4, <1>5, <1>6 DEF Next

\* A visitor gets a 404 for a slug that a published record had throughout only when that record moved
\* back to it between the two statements (db/queries/slugs.ts, services/startups.ts getBySlug).
THEOREM OnlyReturnsMiss == Spec => []OnlyMovingBackMisses
<1>1. Init => \A r \in Reader : LookupOK(r)
  BY DEF Init, LookupOK, Resting
<1>2. IInv /\ (\A r \in Reader : LookupOK(r)) /\ [Next]_vars => (\A r \in Reader : LookupOK(r))'
  <2>1. ASSUME IInv, \A r \in Reader : LookupOK(r), [Next]_vars, NEW r \in Reader PROVE LookupOK(r)'
    BY <2>1, LookupsStep DEF IInv
  <2> QED
    BY <2>1
<1>3. (\A r \in Reader : LookupOK(r)) => OnlyMovingBackMisses
  BY DEF LookupOK, OnlyMovingBackMisses
<1> QED
  BY <1>1, <1>2, <1>3, Invariance, PTL DEF Spec
=============================================================================
