----------------------------- MODULE SlugClaims -----------------------------
(***************************************************************************)
(* The slugs of the records of one type, and the redirects of old slugs.   *)
(*                                                                         *)
(* A new record claims a slug: the first candidate that no record has and  *)
(* no redirect keeps.  Renaming locks the record, claims the new slug,     *)
(* drops the record's own redirect of that slug, moves, and leaves a       *)
(* redirect from the old slug to the record.  Looking is one statement and *)
(* writing a later one; two unique indexes, one on the slugs and one on    *)
(* the redirects, decide what happens between them, and nothing spans the  *)
(* two.  A page looks up the live slug and then, in a second statement,    *)
(* the redirect.                                                           *)
(***************************************************************************)
EXTENDS Sequences

CONSTANTS
    Entity, Slug,      \* the ids that may ever exist; slugs
    Name, Candidates,  \* Candidates[n]: the slugs generated from a name, in order
    Tx, Reader,        \* requests that write; visitors
    Erasable,          \* founders can be erased, other records only hard-deleted
    Nobody, NoSlug

ASSUME NullAssumption == Nobody \notin Entity /\ NoSlug \notin Slug
ASSUME CandidatesAssumption ==
    /\ Candidates \in [Name -> Seq(Slug)]
    /\ \A n \in Name : Candidates[n] # <<>>
    /\ Erasable \in BOOLEAN

VARIABLES
    live,       \* [Entity -> Slug or NoSlug]: the slug column
    status,     \* [Entity -> Status]
    listed,     \* entities with a first_published_at
    redirect,   \* [Slug -> Entity or Nobody]: slug_redirects
    pc,         \* [Tx -> PC]
    owner,      \* [Tx -> Entity or Nobody]: the record whose row it locked first
    want,       \* [Tx -> Seq(Slug)]: candidates it has not looked at
    claim,      \* [Tx -> Slug or NoSlug]: the one it found free
    pending,    \* [Tx -> [Entity -> Slug or NoSlug]]: slugs it wrote and has not committed
    reader,     \* [Reader -> a lookup]
    had,        \* history: [Entity -> SUBSET Slug], the slugs a record ever had
    fresh,      \* history: [Tx -> SUBSET Slug], claims nobody touched since they were found free
    raced       \* history: slugs committed by a claim that was not fresh

rows == <<live, status, listed, redirect, had, raced>>
locals == <<pc, owner, want, claim, pending>>
vars == <<rows, locals, fresh, reader>>

Status == {"unborn", "draft", "published", "archived", "gone"}
PC == {"idle", "claiming", "claimed", "moved", "written", "deleting"}
Lookups == [at : {"resting", "looking", "missed"}, slug : Slug \cup {NoSlug},
            kept : SUBSET Entity, back : SUBSET Entity]
Resting == [at |-> "resting", slug |-> NoSlug, kept |-> {}, back |-> {}]
NoWrites == [e \in Entity |-> NoSlug]

TypeOK ==
    /\ live \in [Entity -> Slug \cup {NoSlug}]
    /\ status \in [Entity -> Status]
    /\ listed \subseteq Entity
    /\ redirect \in [Slug -> Entity \cup {Nobody}]
    /\ pc \in [Tx -> PC]
    /\ owner \in [Tx -> Entity \cup {Nobody}]
    /\ want \in [Tx -> Seq(Slug)]
    /\ claim \in [Tx -> Slug \cup {NoSlug}]
    /\ pending \in [Tx -> [Entity -> Slug \cup {NoSlug}]]
    /\ reader \in [Reader -> Lookups]
    /\ had \in [Entity -> SUBSET Slug]
    /\ fresh \in [Tx -> SUBSET Slug]
    /\ raced \subseteq Slug
    /\ \A t \in Tx : pc[t] = "idle" => owner[t] = Nobody /\ pending[t] = NoWrites

Init ==
    /\ live = NoWrites
    /\ status = [e \in Entity |-> "unborn"]
    /\ listed = {}
    /\ redirect = [s \in Slug |-> Nobody]
    /\ pc = [t \in Tx |-> "idle"]
    /\ owner = [t \in Tx |-> Nobody]
    /\ want = [t \in Tx |-> <<>>]
    /\ claim = [t \in Tx |-> NoSlug]
    /\ pending = [t \in Tx |-> NoWrites]
    /\ reader = [r \in Reader |-> Resting]
    /\ had = [e \in Entity |-> {}]
    /\ fresh = [t \in Tx |-> {}]
    /\ raced = {}

Exists(e) == status[e] \notin {"unborn", "gone"}
RowFree(e) == \A u \in Tx : owner[u] # e /\ pending[u][e] = NoSlug

-----------------------------------------------------------------------------
(* Looking for a free slug *)

\* What a transaction sees of the slug column: what is committed, under its own writes.
SlugSeen(t, e) == IF pending[t][e] # NoSlug THEN pending[t][e] ELSE live[e]

\* A bug: only live slugs count, so a slug that still redirects can be taken.
IsTakenLive(t, s) == \E e \in Entity \ {owner[t]} : SlugSeen(t, e) = s

IsTaken(t, s) ==
    \E e \in Entity \ {owner[t]} : SlugSeen(t, e) = s \/ redirect[s] = e

\* An explicit slug is a list of one; a name gives a list of candidates.
StartCreate(t, slugs) ==
    /\ pc[t] \in {"idle", "written"}   \* an import creates several records in one transaction
    /\ owner[t] = Nobody
    /\ pc' = [pc EXCEPT ![t] = "claiming"]
    /\ want' = [want EXCEPT ![t] = slugs]
    /\ UNCHANGED <<rows, owner, claim, pending, fresh, reader>>

StartRename(t, e, s) ==
    /\ pc[t] = "idle" /\ Exists(e) /\ RowFree(e)
    /\ live[e] # s                     \* the same slug again changes nothing
    /\ pc' = [pc EXCEPT ![t] = "claiming"]
    /\ owner' = [owner EXCEPT ![t] = e]
    /\ want' = [want EXCEPT ![t] = <<s>>]
    /\ UNCHANGED <<rows, claim, pending, fresh, reader>>

Try(t) ==
    /\ pc[t] = "claiming" /\ want[t] # <<>>
    /\ want' = [want EXCEPT ![t] = IF IsTaken(t, Head(want[t])) THEN Tail(want[t]) ELSE <<>>]
    /\ IF IsTaken(t, Head(want[t]))
       THEN UNCHANGED <<pc, claim, fresh>>
       ELSE /\ pc' = [pc EXCEPT ![t] = "claimed"]
            /\ claim' = [claim EXCEPT ![t] = Head(want[t])]
            /\ fresh' = [fresh EXCEPT ![t] = @ \cup {Head(want[t])}]
    /\ UNCHANGED <<rows, owner, pending, reader>>

-----------------------------------------------------------------------------
(* The two unique indexes *)

\* The old slug of a row another transaction renamed or deleted is in the index until that commits.
Leaving(u, e) == pending[u][e] # NoSlug \/ (pc[u] = "deleting" /\ owner[u] = e)

SlugWaits(t, s) ==
    {u \in Tx \ {t} : \E e \in Entity : pending[u][e] = s \/ (Leaving(u, e) /\ live[e] = s)}

SlugClash(t, s) == \E e \in Entity : SlugSeen(t, e) = s

\* Redirects that u inserts or deletes and has not committed.
RedirectsInDoubt(u) ==
    IF owner[u] = Nobody THEN {}
    ELSE {s \in Slug : \/ redirect[s] = owner[u] /\ (pc[u] = "deleting" \/ pending[u][owner[u]] = s)
                       \/ pc[u] = "written" /\ live[owner[u]] = s}

RedirectWaits(t, s) == {u \in Tx \ {t} : s \in RedirectsInDoubt(u)}

Waits(t) ==
    CASE pc[t] = "claimed" -> SlugWaits(t, claim[t])
      [] pc[t] = "moved"   -> RedirectWaits(t, live[owner[t]])
      [] OTHER             -> {}

-----------------------------------------------------------------------------
(* Writing it *)

\* What a transaction leaves when it ends, either way.
Release(t) ==
    /\ pc' = [pc EXCEPT ![t] = "idle"]
    /\ owner' = [owner EXCEPT ![t] = Nobody]
    /\ want' = [want EXCEPT ![t] = <<>>]
    /\ claim' = [claim EXCEPT ![t] = NoSlug]
    /\ pending' = [pending EXCEPT ![t] = NoWrites]

\* No free candidate, a unique violation, a later failure of the request or a lost connection.
Rollback(t) ==
    /\ pc[t] # "idle"
    /\ Release(t)
    /\ fresh' = [fresh EXCEPT ![t] = {}]
    /\ UNCHANGED <<rows, reader>>

Insert(t, e) ==
    /\ pc[t] = "claimed" /\ owner[t] = Nobody /\ Waits(t) = {}
    /\ ~SlugClash(t, claim[t])
    /\ status[e] = "unborn" /\ RowFree(e)
    /\ pending' = [pending EXCEPT ![t][e] = claim[t]]
    /\ pc' = [pc EXCEPT ![t] = "written"]
    /\ claim' = [claim EXCEPT ![t] = NoSlug]
    /\ UNCHANGED <<rows, owner, want, fresh, reader>>

\* Deletes the record's own redirect of the new slug and updates the row.
Move(t) ==
    /\ pc[t] = "claimed" /\ owner[t] # Nobody /\ Waits(t) = {}
    /\ ~SlugClash(t, claim[t])
    /\ pending' = [pending EXCEPT ![t][owner[t]] = claim[t]]
    /\ pc' = [pc EXCEPT ![t] = "moved"]
    /\ claim' = [claim EXCEPT ![t] = NoSlug]
    /\ UNCHANGED <<rows, owner, want, fresh, reader>>

InsertRedirect(t) ==
    /\ pc[t] = "moved" /\ Waits(t) = {}
    /\ redirect[live[owner[t]]] = Nobody
    /\ pc' = [pc EXCEPT ![t] = "written"]
    /\ UNCHANGED <<rows, owner, want, claim, pending, fresh, reader>>

\* The database fails a statement that would break a unique index.
UniqueViolation(t) ==
    /\ Waits(t) = {}
    /\ \/ pc[t] = "claimed" /\ SlugClash(t, claim[t])
       \/ pc[t] = "moved" /\ redirect[live[owner[t]]] # Nobody
    /\ Rollback(t)

Deadlocked(t) == \E u \in Waits(t) : t \in Waits(u)

DeadlockVictim(t) == Deadlocked(t) /\ Rollback(t)

\* claimSlug throws once every candidate is taken.
NoCandidate(t) == pc[t] = "claiming" /\ want[t] = <<>> /\ Rollback(t)

\* Bound: ids are random and never run out; here a request that finds none left fails.
IdsRunOut(t) ==
    /\ pc[t] = "claimed" /\ owner[t] = Nobody /\ Waits(t) = {}
    /\ \A e \in Entity : status[e] # "unborn" \/ ~RowFree(e)
    /\ Rollback(t)

-----------------------------------------------------------------------------
(* What a commit leaves, and what a lookup under way can still rely on *)

Moved(t, e) == pending[t][e] # NoSlug

\* A bug: the redirect of the slug a record moves back to is not deleted.
RedirectsKeepingOwn(t) ==
    [s \in Slug |-> IF \E e \in Entity : Moved(t, e) /\ live[e] = s THEN owner[t] ELSE redirect[s]]

RedirectsAfter(t) ==
    [s \in Slug |->
        IF \E e \in Entity : Moved(t, e) /\ live[e] = s THEN owner[t]
        ELSE IF owner[t] # Nobody /\ redirect[s] = owner[t] /\ pending[t][owner[t]] = s THEN Nobody
        ELSE redirect[s]]

\* Slugs a commit takes or leaves.
Touched(t) ==
    {s \in Slug : \E e \in Entity : Moved(t, e) /\ (pending[t][e] = s \/ live[e] = s)}

\* Others' claims of a touched slug are no longer fresh; this transaction's are spent.
Stale(t, touched) ==
    fresh' = [u \in Tx |-> IF u = t THEN {} ELSE fresh[u] \ touched]

Visible(e) == status[e] = "published"
Holders(s) == {e \in Entity : Visible(e) /\ (live[e] = s \/ redirect[s] = e)}

\* kept: visible records that had the slug at every moment of the lookup.
\* back: those that moved back to it meanwhile.
Observe ==
    reader' = [r \in Reader |->
        IF reader[r].at # "looking" THEN reader[r]
        ELSE [reader[r] EXCEPT
                !.kept = {e \in @ : /\ status'[e] = "published"
                                    /\ live'[e] = reader[r].slug \/ redirect'[reader[r].slug] = e},
                !.back = @ \cup {e \in Entity : live[e] # reader[r].slug /\ live'[e] = reader[r].slug}]]

Commit(t) ==
    /\ pc[t] = "written"
    /\ live' = [e \in Entity |-> SlugSeen(t, e)]
    /\ status' = [e \in Entity |-> IF Moved(t, e) /\ status[e] = "unborn" THEN "draft" ELSE status[e]]
    /\ redirect' = RedirectsAfter(t)
    /\ had' = [e \in Entity |-> IF Moved(t, e) THEN had[e] \cup {pending[t][e]} ELSE had[e]]
    /\ raced' = raced \cup ({pending[t][e] : e \in Entity} \ (fresh[t] \cup {NoSlug}))
    /\ UNCHANGED listed
    /\ Stale(t, Touched(t))
    /\ Release(t)
    /\ Observe

-----------------------------------------------------------------------------
(* Lifecycle *)

Transitions ==
    {<<"draft", "published">>, <<"published", "draft">>, <<"draft", "archived">>,
     <<"published", "archived">>, <<"archived", "draft">>}

Transition(e) ==
    /\ RowFree(e)
    /\ \E move \in Transitions :
        /\ status[e] = move[1]
        /\ status' = [status EXCEPT ![e] = move[2]]
        /\ listed' = IF move[2] = "published" THEN listed \cup {e} ELSE listed
    /\ UNCHANGED <<live, redirect, had, raced, locals, fresh>>
    /\ Observe

StartDelete(t, e) ==
    /\ pc[t] = "idle" /\ Exists(e) /\ RowFree(e)
    /\ pc' = [pc EXCEPT ![t] = "deleting"]
    /\ owner' = [owner EXCEPT ![t] = e]
    /\ UNCHANGED <<rows, want, claim, pending, fresh, reader>>

\* Only a record that was never published.
StartHardDelete(t, e) == e \notin listed /\ StartDelete(t, e)

\* The admin must have typed the slug the founder has now.
StartErase(t, e, typed) == Erasable /\ typed = live[e] /\ StartDelete(t, e)

\* A bug: the redirects are left to a foreign key that is not there.
CommitDeleteRowOnly(t) ==
    /\ pc[t] = "deleting"
    /\ live' = [live EXCEPT ![owner[t]] = NoSlug]
    /\ status' = [status EXCEPT ![owner[t]] = "gone"]
    /\ Stale(t, {live[owner[t]]})
    /\ UNCHANGED <<redirect, listed, had, raced>>
    /\ Release(t)
    /\ Observe

CommitDelete(t) ==
    /\ pc[t] = "deleting"
    /\ LET e == owner[t]
       IN  /\ live' = [live EXCEPT ![e] = NoSlug]
           /\ status' = [status EXCEPT ![e] = "gone"]
           /\ redirect' = [s \in Slug |-> IF redirect[s] = e THEN Nobody ELSE redirect[s]]
           /\ Stale(t, {s \in Slug : s = live[e] \/ redirect[s] = e})
    /\ UNCHANGED <<listed, had, raced>>
    /\ Release(t)
    /\ Observe

-----------------------------------------------------------------------------
(* A visitor asks for a slug *)

\* A bug: redirects are looked up before live slugs.
LookupRedirectFirst(step, s) ==
    {e \in Entity : Visible(e) /\ IF step = 1 THEN redirect[s] = e ELSE live[e] = s}

Lookup(step, s) ==
    {e \in Entity : Visible(e) /\ IF step = 1 THEN live[e] = s ELSE redirect[s] = e}

\* A lookup that finds the record at once leaves no trace here.
FirstLookup(r, s) ==
    /\ reader[r].at # "looking"
    /\ Lookup(1, s) = {}
    /\ reader' = [reader EXCEPT ![r] =
        [at |-> "looking", slug |-> s, kept |-> Holders(s), back |-> {}]]
    /\ UNCHANGED <<rows, locals, fresh>>

SecondLookup(r) ==
    /\ reader[r].at = "looking"
    /\ reader' = [reader EXCEPT ![r] =
        IF Lookup(2, reader[r].slug) = {} THEN [@ EXCEPT !.at = "missed"]
        ELSE Resting]
    /\ UNCHANGED <<rows, locals, fresh>>

-----------------------------------------------------------------------------
TxStep(t) ==
    \/ Try(t) \/ NoCandidate(t)
    \/ \E e \in Entity : Insert(t, e)
    \/ Move(t) \/ InsertRedirect(t)
    \/ UniqueViolation(t) \/ DeadlockVictim(t) \/ IdsRunOut(t)
    \/ Commit(t) \/ CommitDelete(t)

Request(t) ==
    \/ \E n \in Name : StartCreate(t, Candidates[n])
    \/ \E s \in Slug : StartCreate(t, <<s>>)
    \/ \E e \in Entity, s \in Slug :
        StartRename(t, e, s) \/ StartErase(t, e, s)
    \/ \E e \in Entity : StartHardDelete(t, e)

Next ==
    \/ \E t \in Tx : Request(t) \/ TxStep(t) \/ Rollback(t)
    \/ \E e \in Entity : Transition(e)
    \/ \E r \in Reader : SecondLookup(r) \/ \E s \in Slug : FirstLookup(r, s)

Spec == Init /\ [][Next]_vars

-----------------------------------------------------------------------------
(* Properties *)

\* Every slug a record ever had is the one it has now or redirects to it, and never both: whatever
\* is renamed, moved back and renamed again, by however many admins, no old link is lost (FR-409).
OldSlugsKept ==
    \A e \in Entity : Exists(e) =>
        \A s \in had[e] : (live[e] = s) # (redirect[s] = e)

\* slug_redirects has no foreign key ("the slug service keeps it consistent"): a redirect's record
\* exists, also when it was deleted or erased while someone renamed it.
RedirectsHaveRecords ==
    \A s \in Slug : redirect[s] # Nobody => Exists(redirect[s])

Taken(s) == \E e, f \in Entity : e # f /\ redirect[s] = e /\ live[f] = s

\* A claim that nobody raced never takes a slug that another record's redirect keeps.
OnlyRacesTakeOldSlugs == \A s \in Slug : Taken(s) => s \in raced

\* A visitor gets a 404 for a slug that a published record had throughout only when that record
\* moved back to it between the two statements.
OnlyMovingBackMisses ==
    \A r \in Reader : reader[r].at = "missed" => reader[r].kept \subseteq reader[r].back
=============================================================================
