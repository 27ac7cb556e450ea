----------------------------- MODULE ImportJobs -----------------------------
(***************************************************************************)
(* CSV import: services/import.ts.                                         *)
(*                                                                         *)
(* A dry run reads the file, decides for every row whether it creates a    *)
(* startup, changes one or is skipped, and stores that plan with the time  *)
(* of change of each record it would change.  A commit looks at the job,   *)
(* then locks it and looks again, compares the plan with the catalogue of  *)
(* that moment, and only then writes the rows one by one, claiming slugs   *)
(* and creating the founders the file names.  Editors work on the same     *)
(* records meanwhile: what a commit compared is not locked until the row   *)
(* that writes it.                                                         *)
(***************************************************************************)
EXTENDS Naturals, Sequences, FiniteSets

CONSTANTS
    Record, Slug, Name,   \* ids a startup may get; slugs; founders' names
    Job, File,            \* File[j]: the rows of the file that j is the import of
    Alike,                \* [Job -> SUBSET Nat]: rows whose name may be like another startup's
    Request,              \* requests that commit an import
    Suffixed,             \* [Slug -> Slug]: the slug generated when the first one is taken
    Seeds,                \* [Record -> Slug or NoSlug]: the startups that are there at first
    MaxEdits,             \* bound: changes that editors make
    NoSlug, NoName, NoRecord, NoJob

FileRows == [slug : Slug, explicit : BOOLEAN, person : Name \cup {NoName}]

ASSUME NullsAssumption ==
    NoSlug \notin Slug /\ NoName \notin Name /\ NoRecord \notin Record /\ NoJob \notin Job
ASSUME FilesAssumption ==
    /\ File \in [Job -> Seq(FileRows)]
    /\ Alike \in [Job -> SUBSET Nat]
    /\ Suffixed \in [Slug -> Slug]
    /\ Seeds \in [Record -> Slug \cup {NoSlug}]
    /\ MaxEdits \in Nat
    /\ {"editor", "nobody"} \cap Job = {} /\ "editor" \notin Request

VARIABLES
    slug,     \* [Record -> Slug or NoSlug]: startups.slug of the committed rows
    stamp,    \* [Record -> Nat]: updated_at
    by,       \* [Record -> Writers]: who wrote it last; "nobody" while its id is unused
    kept,     \* slugs that redirect to a record that left them
    people,   \* SUBSET (Name \X {1, 2}): founders; the second of a name has a suffixed slug
    status,   \* [Job -> Status]
    plan,     \* [Job -> Seq(Entries)]
    late,     \* jobs whose 24 hours are over
    tx,       \* [Request -> Txs]
    edits,    \* changes editors made, for the bound
    since,    \* history: [Request -> what others committed since it compared]
    done      \* history: jobs whose commit took effect

catalogue == <<slug, stamp, by, kept, people>>
jobs == <<status, plan, late>>
vars == <<catalogue, jobs, tx, edits, since, done>>

Writers == Job \cup {"editor", "nobody"}
Status == {"none", "dry_run", "committed", "expired"}
Key == Name \X {1, 2}
Entries == [action : {"create", "update"}, slug : Slug, explicit : BOOLEAN,
            person : Name \cup {NoName}, target : Record \cup {NoRecord}, stamp : Nat]
PC == {"idle", "expiring", "asked", "locked", "applying", "claimed", "born", "naming"}
Txs == [pc : PC, job : Job \cup {NoJob},
        todo : Seq(Entries),            \* rows it has not applied
        holds : SUBSET Record,          \* rows it changed and has locked
        made : [Record -> Slug \cup {NoSlug}],   \* startups it inserted
        claim : SUBSET (Slug \cup Key),  \* a slug found free and not yet written
        saw : SUBSET Key,               \* founders its lookup found
        named : SUBSET Key,             \* founders it inserted
        linked : SUBSET Key]            \* founders it linked: their rows are locked
NoWrites == [r \in Record |-> NoSlug]
Idle == [pc |-> "idle", job |-> NoJob, todo |-> <<>>, holds |-> {}, made |-> NoWrites,
         claim |-> {}, saw |-> {}, named |-> {}, linked |-> {}]

TypeOK ==
    /\ slug \in [Record -> Slug \cup {NoSlug}]
    /\ stamp \in [Record -> Nat]
    /\ by \in [Record -> Writers]
    /\ kept \subseteq Slug
    /\ people \subseteq Key
    /\ status \in [Job -> Status]
    /\ plan \in [Job -> Seq(Entries)]
    /\ late \subseteq Job
    /\ tx \in [Request -> Txs]
    /\ edits \in 0 .. MaxEdits
    /\ since \in [Request -> SUBSET (Record \cup Slug \cup Name)]
    /\ done \subseteq Job
    /\ \A q \in Request : tx[q].pc = "idle" => tx[q] = Idle

Init ==
    /\ slug = Seeds
    /\ stamp = [r \in Record |-> 0]
    /\ by = [r \in Record |-> IF Seeds[r] = NoSlug THEN "nobody" ELSE "editor"]
    /\ kept = {}
    /\ people = {}
    /\ status = [j \in Job |-> "none"]
    /\ plan = [j \in Job |-> <<>>]
    /\ late = {}
    /\ tx = [q \in Request |-> Idle]
    /\ edits = 0
    /\ since = [q \in Request |-> {}]
    /\ done = {}

Exists(r) == slug[r] # NoSlug
Having(s) == {r \in Record : slug[r] = s}
Locked(r) == \E q \in Request : r \in tx[q].holds \/ tx[q].made[r] # NoSlug
\* A bug: the job is read without FOR UPDATE.
JobFreeUnlocked(j) == TRUE

JobFree(j) == \A q \in Request : tx[q].job = j => tx[q].pc \in {"idle", "asked", "expiring"}

-----------------------------------------------------------------------------
(* The dry run *)

Existing(row) == {r \in Record : slug[r] = row.slug}

\* An explicit slug that names a record changes it; a slug generated from the name never does.
Action(j, i, near) ==
    LET row == File[j][i]
    IN  IF \E k \in 1 .. (i - 1) : File[j][k].slug = row.slug THEN "skip"
        ELSE IF Existing(row) # {} THEN (IF row.explicit THEN "update" ELSE "skip")
        ELSE IF i \in near THEN "skip" ELSE "create"

Entry(j, i, action) ==
    LET row == File[j][i]
        target == IF action = "update" THEN CHOOSE r \in Existing(row) : TRUE ELSE NoRecord
    IN  [action |-> action, slug |-> row.slug, explicit |-> row.explicit, person |-> row.person,
         target |-> target, stamp |-> IF action = "update" THEN stamp[target] ELSE 0]

\* near: rows whose name is like that of a startup under another slug (trigram similarity).
\* The rows to apply keep the file's order.  The lookups come before the job is stored; nothing
\* reads it in between.
DryRun(j, near) ==
    /\ status[j] = "none"
    /\ status' = [status EXCEPT ![j] = "dry_run"]
    /\ LET applied == {i \in 1 .. Len(File[j]) : Action(j, i, near) # "skip"}
       IN  \E row \in [1 .. Cardinality(applied) -> applied] :
            /\ \A k, l \in DOMAIN row : k < l => row[k] < row[l]
            /\ plan' = [plan EXCEPT ![j] =
                    [k \in DOMAIN row |-> Entry(j, row[k], Action(j, row[k], near))]]
    /\ UNCHANGED <<catalogue, late, tx, since, edits, done>>

\* 24 hours have passed since the dry run.
GrowLate(j) ==
    /\ status[j] # "none" /\ j \notin late
    /\ late' = late \cup {j}
    /\ UNCHANGED <<catalogue, status, plan, tx, since, edits, done>>

-----------------------------------------------------------------------------
(* The commit, up to the comparison *)

\* The look before the transaction.
Ask(q, j) ==
    /\ tx[q].pc = "idle" /\ status[j] # "none"
    /\ tx' = [tx EXCEPT ![q].job = j,
                        ![q].pc = IF status[j] = "dry_run" /\ j \in late THEN "expiring" ELSE "asked"]
    /\ UNCHANGED <<catalogue, jobs, since, edits, done>>

\* An update of its own that asks for nothing but the id, and waits for the job's row.
MarkExpired(q) ==
    /\ tx[q].pc = "expiring" /\ JobFree(tx[q].job)
    /\ status' = [status EXCEPT ![tx[q].job] = "expired"]
    /\ tx' = [tx EXCEPT ![q] = Idle]
    /\ UNCHANGED <<catalogue, plan, late, since, edits, done>>

Committable(j) == status[j] = "dry_run" /\ j \notin late

\* Locks the job's row and looks again.
Begin(q) ==
    /\ tx[q].pc = "asked" /\ JobFree(tx[q].job)
    /\ tx' = [tx EXCEPT ![q] = IF Committable(@.job) THEN [@ EXCEPT !.pc = "locked"] ELSE Idle]
    /\ UNCHANGED <<catalogue, jobs, since, edits, done>>

\* A bug: the time of change is not compared.
StaleEntryBySlug(e) ==
    \/ e.action = "create" /\ Having(e.slug) # {}
    \/ e.action = "update" /\ Having(e.slug) # {e.target}

StaleEntry(e) ==
    \/ e.action = "create" /\ Having(e.slug) # {}
    \/ e.action = "update" /\ (Having(e.slug) # {e.target} \/ stamp[e.target] # e.stamp)

Stale(j) == \E i \in 1 .. Len(plan[j]) : StaleEntry(plan[j][i])

\* What the lookup of founders finds: one record for a name.
Lookups(names) ==
    {found \in SUBSET people :
        /\ \A n \in Name : Cardinality({k \in found : k[1] = n}) <= 1
        /\ {k[1] : k \in found} = {k[1] : k \in people} \cap names}

\* Reads the catalogue of this moment and compares; refuses with IMPORT_STALE.
Check(q) ==
    /\ tx[q].pc = "locked"
    /\ LET j == tx[q].job
           names == {plan[j][i].person : i \in 1 .. Len(plan[j])}
       IN  IF Stale(j)
           THEN tx' = [tx EXCEPT ![q] = Idle]
           ELSE \E found \in Lookups(names) :
                tx' = [tx EXCEPT ![q].pc = "applying", ![q].todo = plan[j], ![q].saw = found]
    /\ since' = [since EXCEPT ![q] = {}]
    /\ UNCHANGED <<catalogue, jobs, edits, done>>
-----------------------------------------------------------------------------
(* The commit, row by row *)

Row(q) == Head(tx[q].todo)
Applying(q, action) == tx[q].pc = "applying" /\ tx[q].todo # <<>> /\ Row(q).action = action
Made(q) == {tx[q].made[r] : r \in Record} \ {NoSlug}

\* The requests whose end q waits for: a row they changed, a slug they inserted.
Waits(q) ==
    {p \in Request \ {q} :
        \/ Applying(q, "update") /\ Row(q).target \in tx[p].holds
        \/ tx[q].pc \in {"claimed", "naming"} /\ tx[q].claim \cap (Made(p) \cup tx[p].named) # {}}

\* An update by id: of a record that was deleted since, it changes nothing and is no error.
UpdateRow(q) ==
    /\ Applying(q, "update") /\ Waits(q) = {}
    /\ LET r == Row(q).target
       IN  tx' = [tx EXCEPT ![q].todo = Tail(@),
                           ![q].holds = IF Exists(r) THEN @ \cup {r} ELSE @]
    /\ UNCHANGED <<catalogue, jobs, since, edits, done>>

Free(q, s) == Having(s) = {} /\ s \notin kept \cup Made(q)

Candidates(e) == IF e.explicit THEN <<e.slug>> ELSE <<e.slug, Suffixed[e.slug]>>

ClaimRow(q) ==
    /\ Applying(q, "create")
    /\ \E i \in 1 .. Len(Candidates(Row(q))) :
          /\ Free(q, Candidates(Row(q))[i])
          /\ \A k \in 1 .. (i - 1) : ~Free(q, Candidates(Row(q))[k])
          /\ tx' = [tx EXCEPT ![q].pc = "claimed", ![q].claim = {Candidates(Row(q))[i]}]
    /\ UNCHANGED <<catalogue, jobs, since, edits, done>>

\* The row after this one, or the founder this one names.
InsertRow(q, r) ==
    /\ tx[q].pc = "claimed" /\ Waits(q) = {}
    /\ by[r] = "nobody" /\ ~Locked(r)
    /\ \E s \in tx[q].claim :
        /\ Having(s) = {}
        /\ tx' = [tx EXCEPT ![q].made[r] = s, ![q].claim = {},
                            ![q].pc = IF Row(q).person = NoName THEN "applying" ELSE "born",
                            ![q].todo = IF Row(q).person = NoName THEN Tail(@) ELSE @]
    /\ UNCHANGED <<catalogue, jobs, since, edits, done>>

Known(q) == {k \in tx[q].saw \cup tx[q].named : k[1] = Row(q).person}

\* A founder the lookup found, or one this import made: the link needs their row.
LinkPerson(q) ==
    /\ tx[q].pc = "born"
    /\ \E k \in Known(q) \cap (people \cup tx[q].named) :
        tx' = [tx EXCEPT ![q].linked = @ \cup {k}, ![q].pc = "applying", ![q].todo = Tail(@)]
    /\ UNCHANGED <<catalogue, jobs, since, edits, done>>

\* An unknown name: the first slug of that name that no founder has.
ClaimPerson(q) ==
    /\ tx[q].pc = "born" /\ Known(q) = {}
    /\ LET taken == {k \in people : k[1] = Row(q).person}
       IN  /\ Cardinality(taken) < 2
           /\ \E i \in {1, 2} :
                /\ <<Row(q).person, i>> \notin taken
                /\ i = 2 => <<Row(q).person, 1>> \in taken
                /\ tx' = [tx EXCEPT ![q].pc = "naming", ![q].claim = {<<Row(q).person, i>>}]
    /\ UNCHANGED <<catalogue, jobs, since, edits, done>>

InsertPerson(q) ==
    /\ tx[q].pc = "naming" /\ Waits(q) = {}
    /\ tx[q].claim \cap people = {}
    /\ tx' = [tx EXCEPT ![q].named = @ \cup tx[q].claim, ![q].linked = @ \cup tx[q].claim,
                        ![q].claim = {}, ![q].pc = "applying", ![q].todo = Tail(@)]
    /\ UNCHANGED <<catalogue, jobs, since, edits, done>>

InTransaction(q) == tx[q].pc \notin {"idle", "asked", "expiring"}

\* A row that cannot be applied fails the import; so does a deadlock with
\* another import, a lost connection or a stop.
Rollback(q) ==
    /\ InTransaction(q)
    /\ tx' = [tx EXCEPT ![q] = Idle]
    /\ UNCHANGED <<catalogue, jobs, since, edits, done>>

\* What others commit is new to every request that is past its comparison.
Compared(q) == InTransaction(q) /\ tx[q].pc # "locked"
Tell(writer, news) ==
    since' = [p \in Request |-> IF p = writer \/ ~Compared(p) THEN {} ELSE since[p] \cup news]

Commit(q) ==
    /\ tx[q].pc = "applying" /\ tx[q].todo = <<>>
    /\ LET j == tx[q].job
           made == {r \in Record : tx[q].made[r] # NoSlug}
       IN  /\ slug' = [r \in Record |-> IF r \in made THEN tx[q].made[r] ELSE slug[r]]
           /\ stamp' = [r \in Record |-> IF r \in tx[q].holds THEN stamp[r] + 1 ELSE stamp[r]]
           /\ by' = [r \in Record |-> IF r \in made \cup tx[q].holds THEN j ELSE by[r]]
           /\ people' = people \cup tx[q].named
           /\ status' = [status EXCEPT ![j] = "committed"]
           /\ done' = done \cup {j}
           /\ Tell(q, made \cup tx[q].holds \cup Made(q) \cup {k[1] : k \in tx[q].named})
    /\ tx' = [tx EXCEPT ![q] = Idle]
    /\ UNCHANGED <<kept, plan, late, edits>>

-----------------------------------------------------------------------------
(* Editors at work on the same records; each waits for the rows an import has changed. *)

Edited(news) == Tell("editor", news) /\ edits < MaxEdits /\ edits' = edits + 1
Editable(r) == Exists(r) /\ ~Locked(r)
SlugOpen(s) == Having(s) = {} /\ s \notin kept /\ \A q \in Request : s \notin Made(q)

Edit(r) ==
    /\ Editable(r)
    /\ stamp' = [stamp EXCEPT ![r] = @ + 1]
    /\ by' = [by EXCEPT ![r] = "editor"]
    /\ Edited({r})
    /\ UNCHANGED <<slug, kept, people, jobs, tx, done>>

Rename(r, s) ==
    /\ Editable(r) /\ SlugOpen(s)
    /\ slug' = [slug EXCEPT ![r] = s]
    /\ kept' = kept \cup {slug[r]}
    /\ stamp' = [stamp EXCEPT ![r] = @ + 1]
    /\ by' = [by EXCEPT ![r] = "editor"]
    /\ Edited({r, s, slug[r]})
    /\ UNCHANGED <<people, jobs, tx, done>>

CreateStartup(r, s) ==
    /\ by[r] = "nobody" /\ ~Locked(r) /\ SlugOpen(s)
    /\ slug' = [slug EXCEPT ![r] = s]
    /\ by' = [by EXCEPT ![r] = "editor"]
    /\ Edited({r, s})
    /\ UNCHANGED <<stamp, kept, people, jobs, tx, done>>

HardDelete(r) ==
    /\ Exists(r) /\ ~Locked(r)
    /\ slug' = [slug EXCEPT ![r] = NoSlug]
    /\ Edited({r, slug[r]})
    /\ UNCHANGED <<stamp, by, kept, people, jobs, tx, done>>

\* A founder is deleted or erased; links an import has made keep their row locked.
RemoveFounder(k) ==
    /\ k \in people /\ \A q \in Request : k \notin tx[q].linked
    /\ people' = people \ {k}
    /\ Edited({k[1]})
    /\ UNCHANGED <<slug, stamp, by, kept, jobs, tx, done>>

-----------------------------------------------------------------------------
CommitStep(q) ==
    \/ MarkExpired(q) \/ Begin(q) \/ Check(q)
    \/ UpdateRow(q) \/ ClaimRow(q)
    \/ \E r \in Record : InsertRow(q, r)
    \/ LinkPerson(q) \/ ClaimPerson(q) \/ InsertPerson(q)
    \/ Commit(q)

Editors ==
    \/ \E r \in Record :
        \/ Edit(r) \/ HardDelete(r)
        \/ \E s \in Slug : Rename(r, s) \/ CreateStartup(r, s)
    \/ \E k \in Key : RemoveFounder(k)

Next ==
    \/ \E j \in Job :
        \/ \E near \in SUBSET Alike[j] : DryRun(j, near)
        \/ GrowLate(j)
        \/ \E q \in Request : Ask(q, j)
    \/ \E q \in Request : CommitStep(q) \/ Rollback(q)
    \/ Editors

Spec == Init /\ [][Next]_vars

-----------------------------------------------------------------------------
(* Properties *)

Updates(j) == {plan[j][i] : i \in {k \in 1 .. Len(plan[j]) : plan[j][k].action = "update"}}
Creates(j) == {plan[j][i] : i \in {k \in 1 .. Len(plan[j]) : plan[j][k].action = "create"}}

\* An import overwrites a change it did not know of only when that change was committed after the
\* comparison: whatever was edited or renamed between the dry run and the commit stops it (FR-402).
OnlyRacesOverwrite ==
    [][\A q \in Request : Commit(q) =>
        \A e \in Updates(tx[q].job) :
            Exists(e.target) => stamp[e.target] = e.stamp \/ e.target \in since[q]]_vars

\* A committed import is the one that was reviewed: each record it was to change is changed, and
\* each startup it was to create has the slug the review showed, unless that record was deleted or
\* that slug taken after the comparison, or the slug is an old one of another record.
AppliedAsReviewed ==
    [][\A q \in Request : Commit(q) =>
        LET j == tx[q].job
        IN  /\ \A e \in Updates(j) : by'[e.target] = j \/ e.target \in since[q]
            /\ \A e \in Creates(j) :
                \/ \E r \in Record : ~Exists(r) /\ slug'[r] = e.slug /\ by'[r] = j
                \/ e.slug \in since[q] \cup kept]_vars

\* A name gets a second founder only when the first was created after the lookup.
OnlyRacesDoubleFounders ==
    [][\A q \in Request : Commit(q) =>
        \A k \in tx[q].named : k[2] = 2 => k[1] \in since[q]]_vars

\* What an import overwrites or doubles was committed after its comparison, and what it does is
\* what was reviewed.
ImportsAsReviewed == OnlyRacesOverwrite /\ AppliedAsReviewed /\ OnlyRacesDoubleFounders

\* The import as one step: at most once, and only what the review named, however many commits of it
\* are tried at once and whatever the job's status says afterwards.
Catalogue == INSTANCE CatalogueImport WITH
    catalogue <- [r \in Record |-> [slug |-> slug[r], by |-> by[r]]],
    review <- [j \in Job |-> {e.target : e \in Updates(j)}],
    reviewed <- {j \in Job : status[j] # "none"}

ImportIsOneStep == Catalogue!Spec
=============================================================================
