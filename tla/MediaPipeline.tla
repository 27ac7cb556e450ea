---------------------------- MODULE MediaPipeline ----------------------------
(***************************************************************************)
(* Images of the StartupsHQ server, from upload to garbage collection.     *)
(*                                                                         *)
(* An image lives in two stores that no transaction spans: its renditions  *)
(* are blobs under a random prefix, its row is in Postgres.  An Asset here *)
(* is one such prefix together with the row that may name it.              *)
(*                                                                         *)
(*   Request   one HTTP request of an editor: an upload, or a save/publish *)
(*             followed by the rendering of the record's share card        *)
(*   Sweeper   one run of the media garbage collection (weekly script or   *)
(*             admin endpoint)                                             *)
(*                                                                         *)
(* A transaction is one step: it locks the record and the assets it        *)
(* attaches (SELECT ... FOR UPDATE) until it commits.  Everything a request*)
(* does outside its transaction (reads, blob puts, blob deletes) is a step *)
(* of its own, and so is the snapshot of the sweep's DELETE statement.     *)
(***************************************************************************)
EXTENDS Naturals, FiniteSets

CONSTANTS
    Asset,        \* random blob prefixes; one is never generated twice
    Record,       \* startups, founders, investors, batches
    SlotsOf,      \* the upload columns of each record
    Request, Sweeper,
    UploadWidth,  \* widths an upload is rendered at
    OgWidth,      \* the one width of a share card
    NoAsset, NoRecord,
    MaxTitle,     \* bound: number of titles a record goes through
    Faults        \* which failures happen: "request", "tidy", "sweep"

UploadPurpose == {"logo", "cover", "photo"}
Slot == UploadPurpose \cup {"og"}
Width == UploadWidth \cup {OgWidth}

ASSUME NullAssumption == NoAsset \notin Asset /\ NoRecord \notin Record
ASSUME SlotsAssumption == SlotsOf \in [Record -> SUBSET UploadPurpose]
ASSUME WidthAssumption == UploadWidth # {}
ASSUME TitleAssumption == MaxTitle \in Nat \ {0}
ASSUME FaultsAssumption == Faults \subseteq {"request", "tidy", "sweep"}

VARIABLES
    blobs,     \* [Asset -> SUBSET Width]: renditions present under the prefix
    purpose,   \* [Asset -> Slot or "unused"]
    row,       \* [Asset -> {"none","staging","attached"}]: media_assets.state
    aged,      \* [Asset -> BOOLEAN]: the row's created/attached time is past its window
    subject,   \* [Asset -> Record or NoRecord]: whose share card it is
    shown,     \* [Asset -> title rendered on the share card]
    status,    \* [Record -> Status]
    title,     \* [Record -> 1..MaxTitle]: current name or tagline
    ref,       \* [Record -> [Slot -> Asset or NoAsset]]: the asset columns
    pc, rec, prev, card, seen,   \* locals of each request
    gpc, cands, todo             \* locals of each sweep

store == <<blobs, purpose, row, aged, subject, shown>>
records == <<status, title, ref>>
request == <<pc, rec, prev, card, seen>>
sweep == <<gpc, cands, todo>>
vars == <<blobs, purpose, row, aged, subject, shown, status, title, ref,
          pc, rec, prev, card, seen, gpc, cands, todo>>

\* "withdrawn" stands for draft or archived after a first publication; a draft was never published
Status == {"absent", "draft", "published", "withdrawn", "gone"}
PC == {"idle", "variants", "load", "render", "commit", "tidy"}

Stored(r) == status[r] \notin {"absent", "gone"}
Founders == {r \in Record : "photo" \in SlotsOf[r]}

\* Of a source wide enough for every width; a narrower one is stored at fewer.
Renditions(p) == IF p = "og" THEN {OgWidth} ELSE UploadWidth
Referenced(a) == \E r \in Record, s \in Slot : ref[r][s] = a
Orphans == {a \in Asset : ~Referenced(a)}

TypeOK ==
    /\ blobs \in [Asset -> SUBSET Width]
    /\ purpose \in [Asset -> Slot \cup {"unused"}]
    /\ row \in [Asset -> {"none", "staging", "attached"}]
    /\ aged \in [Asset -> BOOLEAN]
    /\ subject \in [Asset -> Record \cup {NoRecord}]
    /\ shown \in [Asset -> 0..MaxTitle]
    /\ status \in [Record -> Status]
    /\ title \in [Record -> 1..MaxTitle]
    /\ ref \in [Record -> [Slot -> Asset \cup {NoAsset}]]
    /\ pc \in [Request -> PC]
    /\ rec \in [Request -> Record \cup {NoRecord}]
    /\ prev \in [Request -> Asset \cup {NoAsset}]
    /\ card \in [Request -> Asset \cup {NoAsset}]
    /\ seen \in [Request -> 0..MaxTitle]
    /\ gpc \in [Sweeper -> {"idle", "sweep", "tidy"}]
    /\ cands \in [Sweeper -> SUBSET Asset]
    /\ todo \in [Sweeper -> SUBSET Asset]

NoRefs == [s \in Slot |-> NoAsset]

Init ==
    /\ blobs = [a \in Asset |-> {}]
    /\ purpose = [a \in Asset |-> "unused"]
    /\ row = [a \in Asset |-> "none"]
    /\ aged = [a \in Asset |-> FALSE]
    /\ subject = [a \in Asset |-> NoRecord]
    /\ shown = [a \in Asset |-> 0]
    /\ status = [r \in Record |-> "absent"]
    /\ title = [r \in Record |-> 1]
    /\ ref = [r \in Record |-> NoRefs]
    /\ pc = [q \in Request |-> "idle"]
    /\ rec = [q \in Request |-> NoRecord]
    /\ prev = [q \in Request |-> NoAsset]
    /\ card = [q \in Request |-> NoAsset]
    /\ seen = [q \in Request |-> 0]
    /\ gpc = [g \in Sweeper |-> "idle"]
    /\ cands = [g \in Sweeper |-> {}]
    /\ todo = [g \in Sweeper |-> {}]

\* The request ends, whatever its outcome.
Finish(q) ==
    /\ pc' = [pc EXCEPT ![q] = "idle"]
    /\ rec' = [rec EXCEPT ![q] = NoRecord]
    /\ prev' = [prev EXCEPT ![q] = NoAsset]
    /\ card' = [card EXCEPT ![q] = NoAsset]
    /\ seen' = [seen EXCEPT ![q] = 0]

-----------------------------------------------------------------------------
(* Uploads: renditions first, one blob at a time, then the staging row.    *)

BeginUpload(q) ==
    /\ pc[q] = "idle"
    /\ \E a \in Asset, p \in UploadPurpose :
        /\ purpose[a] = "unused"
        /\ purpose' = [purpose EXCEPT ![a] = p]
        /\ card' = [card EXCEPT ![q] = a]
    /\ pc' = [pc EXCEPT ![q] = "variants"]
    /\ UNCHANGED <<blobs, row, aged, subject, shown, records, rec, prev, seen, sweep>>

PutVariant(q) ==
    /\ pc[q] = "variants"
    /\ \E w \in Renditions(purpose[card[q]]) \ blobs[card[q]] :
        blobs' = [blobs EXCEPT ![card[q]] = @ \cup {w}]
    /\ UNCHANGED <<purpose, row, aged, subject, shown, records, request, sweep>>

\* A bug of the wrong order: the row is inserted as soon as one rendition is stored.
RenderedFirstOnly(q) == blobs[card[q]] # {}

Rendered(q) == blobs[card[q]] = Renditions(purpose[card[q]])

StoreAsset(q) ==
    /\ pc[q] = "variants"
    /\ Rendered(q)
    /\ row' = [row EXCEPT ![card[q]] = "staging"]
    /\ aged' = [aged EXCEPT ![card[q]] = FALSE]
    /\ Finish(q)
    /\ UNCHANGED <<blobs, purpose, subject, shown, records, sweep>>

-----------------------------------------------------------------------------
(* Saving a record attaches the staging assets it newly references.        *)

\* The slots attachMedia has to look at: not the assets the record already references.
Wanted(r, new) ==
    {s \in SlotsOf[r] : /\ new[s] # NoAsset
                        /\ \A t \in SlotsOf[r] : new[s] # ref[r][t]}

\* Bugs of the attach check: any stored asset will do; or any asset no record references now.
AttachableAnyState(a, s) == row[a] # "none" /\ purpose[a] = s
AttachableIfOrphan(a, s) ==
    /\ purpose[a] = s
    /\ row[a] = "staging" \/ (row[a] = "attached" /\ ~Referenced(a))

Attachable(a, s) == row[a] = "staging" /\ purpose[a] = s

\* attachMedia and the write of the record's upload columns, in the caller's transaction.
WriteRefs(r, new) ==
    LET attached == {new[s] : s \in Wanted(r, new)}
    IN  /\ \A s \in Wanted(r, new) : Attachable(new[s], s)
        /\ row' = [a \in Asset |-> IF a \in attached THEN "attached" ELSE row[a]]
        /\ aged' = [a \in Asset |-> aged[a] /\ a \notin attached]
        /\ ref' = [ref EXCEPT ![r] =
                     [s \in Slot |-> IF s \in SlotsOf[r] THEN new[s] ELSE @[s]]]

NewRefs(r) == [SlotsOf[r] -> Asset \cup {NoAsset}]

Create(q, r) ==
    /\ pc[q] = "idle"
    /\ status[r] = "absent"
    /\ \E new \in NewRefs(r) : WriteRefs(r, new)
    /\ status' = [status EXCEPT ![r] = "draft"]
    /\ UNCHANGED <<blobs, purpose, subject, shown, title, request, sweep>>

\* A live record's share card is rendered after its transaction, by the same request.
ThenRefresh(q, r, now) ==
    IF now = "published"
    THEN /\ pc' = [pc EXCEPT ![q] = "load"]
         /\ rec' = [rec EXCEPT ![q] = r]
         /\ UNCHANGED <<prev, card, seen>>
    ELSE UNCHANGED request

Update(q, r) ==
    /\ pc[q] = "idle"
    /\ Stored(r)
    /\ \E new \in NewRefs(r) : WriteRefs(r, new)
    /\ \E t \in {title[r], title[r] + 1} :
        /\ t <= MaxTitle
        /\ title' = [title EXCEPT ![r] = t]
    /\ ThenRefresh(q, r, status[r])
    /\ UNCHANGED <<blobs, purpose, subject, shown, status, sweep>>

Publish(q, r) ==
    /\ pc[q] = "idle"
    /\ status[r] \in {"draft", "withdrawn"}
    /\ status' = [status EXCEPT ![r] = "published"]
    /\ ThenRefresh(q, r, "published")
    /\ UNCHANGED <<store, title, ref, sweep>>

\* Unpublish or archive.
Withdraw(r) ==
    /\ status[r] = "published"
    /\ status' = [status EXCEPT ![r] = "withdrawn"]
    /\ UNCHANGED <<store, title, ref, request, sweep>>

\* Only a record that was never published; its assets keep their rows and their age.
HardDelete(r) ==
    /\ status[r] = "draft"
    /\ status' = [status EXCEPT ![r] = "gone"]
    /\ ref' = [ref EXCEPT ![r] = NoRefs]
    /\ UNCHANGED <<store, title, request, sweep>>

\* The founder's row goes; its images become staging rows past the 24-hour window.
EraseFounder(r) ==
    LET released == {ref[r]["photo"], ref[r]["og"]}
    IN  /\ r \in Founders
        /\ Stored(r)
        /\ status' = [status EXCEPT ![r] = "gone"]
        /\ ref' = [ref EXCEPT ![r] = NoRefs]
        /\ row' = [a \in Asset |-> IF a \in released /\ row[a] # "none"
                                   THEN "staging" ELSE row[a]]
        /\ aged' = [a \in Asset |-> aged[a] \/ (a \in released /\ row[a] # "none")]
        /\ UNCHANGED <<blobs, purpose, subject, shown, title, request, sweep>>

-----------------------------------------------------------------------------
(* The share card: load, render and store the blob, commit, tidy.          *)

LoadSubject(q) ==
    /\ pc[q] = "load"
    /\ IF Stored(rec[q])
       THEN /\ prev' = [prev EXCEPT ![q] = ref[rec[q]]["og"]]
            /\ seen' = [seen EXCEPT ![q] = title[rec[q]]]
            /\ pc' = [pc EXCEPT ![q] = "render"]
            /\ UNCHANGED <<rec, card>>
       ELSE Finish(q)
    /\ UNCHANGED <<store, records, sweep>>

RenderCard(q) ==
    /\ pc[q] = "render"
    /\ \E a \in Asset :
        /\ purpose[a] = "unused"
        /\ purpose' = [purpose EXCEPT ![a] = "og"]
        /\ blobs' = [blobs EXCEPT ![a] = {OgWidth}]
        /\ subject' = [subject EXCEPT ![a] = rec[q]]
        /\ shown' = [shown EXCEPT ![a] = seen[q]]
        /\ card' = [card EXCEPT ![q] = a]
    /\ pc' = [pc EXCEPT ![q] = "commit"]
    /\ UNCHANGED <<row, aged, records, rec, prev, seen, sweep>>

\* ON DELETE SET NULL: deleting media rows empties the columns that name them.
SetNull(refs, deleted) ==
    [r \in Record |-> [s \in Slot |->
        IF refs[r][s] \in deleted THEN NoAsset ELSE refs[r][s]]]

\* A bug: the record is repointed only if it had no card when it was loaded.
PointAtFirstCardOnly(q) ==
    IF Stored(rec[q]) /\ prev[q] = NoAsset
    THEN [ref EXCEPT ![rec[q]]["og"] = card[q]] ELSE ref

\* setOgAsset: a plain UPDATE, which changes no row when the record is gone.
PointAtCard(q) ==
    IF Stored(rec[q]) THEN [ref EXCEPT ![rec[q]]["og"] = card[q]] ELSE ref

\* The row of the card that was current when the subject was loaded, if it is still there.
Replaced(q) == {a \in {prev[q]} : a # NoAsset /\ row[a] # "none"}

CommitCard(q) ==
    /\ pc[q] = "commit"
    /\ row' = [a \in Asset |-> IF a = card[q] THEN "attached"
                              ELSE IF a \in Replaced(q) THEN "none" ELSE row[a]]
    /\ aged' = [a \in Asset |-> aged[a] /\ a # card[q] /\ a \notin Replaced(q)]
    /\ ref' = SetNull(PointAtCard(q), Replaced(q))
    /\ IF Replaced(q) = {}
       THEN Finish(q)
       ELSE /\ pc' = [pc EXCEPT ![q] = "tidy"]
            /\ UNCHANGED <<rec, prev, card, seen>>
    /\ UNCHANGED <<blobs, purpose, subject, shown, status, title, sweep>>

TidyCard(q) ==
    /\ pc[q] = "tidy"
    /\ blobs' = [blobs EXCEPT ![prev[q]] = {}]
    /\ Finish(q)
    /\ UNCHANGED <<purpose, row, aged, subject, shown, records, sweep>>

\* deleteBlobPrefix throws and the request only logs it.
TidyFails(q) ==
    /\ "tidy" \in Faults
    /\ pc[q] = "tidy"
    /\ Finish(q)
    /\ UNCHANGED <<store, records, sweep>>

\* The server stops, or a blob put or the database throws: the request leaves what it did.
RequestFails(q) ==
    /\ "request" \in Faults
    /\ pc[q] # "idle"
    /\ Finish(q)
    /\ UNCHANGED <<store, records, sweep>>

-----------------------------------------------------------------------------
(* The sweep: one DELETE statement, then one prefix at a time.             *)

\* A bug: attached assets are never collected.
PastWindowStagingOnly(a) == row[a] = "staging" /\ aged[a]

PastWindow(a) == row[a] # "none" /\ aged[a]

\* Time passes.  No sweep statement runs for as long as either window (24 hours, 7 days).
Age(a) ==
    /\ row[a] # "none"
    /\ \A g \in Sweeper : gpc[g] # "sweep"
    /\ aged' = [aged EXCEPT ![a] = TRUE]
    /\ UNCHANGED <<blobs, purpose, row, subject, shown, records, request, sweep>>

\* The statement's snapshot decides which assets nothing references.
SweepStart(g) ==
    /\ gpc[g] = "idle"
    /\ cands' = [cands EXCEPT ![g] = {a \in Orphans : PastWindow(a)}]
    /\ gpc' = [gpc EXCEPT ![g] = "sweep"]
    /\ UNCHANGED <<store, records, request, todo>>

\* A bug: the row's own columns are not looked at again once its lock is held.
SweptUnchecked(g) == {a \in cands[g] : row[a] # "none"}

\* A row changed since the snapshot is judged again by its own columns, not by the references.
Swept(g) == {a \in cands[g] : PastWindow(a)}

SweepCommit(g) ==
    /\ gpc[g] = "sweep"
    /\ row' = [a \in Asset |-> IF a \in Swept(g) THEN "none" ELSE row[a]]
    /\ aged' = [a \in Asset |-> aged[a] /\ a \notin Swept(g)]
    /\ ref' = SetNull(ref, Swept(g))
    /\ todo' = [todo EXCEPT ![g] = Swept(g)]
    /\ cands' = [cands EXCEPT ![g] = {}]
    /\ gpc' = [gpc EXCEPT ![g] = IF Swept(g) = {} THEN "idle" ELSE "tidy"]
    /\ UNCHANGED <<blobs, purpose, subject, shown, status, title, request>>

SweepTidy(g) ==
    /\ gpc[g] = "tidy"
    /\ \E a \in todo[g] :
        /\ blobs' = [blobs EXCEPT ![a] = {}]
        /\ todo' = [todo EXCEPT ![g] = @ \ {a}]
        /\ gpc' = [gpc EXCEPT ![g] = IF todo[g] = {a} THEN "idle" ELSE "tidy"]
    /\ UNCHANGED <<purpose, row, aged, subject, shown, records, request, cands>>

\* The first prefix that fails to delete ends the run; the rest of its list is lost with it.
SweepFails(g) ==
    /\ "sweep" \in Faults
    /\ gpc[g] # "idle"
    /\ gpc' = [gpc EXCEPT ![g] = "idle"]
    /\ cands' = [cands EXCEPT ![g] = {}]
    /\ todo' = [todo EXCEPT ![g] = {}]
    /\ UNCHANGED <<store, records, request>>

-----------------------------------------------------------------------------
RequestStep(q) ==
    \/ PutVariant(q) \/ StoreAsset(q)
    \/ LoadSubject(q) \/ RenderCard(q) \/ CommitCard(q) \/ TidyCard(q)

SweepStep(g) == SweepStart(g) \/ SweepCommit(g) \/ SweepTidy(g)

Next ==
    \/ \E q \in Request :
        \/ BeginUpload(q) \/ RequestStep(q)
        \/ TidyFails(q) \/ RequestFails(q)
        \/ \E r \in Record : Create(q, r) \/ Update(q, r) \/ Publish(q, r)
    \/ \E r \in Record : Withdraw(r) \/ HardDelete(r) \/ EraseFounder(r)
    \/ \E g \in Sweeper : SweepStep(g) \/ SweepFails(g)
    \/ \E a \in Asset : Age(a)

Spec == Init /\ [][Next]_vars

\* A request that started runs on, the job is scheduled again and again, and time passes between runs.
Fairness ==
    /\ \A q \in Request : WF_vars(RequestStep(q))
    /\ \A g \in Sweeper : WF_vars(SweepStep(g))
    /\ \A a \in Asset : SF_vars(Age(a))

FairSpec == Spec /\ Fairness

-----------------------------------------------------------------------------
(* Safety *)

\* Every image a record points at can be served: its row is there, attached, and every rendition
\* is in the blob store, whatever uploads, refreshes and sweeps were cut short (FR-408).
ImagesServable ==
    \A r \in Record, s \in Slot :
        ref[r][s] # NoAsset =>
            /\ row[ref[r][s]] = "attached"
            /\ blobs[ref[r][s]] = Renditions(purpose[ref[r][s]])

\* attachMedia's "already used by another record": no two records share an image.
SoleOwner ==
    \A r1, r2 \in Record, s1, s2 \in Slot :
        ref[r1][s1] # NoAsset /\ ref[r1][s1] = ref[r2][s2] => r1 = r2

\* The sweep empties no record's column, though it reads the references in a snapshot older than
\* the rows it deletes ("deleting an image a record still points at would blank it").
SweepBlanksNothing ==
    [][(\E g \in Sweeper : SweepCommit(g)) => UNCHANGED ref]_vars

\* Replacing a share card never blanks it: once a record has a card it has one until it is deleted,
\* though the card to delete was chosen before the transaction, possibly by several requests at once.
CardNeverBlanked ==
    [][\A r \in Record :
        ref[r]["og"] # NoAsset /\ status'[r] # "gone" => ref'[r]["og"] # NoAsset]_vars

\* A released image is never taken up again: only this makes it safe for the sweep to judge
\* references by an old snapshot.  (Erasure returns it to staging first.)
ReleasedForGood ==
    [][\A a \in Asset :
        row[a] = "attached" /\ ~Referenced(a) => ~Referenced(a)']_vars

(* Liveness *)

\* Every stored image that no record uses is taken up by a record or loses its row to the sweep.
OrphanRowsSwept ==
    \A a \in Asset :
        row[a] # "none" /\ ~Referenced(a) ~> row[a] = "none" \/ Referenced(a)
=============================================================================
