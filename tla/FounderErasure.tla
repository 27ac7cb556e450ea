--------------------------- MODULE FounderErasure ---------------------------
(***************************************************************************)
(* Founder erasure and privacy requests (services/privacy.ts) beside the   *)
(* writes that name founders: links (relation-writes.ts), startups created *)
(* with their founders (startup-writes.ts), edits (founder-writes.ts) and  *)
(* hard deletes (lifecycle.ts).                                            *)
(*                                                                         *)
(* Every write is one transaction that adds an audit row.  A transaction's *)
(* changes and audit rows are its own until it commits; what orders them   *)
(* is row locks: FOR UPDATE on a founder, a startup or a request, the key  *)
(* share a link's foreign key takes of its founder, and the lock of a row  *)
(* that is being deleted or rewritten.  An erasure is a sequence of        *)
(* statements, each with a snapshot of its own: the row and its links, the *)
(* requests about the founder, the audit rows that mention them.  A        *)
(* statement takes the rows of its snapshot one by one, in any order, and  *)
(* holds those it has while it waits for the next.                         *)
(***************************************************************************)
EXTENDS Naturals, FiniteSets

CONSTANTS
    Founder, Startup,   \* ids; an id is used once
    Stint,              \* what tells two stints of a founder at one startup apart: role and year
    Request,            \* ids of privacy requests
    Tx                  \* transactions that may run at the same time

Link == Startup \X Founder \X Stint
\* An audit row: what it is about, and the founders its entity or its diff names.
AuditRow == [on : Founder \cup Startup \cup Request, names : SUBSET Founder]

ASSUME DistinctIds ==
    /\ Founder \cap Startup = {} /\ Founder \cap Request = {} /\ Startup \cap Request = {}
    /\ IsFiniteSet(Founder)

VARIABLES
    founder,   \* [Founder -> FounderState]
    startup,   \* [Startup -> {"unused", "there", "gone"}]
    links,     \* startup_founders
    request,   \* [Request -> RequestState]
    about,     \* [Request -> SUBSET Founder]: subject_entity_id, or nothing
    audit,     \* the audit rows that mention a founder
    proofs,    \* [Founder -> Nat]: erasure_log rows of its hash
    tx,        \* [Tx -> Txs]
    known      \* history: [Founder -> requests on record when its erasure cleared them]

db == <<founder, startup, links, request, about, audit, proofs>>
vars == <<db, tx, known>>

FounderState == {"unused", "draft", "published", "erased", "deleted"}
RequestState == {"none", "open", "resolved"}

Op == {"none", "edit", "publish", "add", "create", "remove", "record", "resolve",
       "erase", "deleteFounder", "deleteStartup"}
Txs == [op : Op, at : Nat,
        who : SUBSET Founder,                         \* founders the call is about
        what : SUBSET (Startup \cup Request),         \* the startup or request
        locks : SUBSET (Founder \cup Startup \cup Request),
        shares : SUBSET Founder,                      \* key shares its links took
        goes : SUBSET Link, sees : SUBSET Request, rows : SUBSET AuditRow,
                                                      \* rows its statement has yet to take
        adds : SUBSET Link, cuts : SUBSET Link,       \* its own, uncommitted
        clears : SUBSET Request, scrubs : SUBSET AuditRow, says : SUBSET AuditRow]
Idle == [op |-> "none", at |-> 0, who |-> {}, what |-> {}, locks |-> {}, shares |-> {},
         goes |-> {}, sees |-> {}, rows |-> {},
         adds |-> {}, cuts |-> {}, clears |-> {}, scrubs |-> {}, says |-> {}]

TypeOK ==
    /\ founder \in [Founder -> FounderState]
    /\ startup \in [Startup -> {"unused", "there", "gone"}]
    /\ links \subseteq {l \in Link : startup[l[1]] = "there"
                                     /\ founder[l[2]] \in {"draft", "published"}}
    /\ request \in [Request -> RequestState]
    /\ about \in [Request -> SUBSET Founder]
    /\ audit \subseteq AuditRow
    /\ proofs \in [Founder -> Nat]
    /\ tx \in [Tx -> Txs]
    /\ known \in [Founder -> SUBSET Request]

Init ==
    /\ founder = [f \in Founder |-> "unused"]
    /\ startup = [s \in Startup |-> "unused"]
    /\ links = {} /\ audit = {}
    /\ request = [r \in Request |-> "none"]
    /\ about = [r \in Request |-> {}]
    /\ proofs = [f \in Founder |-> 0]
    /\ tx = [t \in Tx |-> Idle]
    /\ known = [f \in Founder |-> {}]

Exists(f) == founder[f] \in {"draft", "published"}
Row(x, fs) == [on |-> x, names |-> fs]
Naming(f) == {row \in audit : f \in row.names}

-----------------------------------------------------------------------------
(* Locks *)

Others(t) == Tx \ {t}

\* A bug: the founder's row is read without FOR UPDATE.
FreeUnlocked(t, x) ==
    x \notin Founder => \A u \in Others(t) : x \notin tx[u].locks \cup tx[u].shares

\* FOR UPDATE of x, which a key share of it holds up as well.
Free(t, x) == \A u \in Others(t) : x \notin tx[u].locks \cup tx[u].shares

\* The foreign key of a link waits for FOR UPDATE of its founder, not for other key shares.
Shareable(t, f) == \A u \in Others(t) : f \notin tx[u].locks

\* No other transaction is deleting link l, or redacting audit row row.
Deletable(t, l) == \A u \in Others(t) : l \notin tx[u].cuts
Redactable(t, row) == \A u \in Others(t) : row \notin tx[u].scrubs

\* A transaction that has locked row x, or inserted it, and added some audit rows.
Begun(op, at, x, fs, what, rows) ==
    [op |-> op, at |-> at, who |-> fs, what |-> what, locks |-> {x}, shares |-> {},
     goes |-> {}, sees |-> {}, rows |-> {},
     adds |-> {}, cuts |-> {}, clears |-> {}, scrubs |-> {}, says |-> rows]

\* The transaction that a call begins with the lock of row x.
Begin(t, op, x, fs, what) ==
    /\ tx[t] = Idle
    /\ Free(t, x)
    /\ tx' = [tx EXCEPT ![t] = Begun(op, 0, x, fs, what, {})]
    /\ UNCHANGED <<db, known>>

On(t, op, at) == tx[t].op = op /\ tx[t].at = at

-----------------------------------------------------------------------------
(* Records.  A founder's create claims a slug and inserts; nobody waits for it. *)

CreateFounder(f) ==
    /\ founder[f] = "unused"
    /\ founder' = [founder EXCEPT ![f] = "draft"]
    /\ audit' = audit \cup {Row(f, {f})}
    /\ UNCHANGED <<startup, links, request, about, proofs, tx, known>>

\* Editing, publishing, moving to another slug: FOR UPDATE, the change, an audit row.
StartEdit(t, f) ==
    Exists(f) /\ \E op \in {"edit", "publish"} : Begin(t, op, f, {f}, {})

Edit(t) ==
    /\ tx[t].op \in {"edit", "publish"} /\ tx[t].at = 0
    /\ tx' = [tx EXCEPT ![t].at = 1, ![t].says = {Row(f, {f}) : f \in tx[t].who}]
    /\ UNCHANGED <<db, known>>

\* Only a record that was never published is hard-deleted; its audit row names the id.
StartDeleteFounder(t, f) == founder[f] = "draft" /\ Begin(t, "deleteFounder", f, {f}, {})

LinksOf(fs) == {l \in links : l[2] \in fs}

\* A statement that deletes links, its own or its cascade's, and the audit rows to follow.
DeleteLinks(t, ls, rows) ==
    /\ tx' = [tx EXCEPT ![t].at = 1, ![t].goes = ls, ![t].says = rows]
    /\ UNCHANGED <<db, known>>

Abort(t) == tx' = [tx EXCEPT ![t] = Idle] /\ UNCHANGED <<db, known>>

\* It takes them one by one, each once nobody else is deleting it.  One that is gone by then is
\* left out; removeFounder, which wanted that one, is refused.
CutLink(t) ==
    \E l \in tx[t].goes :
        /\ Deletable(t, l)
        /\ IF l \in links \/ tx[t].op # "remove"
           THEN /\ tx' = [tx EXCEPT ![t].goes = @ \ {l}, ![t].cuts = @ \cup ({l} \cap links)]
                /\ UNCHANGED <<db, known>>
           ELSE Abort(t)

DeleteFounder(t) ==
    /\ On(t, "deleteFounder", 0)
    /\ DeleteLinks(t, LinksOf(tx[t].who), {Row(f, {f}) : f \in tx[t].who})

StartDeleteStartup(t, s) == startup[s] = "there" /\ Begin(t, "deleteStartup", s, {}, {s})

DeleteStartup(t) ==
    /\ On(t, "deleteStartup", 0)
    /\ DeleteLinks(t, {l \in links : l[1] \in tx[t].what}, {})

-----------------------------------------------------------------------------
(* Links *)

\* addFounder: the startup's lock, the link, the audit row.
StartAdd(t, s, f) == startup[s] = "there" /\ Begin(t, "add", s, {f}, {s})

\* A startup's create writes its audit row first, then the links it was given one by one.
StartCreate(t, s, fs) ==
    /\ startup[s] = "unused"
    /\ \A u \in Tx : s \notin tx[u].what
    /\ tx[t] = Idle
    /\ tx' = [tx EXCEPT ![t] = Begun("create", 0, s, fs, {s}, {Row(s, fs)})]
    /\ UNCHANGED <<db, known>>

Linked(t) == {l[2] : l \in tx[t].adds}

\* The foreign key waits for the founder's lock and fails when the founder is gone; a second
\* link for the same stint fails its unique key.
InsertLink(t) ==
    /\ tx[t].op \in {"add", "create"}
    /\ \E f \in tx[t].who \ Linked(t), s \in tx[t].what, k \in Stint :
          /\ Shareable(t, f)
          /\ IF Exists(f) /\ <<s, f, k>> \notin links
             THEN /\ tx' = [tx EXCEPT ![t].adds = @ \cup {<<s, f, k>>},
                                      ![t].shares = @ \cup {f},
                                      ![t].says = @ \cup {Row(s, tx[t].who)}]
                  /\ UNCHANGED <<db, known>>
             ELSE Abort(t)

StartRemove(t, s, f) == startup[s] = "there" /\ Begin(t, "remove", s, {f}, {s})

\* A link that another transaction has deleted is not found, and the call is refused.
RemoveLink(t) ==
    /\ On(t, "remove", 0)
    /\ \E s \in tx[t].what, f \in tx[t].who, k \in Stint :
          IF <<s, f, k>> \in links
          THEN DeleteLinks(t, {<<s, f, k>>}, {Row(s, {f})})
          ELSE Abort(t)

-----------------------------------------------------------------------------
(* Privacy requests *)

\* recordRequest: the id of the subject has no foreign key, so it may be of a founder that is
\* gone, or going.
StartRecord(t, r, fs) ==
    /\ request[r] = "none"
    /\ \A f \in fs : founder[f] # "unused"
    /\ \A u \in Tx : r \notin tx[u].what
    /\ tx[t] = Idle
    /\ tx' = [tx EXCEPT ![t] = Begun("record", 1, r, fs, {r}, {Row(r, fs)})]
    /\ UNCHANGED <<db, known>>

\* resolveRequest: FOR UPDATE, only an open request, and status and notes are all it writes.
StartResolve(t, r) ==
    /\ request[r] = "open"
    /\ Begin(t, "resolve", r, {}, {r})

-----------------------------------------------------------------------------
(* eraseFounder *)

StartErase(t, f) == Exists(f) /\ Begin(t, "erase", f, {f}, {})

\* DELETE FROM founders, with the links by cascade.
EraseRow(t) ==
    /\ On(t, "erase", 0)
    /\ DeleteLinks(t, LinksOf(tx[t].who), {})

Recorded == {r \in Request : request[r] # "none"}
OfFounders(fs) == {r \in Recorded : about[r] \cap fs # {}}

\* UPDATE privacy_requests: its snapshot, then row by row, each once nobody else holds it.
LookForRequests(t) ==
    /\ On(t, "erase", 1) /\ tx[t].goes = {}
    /\ tx' = [tx EXCEPT ![t].at = 2, ![t].sees = OfFounders(tx[t].who)]
    /\ known' = [f \in Founder |-> IF f \in tx[t].who THEN Recorded ELSE known[f]]
    /\ UNCHANGED db

ClearRequest(t) ==
    \E r \in tx[t].sees :
        /\ Free(t, r)
        /\ tx' = [tx EXCEPT ![t].sees = @ \ {r}, ![t].clears = @ \cup {r}, ![t].locks = @ \cup {r}]
        /\ UNCHANGED <<db, known>>

\* A bug: only rows whose entity is the founder are redacted.
OwnRows(fs) == {row \in audit : row.on \in fs}

Mentions(fs) == {row \in audit : row.on \in fs \/ row.names \cap fs # {}}

\* scrub_founder_audit: rows about the founder and rows whose diff mentions the id.
LookForRows(t) ==
    /\ On(t, "erase", 2) /\ tx[t].sees = {}
    /\ tx' = [tx EXCEPT ![t].at = 3, ![t].rows = Mentions(tx[t].who)]
    /\ UNCHANGED <<db, known>>

\* Row by row; one that another erasure has redacted meanwhile mentions nobody any more.
ScrubRow(t) ==
    \E row \in tx[t].rows :
        /\ Redactable(t, row)
        /\ tx' = [tx EXCEPT ![t].rows = @ \ {row}, ![t].scrubs = @ \cup ({row} \cap audit)]
        /\ UNCHANGED <<db, known>>

-----------------------------------------------------------------------------
(* Commits *)

Finished(t) ==
    \/ tx[t].op = "erase" /\ tx[t].at = 3 /\ tx[t].rows = {}
    \/ tx[t].op = "resolve"
    \/ tx[t].op \in {"add", "create"} /\ Linked(t) = tx[t].who
    \/ /\ tx[t].op \notin {"none", "erase", "resolve", "add", "create"}
       /\ tx[t].at = 1 /\ tx[t].goes = {}

FounderAfter(op) ==
    CASE op = "publish" -> "published"
      [] op = "erase" -> "erased"
      [] op = "deleteFounder" -> "deleted"

Commit(t) ==
    LET x == tx[t] IN
    /\ Finished(t)
    /\ founder' = [f \in Founder |->
          IF f \in x.who /\ x.op \in {"publish", "erase", "deleteFounder"}
          THEN FounderAfter(x.op) ELSE founder[f]]
    /\ startup' = [s \in Startup |->
          IF s \notin x.what THEN startup[s]
          ELSE IF x.op = "create" THEN "there"
          ELSE IF x.op = "deleteStartup" THEN "gone" ELSE startup[s]]
    /\ links' = (links \cup x.adds) \ x.cuts
    /\ request' = [r \in Request |->
          IF r \notin x.what THEN request[r]
          ELSE IF x.op = "record" THEN "open" ELSE "resolved"]
    /\ about' = [r \in Request |->
          IF r \in x.clears THEN {}
          ELSE IF r \in x.what /\ x.op = "record" THEN x.who ELSE about[r]]
    /\ audit' = (audit \ x.scrubs) \cup {row \in x.says : row.names # {}}
    /\ proofs' = [f \in Founder |->
          IF x.op = "erase" /\ f \in x.who THEN proofs[f] + 1 ELSE proofs[f]]
    /\ tx' = [tx EXCEPT ![t] = Idle]
    /\ UNCHANGED known

\* The statements of a transaction under way, after the first.
Step(t) ==
    \/ Edit(t) \/ DeleteFounder(t) \/ DeleteStartup(t) \/ InsertLink(t) \/ RemoveLink(t)
    \/ CutLink(t)
    \/ EraseRow(t) \/ LookForRequests(t) \/ ClearRequest(t) \/ LookForRows(t) \/ ScrubRow(t)
    \/ Commit(t)

\* The call fails, its server stops, or Postgres ends a deadlock with it: it leaves nothing.
Rollback(t) == tx[t].op # "none" /\ Abort(t)

Start(t) ==
    \/ \E f \in Founder : StartEdit(t, f) \/ StartDeleteFounder(t, f) \/ StartErase(t, f)
    \/ \E s \in Startup :
          \/ StartDeleteStartup(t, s)
          \/ \E fs \in SUBSET Founder : StartCreate(t, s, fs)
          \/ \E f \in Founder : StartAdd(t, s, f) \/ StartRemove(t, s, f)
    \/ \E r \in Request : StartResolve(t, r) \/ \E f \in Founder : StartRecord(t, r, {f})

Next ==
    \/ \E f \in Founder : CreateFounder(f)
    \/ \E t \in Tx : Start(t) \/ Step(t) \/ Rollback(t)

Spec == Init /\ [][Next]_vars

-----------------------------------------------------------------------------
(* What erasure promises *)

\* FR-410: once a founder is erased, however many erasures were asked for, there is one proof
\* of it, no link and no audit row names them, and no privacy request is about them; but for a
\* request that was not on record when the erasure looked for requests, and its audit row.
NoTraceLeft ==
    \A f \in Founder :
        IF founder[f] = "erased"
        THEN /\ proofs[f] = 1
             /\ \A l \in links : l[2] # f
             /\ \A row \in Naming(f) : row.on \in Request \ known[f]
             /\ \A r \in Request : f \in about[r] => r \notin known[f]
        ELSE proofs[f] = 0

-----------------------------------------------------------------------------
(* Who waits for whom *)

\* A row that t has yet to take, or to share, is held by u.
WaitsFor(t, u) ==
    \/ tx[t].op \in {"add", "create"} /\ (tx[t].who \ Linked(t)) \cap tx[u].locks # {}
    \/ tx[t].goes \cap tx[u].cuts # {}
    \/ tx[t].sees \cap tx[u].locks # {}
    \/ tx[t].rows \cap tx[u].scrubs # {}

Deadlocked(D) == D # {} /\ \A t \in D : \E u \in D \ {t} : WaitsFor(t, u)

\* Both have deleted a link and have one to go, t those of a founder and u those of a startup.
BothCutting(t, u) ==
    /\ tx[t].op \in {"erase", "deleteFounder"} /\ tx[u].op = "deleteStartup"
    /\ \A v \in {t, u} : tx[v].cuts # {} /\ tx[v].goes # {}

\* Two erasures have both redacted an audit row and have one to go.
BothScrubbing(t, u) == t # u /\ \A v \in {t, u} : tx[v].scrubs # {} /\ tx[v].rows # {}

\* Transactions that all wait for one another, of which Postgres aborts one, are found only where
\* two statements take several of the same rows in different orders: the cascade of a founder's
\* deletion or erasure against that of a startup's, and the scrubs of two erasures.  Links added
\* or removed, edits and privacy requests never close such a cycle, with however many others.
OnlyDeletesDeadlock ==
    \A D \in SUBSET Tx :
        Deadlocked(D) => \E t, u \in D : BothCutting(t, u) \/ BothScrubbing(t, u)
=============================================================================
