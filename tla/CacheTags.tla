----------------------------- MODULE CacheTags -----------------------------
(***************************************************************************)
(* Which cached pages a write expires (db/writes/tags.ts, db/mutation.ts,  *)
(* cache/*.ts), beside other writes and readers.                           *)
(*                                                                         *)
(* A startup's card appears on the pages of its founders, investors and    *)
(* batches, which are all `ends' of links here, and names the startup that *)
(* acquired it; a startup's page names its ends.  A write collects the     *)
(* tags of the pages it changes inside its transaction, before the change, *)
(* after it or both, from what that transaction can see, and expires them  *)
(* after the commit.  Readers fill the cache meanwhile with what is        *)
(* committed.  Entries of different pages do not depend on each other, so  *)
(* one page, any of them, is cached here.                                  *)
(***************************************************************************)
EXTENDS Naturals, FiniteSets

CONSTANTS
    Startup, End,   \* records with a page: startups, and what is linked to them
    List,           \* the pages tagged startups:list: they show every card
    Tx,
    MaxWrites,      \* bound: transactions that begin
    None

Page == Startup \cup End \cup {List}
Link == Startup \X End

\* What the records and bounds of an instance must be.
PagesAssumption ==
    /\ Startup \cap End = {} /\ List \notin Startup \cup End /\ None \notin Page
    /\ MaxWrites \in Nat

VARIABLES
    name, money, head,   \* versions: a startup's name, its derived totals, an end's fields
    links,               \* SUBSET Link
    acquirer,            \* [Startup -> Startup or None]
    gone,                \* ends that were erased
    tx,                  \* [Tx -> Txs]
    page,                \* the page whose entry is watched
    cache,               \* what its entry shows, or None
    reading,             \* the first statement's rows of a read of it under way, or None
    writes,              \* transactions begun, for the bound
    owed,                \* history: it changed and nobody will expire it
    since                \* history: [Tx -> ties others committed since it last collected tags]

db == <<name, money, head, links, acquirer, gone>>
vars == <<db, tx, page, cache, reading, writes, owed, since>>

Op == {"none", "edit", "acquire", "transition", "round", "import", "editEnd", "erase",
       "add", "remove"}
Txs == [op : Op, pc : {"idle", "begun", "before", "written", "after", "committed"},
        s : SUBSET Startup, o : SUBSET End, by : Startup \cup {None},
        update : SUBSET (Startup \cup End),   \* FOR UPDATE
        writing : SUBSET Startup,             \* rows an UPDATE alone has locked
        shares : SUBSET (Startup \cup End),   \* FOR KEY SHARE, of foreign keys
        tags : SUBSET Page]
Idle == [op |-> "none", pc |-> "idle", s |-> {}, o |-> {}, by |-> None,
         update |-> {}, writing |-> {}, shares |-> {}, tags |-> {}]
Ties == Link \cup (Startup \X Startup)

TypeOK ==
    /\ name \in [Startup -> Nat] /\ money \in [Startup -> Nat] /\ head \in [End -> Nat]
    /\ links \subseteq Link
    /\ acquirer \in [Startup -> Startup \cup {None}]
    /\ gone \subseteq End
    /\ tx \in [Tx -> Txs]
    /\ page \in Page
    /\ writes \in 0 .. MaxWrites
    /\ owed \in BOOLEAN
    /\ since \in [Tx -> SUBSET Ties]
    /\ \A t \in Tx : tx[t].pc \in {"idle", "committed"} =>
          tx[t].update \cup tx[t].writing \cup tx[t].shares = {}

Init ==
    /\ name = [s \in Startup |-> 0] /\ money = [s \in Startup |-> 0]
    /\ head = [o \in End |-> 0] /\ gone = {}
    /\ links \in SUBSET Link
    /\ acquirer \in {a \in [Startup -> Startup \cup {None}] :
                       \A s \in Startup : a[s] # s /\ (a[s] # None => a[a[s]] = None)}
    /\ tx = [t \in Tx |-> Idle]
    /\ page \in Page
    /\ cache = None /\ reading = None
    /\ writes = 0 /\ owed = FALSE
    /\ since = [t \in Tx |-> {}]

-----------------------------------------------------------------------------
(* Pages *)

\* A card: the startup, its totals, and the name of the startup that acquired it.
Card(s) == <<s, name[s], money[s],
             IF acquirer[s] = None THEN None ELSE <<acquirer[s], name[acquirer[s]]>>>>

EndsOf(ls, ss) == {l[2] : l \in {k \in ls : k[1] \in ss}}
StartupsOf(ls, os) == {l[1] : l \in {k \in ls : k[2] \in os}}

\* What the statements of a page's read return: the record first, then what is linked to it.
First(p) == IF p \in Startup THEN Card(p) ELSE IF p \in End THEN head[p] ELSE 0
Rest(p) ==
    IF p \in Startup THEN {<<o, head[o]>> : o \in EndsOf(links, {p})}
    ELSE IF p \in End THEN {Card(s) : s \in StartupsOf(links, {p})}
    ELSE {Card(s) : s \in Startup}
Content(p) == <<First(p), Rest(p)>>

BeginRead ==
    /\ cache = None /\ reading = None
    /\ reading' = <<First(page)>>
    /\ UNCHANGED <<db, tx, page, cache, writes, owed, since>>

EndRead ==
    /\ reading # None
    /\ cache' = <<reading[1], Rest(page)>>
    /\ reading' = None
    /\ UNCHANGED <<db, tx, page, writes, owed, since>>

\* An entry goes when its lifetime ends or the cache is full.
Lapse ==
    /\ cache # None
    /\ cache' = None
    /\ owed' = FALSE
    /\ UNCHANGED <<db, tx, page, reading, writes, since>>

-----------------------------------------------------------------------------
(* The tags of a write, from the links and acquirers its transaction sees *)

\* A bug: the companies a startup acquired keep its old name.
StartupTagsAlone(ls, a, ss) == ss \cup EndsOf(ls, ss) \cup {List}

StartupTags(ls, a, ss) ==
    LET targets == ss \cup {s \in Startup : a[s] \in ss}
    IN  targets \cup EndsOf(ls, targets) \cup {List}

EndTags(ls, os) == os \cup StartupsOf(ls, os)

-----------------------------------------------------------------------------
(* Transactions *)

Others(t) == Tx \ {t}
\* SELECT ... FOR UPDATE.
Lockable(t, x) ==
    \A u \in Others(t) : x \notin tx[u].update \cup tx[u].writing \cup tx[u].shares
\* An UPDATE that leaves the keys of the row alone.
Writable(t, x) == \A u \in Others(t) : x \notin tx[u].update \cup tx[u].writing
\* The key share a foreign key takes.
Shareable(t, x) == \A u \in Others(t) : x \notin tx[u].update

Start(t, op, ss, os, by, x) ==
    /\ tx[t] = Idle
    /\ writes < MaxWrites
    /\ \A y \in x : Lockable(t, y)
    /\ tx' = [tx EXCEPT ![t] = [Idle EXCEPT !.op = op, !.s = ss, !.o = os, !.by = by,
                                            !.pc = "begun", !.update = x]]
    /\ writes' = writes + 1
    /\ UNCHANGED <<db, page, cache, reading, owed, since>>

Begin(t) ==
    \/ \E s \in Startup :
          \/ Start(t, "edit", {s}, {}, None, {s})          \* fields, or its slug
          \/ Start(t, "transition", {s}, {}, None, {s})    \* publish, unpublish, archive, restore
          \/ Start(t, "round", {s}, {}, None, {})          \* a round of s: its own row is locked
          \/ \E b \in (Startup \cup {None}) \ {s} :        \* acquired_by_startup_id
                acquirer[s] # b /\ Start(t, "acquire", {s}, {}, b, {s})
          \/ \E o \in End :
                \/ <<s, o>> \notin links /\ Start(t, "add", {s}, {o}, None, {s})
                \/ <<s, o>> \in links /\ Start(t, "remove", {s}, {o}, None, {s})
    \/ \E ss \in SUBSET Startup \ {{}} : Start(t, "import", ss, {}, None, {})
    \/ \E o \in End \ gone :
          \/ Start(t, "editEnd", {}, {o}, None, {o})
          \/ Start(t, "erase", {}, {o}, None, {o})

Collect(t, pages, pc) ==
    /\ tx' = [tx EXCEPT ![t].tags = @ \cup pages, ![t].pc = pc]
    /\ since' = [since EXCEPT ![t] = {}]
    /\ UNCHANGED <<db, page, cache, reading, writes, owed>>

CollectBefore(t) ==
    /\ tx[t].pc = "begun"
    /\ \/ /\ tx[t].op \in {"edit", "acquire", "transition", "round", "remove"}
          /\ Collect(t, StartupTags(links, acquirer, tx[t].s), "before")
       \/ /\ tx[t].op \in {"editEnd", "erase"}
          /\ Collect(t, EndTags(links, tx[t].o), "before")

\* The change, in the transaction alone: the locks it needs decide when, and a foreign key
\* to a record that is gone fails the call.
Write(t) ==
    /\ tx[t].pc = IF tx[t].op \in {"add", "import"} THEN "begun" ELSE "before"
    /\ LET rows == IF tx[t].op \in {"round", "import"} THEN tx[t].s ELSE {}
           keys == IF tx[t].op = "add" THEN tx[t].o
                   ELSE IF tx[t].op = "acquire" THEN {tx[t].by} \ {None} ELSE {}
       IN  /\ \A x \in rows : Writable(t, x)
           /\ \A x \in keys : Shareable(t, x) /\ x \notin gone
           /\ tx' = [tx EXCEPT ![t].writing = rows, ![t].shares = keys, ![t].pc = "written"]
    /\ UNCHANGED <<db, page, cache, reading, writes, owed, since>>

\* The links and acquirers as the transaction leaves them.
LinksAfter(t) ==
    CASE tx[t].op = "add" -> links \cup (tx[t].s \X tx[t].o)
      [] tx[t].op = "remove" -> links \ (tx[t].s \X tx[t].o)
      [] tx[t].op = "erase" -> links \ (Startup \X tx[t].o)
      [] OTHER -> links
AcquirerAfter(t) ==
    [s \in Startup |-> IF tx[t].op = "acquire" /\ s \in tx[t].s THEN tx[t].by ELSE acquirer[s]]

CollectAfter(t) ==
    /\ tx[t].pc = "written"
    /\ \/ /\ tx[t].op \in {"edit", "acquire", "import"}
          /\ Collect(t, StartupTags(LinksAfter(t), AcquirerAfter(t), tx[t].s), "after")
       \/ /\ tx[t].op = "add"
          /\ Collect(t, StartupTags(LinksAfter(t), acquirer, tx[t].s)
                           \cup EndTags(LinksAfter(t), tx[t].o), "after")
       \/ /\ tx[t].op = "remove"
          /\ Collect(t, EndTags(LinksAfter(t), tx[t].o), "after")

Bump(f, xs) == [x \in DOMAIN f |-> IF x \in xs THEN f[x] + 1 ELSE f[x]]

Commit(t) ==
    /\ tx[t].pc = IF tx[t].op \in {"transition", "round", "editEnd", "erase"}
                  THEN "written" ELSE "after"
    /\ UNCHANGED <<page, cache, reading, writes>>
    /\ name' = Bump(name, IF tx[t].op \in {"edit", "transition", "import"}
                          THEN tx[t].s ELSE {})
    /\ money' = Bump(money, IF tx[t].op = "round" THEN tx[t].s ELSE {})
    /\ head' = Bump(head, IF tx[t].op \in {"editEnd", "erase"} THEN tx[t].o ELSE {})
    /\ gone' = IF tx[t].op = "erase" THEN gone \cup tx[t].o ELSE gone
    /\ links' = LinksAfter(t)
    /\ acquirer' = AcquirerAfter(t)
    /\ tx' = [tx EXCEPT ![t] = [Idle EXCEPT !.op = tx[t].op, !.pc = "committed",
                                            !.tags = tx[t].tags]]
    /\ owed' = (owed \/ (Content(page)' # Content(page) /\ page \notin tx[t].tags))
    /\ since' = [u \in Tx |-> IF u = t THEN since[t]
          ELSE since[u] \cup (links' \ links)
                 \cup {<<s, acquirer'[s]>> : s \in {x \in Startup : acquirer'[x] # acquirer[x]
                                                                  /\ acquirer'[x] # None}}]

\* A bug: revalidateTag(tag, "max") serves the old entry while a new one is made.
ExpireSoftly(t) ==
    /\ tx[t].pc = "committed"
    /\ owed' = (owed /\ page \notin tx[t].tags)
    /\ tx' = [tx EXCEPT ![t] = Idle]
    /\ UNCHANGED <<db, page, cache, reading, writes, since>>

\* After the commit.  A read that began before its tags were expired is not served after.
Expire(t) ==
    /\ tx[t].pc = "committed"
    /\ cache' = IF page \in tx[t].tags THEN None ELSE cache
    /\ reading' = IF page \in tx[t].tags THEN None ELSE reading
    /\ owed' = (owed /\ page \notin tx[t].tags)
    /\ tx' = [tx EXCEPT ![t] = Idle]
    /\ UNCHANGED <<db, page, writes, since>>

\* The call fails: nothing is changed and nothing expires.
Rollback(t) ==
    /\ tx[t].pc \in {"begun", "before", "written", "after"}
    /\ tx' = [tx EXCEPT ![t] = Idle]
    /\ UNCHANGED <<db, page, cache, reading, writes, owed, since>>

\* The server stops after the commit: its tags are never expired.
Stop(t) ==
    /\ tx[t].pc = "committed"
    /\ owed' = (owed \/ page \in tx[t].tags)
    /\ tx' = [tx EXCEPT ![t] = Idle]
    /\ UNCHANGED <<db, page, cache, reading, writes, since>>

Next ==
    \/ BeginRead \/ EndRead \/ Lapse
    \/ \E t \in Tx : \/ Begin(t) \/ CollectBefore(t) \/ Write(t) \/ CollectAfter(t)
                     \/ Commit(t) \/ Expire(t) \/ Rollback(t) \/ Stop(t)

Spec == Init /\ [][Next]_vars

-----------------------------------------------------------------------------
(* What the tags promise *)

Stale == cache # None /\ cache # Content(page)

\* tags.ts: "a missing tag is a stale-content bug".  A committed write has the tag of every page
\* it changes, but for pages tied to what it changed by a link or an acquisition that another
\* transaction committed after this one collected its tags.
Tied(p, ties) == \E tie \in ties : p = tie[2] \/ p = tie[1] \/ <<tie[1], p>> \in links
OnlyLateTiesMissed ==
    [][\A t \in Tx : tx[t].pc # "committed" /\ tx'[t].pc = "committed" =>
          \A p \in Page : Content(p)' # Content(p) =>
              p \in tx[t].tags \/ Tied(p, since[t])]_vars

\* A cached page that is not what is committed is about to be expired, unless its write missed
\* the page's tag or its server stopped before it expired any.
StaleIsExpired ==
    Stale => owed \/ \E t \in Tx : tx[t].pc = "committed" /\ page \in tx[t].tags
=============================================================================
