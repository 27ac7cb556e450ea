------------------------ MODULE FounderErasureProofs ------------------------
(***************************************************************************)
(* Why nothing of an erased founder is left, and which transactions can    *)
(* wait for one another, for any number of founders, startups, links,      *)
(* requests and transactions.                                              *)
(*                                                                         *)
(* Whoever writes something that names a founder holds something the       *)
(* erasure also needs: the founder's lock, the key share of a new link,    *)
(* or an old link that is being deleted (Apart).  What an erasure has read *)
(* therefore stays all there is to clear and to scrub until it commits     *)
(* (Erases), but for requests recorded since it looked for them.  Every    *)
(* row a transaction has taken or is about to take concerns what it locked *)
(* first (Concerns), so two that wait for one another want rows of a       *)
(* founder and of a startup, or audit rows that name two founders.         *)
(***************************************************************************)
EXTENDS FounderErasure, TLAPS

OnFounder == {"edit", "publish", "erase", "deleteFounder"}
OnStartup == {"add", "create", "remove", "deleteStartup"}
Deleting == {"erase", "deleteFounder", "remove", "deleteStartup"}

\* What a transaction of each kind may have taken and done, whatever the database holds.
Shape(x) ==
    /\ x.op = "none" => x = Idle
    /\ x.what \subseteq x.locks
    /\ x.op \in OnFounder => x.who \subseteq x.locks /\ x.what = {}
    /\ x.op \in {"record", "resolve"} => x.what \subseteq Request
    /\ x.op \in OnStartup => x.what \subseteq Startup
    /\ x.locks \subseteq x.what \cup x.clears \cup (IF x.op \in OnFounder THEN x.who ELSE {})
    /\ x.op \notin {"add", "create"} => x.adds = {} /\ x.shares = {}
    /\ x.op \notin Deleting => x.cuts = {} /\ x.goes = {}
    /\ x.op # "erase" => x.sees = {} /\ x.rows = {} /\ x.clears = {} /\ x.scrubs = {}
    /\ \A l \in x.adds : l[1] \in x.what /\ l[2] \in x.shares

\* A statement has taken all its rows before the next one looks.
Order(x) ==
    /\ x.goes # {} \/ x.cuts # {} => x.at >= 1
    /\ x.goes # {} => x.at = 1
    /\ x.sees # {} => x.at = 2
    /\ x.rows # {} \/ x.scrubs # {} => x.at = 3

\* The rows it takes are those of the founder or startup it locked; removeFounder wants one.
Concerns(x) ==
    /\ x.op \in {"erase", "deleteFounder"} => \A l \in x.goes \cup x.cuts : l[2] \in x.who
    /\ x.op \in {"remove", "deleteStartup"} => \A l \in x.goes \cup x.cuts : l[1] \in x.what
    /\ x.op = "remove" => (x.goes = {} \/ x.cuts = {}) /\ \A l, m \in x.goes : l = m
    /\ x.op = "record" => \A f, g \in x.who : f = g
    /\ x.op = "erase" => \A r \in x.sees \cup x.clears : about[r] \cap x.who # {}

\* The founders its audit rows name, and what they are about.
Says(x) ==
    /\ \A row \in x.says : row.names \subseteq x.who
    /\ x.op \in {"erase", "resolve", "deleteStartup"} => x.says = {}
    /\ x.op = "record" => \A row \in x.says : row.on \in x.what
    /\ x.op = "remove" => \A row \in x.says : \A f \in row.names : \E l \in x.goes \cup x.cuts : l[2] = f

\* What it has locked or shared is still as it was read.
Holds(x) ==
    /\ x.op \in OnFounder => \A f \in x.who : Exists(f)
    /\ \A f \in x.shares : Exists(f)
    /\ x.op = "record" => \A r \in x.what : request[r] = "none"
    /\ x.op = "resolve" => \A r \in x.what : request[r] # "none"
    /\ x.op = "create" => \A s \in x.what : startup[s] = "unused"
    /\ x.op \in {"add", "remove", "deleteStartup"} => \A s \in x.what : startup[s] = "there"
    /\ x.cuts \subseteq links
    /\ x.sees \cup x.clears \subseteq Recorded
    /\ x.locks \subseteq x.who \cup x.what \cup Recorded

\* What a deletion has read is all there is, but for requests recorded since.
Erases(x) ==
    /\ x.op \in {"erase", "deleteFounder"} /\ x.at >= 1 => LinksOf(x.who) \subseteq x.goes \cup x.cuts
    /\ x.op = "deleteStartup" /\ x.at >= 1
          => {l \in links : l[1] \in x.what} \subseteq x.goes \cup x.cuts
    /\ x.op = "erase" => \A f \in x.who :
        /\ x.at >= 2 => \A r \in Request :
              f \in about[r] => r \in x.sees \cup x.clears \/ r \notin known[f]
        /\ x.at >= 3 => \A row \in Naming(f) :
              row \in x.rows \cup x.scrubs \/ row.on \in Request \ known[f]

\* What two transactions hold at the same time.
Apart(x, y) ==
    /\ x.locks \cap (y.locks \cup y.shares) = {}
    /\ x.cuts \cap y.cuts = {}

TxOK(x) == Shape(x) /\ Order(x) /\ Concerns(x) /\ Says(x) /\ Holds(x) /\ Erases(x)
AllApart == \A t, u \in Tx : t # u => Apart(tx[t], tx[u])
KnownRecorded == \A f \in Founder : known[f] \subseteq Recorded
AboutOne == \A r \in Request : \A f, g \in about[r] : f = g

IInv ==
    /\ TypeOK
    /\ \A t \in Tx : TxOK(tx[t])
    /\ AllApart
    /\ KnownRecorded
    /\ AboutOne
    /\ NoTraceLeft

LEMMA IdleOK == TxOK(Idle)
  BY DEF TxOK, Shape, Order, Concerns, Says, Holds, Erases, Idle, OnFounder, OnStartup, Deleting

LEMMA InitIInv == Init => IInv
<1> SUFFICES ASSUME Init PROVE IInv
  OBVIOUS
<1>1. TypeOK
  BY DEF Init, TypeOK, Idle, Txs, Op, FounderState, RequestState
<1>2. \A t \in Tx : TxOK(tx[t])
  BY IdleOK DEF Init
<1>3. AllApart
  BY DEF Init, AllApart, Apart, Idle
<1>4. KnownRecorded /\ AboutOne /\ NoTraceLeft
  BY DEF Init, KnownRecorded, AboutOne, NoTraceLeft
<1> QED
  BY <1>1, <1>2, <1>3, <1>4 DEF IInv

-----------------------------------------------------------------------------
(* Steps that change one transaction's locals only *)

OnlyTx(t) == tx' \in [Tx -> Txs] /\ \A u \in Tx \ {t} : tx'[u] = tx[u]

LEMMA TypesOfOthers ==
    ASSUME TypeOK, NEW t \in Tx, OnlyTx(t), UNCHANGED <<db, known>>
    PROVE  TypeOK'
  BY DEF TypeOK, OnlyTx, db, Link

LEMMA LocalStep ==
    ASSUME IInv, NEW t \in Tx, OnlyTx(t), UNCHANGED <<db, known>>,
           TxOK(tx'[t]),
           \A u \in Tx \ {t} : Apart(tx'[t], tx[u]) /\ Apart(tx[u], tx'[t])
    PROVE  IInv'
<1>1. TypeOK'
  BY TypesOfOthers DEF IInv
<1>2. \A u \in Tx : TxOK(tx'[u])
  BY DEF IInv, OnlyTx
<1>3. \A u \in Tx : TxOK(tx[u])'
  BY <1>2 DEF TxOK, Shape, Order, Concerns, Says, Holds, Erases, Exists, Recorded, LinksOf, Naming,
              db
<1>4. AllApart'
  BY DEF IInv, AllApart, Apart, OnlyTx
<1>5. KnownRecorded' /\ AboutOne' /\ NoTraceLeft'
  BY DEF IInv, KnownRecorded, AboutOne, NoTraceLeft, Recorded, Naming, db
<1> QED
  BY <1>1, <1>3, <1>4, <1>5 DEF IInv

\* The call fails: nothing is held any more.
LEMMA AbortStep ==
    ASSUME IInv, NEW t \in Tx, Abort(t)
    PROVE  IInv'
<1>1. OnlyTx(t) /\ tx'[t] = Idle
  BY DEF IInv, TypeOK, Abort, OnlyTx, Idle, Txs, Op
<1>2. \A u \in Tx \ {t} : Apart(Idle, tx[u]) /\ Apart(tx[u], Idle)
  BY DEF Apart, Idle
<1> QED
  BY <1>1, <1>2, IdleOK, LocalStep DEF Abort

\* A call begins with a row that no other transaction holds.
LEMMA BegunStep ==
    ASSUME IInv, NEW t \in Tx, tx[t] = Idle, UNCHANGED <<db, known>>,
           NEW op \in Op, NEW at \in {0, 1}, NEW y \in Founder \cup Startup \cup Request,
           NEW fs \in SUBSET Founder, NEW what \in SUBSET (Startup \cup Request),
           NEW rows \in SUBSET AuditRow,
           tx' = [tx EXCEPT ![t] = Begun(op, at, y, fs, what, rows)],
           TxOK(Begun(op, at, y, fs, what, rows)),
           \A u \in Tx \ {t} : y \notin tx[u].locks \cup tx[u].shares
    PROVE  IInv'
<1> DEFINE x == Begun(op, at, y, fs, what, rows)
<1>1. x \in Txs
  BY DEF Begun, Txs
<1>2. x.locks = {y} /\ x.cuts = {} /\ x.shares = {}
  BY DEF Begun, Idle
<1>3. OnlyTx(t) /\ tx'[t] = x
  BY <1>1 DEF IInv, TypeOK, OnlyTx
<1>4. \A u \in Tx \ {t} : Apart(x, tx[u]) /\ Apart(tx[u], x)
  BY <1>2 DEF Apart
<1>5. TxOK(tx'[t])
  BY <1>3
<1> HIDE DEF x
<1> QED
  BY <1>3, <1>4, <1>5, LocalStep

LEMMA BeginStep ==
    ASSUME IInv, NEW t \in Tx, NEW op \in Op, NEW y \in Founder \cup Startup \cup Request,
           NEW fs \in SUBSET Founder, NEW what \in SUBSET (Startup \cup Request),
           Begin(t, op, y, fs, what),
           TxOK(Begun(op, 0, y, fs, what, {}))
    PROVE  IInv'
<1>1. \A u \in Tx \ {t} : y \notin tx[u].locks \cup tx[u].shares
  BY DEF Begin, Free, Others
<1>2. /\ tx[t] = Idle /\ UNCHANGED <<db, known>>
      /\ tx' = [tx EXCEPT ![t] = Begun(op, 0, y, fs, what, {})]
  BY DEF Begin
<1>3. 0 \in {0, 1} /\ {} \in SUBSET AuditRow
  OBVIOUS
<1> QED
  BY <1>1, <1>2, <1>3, BegunStep

\* What each kind of call begins with.
LEMMA BegunOnFounder ==
    ASSUME NEW f \in Founder, NEW op \in OnFounder, Exists(f)
    PROVE  TxOK(Begun(op, 0, f, {f}, {}, {}))
  BY SMTT(60) DEF Begun, Idle, TxOK, Shape, Order, Concerns, Says, Holds, Erases, OnFounder,
                  OnStartup, Deleting

LEMMA BegunOnStartup ==
    ASSUME NEW s \in Startup, NEW fs \in SUBSET Founder,
           NEW op \in {"add", "remove", "deleteStartup"}, startup[s] = "there"
    PROVE  TxOK(Begun(op, 0, s, fs, {s}, {}))
  BY DEF Begun, Idle, TxOK, Shape, Order, Concerns, Says, Holds, Erases, OnFounder,
                  OnStartup, Deleting

LEMMA BegunCreate ==
    ASSUME NEW s \in Startup, NEW fs \in SUBSET Founder, startup[s] = "unused"
    PROVE  TxOK(Begun("create", 0, s, fs, {s}, {Row(s, fs)}))
  BY SMTT(60) DEF Begun, Idle, TxOK, Shape, Order, Concerns, Says, Holds, Erases, OnFounder,
                  OnStartup, Deleting, Row

LEMMA BegunResolve ==
    ASSUME NEW r \in Request, request[r] = "open"
    PROVE  TxOK(Begun("resolve", 0, r, {}, {r}, {}))
  BY DEF Begun, Idle, TxOK, Shape, Order, Concerns, Says, Holds, Erases, OnFounder,
                  OnStartup, Deleting

LEMMA BegunRecord ==
    ASSUME NEW r \in Request, NEW f \in Founder, request[r] = "none"
    PROVE  TxOK(Begun("record", 1, r, {f}, {r}, {Row(r, {f})}))
  BY SMTT(60) DEF Begun, Idle, TxOK, Shape, Order, Concerns, Says, Holds, Erases, OnFounder,
                  OnStartup, Deleting, Row

LEMMA StartStep ==
    ASSUME IInv, NEW t \in Tx, Start(t)
    PROVE  IInv'
<1>1. OnFounder \subseteq Op /\ {"add", "create", "remove", "record", "resolve", "deleteStartup"} \subseteq Op
  BY DEF OnFounder, Op
<1>2. ASSUME NEW f \in Founder, StartEdit(t, f) \/ StartDeleteFounder(t, f) \/ StartErase(t, f)
      PROVE  IInv'
  <2>1. PICK op \in OnFounder : Exists(f) /\ Begin(t, op, f, {f}, {})
    BY <1>2 DEF StartEdit, StartDeleteFounder, StartErase, Exists, OnFounder
  <2>2. TxOK(Begun(op, 0, f, {f}, {}, {}))
    BY <2>1, BegunOnFounder
  <2> QED
    BY <1>1, <2>1, <2>2, BeginStep
<1>3. ASSUME NEW s \in Startup, StartDeleteStartup(t, s) PROVE IInv'
  <2>1. TxOK(Begun("deleteStartup", 0, s, {}, {s}, {}))
    BY <1>3, BegunOnStartup DEF StartDeleteStartup
  <2>2. Begin(t, "deleteStartup", s, {}, {s}) /\ {} \in SUBSET Founder
    BY <1>3 DEF StartDeleteStartup
  <2> QED
    BY <1>1, <2>1, <2>2, BeginStep
<1>4. ASSUME NEW s \in Startup, NEW f \in Founder, StartAdd(t, s, f) \/ StartRemove(t, s, f)
      PROVE  IInv'
  <2>1. PICK op \in {"add", "remove"} : startup[s] = "there" /\ Begin(t, op, s, {f}, {s})
    BY <1>4 DEF StartAdd, StartRemove
  <2>2. TxOK(Begun(op, 0, s, {f}, {s}, {}))
    BY <2>1, BegunOnStartup
  <2> QED
    BY <1>1, <2>1, <2>2, BeginStep
<1>5. ASSUME NEW r \in Request, StartResolve(t, r) PROVE IInv'
  <2>1. TxOK(Begun("resolve", 0, r, {}, {r}, {}))
    BY <1>5, BegunResolve DEF StartResolve
  <2>2. Begin(t, "resolve", r, {}, {r}) /\ {} \in SUBSET Founder
    BY <1>5 DEF StartResolve
  <2> QED
    BY <1>1, <2>1, <2>2, BeginStep
<1>6. ASSUME NEW s \in Startup, NEW fs \in SUBSET Founder, StartCreate(t, s, fs) PROVE IInv'
  <2>1. {Row(s, fs)} \in SUBSET AuditRow
    BY DEF Row, AuditRow
  <2>2. TxOK(Begun("create", 0, s, fs, {s}, {Row(s, fs)}))
    BY <1>6, BegunCreate DEF StartCreate
  <2>3. \A u \in Tx \ {t} : s \notin tx[u].locks \cup tx[u].shares
    BY <1>6, DistinctIds DEF StartCreate, IInv, TypeOK, Txs, Recorded, TxOK, Holds
  <2>4. /\ tx[t] = Idle /\ UNCHANGED <<db, known>>
        /\ tx' = [tx EXCEPT ![t] = Begun("create", 0, s, fs, {s}, {Row(s, fs)})]
    BY <1>6 DEF StartCreate
  <2>5. "create" \in Op /\ 0 \in {0, 1} /\ {s} \in SUBSET (Startup \cup Request)
    BY <1>1
  <2> QED
    BY <2>1, <2>2, <2>3, <2>4, <2>5, BegunStep
<1>7. ASSUME NEW r \in Request, NEW f \in Founder, StartRecord(t, r, {f}) PROVE IInv'
  <2>1. {Row(r, {f})} \in SUBSET AuditRow
    BY DEF Row, AuditRow
  <2>2. TxOK(Begun("record", 1, r, {f}, {r}, {Row(r, {f})}))
    BY <1>7, BegunRecord DEF StartRecord
  <2>3. \A u \in Tx \ {t} : r \notin tx[u].locks \cup tx[u].shares
    BY <1>7, DistinctIds DEF StartRecord, IInv, TypeOK, Txs, Recorded, TxOK, Holds
  <2>4. /\ tx[t] = Idle /\ UNCHANGED <<db, known>>
        /\ tx' = [tx EXCEPT ![t] = Begun("record", 1, r, {f}, {r}, {Row(r, {f})})]
    BY <1>7 DEF StartRecord
  <2>5. /\ "record" \in Op /\ 1 \in {0, 1} /\ {r} \in SUBSET (Startup \cup Request)
        /\ {f} \in SUBSET Founder
    BY <1>1
  <2> QED
    BY <2>1, <2>2, <2>3, <2>4, <2>5, BegunStep
<1> QED
  BY <1>2, <1>3, <1>4, <1>5, <1>6, <1>7 DEF Start

-----------------------------------------------------------------------------
(* The statements of a transaction *)

\* What stays of a transaction whichever statement it executes.
SameCall(x, y) == x.op = y.op /\ x.who = y.who /\ x.what = y.what
SameSnapshots(x, y) == x.goes = y.goes /\ x.sees = y.sees /\ x.rows = y.rows

LEMMA EditStep ==
    ASSUME IInv, NEW t \in Tx, Edit(t)
    PROVE  IInv'
<1> DEFINE x == tx[t]
           y == tx'[t]
<1>1. OnlyTx(t)
  <2>1. x \in Txs /\ {Row(f, {f}) : f \in x.who} \in SUBSET AuditRow
    BY DEF IInv, TypeOK, Txs, Row, AuditRow
  <2>2. [x EXCEPT !.at = 1, !.says = {Row(f, {f}) : f \in x.who}] \in Txs
    BY <2>1 DEF Txs
  <2> QED
    BY <2>2 DEF IInv, TypeOK, OnlyTx, Edit
<1>2. /\ SameCall(x, y) /\ y.at = 1 /\ y.says = {Row(f, {f}) : f \in x.who}
      /\ y.locks = x.locks /\ y.shares = x.shares /\ y.adds = x.adds /\ y.cuts = x.cuts
      /\ SameSnapshots(x, y) /\ y.clears = x.clears /\ y.scrubs = x.scrubs
  BY DEF IInv, TypeOK, Edit, Txs, SameCall, SameSnapshots
<1>3. x.op \in {"edit", "publish"} /\ TxOK(x)
  BY DEF Edit, IInv
<1>4. UNCHANGED <<db, known>>
  BY DEF Edit
<1> HIDE DEF x, y
<1>5. Shape(y) /\ Order(y) /\ Concerns(y)
  BY <1>2, <1>3 DEF TxOK, Shape, Order, Concerns, SameCall, SameSnapshots, OnFounder, OnStartup,
                    Deleting
<1>6. Says(y)
  BY <1>2, <1>3 DEF Says, SameCall, Row
<1>7. Holds(y) /\ Erases(y)
  BY <1>2, <1>3 DEF TxOK, Holds, Erases, SameCall, SameSnapshots, OnFounder
<1>8. \A u \in Tx \ {t} : Apart(y, tx[u]) /\ Apart(tx[u], y)
  BY <1>2 DEF IInv, AllApart, Apart, x
<1> QED
  BY <1>1, <1>4, <1>5, <1>6, <1>7, <1>8, LocalStep DEF y, TxOK

\* A statement that deletes links looks for them.
LEMMA DeleteLinksStep ==
    ASSUME IInv, NEW t \in Tx, NEW ls \in SUBSET links, NEW rows \in SUBSET AuditRow,
           DeleteLinks(t, ls, rows),
           tx[t].op \in Deleting, tx[t].at = 0,
           tx[t].op \in {"erase", "deleteFounder"} => ls = LinksOf(tx[t].who),
           tx[t].op = "deleteStartup" => ls = {l \in links : l[1] \in tx[t].what},
           tx[t].op = "remove" => \A l, m \in ls : l[1] \in tx[t].what /\ l = m,
           tx[t].op = "remove" => \A row \in rows : \A f \in row.names : \E l \in ls : l[2] = f,
           \A row \in rows : row.names \subseteq tx[t].who,
           tx[t].op \in {"erase", "deleteStartup"} => rows = {}
    PROVE  IInv'
<1> DEFINE x == tx[t]
           y == tx'[t]
<1>1. OnlyTx(t)
  <2>1. x \in Txs /\ ls \in SUBSET Link
    BY DEF IInv, TypeOK
  <2>2. [x EXCEPT !.at = 1, !.goes = ls, !.says = rows] \in Txs
    BY <2>1 DEF Txs
  <2> QED
    BY <2>2 DEF IInv, TypeOK, OnlyTx, DeleteLinks
<1>2. /\ SameCall(x, y) /\ y.at = 1 /\ y.says = rows /\ y.goes = ls /\ y.cuts = x.cuts
      /\ y.sees = x.sees /\ y.rows = x.rows
      /\ y.locks = x.locks /\ y.shares = x.shares /\ y.adds = x.adds
      /\ y.clears = x.clears /\ y.scrubs = x.scrubs
  BY DEF IInv, TypeOK, DeleteLinks, Txs, SameCall
<1>3. TxOK(x)
  BY DEF IInv
<1>4. UNCHANGED <<db, known>>
  BY DEF DeleteLinks
<1>5. \A u \in Tx \ {t} : Apart(y, tx[u]) /\ Apart(tx[u], y)
  BY <1>2, ZenonT(60) DEF IInv, AllApart, Apart
<1>6. Shape(y) /\ Order(y) /\ x.cuts = {}
  BY <1>2, <1>3 DEF TxOK, Shape, Order, SameCall, OnFounder, OnStartup, Deleting
<1>7. Says(y)
  BY <1>2, <1>3 DEF TxOK, Says, SameCall, Deleting
<1>8. Concerns(y)
  BY <1>2, <1>3, <1>6 DEF TxOK, Concerns, Order, SameCall, LinksOf, Deleting
<1>9. Holds(y) /\ Erases(y)
  BY <1>2, <1>3 DEF TxOK, Holds, Erases, SameCall
<1> HIDE DEF y
<1> QED
  BY <1>1, <1>4, <1>5, <1>6, <1>7, <1>8, <1>9, LocalStep DEF y, TxOK

LEMMA DeletingSteps ==
    ASSUME IInv, NEW t \in Tx,
           DeleteFounder(t) \/ DeleteStartup(t) \/ EraseRow(t) \/ RemoveLink(t)
    PROVE  IInv'
<1>1. tx[t].who \in SUBSET Founder
  BY DEF IInv, TypeOK, Txs
<1>2. CASE DeleteFounder(t)
  <2>1. {Row(f, {f}) : f \in tx[t].who} \in SUBSET AuditRow /\ LinksOf(tx[t].who) \in SUBSET links
    BY <1>1 DEF Row, AuditRow, LinksOf
  <2>2. \A row \in {Row(f, {f}) : f \in tx[t].who} : row.names \subseteq tx[t].who
    BY DEF Row
  <2> QED
    BY <1>2, <2>1, <2>2, DeleteLinksStep DEF DeleteFounder, On, Deleting
<1>3. CASE DeleteStartup(t)
  BY <1>3, DeleteLinksStep DEF DeleteStartup, On, Deleting
<1>4. CASE EraseRow(t)
  <2>1. LinksOf(tx[t].who) \in SUBSET links
    BY DEF LinksOf
  <2> QED
    BY <1>4, <2>1, DeleteLinksStep DEF EraseRow, On, Deleting
<1>5. CASE RemoveLink(t)
  <2>1. PICK s \in tx[t].what, f \in tx[t].who, k \in Stint :
              IF <<s, f, k>> \in links
              THEN DeleteLinks(t, {<<s, f, k>>}, {Row(s, {f})})
              ELSE Abort(t)
    BY <1>5 DEF RemoveLink
  <2>2. CASE <<s, f, k>> \notin links
    BY <2>1, <2>2, AbortStep
  <2>3. CASE <<s, f, k>> \in links
    <3>1. {Row(s, {f})} \in SUBSET AuditRow
      BY <1>1, <2>3 DEF Row, AuditRow, IInv, TypeOK, Link
    <3>2. \A row \in {Row(s, {f})} : row.names = {f} /\ row.names \subseteq tx[t].who
      BY DEF Row
    <3>3. {<<s, f, k>>} \in SUBSET links /\ <<s, f, k>>[2] = f /\ <<s, f, k>>[1] \in tx[t].what
      BY <2>1, <2>3
    <3>4. tx[t].op = "remove" /\ tx[t].at = 0 /\ DeleteLinks(t, {<<s, f, k>>}, {Row(s, {f})})
      BY <1>5, <2>1, <2>3 DEF RemoveLink, On
    <3>5. \A row \in {Row(s, {f})} : \A g \in row.names : \E l \in {<<s, f, k>>} : l[2] = g
      BY <3>2, <3>3
    <3> DEFINE ls == {<<s, f, k>>}
               rows == {Row(s, {f})}
    <3> HIDE DEF ls, rows
    <3>6. /\ ls \in SUBSET links /\ rows \in SUBSET AuditRow /\ DeleteLinks(t, ls, rows)
          /\ \A row \in rows : row.names \subseteq tx[t].who
          /\ \A row \in rows : \A g \in row.names : \E l \in ls : l[2] = g
          /\ \A l, m \in ls : l[1] \in tx[t].what /\ l = m
      BY <3>1, <3>2, <3>3, <3>4, <3>5 DEF ls, rows
    <3> QED
      BY <3>4, <3>6, DeleteLinksStep DEF Deleting
  <2> QED
    BY <2>2, <2>3
<1> QED
  BY <1>2, <1>3, <1>4, <1>5

\* It takes them one by one, each once nobody else is deleting it.
LEMMA CutLinkStep ==
    ASSUME IInv, NEW t \in Tx, CutLink(t)
    PROVE  IInv'
<1> DEFINE x == tx[t]
           y == tx'[t]
<1>1. PICK l \in x.goes :
          /\ Deletable(t, l)
          /\ IF l \in links \/ x.op # "remove"
             THEN /\ tx' = [tx EXCEPT ![t].goes = @ \ {l}, ![t].cuts = @ \cup ({l} \cap links)]
                  /\ UNCHANGED <<db, known>>
             ELSE Abort(t)
  BY DEF CutLink
<1>2. CASE ~(l \in links \/ x.op # "remove")
  BY <1>1, <1>2, AbortStep
<1>3. CASE l \in links \/ x.op # "remove"
  <2>1. /\ tx' = [tx EXCEPT ![t].goes = @ \ {l}, ![t].cuts = @ \cup ({l} \cap links)]
        /\ UNCHANGED <<db, known>>
    BY <1>1, <1>3
  <2>2. TxOK(x) /\ x \in Txs /\ x.op \in Deleting /\ x.at = 1
    BY <1>1 DEF IInv, TypeOK, TxOK, Shape, Order
  <2>3. OnlyTx(t)
    <3>1. [x EXCEPT !.goes = @ \ {l}, !.cuts = @ \cup ({l} \cap links)] \in Txs
      BY <1>1, <2>2 DEF Txs
    <3> QED
      BY <2>1, <3>1 DEF IInv, TypeOK, OnlyTx
  <2>4. /\ SameCall(x, y) /\ y.at = x.at /\ y.says = x.says
        /\ y.goes = x.goes \ {l} /\ y.cuts = x.cuts \cup ({l} \cap links)
        /\ y.adds = x.adds /\ y.shares = x.shares /\ y.locks = x.locks
        /\ y.sees = x.sees /\ y.rows = x.rows /\ y.clears = x.clears /\ y.scrubs = x.scrubs
    BY <2>1, <2>2 DEF IInv, TypeOK, Txs, SameCall
  <2>5. \A u \in Tx \ {t} : Apart(y, tx[u]) /\ Apart(tx[u], y)
    BY <1>1, <2>4, ZenonT(60) DEF IInv, AllApart, Apart, Deletable, Others
  <2>6. x.op = "remove" => x.cuts = {} /\ l \in links
    BY <1>1, <1>3, <2>2 DEF TxOK, Concerns
  <2> HIDE DEF x, y
  <2>7. Shape(y) /\ Order(y)
    BY <1>1, <2>2, <2>4 DEF TxOK, Shape, Order, SameCall, OnFounder, OnStartup, Deleting
  <2>8. Says(y)
    BY <2>2, <2>4, <2>6 DEF TxOK, Says, SameCall
  <2>9. Holds(y) /\ Erases(y)
    BY <2>1, <2>2, <2>4 DEF TxOK, Holds, Erases, SameCall, OnFounder, LinksOf
  <2>10. Concerns(y)
    BY <1>1, <2>2, <2>4, <2>6 DEF TxOK, Concerns, SameCall, LinksOf, Deleting
  <2> QED
    BY <2>1, <2>3, <2>5, <2>7, <2>8, <2>9, <2>10, LocalStep DEF y, TxOK
<1> QED
  BY <1>2, <1>3

\* The foreign key's share of the founder keeps them until the link is committed.
LEMMA InsertLinkStep ==
    ASSUME IInv, NEW t \in Tx, InsertLink(t)
    PROVE  IInv'
<1> DEFINE x == tx[t]
           y == tx'[t]
<1>1. PICK f \in x.who \ Linked(t), s \in x.what, k \in Stint :
          /\ Shareable(t, f)
          /\ IF Exists(f) /\ <<s, f, k>> \notin links
             THEN /\ tx' = [tx EXCEPT ![t].adds = @ \cup {<<s, f, k>>},
                                      ![t].shares = @ \cup {f},
                                      ![t].says = @ \cup {Row(s, tx[t].who)}]
                  /\ UNCHANGED <<db, known>>
             ELSE Abort(t)
  BY DEF InsertLink
<1>2. CASE ~(Exists(f) /\ <<s, f, k>> \notin links)
  BY <1>1, <1>2, AbortStep
<1>3. CASE Exists(f) /\ <<s, f, k>> \notin links
  <2>1. /\ tx' = [tx EXCEPT ![t].adds = @ \cup {<<s, f, k>>}, ![t].shares = @ \cup {f},
                            ![t].says = @ \cup {Row(s, x.who)}]
        /\ UNCHANGED <<db, known>>
        /\ Exists(f)
    BY <1>1, <1>3
  <2>2. x.op \in {"add", "create"} /\ TxOK(x) /\ x \in Txs
    BY DEF InsertLink, IInv, TypeOK
  <2>3. s \in Startup /\ f \in Founder /\ x.who \in SUBSET Founder
    BY <1>1, <2>2 DEF TxOK, Shape, Txs, OnStartup
  <2>4. OnlyTx(t)
    <3>1. /\ x.adds \cup {<<s, f, k>>} \in SUBSET Link /\ x.shares \cup {f} \in SUBSET Founder
          /\ x.says \cup {Row(s, x.who)} \in SUBSET AuditRow
      BY <2>2, <2>3 DEF Txs, Link, Row, AuditRow
    <3>2. [x EXCEPT !.adds = @ \cup {<<s, f, k>>}, !.shares = @ \cup {f},
                    !.says = @ \cup {Row(s, x.who)}] \in Txs
      BY <2>2, <3>1 DEF Txs
    <3> QED
      BY <2>1, <3>2 DEF IInv, TypeOK, OnlyTx
  <2>5. /\ SameCall(x, y) /\ y.at = x.at /\ y.says = x.says \cup {Row(s, x.who)}
        /\ y.adds = x.adds \cup {<<s, f, k>>} /\ y.shares = x.shares \cup {f}
        /\ y.locks = x.locks /\ y.cuts = x.cuts /\ SameSnapshots(x, y)
        /\ y.clears = x.clears /\ y.scrubs = x.scrubs
    BY <2>1, <2>2 DEF IInv, TypeOK, Txs, SameCall, SameSnapshots
  <2>6. \A u \in Tx \ {t} : Apart(y, tx[u]) /\ Apart(tx[u], y)
    BY <1>1, <2>5 DEF IInv, AllApart, Apart, Shareable, Others
  <2> HIDE DEF x, y
  <2>7. Shape(y) /\ Order(y) /\ Concerns(y)
    BY <1>1, <2>2, <2>5 DEF TxOK, Shape, Order, Concerns, SameCall, SameSnapshots, OnFounder,
                            OnStartup, Deleting
  <2>8. Says(y)
    BY <2>2, <2>5 DEF TxOK, Says, SameCall, SameSnapshots, Row
  <2>9. Holds(y) /\ Erases(y)
    BY <2>1, <2>2, <2>5 DEF TxOK, Holds, Erases, SameCall, SameSnapshots, OnFounder
  <2> QED
    BY <2>1, <2>4, <2>6, <2>7, <2>8, <2>9, LocalStep DEF y, TxOK
<1> QED
  BY <1>2, <1>3

LEMMA ClearRequestStep ==
    ASSUME IInv, NEW t \in Tx, ClearRequest(t)
    PROVE  IInv'
<1> DEFINE x == tx[t]
           y == tx'[t]
<1>1. PICK r \in x.sees :
          /\ Free(t, r)
          /\ tx' = [tx EXCEPT ![t].sees = @ \ {r}, ![t].clears = @ \cup {r},
                              ![t].locks = @ \cup {r}]
          /\ UNCHANGED <<db, known>>
  BY DEF ClearRequest
<1>2. x.op = "erase" /\ x.at = 2 /\ TxOK(x) /\ x \in Txs /\ r \in Recorded
  BY <1>1 DEF IInv, TypeOK, TxOK, Shape, Order, Holds
<1>3. OnlyTx(t)
  <2>1. [x EXCEPT !.sees = @ \ {r}, !.clears = @ \cup {r}, !.locks = @ \cup {r}] \in Txs
    BY <1>2 DEF Txs, Recorded
  <2> QED
    BY <1>1, <2>1 DEF IInv, TypeOK, OnlyTx
<1>4. /\ SameCall(x, y) /\ y.at = x.at /\ y.sees = x.sees \ {r} /\ y.clears = x.clears \cup {r}
      /\ y.locks = x.locks \cup {r} /\ y.goes = x.goes /\ y.rows = x.rows
      /\ y.says = x.says /\ y.shares = x.shares /\ y.adds = x.adds /\ y.cuts = x.cuts
      /\ y.scrubs = x.scrubs
  BY <1>1, <1>2 DEF IInv, TypeOK, Txs, SameCall
<1>5. ASSUME NEW u \in Tx \ {t} PROVE Apart(y, tx[u]) /\ Apart(tx[u], y)
  <2>1. r \notin tx[u].locks \cup tx[u].shares
    BY <1>1 DEF Free, Others
  <2>2. Apart(x, tx[u]) /\ Apart(tx[u], x)
    BY DEF IInv, AllApart
  <2> HIDE DEF x, y
  <2> QED
    BY <1>4, <2>1, <2>2 DEF Apart
<1> HIDE DEF x, y
<1>6. Shape(y) /\ Order(y) /\ Concerns(y)
  BY <1>1, <1>2, <1>4 DEF TxOK, Shape, Order, Concerns, SameCall, OnFounder, OnStartup, Deleting
<1>7. Says(y)
  BY <1>2, <1>4 DEF TxOK, Says, SameCall
<1>8. Holds(y) /\ Erases(y)
  BY <1>2, <1>4 DEF TxOK, Holds, Erases, SameCall
<1> QED
  BY <1>1, <1>3, <1>5, <1>6, <1>7, <1>8, LocalStep DEF y, TxOK

LEMMA LookForRowsStep ==
    ASSUME IInv, NEW t \in Tx, LookForRows(t)
    PROVE  IInv'
<1> DEFINE x == tx[t]
           y == tx'[t]
<1>1. x.op = "erase" /\ x.at = 2 /\ x.sees = {} /\ x.goes = {} /\ TxOK(x) /\ x \in Txs
  BY DEF LookForRows, On, IInv, TypeOK, TxOK, Order
<1>2. Mentions(x.who) \in SUBSET AuditRow
  BY DEF Mentions, IInv, TypeOK
<1>3. OnlyTx(t)
  <2>1. [x EXCEPT !.at = 3, !.rows = Mentions(x.who)] \in Txs
    BY <1>1, <1>2 DEF Txs
  <2> QED
    BY <2>1 DEF IInv, TypeOK, OnlyTx, LookForRows
<1>4. /\ SameCall(x, y) /\ y.at = 3 /\ y.rows = Mentions(x.who) /\ y.clears = x.clears
      /\ y.goes = x.goes /\ y.sees = x.sees /\ y.locks = x.locks /\ y.says = x.says /\ y.shares = x.shares /\ y.adds = x.adds
      /\ y.cuts = x.cuts /\ y.scrubs = x.scrubs
  BY <1>1 DEF IInv, TypeOK, Txs, SameCall, LookForRows
<1>5. \A u \in Tx \ {t} : Apart(y, tx[u]) /\ Apart(tx[u], y)
  BY <1>4 DEF IInv, AllApart, Apart
<1>6. UNCHANGED <<db, known>>
  BY DEF LookForRows
<1> HIDE DEF x, y
<1>7. Shape(y) /\ Order(y) /\ Concerns(y)
  BY <1>1, <1>2, <1>4 DEF TxOK, Shape, Order, Concerns, SameCall, OnFounder, OnStartup, Deleting
<1>8. Says(y)
  BY <1>1, <1>4 DEF TxOK, Says, SameCall
<1>9. Holds(y) /\ Erases(y)
  BY <1>1, <1>4 DEF TxOK, Holds, Erases, SameCall, Mentions, Naming
<1> QED
  BY <1>3, <1>5, <1>6, <1>7, <1>8, <1>9, LocalStep DEF y, TxOK

LEMMA ScrubRowStep ==
    ASSUME IInv, NEW t \in Tx, ScrubRow(t)
    PROVE  IInv'
<1> DEFINE x == tx[t]
           y == tx'[t]
<1>1. PICK row \in x.rows :
          /\ tx' = [tx EXCEPT ![t].rows = @ \ {row}, ![t].scrubs = @ \cup ({row} \cap audit)]
          /\ UNCHANGED <<db, known>>
  BY DEF ScrubRow
<1>2. x.op = "erase" /\ x.at = 3 /\ TxOK(x) /\ x \in Txs /\ row \in AuditRow
  BY <1>1 DEF IInv, TypeOK, TxOK, Shape, Order, Txs
<1>3. OnlyTx(t)
  <2>1. [x EXCEPT !.rows = @ \ {row}, !.scrubs = @ \cup ({row} \cap audit)] \in Txs
    BY <1>2 DEF Txs
  <2> QED
    BY <1>1, <2>1 DEF IInv, TypeOK, OnlyTx
<1>4. /\ SameCall(x, y) /\ y.at = x.at /\ y.rows = x.rows \ {row}
      /\ y.scrubs = x.scrubs \cup ({row} \cap audit) /\ y.clears = x.clears
      /\ y.goes = x.goes /\ y.sees = x.sees /\ y.locks = x.locks /\ y.says = x.says
      /\ y.shares = x.shares /\ y.adds = x.adds /\ y.cuts = x.cuts
  BY <1>1, <1>2 DEF IInv, TypeOK, Txs, SameCall
<1>5. \A u \in Tx \ {t} : Apart(y, tx[u]) /\ Apart(tx[u], y)
  BY <1>4 DEF IInv, AllApart, Apart
<1> HIDE DEF x, y
<1>6. Shape(y) /\ Order(y) /\ Concerns(y)
  BY <1>2, <1>4 DEF TxOK, Shape, Order, Concerns, SameCall, OnFounder, OnStartup, Deleting
<1>7. Says(y)
  BY <1>2, <1>4 DEF TxOK, Says, SameCall
<1>8. Holds(y) /\ Erases(y)
  BY <1>2, <1>4 DEF TxOK, Holds, Erases, SameCall, Naming
<1> QED
  BY <1>1, <1>3, <1>5, <1>6, <1>7, <1>8, LocalStep DEF y, TxOK

\* From here on `known` keeps what was on record: only those requests are the erasure's to clear.
LEMMA LookForRequestsStep ==
    ASSUME IInv, NEW t \in Tx, LookForRequests(t)
    PROVE  IInv'
<1> DEFINE x == tx[t]
           y == tx'[t]
<1>1. x.op = "erase" /\ x.at = 1 /\ x.goes = {} /\ TxOK(x) /\ x \in Txs
  BY DEF LookForRequests, On, IInv, TypeOK
<1>2. OfFounders(x.who) \in SUBSET Recorded
  BY DEF OfFounders
<1>3. OnlyTx(t)
  <2>1. [x EXCEPT !.at = 2, !.sees = OfFounders(x.who)] \in Txs
    BY <1>1, <1>2 DEF Txs, Recorded
  <2> QED
    BY <2>1 DEF IInv, TypeOK, OnlyTx, LookForRequests
<1>4. /\ SameCall(x, y) /\ y.at = 2 /\ y.sees = OfFounders(x.who) /\ y.clears = x.clears
      /\ y.goes = x.goes /\ y.rows = x.rows /\ y.locks = x.locks /\ y.says = x.says
      /\ y.shares = x.shares /\ y.adds = x.adds /\ y.cuts = x.cuts /\ y.scrubs = x.scrubs
  BY <1>1 DEF IInv, TypeOK, Txs, SameCall, LookForRequests
<1>5. /\ UNCHANGED db
      /\ known' \in [Founder -> SUBSET Request]
      /\ \A f \in Founder : known'[f] = IF f \in x.who THEN Recorded ELSE known[f]
  BY DEF LookForRequests, IInv, TypeOK, Recorded
<1>6. x.who \in SUBSET Founder /\ x.who \subseteq x.locks /\ \A f \in x.who : Exists(f)
  BY <1>1 DEF TxOK, Shape, Holds, OnFounder, Txs
<1>7. ASSUME NEW u \in Tx \ {t} PROVE TxOK(tx[u])'
  <2> DEFINE z == tx[u]
  <2>1. tx'[u] = z /\ TxOK(z) /\ z \in Txs /\ Apart(x, z)
    BY <1>3 DEF OnlyTx, IInv, TypeOK, AllApart
  <2>2. z.op = "erase" => z.who \in SUBSET Founder /\ \A f \in z.who : known'[f] = known[f]
    BY <1>5, <1>6, <2>1 DEF TxOK, Shape, Apart, OnFounder, Txs
  <2> HIDE DEF z
  <2>3. Shape(z)' /\ Order(z)' /\ Concerns(z)' /\ Says(z)' /\ Holds(z)'
    BY <1>5, <2>1 DEF TxOK, Shape, Order, Concerns, Says, Holds, Exists, Recorded, db, z
  <2>4. Erases(z)'
    BY <1>5, <2>1, <2>2 DEF TxOK, Erases, LinksOf, Naming, db, z
  <2> QED
    BY <2>1, <2>3, <2>4 DEF TxOK, z
<1>8. TxOK(tx[t])'
  <2>1. (Shape(tx[t]) /\ Order(tx[t]) /\ Concerns(tx[t]) /\ Says(tx[t]))'
    BY <1>1, <1>4, <1>5 DEF TxOK, Shape, Order, Concerns, Says, SameCall, OnFounder, OnStartup,
                            Deleting, OfFounders, db
  <2>2. Holds(tx[t])'
    BY <1>1, <1>2, <1>4, <1>5 DEF TxOK, Holds, SameCall, OnFounder, Exists, Recorded, db
  <2>3. Erases(tx[t])'
    BY <1>1, <1>4, <1>5, <1>6 DEF TxOK, Erases, SameCall, LinksOf, Naming, OfFounders, Recorded, db
  <2> QED
    BY <2>1, <2>2, <2>3 DEF TxOK
<1>9. TypeOK'
  BY <1>3, <1>5 DEF IInv, TypeOK, OnlyTx, db, Link
<1>10. AllApart'
  BY <1>3, <1>4 DEF IInv, AllApart, Apart, OnlyTx
<1>11. KnownRecorded' /\ AboutOne'
  BY <1>5 DEF IInv, KnownRecorded, AboutOne, Recorded, db
<1>12. NoTraceLeft'
  BY <1>5, <1>6 DEF IInv, NoTraceLeft, Exists, Naming, db
<1> QED
  BY <1>7, <1>8, <1>9, <1>10, <1>11, <1>12 DEF IInv

-----------------------------------------------------------------------------
(* Founders created, and transactions committed *)

LEMMA CreateFounderStep ==
    ASSUME IInv, NEW g \in Founder, CreateFounder(g)
    PROVE  IInv'
<1>1. /\ founder[g] = "unused" /\ founder' \in [Founder -> FounderState]
      /\ \A f \in Founder : founder'[f] = IF f = g THEN "draft" ELSE founder[f]
      /\ audit' = audit \cup {Row(g, {g})} /\ Row(g, {g}) \in AuditRow /\ Row(g, {g}).names = {g}
      /\ UNCHANGED <<startup, links, request, about, proofs, tx, known>>
  BY DEF CreateFounder, IInv, TypeOK, FounderState, Row, AuditRow
<1>2. TypeOK'
  BY <1>1 DEF IInv, TypeOK, Link
<1>3. ASSUME NEW t \in Tx PROVE TxOK(tx[t])'
  <2>1. TxOK(tx[t]) /\ tx[t] \in Txs
    BY DEF IInv, TypeOK
  <2>2. tx[t].op = "erase" => g \notin tx[t].who
    BY <1>1, <2>1 DEF TxOK, Holds, Exists, OnFounder
  <2>3. (Shape(tx[t]) /\ Order(tx[t]) /\ Concerns(tx[t]) /\ Says(tx[t]))'
    BY <1>1, <2>1 DEF TxOK, Shape, Order, Concerns, Says
  <2>4. Holds(tx[t])'
    BY <1>1, <2>1 DEF TxOK, Holds, Exists, Recorded, Txs
  <2>5. Erases(tx[t])'
    BY <1>1, <2>1, <2>2, ZenonT(60) DEF TxOK, Erases, LinksOf, Naming
  <2> QED
    BY <2>3, <2>4, <2>5 DEF TxOK
<1>4. AllApart' /\ KnownRecorded' /\ AboutOne'
  BY <1>1 DEF IInv, AllApart, Apart, KnownRecorded, AboutOne, Recorded
<1>5. NoTraceLeft'
  BY <1>1 DEF IInv, NoTraceLeft, Naming
<1> QED
  BY <1>2, <1>3, <1>4, <1>5 DEF IInv

\* Whoever commits an audit row that names a founder has them locked, shares them, has cut a
\* link of theirs, or has recorded a request that no erasure had seen.
LEMMA WhoNames ==
    ASSUME IInv, NEW t \in Tx, Finished(t), NEW row \in tx[t].says, NEW f \in row.names
    PROVE  \/ f \in tx[t].locks \cap tx[t].who /\ tx[t].op \in OnFounder
           \/ f \in tx[t].shares
           \/ \E l \in tx[t].cuts : l[2] = f
           \/ row.on \in Request \ known[f]
<1> DEFINE x == tx[t]
<1>1. TxOK(x) /\ x \in Txs /\ f \in x.who /\ f \in Founder
  BY DEF IInv, TypeOK, TxOK, Says, Txs
<1>2. x.op # "none"
  BY <1>1 DEF Finished
<1>3. CASE x.op \in OnFounder
  BY <1>1, <1>3 DEF TxOK, Shape
<1>4. CASE x.op \in {"add", "create"}
  BY <1>1, <1>4 DEF TxOK, Shape, Finished, Linked
<1>5. CASE x.op = "remove"
  BY <1>1, <1>5 DEF TxOK, Says, Finished
<1>6. CASE x.op = "record"
  <2>1. row.on \in Request /\ request[row.on] = "none"
    BY <1>1, <1>6 DEF TxOK, Shape, Says, Holds
  <2> QED
    BY <1>1, <2>1 DEF IInv, KnownRecorded, Recorded
<1>7. CASE x.op \in {"erase", "resolve", "deleteStartup"}
  BY <1>1, <1>7 DEF TxOK, Says
<1> QED
  BY <1>1, <1>2, <1>3, <1>4, <1>5, <1>6, <1>7 DEF Txs, Op, OnFounder

\* What a commit writes, said once without the functions it writes into.
Committed(t) ==
    LET x == tx[t] IN
    /\ \A f \in Founder : founder'[f] =
          IF f \in x.who /\ x.op \in {"publish", "erase", "deleteFounder"}
          THEN FounderAfter(x.op) ELSE founder[f]
    /\ \A s \in Startup : s \notin x.what \/ x.op \notin {"create", "deleteStartup"}
          => startup'[s] = startup[s]
    /\ \A s \in Startup \cap x.what : x.op = "create" => startup'[s] = "there"
    /\ links' = (links \cup x.adds) \ x.cuts
    /\ \A r \in Request : r \notin x.what => request'[r] = request[r]
    /\ \A r \in Request \cap x.what : request'[r] # "none"
    /\ \A r \in Request : about'[r] =
          IF r \in x.clears THEN {}
          ELSE IF r \in x.what /\ x.op = "record" THEN x.who ELSE about[r]
    /\ audit' = (audit \ x.scrubs) \cup {row \in x.says : row.names # {}}
    /\ \A f \in Founder : proofs'[f] =
          IF x.op = "erase" /\ f \in x.who THEN proofs[f] + 1 ELSE proofs[f]
    /\ tx' = [tx EXCEPT ![t] = Idle] /\ UNCHANGED known

LEMMA CommitType ==
    ASSUME IInv, NEW t \in Tx, Commit(t)
    PROVE  TypeOK' /\ Committed(t)
<1> DEFINE x == tx[t]
<1>1. TxOK(x) /\ x \in Txs /\ Finished(t)
  BY DEF IInv, TypeOK, Commit
<1>2. Committed(t)
  BY DEF Commit, Committed
<1>3. founder' \in [Founder -> FounderState]
  BY DEF Commit, IInv, TypeOK, FounderState, FounderAfter
<1>4. startup' \in [Startup -> {"unused", "there", "gone"}]
  BY DEF Commit, IInv, TypeOK
<1>5. request' \in [Request -> RequestState] /\ about' \in [Request -> SUBSET Founder]
  BY <1>1 DEF Commit, IInv, TypeOK, RequestState, Txs
<1>6. audit' \subseteq AuditRow /\ proofs' \in [Founder -> Nat] /\ known' \in [Founder -> SUBSET Request]
  BY <1>1 DEF Commit, IInv, TypeOK, Txs
<1>7. tx' \in [Tx -> Txs]
  BY DEF Commit, IInv, TypeOK, Idle, Txs, Op
<1>8. ASSUME NEW l \in links'
      PROVE  l \in Link /\ startup'[l[1]] = "there" /\ founder'[l[2]] \in {"draft", "published"}
  <2>1. CASE l \in links /\ l \notin x.cuts
    <3>1. l \in Link /\ startup[l[1]] = "there" /\ founder[l[2]] \in {"draft", "published"}
      BY <2>1 DEF IInv, TypeOK
    <3>2. l[1] \in Startup /\ l[2] \in Founder
      BY <3>1 DEF Link
    <3>3. x.op = "create" => l[1] \notin x.what
      BY <1>1, <3>1 DEF TxOK, Holds
    <3>4. x.op = "deleteStartup" => l[1] \notin x.what
      BY <1>1, <2>1 DEF TxOK, Erases, Finished
    <3>5. x.op \in {"erase", "deleteFounder"} => l[2] \notin x.who
      BY <1>1, <2>1 DEF TxOK, Order, Erases, Finished, LinksOf
    <3> QED
      BY <1>2, <3>1, <3>2, <3>3, <3>4, <3>5 DEF Committed, FounderAfter
  <2>2. CASE l \in x.adds
    <3>1. l \in Link /\ l[1] \in x.what /\ l[2] \in x.shares /\ x.op \in {"add", "create"}
      BY <1>1, <2>2 DEF TxOK, Shape, Txs
    <3>2. l[1] \in Startup /\ l[2] \in Founder
      BY <3>1 DEF Link
    <3>3. founder[l[2]] \in {"draft", "published"}
      BY <1>1, <3>1 DEF TxOK, Holds, Exists
    <3>4. x.op = "add" => startup[l[1]] = "there"
      BY <1>1, <3>1 DEF TxOK, Holds
    <3> QED
      BY <1>2, <3>1, <3>2, <3>3, <3>4 DEF Committed
  <2> QED
    BY <1>2, <2>1, <2>2 DEF Committed
<1> QED
  BY <1>2, <1>3, <1>4, <1>5, <1>6, <1>7, <1>8 DEF TypeOK

\* No other transaction loses what it holds or has read.
LEMMA CommitOthers ==
    ASSUME IInv, NEW t \in Tx, Finished(t), Committed(t), NEW u \in Tx \ {t}
    PROVE  TxOK(tx[u])'
<1> DEFINE x == tx[t]
           z == tx[u]
<1>1. /\ TxOK(x) /\ x \in Txs /\ TxOK(z) /\ z \in Txs
      /\ Apart(x, z) /\ Apart(z, x) /\ tx'[u] = z
  BY DEF IInv, TypeOK, AllApart, Committed
<1>2. \A f \in Founder : Exists(f) /\ f \in z.locks \cup z.shares => Exists(f)'
  BY <1>1 DEF TxOK, Shape, Apart, Committed, Exists, OnFounder
<1>3. \A s \in Startup : s \in z.locks => startup'[s] = startup[s]
  BY <1>1 DEF TxOK, Shape, Apart, Committed
<1>4. \A r \in Request : r \in z.locks => request'[r] = request[r]
  BY <1>1 DEF TxOK, Shape, Apart, Committed
<1>5. Recorded \subseteq Recorded'
  BY DEF Recorded, Committed
<1>6. (Shape(tx[u]) /\ Order(tx[u]) /\ Says(tx[u]))'
  BY <1>1 DEF TxOK, Shape, Order, Says
<1>10. Concerns(tx[u])'
  <2>1. ASSUME z.op = "erase", NEW r \in z.sees \cup z.clears
        PROVE  about'[r] \cap z.who # {}
    <3>1. r \in Request /\ about[r] \cap z.who # {} /\ r \in Recorded
      BY <1>1, <2>1 DEF TxOK, Concerns, Shape, Holds, Txs
    <3>2. r \notin x.clears
      BY <1>1, <2>1, <3>1 DEF TxOK, Concerns, Shape, Apart, OnFounder, IInv, AboutOne
    <3>3. ~(r \in x.what /\ x.op = "record")
      BY <1>1, <3>1 DEF TxOK, Holds, Recorded
    <3> QED
      BY <3>1, <3>2, <3>3 DEF Committed
  <2> QED
    BY <1>1, <2>1 DEF TxOK, Concerns
<1>7. z.cuts \subseteq links'
  BY <1>1 DEF TxOK, Holds, Apart, Committed
<1>8. Holds(tx[u])'
  <2>1. z.locks \subseteq z.who \cup z.what \cup Recorded' /\ z.sees \cup z.clears \subseteq Recorded'
    BY <1>1, <1>5 DEF TxOK, Holds
  <2>2. z.op \in OnFounder => \A f \in z.who : Exists(f)'
    BY <1>1, <1>2 DEF TxOK, Shape, Holds, Txs
  <2>3. \A f \in z.shares : Exists(f)'
    BY <1>1, <1>2 DEF TxOK, Holds, Txs
  <2>4. /\ z.op = "record" => \A r \in z.what : request'[r] = "none"
        /\ z.op = "resolve" => \A r \in z.what : request'[r] # "none"
    BY <1>1, <1>4 DEF TxOK, Shape, Holds
  <2>5. /\ z.op = "create" => \A s \in z.what : startup'[s] = "unused"
        /\ z.op \in {"add", "remove", "deleteStartup"} => \A s \in z.what : startup'[s] = "there"
    BY <1>1, <1>3 DEF TxOK, Shape, Holds, OnStartup
  <2> HIDE DEF z
  <2> QED
    BY <1>1, <1>7, <2>1, <2>2, <2>3, <2>4, <2>5 DEF Holds
<1>9. Erases(tx[u])'
  <2>1. z.op \in OnFounder => z.who \subseteq z.locks /\ z.who \in SUBSET Founder
    BY <1>1 DEF TxOK, Shape, Txs
  <2>2. ASSUME z.op \in {"erase", "deleteFounder"}, z.at >= 1, NEW l \in links', l[2] \in z.who
        PROVE  l \in z.goes \cup z.cuts
    <3>1. CASE l \in links
      BY <1>1, <2>2, <3>1 DEF TxOK, Erases, LinksOf
    <3>2. CASE l \in x.adds
      BY <1>1, <2>1, <2>2, <3>2 DEF TxOK, Shape, Apart, OnFounder
    <3> QED
      BY <3>1, <3>2 DEF Committed
  <2>3. ASSUME z.op = "deleteStartup", z.at >= 1, NEW l \in links', l[1] \in z.what
        PROVE  l \in z.goes \cup z.cuts
    <3>1. CASE l \in links
      BY <1>1, <2>3, <3>1 DEF TxOK, Erases
    <3>2. CASE l \in x.adds
      BY <1>1, <2>3, <3>2 DEF TxOK, Shape, Apart
    <3> QED
      BY <3>1, <3>2 DEF Committed
  <2>4. ASSUME z.op = "erase", NEW f \in z.who, NEW r \in Request, f \in about'[r]
        PROVE  f \in about[r] \/ r \notin known[f]
    BY <1>1, <2>1, <2>4 DEF Committed, TxOK, Shape, Holds, IInv, KnownRecorded, Recorded, OnFounder
  <2>5. ASSUME z.op = "erase", z.at >= 3, NEW f \in z.who, NEW row \in audit', f \in row.names
        PROVE  row \in audit \/ row.on \in Request \ known[f]
    <3>1. CASE row \in x.says
      <4>1. f \in z.locks
        BY <2>1, <2>5 DEF OnFounder
      <4>2. f \notin x.locks \cup x.shares
        BY <1>1, <4>1 DEF Apart
      <4>3. \A l \in x.cuts : l[2] # f
        <5>1. z.goes = {} /\ x.cuts \subseteq links /\ LinksOf(z.who) \subseteq z.goes \cup z.cuts
          BY <1>1, <2>5 DEF TxOK, Order, Holds, Erases, Txs
        <5> QED
          BY <1>1, <2>5, <5>1 DEF LinksOf, Apart
      <4> QED
        BY <2>5, <3>1, <4>2, <4>3, WhoNames
    <3> QED
      BY <3>1, <2>5 DEF Committed
  <2>6. known' = known /\ tx'[u] = z /\ Erases(z)
    BY <1>1 DEF Committed, TxOK
  <2> HIDE DEF x, z
  <2>7. z.op \in {"erase", "deleteFounder"} /\ z.at >= 1 
             => {l \in links' : l[2] \in z.who} \subseteq z.goes \cup z.cuts
    BY <2>2
  <2>8. z.op = "deleteStartup" /\ z.at >= 1 
             => {l \in links' : l[1] \in z.what} \subseteq z.goes \cup z.cuts
    BY <2>3
  <2>9. ASSUME z.op = "erase", NEW f \in z.who, z.at >= 2, NEW r \in Request, f \in about'[r]
        PROVE  r \in z.sees \cup z.clears \/ r \notin known[f]
    BY <2>4, <2>6, <2>9 DEF Erases
  <2>10. ASSUME z.op = "erase", NEW f \in z.who, z.at >= 3, NEW row \in audit', f \in row.names
         PROVE  row \in z.rows \cup z.scrubs \/ row.on \in Request \ known[f]
    <3>1. row \in audit \/ row.on \in Request \ known[f]
      BY <1>1, <2>5, <2>10 DEF z, Txs
    <3> QED
      BY <2>6, <2>10, <3>1 DEF Erases, Naming
  <2>11. z.at \in Nat
    BY <1>1 DEF Txs
  <2> QED
    BY <2>6, <2>7, <2>8, <2>9, <2>10, <2>11 DEF Erases, LinksOf, Naming
<1> QED
  BY <1>6, <1>8, <1>9, <1>10 DEF TxOK

LEMMA CommitLeavesNoTrace ==
    ASSUME IInv, NEW t \in Tx, Finished(t), Committed(t)
    PROVE  NoTraceLeft'
<1> DEFINE x == tx[t]
<1>1. TxOK(x) /\ x \in Txs
  BY DEF IInv, TypeOK
<1>2. ASSUME NEW f \in Founder, x.op = "erase", f \in x.who
      PROVE  /\ founder'[f] = "erased" /\ proofs'[f] = 1
             /\ \A l \in links' : l[2] # f
             /\ \A row \in audit' : f \in row.names => row.on \in Request \ known'[f]
             /\ \A r \in Request : f \in about'[r] => r \notin known'[f]
  <2>1. /\ Exists(f) /\ x.at = 3 /\ x.adds = {} /\ x.says = {}
        /\ x.goes = {} /\ x.sees = {} /\ x.rows = {}
    BY <1>1, <1>2 DEF TxOK, Shape, Order, Says, Holds, Finished, OnFounder
  <2>2. founder'[f] = "erased" /\ proofs'[f] = 1
    BY <1>2, <2>1 DEF Committed, FounderAfter, IInv, NoTraceLeft, Exists
  <2>3. \A l \in links' : l[2] # f
    BY <1>1, <1>2, <2>1 DEF Committed, TxOK, Erases, LinksOf
  <2>4. \A row \in audit' : f \in row.names => row.on \in Request \ known'[f]
    BY <1>1, <1>2, <2>1 DEF Committed, TxOK, Erases, Naming
  <2>5. \A r \in Request : f \in about'[r] => r \notin known'[f]
    BY <1>1, <1>2, <2>1 DEF Committed, TxOK, Erases
  <2> QED
    BY <2>2, <2>3, <2>4, <2>5
<1>3. ASSUME NEW f \in Founder, ~(x.op = "erase" /\ f \in x.who), founder'[f] = "erased"
      PROVE  /\ founder[f] = "erased" /\ proofs'[f] = proofs[f]
             /\ \A l \in links' : l[2] # f
             /\ \A row \in audit' : f \in row.names => row.on \in Request \ known'[f]
             /\ \A r \in Request : f \in about'[r] => r \notin known'[f]
  <2>1. founder[f] = "erased" /\ proofs'[f] = proofs[f]
    BY <1>3 DEF Committed, FounderAfter
  <2>2. /\ f \notin x.shares /\ ~(x.op \in OnFounder /\ f \in x.who)
        /\ \A l \in x.cuts : l[2] # f
    BY <1>1, <2>1 DEF TxOK, Holds, Exists, IInv, NoTraceLeft
  <2>3. \A l \in links' : l[2] # f
    BY <1>1, <2>1, <2>2 DEF Committed, TxOK, Shape, IInv, NoTraceLeft
  <2>4. \A row \in audit' : f \in row.names => row.on \in Request \ known'[f]
    BY <2>1, <2>2, WhoNames DEF Committed, IInv, NoTraceLeft, Naming
  <2>5. \A r \in Request : f \in about'[r] => r \notin known'[f]
    BY <1>1, <2>1 DEF Committed, TxOK, Holds, IInv, NoTraceLeft, KnownRecorded, Recorded
  <2> QED
    BY <2>1, <2>3, <2>4, <2>5
<1>4. ASSUME NEW f \in Founder, founder'[f] # "erased" PROVE proofs'[f] = 0
  <2>1. ~(x.op = "erase" /\ f \in x.who)
    BY <1>2, <1>4
  <2>2. founder[f] # "erased"
    BY <1>1, <1>4, <2>1 DEF Committed, TxOK, Holds, Exists, OnFounder
  <2> QED
    BY <2>1, <2>2 DEF Committed, IInv, NoTraceLeft
<1> QED
  BY <1>2, <1>3, <1>4 DEF NoTraceLeft, Naming, IInv

LEMMA CommitStep ==
    ASSUME IInv, NEW t \in Tx, Commit(t)
    PROVE  IInv'
<1>1. Finished(t) /\ TypeOK' /\ Committed(t)
  BY CommitType DEF Commit
<1>2. tx'[t] = Idle /\ \A u \in Tx \ {t} : tx'[u] = tx[u]
  BY <1>1 DEF Committed, IInv, TypeOK
<1>3. TxOK(tx[t])'
  BY <1>2 DEF TxOK, Shape, Order, Concerns, Says, Holds, Erases, Idle, OnFounder, OnStartup, Deleting
<1>4. \A u \in Tx : TxOK(tx[u])'
  BY <1>1, <1>3, CommitOthers
<1>5. AllApart'
  BY <1>2 DEF IInv, AllApart, Apart, Idle
<1>6. KnownRecorded'
  BY <1>1 DEF IInv, KnownRecorded, Recorded, Committed
<1>7. AboutOne'
  BY <1>1 DEF IInv, AboutOne, TxOK, Concerns, Committed
<1> QED
  BY <1>1, <1>4, <1>5, <1>6, <1>7, CommitLeavesNoTrace DEF IInv

-----------------------------------------------------------------------------
(* The theorems *)

LEMMA NextIInv ==
    ASSUME IInv, [Next]_vars
    PROVE  IInv'
<1>1. CASE UNCHANGED vars
  BY <1>1 DEF vars, db, IInv, TypeOK, Link, TxOK, Shape, Order, Concerns, Says, Holds, Erases,
              Exists, Recorded, LinksOf, Naming, AllApart, Apart, KnownRecorded, AboutOne, NoTraceLeft
<1>2. CASE \E f \in Founder : CreateFounder(f)
  BY <1>2, CreateFounderStep
<1>3. ASSUME NEW t \in Tx, Start(t) \/ Rollback(t) PROVE IInv'
  BY <1>3, StartStep, AbortStep DEF Rollback
<1>4. ASSUME NEW t \in Tx, Step(t) PROVE IInv'
  <2>1. CASE Edit(t)
    BY <2>1, EditStep
  <2>2. CASE DeleteFounder(t) \/ DeleteStartup(t) \/ EraseRow(t) \/ RemoveLink(t)
    BY <2>2, DeletingSteps
  <2>3. CASE InsertLink(t)
    BY <2>3, InsertLinkStep
  <2>4. CASE LookForRequests(t)
    BY <2>4, LookForRequestsStep
  <2>5. CASE ClearRequest(t)
    BY <2>5, ClearRequestStep
  <2>6. CASE LookForRows(t)
    BY <2>6, LookForRowsStep
  <2>7. CASE ScrubRow(t)
    BY <2>7, ScrubRowStep
  <2>8. CASE Commit(t)
    BY <2>8, CommitStep
  <2>9. CASE CutLink(t)
    BY <2>9, CutLinkStep
  <2> QED
    BY <1>4, <2>1, <2>2, <2>3, <2>4, <2>5, <2>6, <2>7, <2>8, <2>9 DEF Step
<1> QED
  BY <1>1, <1>2, <1>3, <1>4 DEF Next

LEMMA IInvAlways == Spec => []IInv
<1>1. Init => IInv
  BY InitIInv
<1>2. IInv /\ [Next]_vars => IInv'
  BY NextIInv
<1> QED
  BY <1>1, <1>2, PTL DEF Spec

\* Every value keeps its type; in particular a link's founder and startup are there, published
\* or draft, whatever is deleted or erased beside the writes that link them.
THEOREM TypeCorrect == Spec => []TypeOK
<1>1. IInv => TypeOK
  BY DEF IInv
<1> QED
  BY <1>1, IInvAlways, PTL

\* FR-410 for any number of founders and transactions: once eraseFounder has committed, one proof
\* of it is kept and no link, audit row or privacy request on record at the time names the founder.
THEOREM ErasureLeavesNoTrace == Spec => []NoTraceLeft
<1>1. IInv => NoTraceLeft
  BY DEF IInv
<1> QED
  BY <1>1, IInvAlways, PTL

\* What carries FR-410: two transactions never hold the same row, nor delete the same link, and a
\* founder whose key a link shares is there until the link commits.
THEOREM LocksKeepApart == Spec => [](AllApart /\ \A t \in Tx : Holds(tx[t]))
<1>1. IInv => AllApart /\ \A t \in Tx : Holds(tx[t])
  BY DEF IInv, TxOK
<1> QED
  BY <1>1, IInvAlways, PTL

-----------------------------------------------------------------------------
(* Who waits for whom *)

\* Whoever is waited for and waits itself: its rows say at which statement it is.
LEMMA WaitingForRows ==
    ASSUME IInv, NEW t \in Tx, NEW u \in Tx, WaitsFor(t, u), tx[t].scrubs # {}
    PROVE  tx[t].rows # {} /\ tx[u].scrubs # {}
<1>1. TxOK(tx[t]) /\ tx[t].op = "erase" /\ tx[t].at = 3 /\ tx[t].goes = {} /\ tx[t].sees = {}
  BY DEF IInv, TxOK, Shape, Order
<1> QED
  BY <1>1 DEF WaitsFor

\* A request that is waited for is held by whoever resolves it, and they wait for nobody.
LEMMA NobodyClosesAtARequest ==
    ASSUME IInv, NEW t \in Tx, NEW u \in Tx, t # u, tx[t].sees \cap tx[u].locks # {}, NEW v \in Tx,
           WaitsFor(u, v)
    PROVE  FALSE
<1> DEFINE x == tx[t]
           y == tx[u]
<1>1. /\ TxOK(x) /\ TxOK(y) /\ x \in Txs /\ y \in Txs /\ Apart(x, y)
  BY DEF IInv, TypeOK, AllApart
<1>2. PICK r \in x.sees : r \in y.locks
  OBVIOUS
<1>3. x.op = "erase" /\ r \in Recorded /\ r \in Request /\ about[r] \cap x.who # {} /\ x.who \subseteq x.locks
  BY <1>1, <1>2 DEF TxOK, Shape, Holds, Concerns, Recorded, OnFounder
<1>4. r \notin Founder /\ r \notin Startup
  BY <1>3, DistinctIds
<1>5. CASE r \in y.clears
  <2>1. y.op = "erase" /\ about[r] \cap y.who # {} /\ y.who \subseteq y.locks
    BY <1>1, <1>5 DEF TxOK, Shape, Concerns, OnFounder
  <2> QED
    BY <1>1, <1>3, <2>1 DEF Apart, IInv, AboutOne
<1>6. CASE r \notin y.clears
  <2>1. r \in y.what
    BY <1>1, <1>2, <1>4, <1>6 DEF TxOK, Shape, Txs
  <2>2. y.op \in {"record", "resolve"}
    BY <1>1, <1>4, <2>1 DEF TxOK, Shape, Idle, Txs, Op, OnFounder, OnStartup
  <2>3. y.goes = {} /\ y.sees = {} /\ y.rows = {}
    BY <1>1, <2>2 DEF TxOK, Shape, Deleting
  <2> QED
    BY <2>2, <2>3 DEF WaitsFor
<1> QED
  BY <1>5, <1>6

\* A link that is waited for is being deleted; if its deletion waits too, it waits for a link of
\* the other kind of deletion, or for an audit row.
LEMMA WaitingForLinks ==
    ASSUME IInv, NEW t \in Tx, NEW u \in Tx, t # u, tx[t].goes \cap tx[u].cuts # {}
    PROVE  /\ ~({tx[t].op, tx[u].op} \subseteq {"erase", "deleteFounder"})
           /\ ~({tx[t].op, tx[u].op} \subseteq {"deleteStartup", "remove"})
           /\ {tx[t].op, tx[u].op} \subseteq Deleting
<1> DEFINE x == tx[t]
           y == tx[u]
<1>1. TxOK(x) /\ TxOK(y) /\ Apart(x, y)
  BY DEF IInv, AllApart
<1>2. PICK l \in x.goes : l \in y.cuts
  OBVIOUS
<1>3. x.op \in Deleting /\ y.op \in Deleting
  BY <1>1, <1>2 DEF TxOK, Shape
<1>4. ~(x.op \in {"erase", "deleteFounder"} /\ y.op \in {"erase", "deleteFounder"})
  BY <1>1, <1>2 DEF TxOK, Shape, Concerns, Apart, OnFounder
<1>5. ~(x.op \in {"deleteStartup", "remove"} /\ y.op \in {"deleteStartup", "remove"})
  BY <1>1, <1>2 DEF TxOK, Shape, Concerns, Apart
<1> QED
  BY <1>3, <1>4, <1>5

LEMMA KnownDeadlocks ==
    ASSUME IInv, NEW D \in SUBSET Tx, Deadlocked(D)
    PROVE  \E t, u \in D : BothCutting(t, u) \/ BothScrubbing(t, u)
<1> DEFINE goal == \E t, u \in D : BothCutting(t, u) \/ BothScrubbing(t, u)
<1>1. \A t \in D : \E u \in D \ {t} : WaitsFor(t, u)
  BY DEF Deadlocked
<1>2. ASSUME NEW t \in D, tx[t].scrubs # {} PROVE goal
  <2>1. PICK u \in D \ {t} : WaitsFor(t, u)
    BY <1>1
  <2>2. tx[t].rows # {} /\ tx[u].scrubs # {}
    BY <1>2, <2>1, WaitingForRows
  <2>3. tx[u].rows # {}
    BY <1>1, <2>2, WaitingForRows
  <2> QED
    BY <1>2, <2>2, <2>3 DEF BothScrubbing
<1>3. ASSUME NEW t \in D, NEW u \in D \ {t}, tx[t].goes \cap tx[u].cuts # {} PROVE goal
  <2>1. PICK v \in D \ {u} : WaitsFor(u, v)
    BY <1>1
  <2>2. CASE tx[u].rows \cap tx[v].scrubs # {}
    BY <1>2, <2>2
  <2>3. CASE tx[u].sees \cap tx[v].locks # {}
    BY <1>1, <2>3, NobodyClosesAtARequest
  <2>4. tx[u].op \in Deleting
    BY <1>3, WaitingForLinks
  <2>5. CASE tx[u].goes \cap tx[v].cuts # {}
    <3>1. PICK w \in D \ {v} : WaitsFor(v, w)
      BY <1>1
    <3>2. CASE tx[v].goes # {}
      <4>1. tx[u].cuts # {} /\ tx[u].goes # {} /\ tx[v].cuts # {} /\ tx[v].goes # {}
        BY <1>3, <2>5, <3>2
      <4>2. tx[u].op # "remove" /\ tx[v].op # "remove"
        BY <4>1 DEF IInv, TxOK, Concerns
      <4>3. BothCutting(u, v) \/ BothCutting(v, u)
        BY <2>5, <4>1, <4>2, WaitingForLinks DEF BothCutting, Deleting
      <4> QED
        BY <4>3
    <3>3. CASE tx[v].goes = {}
      <4>1. tx[v].op \in Deleting
        BY <2>5, WaitingForLinks
      <4>2. tx[v].sees \cap tx[w].locks # {} \/ tx[v].rows \cap tx[w].scrubs # {}
        BY <3>1, <3>3, <4>1 DEF WaitsFor, Deleting
      <4> QED
        BY <1>1, <1>2, <4>2, NobodyClosesAtARequest
    <3> QED
      BY <3>2, <3>3
  <2> QED
    BY <2>1, <2>2, <2>3, <2>4, <2>5 DEF WaitsFor, Deleting
<1>4. ASSUME NEW t \in D, NEW u \in D \ {t}, tx[t].op \in {"add", "create"},
             (tx[t].who \ Linked(t)) \cap tx[u].locks # {}
      PROVE  goal
  <2>1. PICK f \in Founder : f \in tx[u].locks
    BY <1>4 DEF IInv, TypeOK, Txs
  <2>2. tx[u].op \notin {"add", "create"}
    BY <2>1, DistinctIds DEF IInv, TxOK, Shape, OnFounder, OnStartup
  <2>3. PICK v \in D \ {u} : WaitsFor(u, v)
    BY <1>1
  <2> QED
    BY <1>1, <1>2, <1>3, <2>2, <2>3, NobodyClosesAtARequest DEF WaitsFor
<1>5. PICK t \in D : TRUE
  BY DEF Deadlocked
<1>6. PICK u \in D \ {t} : WaitsFor(t, u)
  BY <1>1
<1> QED
  BY <1>1, <1>2, <1>3, <1>4, <1>6, NobodyClosesAtARequest DEF WaitsFor

\* For any number of transactions, founders and links: the only transactions that can all wait for
\* one another are deletions that cascade over the same links from both sides, or two erasures that
\* scrub the same audit rows, with whoever waits for those.
THEOREM DeadlocksAreKnown == Spec => []OnlyDeletesDeadlock
<1>1. IInv => OnlyDeletesDeadlock
  BY KnownDeadlocks DEF OnlyDeletesDeadlock
<1> QED
  BY <1>1, IInvAlways, PTL
=============================================================================
