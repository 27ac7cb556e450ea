-------------------------- MODULE ImportJobsProofs --------------------------
(***************************************************************************)
(* Why an import does what was reviewed, once, for any number of jobs,     *)
(* rows, requests and edits beside it.                                     *)
(*                                                                         *)
(* A transaction past its comparison has seen everything its plan is about *)
(* as the plan has it, but for what others committed since (Seen); each    *)
(* row of the plan is applied or still to apply (Rows); what it changed or *)
(* made is locked, so nobody else changes or makes it (Holds).             *)
(*                                                                         *)
(* Then the panel's other tools (AdminTools).  Screens: what a run has     *)
(* still to do and what it has done or named make up what it was asked     *)
(* (Running), and a report is of a job there is (Importing).  Forms: what  *)
(* nobody touched is as the page had it (Untouched).  The prefill: each    *)
(* image has tried the candidates before the one it is at (Candidates),    *)
(* and what it spent is bounded by how far it is (Spent).                  *)
(***************************************************************************)
EXTENDS AdminTools, FiniteSetTheorems, TLAPS

Running(x) == x.pc \notin {"idle", "asked", "expiring"}
Past(x) == Running(x) /\ x.pc # "locked"

Listed(j, e) == \E i \in 1 .. Len(plan[j]) : plan[j][i] = e

\* The job a request is about has been reviewed, and is only committed once.
Asked(x) ==
    /\ x.pc # "idle" => x.job \in Job /\ status[x.job] # "none"
    /\ Running(x) => status[x.job] = "dry_run"
    /\ ~Past(x) => x.todo = <<>> /\ x.holds = {} /\ x.made = NoWrites /\ x.named = {}

\* Rows it changed are there, startups it inserted have an id nobody used.
Holds(x) ==
    /\ \A r \in x.holds : slug[r] # NoSlug /\ \E e : Listed(x.job, e) /\ e.action = "update" /\ e.target = r
    /\ \A r \in Record : x.made[r] # NoSlug => by[r] = "nobody"

\* The plan's row e has been applied, or others made that impossible since the comparison.
Handled(x, news, e) ==
    /\ e.action = "update" => e.target \in x.holds \/ slug[e.target] = NoSlug
    /\ e.action = "create" => (\E r \in Record : x.made[r] = e.slug) \/ e.slug \in news \cup kept

Left(x, e) == \E k \in 1 .. Len(x.todo) : x.todo[k] = e
Rows(x, news) == Past(x) =>
    /\ \A e : Left(x, e) => Listed(x.job, e)
    /\ \A e : Listed(x.job, e) => Handled(x, news, e) \/ Left(x, e)

\* The row being applied, and what it has claimed: the slug or the founder that the plan had in
\* mind, or another one because that was taken.
Claims(x, news) == Past(x) =>
    /\ x.pc \in {"claimed", "born", "naming"} => x.todo # <<>> /\ Head(x.todo).action = "create"
    /\ x.pc = "claimed" =>
        \A s \in x.claim : s \in Slug /\ (s = Head(x.todo).slug \/ Handled(x, news, Head(x.todo)))
    /\ x.pc \in {"born", "naming"} => Handled(x, news, Head(x.todo)) /\ Head(x.todo).person \in Name
    /\ x.pc = "naming" => \A k \in x.claim : k \in Key /\ (k[2] = 2 => k[1] \in news)
    /\ \A k \in x.named : k[2] = 2 => k[1] \in news

\* What the comparison found, but for what others committed since.
Fresh(news, e) ==
    /\ e.action = "update" => e.target \in news \/ (stamp[e.target] = e.stamp /\ slug[e.target] # NoSlug)
    /\ e.action = "create" => e.slug \in news \/ Having(e.slug) = {}
Found(x, news, k) == k[1] \in news \/ \E known \in x.saw : known[1] = k[1]
Seen(x, news) == Past(x) =>
    /\ \A e : Listed(x.job, e) => Fresh(news, e)
    /\ \A k \in people : (\E e : Listed(x.job, e) /\ e.person = k[1]) => Found(x, news, k)

TxOK(x, news) == Asked(x) /\ Holds(x) /\ Rows(x, news) /\ Claims(x, news) /\ Seen(x, news)

\* Two transactions are not about one job, and make no startup of one id.
Apart(x, y) ==
    /\ Running(x) /\ Running(y) => x.job # y.job
    /\ \A r \in Record : x.made[r] = NoSlug \/ y.made[r] = NoSlug

\* A plan changes records that were there; what was never used has no slug.
PlansOK == \A j \in Job : \A e : Listed(j, e) /\ e.action = "update" =>
    e.target \in Record /\ by[e.target] # "nobody"
UnusedOK == \A r \in Record : by[r] = "nobody" => slug[r] = NoSlug
DoneOK == \A j \in done : status[j] \in {"committed", "expired"}

IInv ==
    /\ TypeOK
    /\ \A q \in Request : TxOK(tx[q], since[q])
    /\ \A p, q \in Request : p # q => Apart(tx[p], tx[q])
    /\ PlansOK /\ UnusedOK /\ DoneOK

LEMMA Nulls ==
    /\ NoSlug \notin Slug /\ NoName \notin Name /\ NoRecord \notin Record /\ NoJob \notin Job
    /\ "editor" \notin Job /\ "nobody" \notin Job
  BY NullsAssumption, FilesAssumption

LEMMA IdleOK == Idle \in Txs /\ (\A news : TxOK(Idle, news)) /\ \A x \in Txs : Apart(Idle, x) /\ Apart(x, Idle)
<1>1. NoWrites \in [Record -> Slug \cup {NoSlug}] /\ \A r \in Record : NoWrites[r] = NoSlug
  BY DEF NoWrites
<1>2. <<>> \in Seq(Entries)
  OBVIOUS
<1> HIDE DEF NoWrites
<1>3. Idle \in Txs
  BY <1>1, <1>2 DEF Idle, Txs, PC
<1>4. \A news : TxOK(Idle, news)
  BY <1>1 DEF Idle, TxOK, Asked, Holds, Rows, Claims, Seen, Running, Past
<1>5. \A x \in Txs : Apart(Idle, x) /\ Apart(x, Idle)
  BY <1>1 DEF Idle, Apart, Running
<1> QED
  BY <1>3, <1>4, <1>5

LEMMA InitIInv == Init => IInv
<1> SUFFICES ASSUME Init PROVE IInv
  OBVIOUS
<1>1. TypeOK
  <2>1. slug \in [Record -> Slug \cup {NoSlug}] /\ by \in [Record -> Writers] /\ stamp \in [Record -> Nat]
    BY FilesAssumption DEF Init, Writers
  <2>2. tx \in [Request -> Txs] /\ \A q \in Request : tx[q] = Idle
    BY IdleOK DEF Init
  <2>3. plan \in [Job -> Seq(Entries)] /\ status \in [Job -> Status]
    BY DEF Init, Status
  <2>4. /\ kept \subseteq Slug /\ people \subseteq Key /\ late \subseteq Job /\ edits \in 0 .. MaxEdits
        /\ since \in [Request -> SUBSET (Record \cup Slug \cup Name)] /\ done \subseteq Job
    BY FilesAssumption DEF Init
  <2> QED
    BY <2>1, <2>2, <2>3, <2>4 DEF TypeOK
<1>2. \A q \in Request : TxOK(tx[q], since[q])
  BY IdleOK DEF Init
<1>3. \A p, q \in Request : p # q => Apart(tx[p], tx[q])
  BY IdleOK DEF Init
<1>4. PlansOK /\ UnusedOK /\ DoneOK
  BY DEF Init, PlansOK, Listed, UnusedOK, DoneOK
<1> QED
  BY <1>1, <1>2, <1>3, <1>4 DEF IInv
-----------------------------------------------------------------------------
(* Steps of one request that leave the catalogue alone *)

\* What is known of a running request, in one place.
LEMMA Facts ==
  ASSUME IInv, NEW q \in Request
  PROVE /\ tx[q] \in Txs /\ since[q] \in SUBSET (Record \cup Slug \cup Name)
        /\ TxOK(tx[q], since[q])
        /\ Past(tx[q]) => tx[q].job \in Job
        /\ tx[q].pc = "idle" => tx[q] = Idle
        /\ \A p \in Request \ {q} : Apart(tx[q], tx[p]) /\ Apart(tx[p], tx[q])
<1>1. /\ tx[q] \in Txs /\ since[q] \in SUBSET (Record \cup Slug \cup Name)
      /\ tx[q].pc = "idle" => tx[q] = Idle
  BY DEF IInv, TypeOK
<1>2. TxOK(tx[q], since[q]) /\ \A p \in Request \ {q} : Apart(tx[q], tx[p]) /\ Apart(tx[p], tx[q])
  BY DEF IInv
<1>3. Past(tx[q]) => tx[q].job \in Job
  BY <1>2 DEF TxOK, Asked, Past, Running
<1> QED
  BY <1>1, <1>2, <1>3

LEMMA LocalStep ==
  ASSUME IInv, NEW q \in Request, NEW y \in Txs, tx' = [tx EXCEPT ![q] = y],
         UNCHANGED <<catalogue, jobs, edits, done>>,
         since' \in [Request -> SUBSET (Record \cup Slug \cup Name)],
         \A p \in Request \ {q} : since'[p] = since[p],
         y.pc = "idle" => y = Idle, TxOK(y, since'[q]),
         \A p \in Request \ {q} : Apart(y, tx[p])
  PROVE  IInv'
<1>0. tx'[q] = y /\ \A p \in Request \ {q} : tx'[p] = tx[p]
  BY DEF IInv, TypeOK
<1>1. TypeOK'
  <2>1. tx' \in [Request -> Txs] /\ \A p \in Request : tx'[p].pc = "idle" => tx'[p] = Idle
    BY <1>0 DEF IInv, TypeOK
  <2> QED
    BY <2>1 DEF IInv, TypeOK, catalogue, jobs
<1>2. ASSUME NEW p \in Request PROVE TxOK(tx[p], since[p])'
  <2>0. TxOK(tx'[p], since'[p])
    <3>1. CASE p = q
      BY <3>1, <1>0
    <3>2. CASE p # q
      BY <3>2, <1>0 DEF IInv
    <3> QED
      BY <3>1, <3>2
  <2>1. Asked(tx[p])'
    BY <2>0 DEF TxOK, Asked, jobs
  <2>2. Holds(tx[p])'
    BY <2>0 DEF TxOK, Holds, Listed, jobs, catalogue
  <2>3. Rows(tx[p], since[p])'
    BY <2>0 DEF TxOK, Rows, Listed, Left, Handled, jobs, catalogue
  <2>4. Claims(tx[p], since[p])'
    BY <2>0 DEF TxOK, Claims, Handled, jobs, catalogue
  <2>5. Seen(tx[p], since[p])'
    BY <2>0 DEF TxOK, Seen, Listed, Fresh, Found, Having, jobs, catalogue
  <2> QED
    BY <2>1, <2>2, <2>3, <2>4, <2>5 DEF TxOK
<1>3. ASSUME NEW p \in Request, NEW r \in Request, p # r PROVE Apart(tx[p], tx[r])'
  <2>1. \A a \in Request : q # a => Apart(tx'[q], tx'[a]) /\ Apart(tx'[a], tx'[q])
    BY <1>0 DEF Apart
  <2>2. CASE p = q \/ r = q
    BY <1>3, <2>1, <2>2 DEF Apart
  <2>3. CASE p # q /\ r # q
    BY <1>0, <1>3, <2>3 DEF IInv, Apart
  <2> QED
    BY <2>2, <2>3
<1>4. (PlansOK /\ UnusedOK /\ DoneOK)'
  BY DEF IInv, PlansOK, UnusedOK, DoneOK, Listed, catalogue, jobs
<1> QED
  BY <1>1, <1>2, <1>3, <1>4 DEF IInv

LEMMA ToIdle ==
  ASSUME IInv, NEW q \in Request, tx' = [tx EXCEPT ![q] = Idle],
         UNCHANGED <<catalogue, jobs, edits, done>>,
         since' = since \/ since' = [since EXCEPT ![q] = {}]
  PROVE  IInv'
<1>1. /\ since' \in [Request -> SUBSET (Record \cup Slug \cup Name)]
      /\ \A p \in Request \ {q} : since'[p] = since[p]
  BY DEF IInv, TypeOK
<1>2. \A p \in Request \ {q} : Apart(Idle, tx[p])
  BY IdleOK, Facts
<1> QED
  BY <1>1, <1>2, IdleOK, LocalStep

\* The rows left after the first.
LEMMA TailRows ==
  ASSUME NEW s \in Seq(Entries), s # <<>>
  PROVE /\ Len(s) \in Nat \ {0} /\ Head(s) = s[1] /\ Head(s) \in Entries
        /\ Tail(s) \in Seq(Entries) /\ Len(Tail(s)) = Len(s) - 1
        /\ \A k \in 1 .. (Len(s) - 1) : Tail(s)[k] = s[k + 1]
<1> QED
  OBVIOUS

\* A transaction that has not compared yet holds nothing.
LEMMA Waiting ==
  ASSUME NEW y \in Txs, NEW news, ~Past(y), Asked(y)
  PROVE  TxOK(y, news)
<1>1. Holds(y)
  BY DEF Holds, Asked, NoWrites
<1> QED
  BY <1>1 DEF TxOK, Rows, Claims, Seen

LEMMA AskIInv ==
  ASSUME IInv, NEW q \in Request, NEW j \in Job, Ask(q, j)
  PROVE  IInv'
<1> DEFINE pc == IF status[j] = "dry_run" /\ j \in late THEN "expiring" ELSE "asked"
           y == [tx[q] EXCEPT !.job = j, !.pc = pc]
<1>0. tx[q] = Idle /\ tx[q] \in Txs
  BY Facts DEF Ask
<1>1. y \in Txs /\ pc \in {"expiring", "asked"}
  BY <1>0 DEF Txs, PC
<1>2. y.job = j /\ y.pc = pc /\ y.todo = <<>> /\ y.holds = {} /\ y.made = NoWrites /\ y.named = {}
  BY <1>0 DEF Idle
<1>3. tx' = [tx EXCEPT ![q] = y]
  BY <1>0 DEF Ask, IInv, TypeOK, Txs
<1> HIDE DEF y, pc
<1>4. Asked(y) /\ ~Past(y) /\ ~Running(y)
  BY <1>1, <1>2 DEF Ask, Asked, Past, Running
<1>5. TxOK(y, since[q])
  BY <1>1, <1>4, Waiting
<1>6. \A p \in Request : Apart(y, tx[p])
  BY <1>2, <1>4 DEF Apart, NoWrites
<1>7. UNCHANGED <<catalogue, jobs, edits, done, since>>
  BY DEF Ask
<1>8. since' \in [Request -> SUBSET (Record \cup Slug \cup Name)]
  BY <1>7 DEF IInv, TypeOK
<1> QED
  BY <1>1, <1>2, <1>3, <1>5, <1>6, <1>7, <1>8, LocalStep

LEMMA BeginIInv ==
  ASSUME IInv, NEW q \in Request, Begin(q)
  PROVE  IInv'
<1>0. /\ tx[q] \in Txs /\ tx[q].pc = "asked" /\ JobFree(tx[q].job) /\ TxOK(tx[q], since[q])
      /\ UNCHANGED <<catalogue, jobs, edits, done, since>>
  BY Facts DEF Begin
<1>1. CASE ~Committable(tx[q].job)
  <2>1. tx' = [tx EXCEPT ![q] = Idle]
    BY <1>1 DEF Begin, IInv, TypeOK
  <2> QED
    BY <1>0, <2>1, ToIdle
<1>2. CASE Committable(tx[q].job)
  <2> DEFINE y == [tx[q] EXCEPT !.pc = "locked"]
  <2>1. y \in Txs
    BY <1>0 DEF Txs, PC
  <2>2. /\ y.job = tx[q].job /\ y.pc = "locked" /\ y.todo = tx[q].todo /\ y.holds = tx[q].holds
        /\ y.made = tx[q].made /\ y.named = tx[q].named
    BY <1>0 DEF Txs
  <2>3. tx' = [tx EXCEPT ![q] = y]
    BY <1>2 DEF Begin, IInv, TypeOK
  <2> HIDE DEF y
  <2>4. Asked(y) /\ ~Past(y) /\ y.made = NoWrites
    BY <1>0, <1>2, <2>2 DEF TxOK, Asked, Past, Running, Committable
  <2>5. TxOK(y, since[q])
    BY <2>1, <2>4, Waiting
  <2>6. \A p \in Request \ {q} : Apart(y, tx[p])
    BY <1>0, <2>2, <2>4 DEF JobFree, Apart, Running, NoWrites
  <2>7. since' \in [Request -> SUBSET (Record \cup Slug \cup Name)]
    BY <1>0 DEF IInv, TypeOK
  <2> QED
    BY <1>0, <2>1, <2>2, <2>3, <2>5, <2>6, <2>7, LocalStep
<1> QED
  BY <1>1, <1>2

LEMMA RollbackIInv ==
  ASSUME IInv, NEW q \in Request, Rollback(q)
  PROVE  IInv'
BY ToIdle DEF Rollback

\* Nothing in the plan is stale: what it says of the catalogue is so.
LEMMA ComparedIsFresh ==
  ASSUME IInv, NEW j \in Job, ~Stale(j), NEW e, Listed(j, e)
  PROVE  Fresh({}, e)
<1>1. ~StaleEntry(e)
  BY DEF Listed, Stale
<1>2. e.action = "update" => e.target \in Record /\ stamp[e.target] = e.stamp /\ Having(e.slug) = {e.target}
  BY <1>1 DEF StaleEntry, IInv, PlansOK
<1>3. e \in Entries
  BY DEF Listed, IInv, TypeOK
<1>4. e.action = "update" => slug[e.target] = e.slug /\ e.slug # NoSlug
  BY <1>2, <1>3, Nulls DEF Having, Entries
<1> QED
  BY <1>1, <1>2, <1>4 DEF Fresh, StaleEntry

LEMMA CheckIInv ==
  ASSUME IInv, NEW q \in Request, Check(q)
  PROVE  IInv'
<1> DEFINE j == tx[q].job
           names == {plan[j][i].person : i \in 1 .. Len(plan[j])}
<1>0. /\ tx[q] \in Txs /\ TxOK(tx[q], since[q]) /\ tx[q].pc = "locked"
      /\ UNCHANGED <<catalogue, jobs, edits, done>> /\ since' = [since EXCEPT ![q] = {}]
      /\ \A p \in Request \ {q} : Apart(tx[q], tx[p])
  BY Facts DEF Check
<1>1. CASE Stale(j)
  <2>1. tx' = [tx EXCEPT ![q] = Idle]
    BY <1>1 DEF Check
  <2> QED
    BY <1>0, <2>1, ToIdle
<1>2. CASE ~Stale(j)
  <2>1. PICK found \in Lookups(names) :
            tx' = [tx EXCEPT ![q].pc = "applying", ![q].todo = plan[j], ![q].saw = found]
    BY <1>2 DEF Check
  <2> DEFINE y == [tx[q] EXCEPT !.pc = "applying", !.todo = plan[j], !.saw = found]
  <2>2. /\ found \subseteq Key /\ {k[1] : k \in found} = {k[1] : k \in people} \cap names
    BY <2>1 DEF Lookups, IInv, TypeOK
  <2>3. j \in Job /\ status[j] = "dry_run" /\ tx[q].holds = {} /\ tx[q].made = NoWrites /\ tx[q].named = {}
    BY <1>0 DEF TxOK, Asked, Running, Past
  <2>4. plan[j] \in Seq(Entries)
    BY <2>3 DEF IInv, TypeOK
  <2>5. y \in Txs
    BY <1>0, <2>2, <2>4 DEF Txs, PC
  <2>6. /\ y.job = j /\ y.pc = "applying" /\ y.todo = plan[j] /\ y.saw = found /\ y.holds = {}
        /\ y.made = NoWrites /\ y.named = {}
    BY <1>0, <2>3 DEF Txs
  <2>7. tx' = [tx EXCEPT ![q] = y]
    BY <2>1 DEF IInv, TypeOK
  <2> HIDE DEF y, j
  <2>8. Past(y) /\ Running(y)
    BY <2>6 DEF Past, Running
  <2>9. Asked(y) /\ Holds(y)
    BY <2>3, <2>6, <2>8 DEF Asked, Holds, NoWrites
  <2>10. Rows(y, {})
    BY <2>6 DEF Rows, Listed, Left
  <2>11. Claims(y, {})
    BY <2>6 DEF Claims
  <2>12. Seen(y, {})
    <3>1. \A e : Listed(j, e) => Fresh({}, e)
      BY <1>2, <2>3, ComparedIsFresh
    <3>2. ASSUME NEW k \in people, NEW e, Listed(j, e), e.person = k[1] PROVE Found(y, {}, k)
      <4>1. k[1] \in names
        BY <3>2 DEF Listed
      <4>2. k[1] \in {l[1] : l \in found}
        BY <2>2, <4>1
      <4> QED
        BY <2>6, <4>2 DEF Found
    <3> QED
      BY <2>6, <3>1, <3>2 DEF Seen
  <2>13. TxOK(y, since'[q])
    BY <1>0, <2>9, <2>10, <2>11, <2>12 DEF TxOK, IInv, TypeOK
  <2>14. \A p \in Request \ {q} : Apart(y, tx[p])
    BY <1>0, <2>3, <2>6 DEF Apart, Running, j
  <2>15. /\ since' \in [Request -> SUBSET (Record \cup Slug \cup Name)]
         /\ \A p \in Request \ {q} : since'[p] = since[p]
    BY <1>0 DEF IInv, TypeOK
  <2> QED
    BY <1>0, <2>5, <2>6, <2>7, <2>13, <2>14, <2>15, LocalStep
<1> QED
  BY <1>1, <1>2

-----------------------------------------------------------------------------
(* Row by row *)

\* What was handled stays handled while the transaction only adds to what it wrote.
Grown(x, y) ==
    /\ x.job = y.job /\ x.saw = y.saw /\ Past(x) /\ Past(y)
    /\ x.holds \subseteq y.holds
    /\ \A r \in Record : x.made[r] # NoSlug => y.made[r] = x.made[r]

LEMMA StaysHandled ==
  ASSUME NEW x \in Txs, NEW y \in Txs, NEW news, Grown(x, y), NEW e \in Entries, Handled(x, news, e)
  PROVE  Handled(y, news, e)
<1>1. e.slug # NoSlug
  BY Nulls DEF Entries
<1> QED
  BY <1>1 DEF Grown, Handled

LEMMA StaysSeen ==
  ASSUME NEW x, NEW y, NEW news, Grown(x, y), Seen(x, news)
  PROVE  Seen(y, news)
BY DEF Grown, Seen, Found

LEMMA SameRows ==
  ASSUME TypeOK, NEW x \in Txs, NEW y \in Txs, NEW news, Grown(x, y), x.job \in Job, Rows(x, news),
         y.todo = x.todo
  PROVE  Rows(y, news)
<1>1. \A e : Listed(x.job, e) => e \in Entries
  BY DEF Listed, TypeOK
<1>2. \A e : Left(y, e) <=> Left(x, e)
  BY DEF Left
<1>3. \A e : Listed(y.job, e) => Handled(y, news, e) \/ Left(y, e)
  BY <1>1, <1>2, StaysHandled DEF Rows, Grown
<1> QED
  BY <1>2, <1>3 DEF Rows, Grown

LEMMA FewerRows ==
  ASSUME TypeOK, NEW x \in Txs, NEW y \in Txs, NEW news, Grown(x, y), x.job \in Job, Rows(x, news),
         x.todo # <<>>, y.todo = Tail(x.todo), Handled(y, news, Head(x.todo))
  PROVE  Rows(y, news)
<1>0. x.todo \in Seq(Entries)
  BY DEF Txs
<1>1. \A e : Listed(x.job, e) => e \in Entries
  BY DEF Listed, TypeOK
<1>2. \A e : Left(y, e) => Left(x, e)
  BY <1>0, TailRows DEF Left
<1>3. ASSUME NEW e, Left(x, e), e # Head(x.todo) PROVE Left(y, e)
  <2>1. PICK k \in 1 .. Len(x.todo) : x.todo[k] = e
    BY <1>3 DEF Left
  <2>2. k # 1 /\ Len(x.todo) \in Nat /\ Len(y.todo) = Len(x.todo) - 1
    BY <1>0, <1>3, <2>1, TailRows
  <2>3. k - 1 \in 1 .. Len(y.todo) /\ y.todo[k - 1] = x.todo[(k - 1) + 1] /\ (k - 1) + 1 = k
    BY <1>0, <2>2, TailRows
  <2> QED
    BY <2>1, <2>3 DEF Left
<1>4. \A e : Listed(y.job, e) => Handled(y, news, e) \/ Left(y, e)
  BY <1>1, <1>3, StaysHandled DEF Rows, Grown
<1> QED
  BY <1>2, <1>4 DEF Rows, Grown

\* A step of one that is past its comparison.
LEMMA RowStep ==
  ASSUME IInv, NEW q \in Request, NEW y \in Txs, tx' = [tx EXCEPT ![q] = y],
         UNCHANGED <<catalogue, jobs, since, edits, done>>,
         Grown(tx[q], y), Holds(y), Claims(y, since[q]),
         \/ y.todo = tx[q].todo
         \/ tx[q].todo # <<>> /\ y.todo = Tail(tx[q].todo) /\ Handled(y, since[q], Head(tx[q].todo)),
         \A p \in Request \ {q} : \A r \in Record : y.made[r] = NoSlug \/ tx[p].made[r] = NoSlug
  PROVE  IInv'
<1>0. /\ tx[q] \in Txs /\ TxOK(tx[q], since[q]) /\ tx[q].job \in Job /\ TypeOK
      /\ \A p \in Request \ {q} : Apart(tx[q], tx[p])
  BY Facts DEF Grown, IInv
<1>1. Asked(y)
  BY <1>0 DEF TxOK, Asked, Grown, Past, Running
<1>2. Rows(y, since[q])
  BY <1>0, SameRows, FewerRows DEF TxOK
<1>3. Seen(y, since[q])
  BY <1>0, StaysSeen DEF TxOK
<1>4. TxOK(y, since'[q])
  BY <1>1, <1>2, <1>3 DEF TxOK
<1>5. \A p \in Request \ {q} : Apart(y, tx[p])
  BY <1>0 DEF Apart, Grown, Past
<1>6. since' \in [Request -> SUBSET (Record \cup Slug \cup Name)] /\ y.pc # "idle"
  BY <1>0 DEF TypeOK, Grown, Past, Running
<1> QED
  BY <1>4, <1>5, <1>6, LocalStep

\* The row a transaction applies is one of its plan's.
LEMMA RowFacts ==
  ASSUME IInv, NEW q \in Request, Past(tx[q]), tx[q].todo # <<>>
  PROVE /\ Row(q) \in Entries /\ Listed(tx[q].job, Row(q)) /\ Fresh(since[q], Row(q))
        /\ Tail(tx[q].todo) \in Seq(Entries)
        /\ Row(q).action = "update" => Row(q).target \in Record /\ by[Row(q).target] # "nobody"
<1>1. tx[q].todo \in Seq(Entries) /\ TxOK(tx[q], since[q]) /\ tx[q].job \in Job
  BY Facts DEF Txs
<1>2. Row(q) \in Entries /\ Left(tx[q], Row(q)) /\ Tail(tx[q].todo) \in Seq(Entries)
  BY <1>1, TailRows DEF Row, Left
<1>3. Listed(tx[q].job, Row(q))
  BY <1>1, <1>2 DEF TxOK, Rows
<1>4. Fresh(since[q], Row(q))
  BY <1>1, <1>3 DEF TxOK, Seen
<1> QED
  BY <1>1, <1>2, <1>3, <1>4 DEF IInv, PlansOK

LEMMA UpdateRowIInv ==
  ASSUME IInv, NEW q \in Request, UpdateRow(q)
  PROVE  IInv'
<1> DEFINE r == Row(q).target
           held == IF Exists(r) THEN tx[q].holds \cup {r} ELSE tx[q].holds
           y == [tx[q] EXCEPT !.todo = Tail(@), !.holds = held]
<1>0. /\ tx[q] \in Txs /\ TxOK(tx[q], since[q]) /\ tx[q].pc = "applying" /\ tx[q].todo # <<>>
      /\ Row(q).action = "update" /\ Past(tx[q])
      /\ UNCHANGED <<catalogue, jobs, since, edits, done>>
      /\ \A p \in Request \ {q} : Apart(tx[q], tx[p])
  BY Facts DEF UpdateRow, Applying, Past, Running
<1>1. r \in Record /\ Listed(tx[q].job, Row(q)) /\ Tail(tx[q].todo) \in Seq(Entries)
  BY <1>0, RowFacts
<1>2. y \in Txs
  BY <1>0, <1>1 DEF Txs
<1>3. /\ y.job = tx[q].job /\ y.pc = "applying" /\ y.todo = Tail(tx[q].todo) /\ y.saw = tx[q].saw
      /\ y.holds = held /\ y.made = tx[q].made /\ y.named = tx[q].named
  BY <1>0 DEF Txs
<1>4. tx' = [tx EXCEPT ![q] = y]
  BY <1>0 DEF UpdateRow, IInv, TypeOK, Txs
<1> HIDE DEF y
<1>5. Grown(tx[q], y)
  BY <1>0, <1>3 DEF Grown, Past, Running
<1>6. Holds(y)
  BY <1>0, <1>1, <1>3 DEF TxOK, Holds, Exists
<1>7. Claims(y, since[q])
  BY <1>0, <1>3 DEF TxOK, Claims
<1>8. Handled(y, since[q], Row(q))
  BY <1>0, <1>3 DEF Handled, Exists
<1>9. \A p \in Request \ {q} : \A s \in Record : y.made[s] = NoSlug \/ tx[p].made[s] = NoSlug
  BY <1>0, <1>3 DEF Apart
<1> QED
  BY <1>0, <1>2, <1>3, <1>4, <1>5, <1>6, <1>7, <1>8, <1>9, RowStep DEF Row

\* Another slug than the plan's is claimed only when the plan's is taken since, kept or its own.
LEMMA ClaimRowIInv ==
  ASSUME IInv, NEW q \in Request, ClaimRow(q)
  PROVE  IInv'
<1>0. /\ tx[q] \in Txs /\ TxOK(tx[q], since[q]) /\ tx[q].pc = "applying" /\ tx[q].todo # <<>>
      /\ Row(q).action = "create" /\ Past(tx[q])
      /\ UNCHANGED <<catalogue, jobs, since, edits, done>>
      /\ \A p \in Request \ {q} : Apart(tx[q], tx[p])
  BY Facts DEF ClaimRow, Applying, Past, Running
<1>1. /\ Row(q) \in Entries /\ Fresh(since[q], Row(q))
      /\ Row(q).slug \in Slug /\ Suffixed[Row(q).slug] \in Slug
  BY <1>0, RowFacts, FilesAssumption DEF Entries
<1>2. PICK i \in 1 .. Len(Candidates(Row(q))) :
        /\ Free(q, Candidates(Row(q))[i])
        /\ \A k \in 1 .. (i - 1) : ~Free(q, Candidates(Row(q))[k])
        /\ tx' = [tx EXCEPT ![q].pc = "claimed", ![q].claim = {Candidates(Row(q))[i]}]
  BY DEF ClaimRow
<1> DEFINE s == Candidates(Row(q))[i]
           y == [tx[q] EXCEPT !.pc = "claimed", !.claim = {s}]
<1>3. s \in Slug /\ (s = Row(q).slug \/ ~Free(q, Row(q).slug))
  <2>1. CASE Row(q).explicit
    BY <1>1, <2>1 DEF Candidates
  <2>2. CASE ~Row(q).explicit
    BY <1>1, <1>2, <2>2 DEF Candidates
  <2> QED
    BY <2>1, <2>2
<1>4. s = Row(q).slug \/ Handled(tx[q], since[q], Row(q))
  BY <1>0, <1>1, <1>3 DEF Free, Fresh, Handled, Made
<1>5. tx' = [tx EXCEPT ![q] = y]
  BY <1>2 DEF IInv, TypeOK
<1> HIDE DEF s
<1>6. y \in Txs
  BY <1>0, <1>3 DEF Txs, PC
<1>7. /\ y.job = tx[q].job /\ y.pc = "claimed" /\ y.todo = tx[q].todo /\ y.saw = tx[q].saw
      /\ y.holds = tx[q].holds /\ y.made = tx[q].made /\ y.named = tx[q].named /\ y.claim = {s}
  BY <1>0 DEF Txs
<1> HIDE DEF y
<1>8. Grown(tx[q], y)
  BY <1>0, <1>7 DEF Grown, Past, Running
<1>9. Holds(y)
  BY <1>0, <1>7 DEF TxOK, Holds
<1>10. Handled(tx[q], since[q], Row(q)) => Handled(y, since[q], Row(q))
  BY <1>7 DEF Handled
<1>11. Claims(y, since[q])
  BY <1>0, <1>3, <1>4, <1>7, <1>10 DEF TxOK, Claims, Row
<1>12. \A p \in Request \ {q} : \A r \in Record : y.made[r] = NoSlug \/ tx[p].made[r] = NoSlug
  BY <1>0, <1>7 DEF Apart
<1> QED
  BY <1>0, <1>5, <1>6, <1>7, <1>8, <1>9, <1>11, <1>12, RowStep

LEMMA InsertRowIInv ==
  ASSUME IInv, NEW q \in Request, NEW r \in Record, InsertRow(q, r)
  PROVE  IInv'
<1>0. /\ tx[q] \in Txs /\ TxOK(tx[q], since[q]) /\ tx[q].pc = "claimed" /\ Past(tx[q])
      /\ UNCHANGED <<catalogue, jobs, since, edits, done>>
      /\ \A p \in Request \ {q} : Apart(tx[q], tx[p])
      /\ by[r] = "nobody" /\ \A p \in Request : tx[p].made[r] = NoSlug
  BY Facts DEF InsertRow, Past, Running, Locked
<1>1. tx[q].todo # <<>> /\ Row(q).action = "create" /\ Row(q) \in Entries /\ Tail(tx[q].todo) \in Seq(Entries)
  BY <1>0, RowFacts DEF TxOK, Claims, Row
<1> DEFINE pc == IF Row(q).person = NoName THEN "applying" ELSE "born"
           todo == IF Row(q).person = NoName THEN Tail(tx[q].todo) ELSE tx[q].todo
<1>2. PICK s \in tx[q].claim :
        tx' = [tx EXCEPT ![q].made[r] = s, ![q].claim = {}, ![q].pc = pc,
                         ![q].todo = IF Row(q).person = NoName THEN Tail(@) ELSE @]
  BY DEF InsertRow
<1>3. s \in Slug /\ s # NoSlug /\ (s = Row(q).slug \/ Handled(tx[q], since[q], Row(q)))
  BY <1>0, <1>2, Nulls DEF TxOK, Claims, Row
<1> DEFINE made == [tx[q].made EXCEPT ![r] = s]
           y == [tx[q] EXCEPT !.made = made, !.claim = {}, !.pc = pc, !.todo = todo]
<1>4. tx[q].made \in [Record -> Slug \cup {NoSlug}] /\ tx[q].todo \in Seq(Entries)
  BY <1>0 DEF Txs
<1>5. /\ made \in [Record -> Slug \cup {NoSlug}] /\ made[r] = s
      /\ \A a \in Record \ {r} : made[a] = tx[q].made[a]
  BY <1>3, <1>4
<1>6. todo \in Seq(Entries) /\ pc \in {"applying", "born"}
  BY <1>1, <1>4
<1>7. tx' = [tx EXCEPT ![q] = y]
  <2>1. y = [tx[q] EXCEPT !.made[r] = s, !.claim = {}, !.pc = pc,
                         !.todo = IF Row(q).person = NoName THEN Tail(@) ELSE @]
    BY <1>0 DEF Txs
  <2> QED
    BY <1>2, <2>1 DEF IInv, TypeOK
<1> HIDE DEF made
<1>8. y \in Txs
  BY <1>0, <1>5, <1>6 DEF Txs, PC
<1>9. /\ y.job = tx[q].job /\ y.pc = pc /\ y.todo = todo /\ y.saw = tx[q].saw
      /\ y.holds = tx[q].holds /\ y.made = made /\ y.named = tx[q].named /\ y.claim = {}
  BY <1>0 DEF Txs
<1> HIDE DEF y
<1>10. Grown(tx[q], y)
  BY <1>0, <1>5, <1>6, <1>9 DEF Grown, Past, Running
<1>11. Holds(y)
  BY <1>0, <1>5, <1>9 DEF TxOK, Holds
<1>12. Handled(y, since[q], Row(q))
  <2>1. CASE s = Row(q).slug
    BY <1>1, <1>5, <1>9, <2>1 DEF Handled
  <2>2. CASE Handled(tx[q], since[q], Row(q))
    BY <1>0, <1>1, <1>8, <1>10, <2>2, StaysHandled
  <2> QED
    BY <1>3, <2>1, <2>2
<1>13. Claims(y, since[q])
  BY <1>0, <1>1, <1>9, <1>12 DEF TxOK, Claims, Row, Entries
<1>14. \A p \in Request \ {q} : \A a \in Record : y.made[a] = NoSlug \/ tx[p].made[a] = NoSlug
  BY <1>0, <1>5, <1>9 DEF Apart
<1> QED
  BY <1>0, <1>1, <1>7, <1>8, <1>9, <1>10, <1>11, <1>12, <1>13, <1>14, RowStep DEF Row

LEMMA LinkPersonIInv ==
  ASSUME IInv, NEW q \in Request, LinkPerson(q)
  PROVE  IInv'
<1>0. /\ tx[q] \in Txs /\ TxOK(tx[q], since[q]) /\ tx[q].pc = "born" /\ Past(tx[q])
      /\ UNCHANGED <<catalogue, jobs, since, edits, done>>
      /\ \A p \in Request \ {q} : Apart(tx[q], tx[p])
  BY Facts DEF LinkPerson, Past, Running
<1>1. /\ tx[q].todo # <<>> /\ Tail(tx[q].todo) \in Seq(Entries) /\ Row(q) \in Entries
      /\ Handled(tx[q], since[q], Row(q))
  BY <1>0, RowFacts DEF TxOK, Claims, Row
<1>2. PICK k \in Known(q) \cap (people \cup tx[q].named) :
        tx' = [tx EXCEPT ![q].linked = @ \cup {k}, ![q].pc = "applying", ![q].todo = Tail(@)]
  BY DEF LinkPerson
<1> DEFINE y == [tx[q] EXCEPT !.linked = @ \cup {k}, !.pc = "applying", !.todo = Tail(@)]
<1>3. k \in Key
  BY <1>0 DEF Known, Txs
<1>4. tx' = [tx EXCEPT ![q] = y]
  BY <1>0, <1>2 DEF IInv, TypeOK, Txs
<1>5. y \in Txs
  BY <1>0, <1>1, <1>3 DEF Txs, PC
<1>6. /\ y.job = tx[q].job /\ y.pc = "applying" /\ y.todo = Tail(tx[q].todo) /\ y.saw = tx[q].saw
      /\ y.holds = tx[q].holds /\ y.made = tx[q].made /\ y.named = tx[q].named
  BY <1>0 DEF Txs
<1> HIDE DEF y
<1>7. Grown(tx[q], y)
  BY <1>0, <1>6 DEF Grown, Past, Running
<1>8. Holds(y)
  BY <1>0, <1>6 DEF TxOK, Holds
<1>9. Handled(y, since[q], Row(q))
  BY <1>0, <1>1, <1>5, <1>7, StaysHandled
<1>10. Claims(y, since[q])
  BY <1>0, <1>6 DEF TxOK, Claims
<1>11. \A p \in Request \ {q} : \A r \in Record : y.made[r] = NoSlug \/ tx[p].made[r] = NoSlug
  BY <1>0, <1>6 DEF Apart
<1> QED
  BY <1>0, <1>1, <1>4, <1>5, <1>6, <1>7, <1>8, <1>9, <1>10, <1>11, RowStep DEF Row

\* A second founder of a name is claimed only when the first is new to the lookup.
LEMMA ClaimPersonIInv ==
  ASSUME IInv, NEW q \in Request, ClaimPerson(q)
  PROVE  IInv'
<1> DEFINE person == Row(q).person
<1>0. /\ tx[q] \in Txs /\ TxOK(tx[q], since[q]) /\ tx[q].pc = "born" /\ Past(tx[q]) /\ Known(q) = {}
      /\ UNCHANGED <<catalogue, jobs, since, edits, done>>
      /\ \A p \in Request \ {q} : Apart(tx[q], tx[p])
  BY Facts DEF ClaimPerson, Past, Running
<1>1. /\ tx[q].todo # <<>> /\ Row(q) \in Entries /\ Listed(tx[q].job, Row(q)) /\ person \in Name
      /\ Handled(tx[q], since[q], Row(q)) /\ Row(q).action = "create"
  BY <1>0, RowFacts DEF TxOK, Claims, Row
<1>2. PICK i \in {1, 2} :
        /\ i = 2 => <<person, 1>> \in people
        /\ tx' = [tx EXCEPT ![q].pc = "naming", ![q].claim = {<<person, i>>}]
  BY DEF ClaimPerson
<1> DEFINE k == <<person, i>>
           y == [tx[q] EXCEPT !.pc = "naming", !.claim = {k}]
<1>3. k \in Key /\ k[1] = person /\ k[2] = i
  BY <1>1 DEF Key
<1>4. k[2] = 2 => k[1] \in since[q]
  <2>1. SUFFICES ASSUME i = 2 PROVE person \in since[q]
    BY <1>3
  <2>2. <<person, 1>> \in people /\ <<person, 1>>[1] = person
    BY <1>2, <2>1
  <2>3. Found(tx[q], since[q], <<person, 1>>)
    BY <1>0, <1>1, <2>2 DEF TxOK, Seen
  <2>4. ~\E known \in tx[q].saw : known[1] = person
    BY <1>0 DEF Known
  <2> QED
    BY <2>2, <2>3, <2>4 DEF Found
<1>5. tx' = [tx EXCEPT ![q] = y]
  BY <1>0, <1>2 DEF IInv, TypeOK, Txs
<1> HIDE DEF k
<1>6. y \in Txs
  BY <1>0, <1>3 DEF Txs, PC
<1>7. /\ y.job = tx[q].job /\ y.pc = "naming" /\ y.todo = tx[q].todo /\ y.saw = tx[q].saw
      /\ y.holds = tx[q].holds /\ y.made = tx[q].made /\ y.named = tx[q].named /\ y.claim = {k}
  BY <1>0 DEF Txs
<1> HIDE DEF y
<1>8. Grown(tx[q], y)
  BY <1>0, <1>7 DEF Grown, Past, Running
<1>9. Holds(y)
  BY <1>0, <1>7 DEF TxOK, Holds
<1>10. Handled(y, since[q], Row(q))
  BY <1>0, <1>1, <1>6, <1>8, StaysHandled
<1>11. Claims(y, since[q])
  BY <1>0, <1>1, <1>3, <1>4, <1>7, <1>10 DEF TxOK, Claims, Row
<1>12. \A p \in Request \ {q} : \A r \in Record : y.made[r] = NoSlug \/ tx[p].made[r] = NoSlug
  BY <1>0, <1>7 DEF Apart
<1> QED
  BY <1>0, <1>5, <1>6, <1>7, <1>8, <1>9, <1>11, <1>12, RowStep

LEMMA InsertPersonIInv ==
  ASSUME IInv, NEW q \in Request, InsertPerson(q)
  PROVE  IInv'
<1> DEFINE y == [tx[q] EXCEPT !.named = @ \cup tx[q].claim, !.linked = @ \cup tx[q].claim,
                              !.claim = {}, !.pc = "applying", !.todo = Tail(@)]
<1>0. /\ tx[q] \in Txs /\ TxOK(tx[q], since[q]) /\ tx[q].pc = "naming" /\ Past(tx[q])
      /\ UNCHANGED <<catalogue, jobs, since, edits, done>>
      /\ \A p \in Request \ {q} : Apart(tx[q], tx[p])
  BY Facts DEF InsertPerson, Past, Running
<1>1. /\ tx[q].todo # <<>> /\ Tail(tx[q].todo) \in Seq(Entries) /\ Row(q) \in Entries
      /\ Handled(tx[q], since[q], Row(q))
      /\ \A k \in tx[q].claim : k \in Key /\ (k[2] = 2 => k[1] \in since[q])
  BY <1>0, RowFacts DEF TxOK, Claims, Row
<1>2. tx' = [tx EXCEPT ![q] = y]
  BY <1>0 DEF InsertPerson, IInv, TypeOK, Txs
<1>3. y \in Txs
  BY <1>0, <1>1 DEF Txs, PC
<1>4. /\ y.job = tx[q].job /\ y.pc = "applying" /\ y.todo = Tail(tx[q].todo) /\ y.saw = tx[q].saw
      /\ y.holds = tx[q].holds /\ y.made = tx[q].made /\ y.named = tx[q].named \cup tx[q].claim
  BY <1>0 DEF Txs
<1> HIDE DEF y
<1>5. Grown(tx[q], y)
  BY <1>0, <1>4 DEF Grown, Past, Running
<1>6. Holds(y)
  BY <1>0, <1>4 DEF TxOK, Holds
<1>7. Handled(y, since[q], Row(q))
  BY <1>0, <1>1, <1>3, <1>5, StaysHandled
<1>8. Claims(y, since[q])
  BY <1>0, <1>1, <1>4 DEF TxOK, Claims
<1>9. \A p \in Request \ {q} : \A r \in Record : y.made[r] = NoSlug \/ tx[p].made[r] = NoSlug
  BY <1>0, <1>4 DEF Apart
<1> QED
  BY <1>0, <1>1, <1>2, <1>3, <1>4, <1>5, <1>6, <1>7, <1>8, <1>9, RowStep DEF Row

-----------------------------------------------------------------------------
(* What others commit *)

\* A change of the catalogue, told in full to whoever is past its comparison: an id is used once,
\* and what is neither new nor changed is as it was.
Told(news) ==
    /\ \A r \in Record :
        /\ by[r] # "nobody" => by'[r] # "nobody"
        /\ by[r] # "nobody" /\ slug[r] = NoSlug => slug'[r] = NoSlug
        /\ r \in news \/ (slug'[r] = slug[r] /\ stamp'[r] = stamp[r])
        /\ slug'[r] = slug[r] \/ slug'[r] = NoSlug \/ slug'[r] \in news
        /\ by'[r] = "nobody" => slug'[r] = NoSlug
    /\ kept \subseteq kept'
    /\ \A k \in people' : k \in people \/ k[1] \in news

\* It leaves what x has locked.
Spares(x) ==
    /\ \A r \in x.holds : slug'[r] # NoSlug
    /\ \A r \in Record : x.made[r] # NoSlug => by'[r] = "nobody"

LEMMA OthersStep ==
  ASSUME IInv, NEW p \in Request, tx'[p] = tx[p], NEW news, Told(news), Spares(tx[p]),
         Past(tx[p]) => since'[p] = since[p] \cup news /\ plan'[tx[p].job] = plan[tx[p].job],
         \A j \in Job : status[j] # "none" => status'[j] # "none",
         Running(tx[p]) => status'[tx[p].job] = status[tx[p].job]
  PROVE  TxOK(tx[p], since[p])'
<1> DEFINE x == tx[p]
           n == since[p]
           m == since'[p]
<1>0. /\ x \in Txs /\ TxOK(x, n) /\ (Past(x) => x.job \in Job /\ m = n \cup news)
  BY Facts
<1>1. ASSUME NEW e, Listed(x.job, e), Past(x)
      PROVE  e \in Entries /\ (e.action = "update" => e.target \in Record /\ by[e.target] # "nobody")
  <2>1. e \in Entries
    BY <1>0, <1>1 DEF IInv, TypeOK, Listed
  <2> QED
    BY <1>0, <1>1, <2>1 DEF IInv, PlansOK
<1>2. Asked(tx[p])'
  BY <1>0 DEF TxOK, Asked, Running, Past
<1>3. Holds(tx[p])'
  <2>1. Past(x) => \A e : Listed(tx[p].job, e)' <=> Listed(x.job, e)
    BY DEF Listed
  <2>2. ~Past(x) => x.holds = {}
    BY <1>0 DEF TxOK, Asked
  <2> QED
    BY <1>0, <2>1, <2>2 DEF TxOK, Holds, Spares
<1>4. ASSUME NEW e, Past(x), Handled(x, n, e), e.action = "update" => Listed(x.job, e)
      PROVE  Handled(tx[p], since[p], e)'
  BY <1>0, <1>1, <1>4 DEF Handled, Told
<1>5. Rows(tx[p], since[p])'
  <2> SUFFICES ASSUME Past(x)
               PROVE  Rows(tx[p], since[p])'
    BY DEF Rows, Past, Running
  <2>1. \A e : (Listed(tx[p].job, e)' <=> Listed(x.job, e)) /\ (Left(tx[p], e)' <=> Left(x, e))
    BY DEF Listed, Left
  <2>2. /\ \A e : Left(x, e) => Listed(x.job, e)
        /\ \A e : Listed(x.job, e) => Handled(x, n, e) \/ Left(x, e)
    BY <1>0 DEF TxOK, Rows
  <2> QED
    BY <1>4, <2>1, <2>2 DEF Rows
<1>6. Claims(tx[p], since[p])'
  <2> SUFFICES ASSUME Past(x)
               PROVE  Claims(tx[p], since[p])'
    BY DEF Claims, Past, Running
  <2>1. /\ x.pc \in {"claimed", "born", "naming"} => x.todo # <<>> /\ Head(x.todo).action = "create"
        /\ x.pc = "claimed" =>
            \A s \in x.claim : s \in Slug /\ (s = Head(x.todo).slug \/ Handled(x, n, Head(x.todo)))
        /\ x.pc \in {"born", "naming"} => Handled(x, n, Head(x.todo)) /\ Head(x.todo).person \in Name
        /\ x.pc = "naming" => \A k \in x.claim : k \in Key /\ (k[2] = 2 => k[1] \in n)
        /\ \A k \in x.named : k[2] = 2 => k[1] \in n
    BY <1>0 DEF TxOK, Claims
  <2>2. x.pc \in {"claimed", "born", "naming"} /\ Handled(x, n, Head(x.todo))
            => Handled(tx[p], since[p], Head(tx[p].todo))'
    BY <1>4, <2>1
  <2> QED
    BY <1>0, <2>1, <2>2 DEF Claims
<1>7. Seen(tx[p], since[p])'
  <2> SUFFICES ASSUME Past(x)
               PROVE  Seen(tx[p], since[p])'
    BY DEF Seen, Past, Running
  <2>1. ASSUME NEW e, Listed(x.job, e)' PROVE Fresh(since[p], e)'
    <3>1. Listed(x.job, e) /\ e \in Entries /\ Fresh(n, e) /\ e.slug # NoSlug
      BY <1>0, <1>1, <2>1, Nulls DEF Listed, TxOK, Seen, Entries
    <3>2. CASE e.action = "update"
      BY <1>0, <1>1, <3>1, <3>2 DEF Fresh, Told
    <3>3. CASE e.action # "update"
      <4>1. e.action = "create" /\ (e.slug \in n \/ Having(e.slug) = {})
        BY <3>1, <3>3 DEF Fresh, Entries
      <4>2. e.slug \in m \/ \A r \in Record : slug'[r] # e.slug
        BY <1>0, <3>1, <4>1 DEF Having, Told
      <4> QED
        BY <4>1, <4>2 DEF Fresh, Having
    <3> QED
      BY <3>2, <3>3
  <2>2. ASSUME NEW k \in people', NEW e, Listed(x.job, e)', e.person = k[1]
        PROVE  Found(tx[p], since[p], k)'
    BY <1>0, <2>2 DEF TxOK, Seen, Found, Told, Listed
  <2> QED
    BY <2>1, <2>2 DEF Seen
<1> QED
  BY <1>2, <1>3, <1>5, <1>6, <1>7 DEF TxOK

LEMMA EditorStep ==
  ASSUME IInv, NEW news \in SUBSET (Record \cup Slug \cup Name), Edited(news), UNCHANGED <<jobs, tx, done>>,
         slug' \in [Record -> Slug \cup {NoSlug}], stamp' \in [Record -> Nat], by' \in [Record -> Writers],
         kept' \subseteq Slug, people' \subseteq Key,
         Told(news), \A q \in Request : Spares(tx[q])
  PROVE  IInv'
<1>1. \A q \in Request : since'[q] = IF Past(tx[q]) THEN since[q] \cup news ELSE {}
  BY FilesAssumption DEF Edited, Tell, Compared, InTransaction, Past, Running
<1>2. TypeOK'
  <2>1. since' \in [Request -> SUBSET (Record \cup Slug \cup Name)]
    <3>1. \A q \in Request : since'[q] \in SUBSET (Record \cup Slug \cup Name)
      BY <1>1 DEF IInv, TypeOK
    <3>2. since' = [p \in Request |-> since'[p]]
      BY DEF Edited, Tell
    <3> QED
      BY <3>1, <3>2
  <2>2. edits' \in 0 .. MaxEdits
    BY FilesAssumption DEF Edited, IInv, TypeOK
  <2> QED
    BY <2>1, <2>2 DEF IInv, TypeOK, jobs
<1>3. ASSUME NEW q \in Request PROVE TxOK(tx[q], since[q])'
  BY <1>1, OthersStep DEF jobs
<1>4. \A p, q \in Request : p # q => Apart(tx[p], tx[q])'
  BY DEF IInv, Apart, Running
<1>5. (PlansOK /\ UnusedOK /\ DoneOK)'
  BY DEF IInv, PlansOK, UnusedOK, DoneOK, Listed, Told, jobs
<1> QED
  BY <1>2, <1>3, <1>4, <1>5 DEF IInv

\* What is locked is there, or is an id nobody else may use.
LEMMA LockedFacts ==
  ASSUME IInv, NEW q \in Request
  PROVE /\ tx[q].holds \subseteq Record /\ \A a \in tx[q].holds : slug[a] # NoSlug
        /\ \A a \in Record : tx[q].made[a] # NoSlug => by[a] = "nobody" /\ slug[a] = NoSlug
<1>1. tx[q] \in Txs /\ Holds(tx[q]) /\ UnusedOK
  BY Facts DEF TxOK, IInv
<1> QED
  BY <1>1 DEF Holds, UnusedOK, Txs

LEMMA EditIInv ==
  ASSUME IInv, NEW r \in Record, Edit(r)
  PROVE  IInv'
<1>0. TypeOK /\ UnusedOK /\ Exists(r) /\ ~Locked(r)
  BY DEF IInv, Edit, Editable
<1>1. slug' = slug /\ stamp' \in [Record -> Nat] /\ kept' = kept /\ people' = people
  BY <1>0 DEF Edit, TypeOK
<1>2. by' \in [Record -> Writers] /\ by'[r] = "editor" /\ \A a \in Record \ {r} : by'[a] = by[a]
  BY <1>0 DEF Edit, TypeOK, Writers
<1>3. Told({r})
  BY <1>0, <1>1, <1>2 DEF Told, Edit, TypeOK, UnusedOK, Exists
<1>4. \A q \in Request : Spares(tx[q])
  BY <1>0, <1>1, <1>2, LockedFacts DEF Spares, Locked
<1>5. Edited({r}) /\ UNCHANGED <<jobs, tx, done>> /\ {r} \in SUBSET (Record \cup Slug \cup Name)
  BY DEF Edit
<1> QED
  BY <1>0, <1>1, <1>2, <1>3, <1>4, <1>5, EditorStep DEF TypeOK

LEMMA RenameIInv ==
  ASSUME IInv, NEW r \in Record, NEW s \in Slug, Rename(r, s)
  PROVE  IInv'
<1> DEFINE news == {r, s, slug[r]}
<1>0. /\ TypeOK /\ UnusedOK /\ Exists(r) /\ ~Locked(r) /\ s # NoSlug
      /\ slug[r] \in Slug
  BY Nulls DEF IInv, TypeOK, Rename, Editable, Exists
<1>1. /\ slug' \in [Record -> Slug \cup {NoSlug}] /\ stamp' \in [Record -> Nat]
      /\ kept' = kept \cup {slug[r]} /\ kept' \subseteq Slug /\ people' = people
  BY <1>0 DEF Rename, TypeOK
<1>2. /\ by' \in [Record -> Writers] /\ by'[r] = "editor" /\ slug'[r] = s
      /\ \A a \in Record \ {r} : by'[a] = by[a] /\ slug'[a] = slug[a] /\ stamp'[a] = stamp[a]
  BY <1>0 DEF Rename, TypeOK, Writers
<1>3. Told(news)
  BY <1>0, <1>1, <1>2 DEF Told, UnusedOK, Exists
<1>4. \A q \in Request : Spares(tx[q])
  BY <1>0, <1>1, <1>2, LockedFacts DEF Spares, Locked
<1>5. Edited(news) /\ UNCHANGED <<jobs, tx, done>> /\ news \in SUBSET (Record \cup Slug \cup Name)
  BY <1>0 DEF Rename
<1> HIDE DEF news
<1> QED
  BY <1>0, <1>1, <1>2, <1>3, <1>4, <1>5, EditorStep DEF TypeOK

LEMMA CreateStartupIInv ==
  ASSUME IInv, NEW r \in Record, NEW s \in Slug, CreateStartup(r, s)
  PROVE  IInv'
<1>0. /\ TypeOK /\ UnusedOK /\ by[r] = "nobody" /\ slug[r] = NoSlug /\ ~Locked(r) /\ s # NoSlug
  BY Nulls DEF IInv, UnusedOK, CreateStartup
<1>1. /\ slug' \in [Record -> Slug \cup {NoSlug}] /\ stamp' = stamp /\ kept' = kept /\ people' = people
  BY <1>0 DEF CreateStartup, TypeOK
<1>2. /\ by' \in [Record -> Writers] /\ by'[r] = "editor" /\ slug'[r] = s
      /\ \A a \in Record \ {r} : by'[a] = by[a] /\ slug'[a] = slug[a]
  BY <1>0 DEF CreateStartup, TypeOK, Writers
<1>3. Told({r, s})
  BY <1>0, <1>1, <1>2 DEF Told, UnusedOK
<1>4. \A q \in Request : Spares(tx[q])
  BY <1>0, <1>1, <1>2, LockedFacts DEF Spares, Locked
<1>5. Edited({r, s}) /\ UNCHANGED <<jobs, tx, done>> /\ {r, s} \in SUBSET (Record \cup Slug \cup Name)
  BY DEF CreateStartup
<1> QED
  BY <1>0, <1>1, <1>2, <1>3, <1>4, <1>5, EditorStep DEF TypeOK

LEMMA HardDeleteIInv ==
  ASSUME IInv, NEW r \in Record, HardDelete(r)
  PROVE  IInv'
<1> DEFINE news == {r, slug[r]}
<1>0. TypeOK /\ UnusedOK /\ Exists(r) /\ ~Locked(r) /\ slug[r] \in Slug
  BY DEF IInv, TypeOK, HardDelete, Exists
<1>1. /\ slug' \in [Record -> Slug \cup {NoSlug}] /\ slug'[r] = NoSlug
      /\ \A a \in Record \ {r} : slug'[a] = slug[a]
      /\ by' = by /\ stamp' = stamp /\ kept' = kept /\ people' = people
  BY <1>0 DEF HardDelete, TypeOK
<1>2. Told(news)
  BY <1>0, <1>1 DEF Told, UnusedOK, Exists
<1>3. \A q \in Request : Spares(tx[q])
  BY <1>0, <1>1, LockedFacts DEF Spares, Locked
<1>4. Edited(news) /\ UNCHANGED <<jobs, tx, done>> /\ news \in SUBSET (Record \cup Slug \cup Name)
  BY <1>0 DEF HardDelete
<1> HIDE DEF news
<1> QED
  BY <1>0, <1>1, <1>2, <1>3, <1>4, EditorStep DEF TypeOK

LEMMA RemoveFounderIInv ==
  ASSUME IInv, NEW k \in Key, RemoveFounder(k)
  PROVE  IInv'
<1>0. TypeOK /\ UnusedOK /\ k[1] \in Name
  BY DEF IInv, Key
<1>1. UNCHANGED <<slug, stamp, by, kept>> /\ people' \subseteq people
  BY DEF RemoveFounder
<1>2. Told({k[1]})
  BY <1>0, <1>1 DEF Told, UnusedOK
<1>3. \A q \in Request : Spares(tx[q])
  BY <1>0, <1>1, LockedFacts DEF Spares
<1>4. Edited({k[1]}) /\ UNCHANGED <<jobs, tx, done>> /\ {k[1]} \in SUBSET (Record \cup Slug \cup Name)
  BY <1>0 DEF RemoveFounder
<1> QED
  BY <1>0, <1>1, <1>2, <1>3, <1>4, EditorStep DEF TypeOK

\* What a commit brings, and what it does to the catalogue.
NewIds(q) == {r \in Record : tx[q].made[r] # NoSlug}
News(q) == NewIds(q) \cup tx[q].holds \cup Made(q) \cup {k[1] : k \in tx[q].named}

LEMMA CommitFacts ==
  ASSUME IInv, NEW q \in Request, Commit(q)
  PROVE /\ tx[q].pc = "applying" /\ tx[q].todo = <<>> /\ Past(tx[q]) /\ tx[q].job \in Job
        /\ status[tx[q].job] = "dry_run" /\ tx[q].named \subseteq Key
        /\ News(q) \in SUBSET (Record \cup Slug \cup Name)
        /\ \A r \in Record :
            /\ slug'[r] = IF r \in NewIds(q) THEN tx[q].made[r] ELSE slug[r]
            /\ stamp'[r] = IF r \in tx[q].holds THEN stamp[r] + 1 ELSE stamp[r]
            /\ by'[r] = IF r \in NewIds(q) \cup tx[q].holds THEN tx[q].job ELSE by[r]
        /\ \A r \in NewIds(q) : by[r] = "nobody" /\ slug[r] = NoSlug /\ tx[q].made[r] \in Made(q)
        /\ \A r \in tx[q].holds : slug[r] # NoSlug /\ by[r] # "nobody" /\ r \notin NewIds(q)
        /\ UNCHANGED <<kept, plan, late, edits>> /\ people' = people \cup tx[q].named
        /\ status' = [status EXCEPT ![tx[q].job] = "committed"] /\ done' = done \cup {tx[q].job}
        /\ \A p \in Request : since'[p] = IF p = q \/ ~Past(tx[p]) THEN {} ELSE since[p] \cup News(q)
        /\ DOMAIN since' = Request /\ since' = [p \in Request |-> since'[p]]
        /\ slug' \in [Record -> Slug \cup {NoSlug}] /\ stamp' \in [Record -> Nat]
        /\ by' \in [Record -> Writers]
<1>0. /\ TypeOK /\ UnusedOK /\ tx[q] \in Txs /\ TxOK(tx[q], since[q])
      /\ tx[q].pc = "applying" /\ tx[q].todo = <<>>
  BY Facts DEF IInv, Commit
<1>1. Past(tx[q]) /\ tx[q].job \in Job /\ status[tx[q].job] = "dry_run"
  BY <1>0 DEF TxOK, Asked, Past, Running
<1>2. /\ tx[q].named \subseteq Key /\ tx[q].holds \subseteq Record
      /\ tx[q].made \in [Record -> Slug \cup {NoSlug}]
  BY <1>0 DEF Txs
<1>3. Made(q) \subseteq Slug /\ {k[1] : k \in tx[q].named} \subseteq Name /\ NewIds(q) \subseteq Record
  BY <1>2 DEF Made, NewIds, Key
<1>4. News(q) \in SUBSET (Record \cup Slug \cup Name)
  BY <1>2, <1>3 DEF News
<1>5. \A r \in NewIds(q) : by[r] = "nobody" /\ slug[r] = NoSlug /\ tx[q].made[r] \in Made(q)
  BY <1>2, LockedFacts DEF NewIds, Made
<1>6. \A r \in tx[q].holds : slug[r] # NoSlug /\ by[r] # "nobody" /\ r \notin NewIds(q)
  BY <1>0, <1>2, <1>5, LockedFacts DEF UnusedOK
<1>7. /\ slug' = [r \in Record |-> IF r \in NewIds(q) THEN tx[q].made[r] ELSE slug[r]]
      /\ stamp' = [r \in Record |-> IF r \in tx[q].holds THEN stamp[r] + 1 ELSE stamp[r]]
      /\ by' = [r \in Record |-> IF r \in NewIds(q) \cup tx[q].holds THEN tx[q].job ELSE by[r]]
  BY DEF Commit, NewIds
<1>8. /\ slug' \in [Record -> Slug \cup {NoSlug}] /\ stamp' \in [Record -> Nat]
      /\ by' \in [Record -> Writers]
  <2>1. slug' \in [Record -> Slug \cup {NoSlug}]
    BY <1>0, <1>2, <1>7 DEF TypeOK
  <2>2. stamp' \in [Record -> Nat]
    BY <1>0, <1>7 DEF TypeOK
  <2>3. by' \in [Record -> Writers]
    BY <1>0, <1>1, <1>7 DEF TypeOK, Writers
  <2> QED
    BY <2>1, <2>2, <2>3
<1>9. since' = [p \in Request |-> IF p = q \/ ~Compared(p) THEN {} ELSE since[p] \cup News(q)]
  BY DEF Commit, Tell, News, NewIds
<1>10. /\ \A p \in Request : since'[p] = IF p = q \/ ~Past(tx[p]) THEN {} ELSE since[p] \cup News(q)
       /\ DOMAIN since' = Request /\ since' = [p \in Request |-> since'[p]]
  BY <1>9 DEF Compared, InTransaction, Past, Running
<1>11. /\ UNCHANGED <<kept, plan, late, edits>> /\ people' = people \cup tx[q].named
       /\ status' = [status EXCEPT ![tx[q].job] = "committed"] /\ done' = done \cup {tx[q].job}
  BY DEF Commit
<1> QED
  BY <1>0, <1>1, <1>2, <1>4, <1>5, <1>6, <1>7, <1>8, <1>10, <1>11

LEMMA CommitIInv ==
  ASSUME IInv, NEW q \in Request, Commit(q)
  PROVE  IInv'
<1> DEFINE j == tx[q].job
<1>0. /\ TypeOK /\ UnusedOK /\ DoneOK /\ PlansOK /\ j \in Job
  BY CommitFacts DEF IInv
<1>1. tx' = [tx EXCEPT ![q] = Idle] /\ tx'[q] = Idle /\ \A p \in Request \ {q} : tx'[p] = tx[p]
  BY <1>0 DEF Commit, TypeOK
<1>2. TypeOK'
  <2>1. since' \in [Request -> SUBSET (Record \cup Slug \cup Name)]
    <3>1. /\ \A p \in Request : since'[p] = IF p = q \/ ~Past(tx[p]) THEN {} ELSE since[p] \cup News(q)
          /\ since' = [p \in Request |-> since'[p]] /\ News(q) \in SUBSET (Record \cup Slug \cup Name)
      BY CommitFacts
    <3>2. \A p \in Request : since'[p] \in SUBSET (Record \cup Slug \cup Name)
      BY <1>0, <3>1 DEF TypeOK
    <3> QED
      BY <3>1, <3>2
  <2>2. tx' \in [Request -> Txs] /\ \A p \in Request : tx'[p].pc = "idle" => tx'[p] = Idle
    BY <1>0, <1>1, IdleOK DEF TypeOK
  <2>3. status' \in [Job -> Status] /\ done' \subseteq Job /\ people' \subseteq Key
    <3>1. /\ people' = people \cup tx[q].named /\ done' = done \cup {j} /\ tx[q].named \subseteq Key
          /\ status' = [status EXCEPT ![j] = "committed"]
      BY CommitFacts
    <3> QED
      BY <1>0, <3>1 DEF TypeOK, Status
  <2>4. /\ slug' \in [Record -> Slug \cup {NoSlug}] /\ stamp' \in [Record -> Nat] /\ by' \in [Record -> Writers]
        /\ kept' \subseteq Slug /\ plan' \in [Job -> Seq(Entries)] /\ late' \subseteq Job
        /\ edits' \in 0 .. MaxEdits
    BY <1>0, CommitFacts DEF TypeOK
  <2> QED
    BY <2>1, <2>2, <2>3, <2>4 DEF TypeOK
<1>3. Told(News(q))
  <2>1. j # "nobody" /\ NewIds(q) \subseteq News(q) /\ tx[q].holds \subseteq News(q) /\ Made(q) \subseteq News(q)
        /\ {k[1] : k \in tx[q].named} \subseteq News(q)
    BY <1>0, Nulls DEF News
  <2>2. ASSUME NEW r \in Record
        PROVE /\ by[r] # "nobody" => by'[r] # "nobody"
              /\ by[r] # "nobody" /\ slug[r] = NoSlug => slug'[r] = NoSlug
              /\ r \in News(q) \/ (slug'[r] = slug[r] /\ stamp'[r] = stamp[r])
              /\ slug'[r] = slug[r] \/ slug'[r] = NoSlug \/ slug'[r] \in News(q)
              /\ by'[r] = "nobody" => slug'[r] = NoSlug
    BY <1>0, <2>1, CommitFacts DEF UnusedOK
  <2>3. \A k \in people' : k \in people \/ k[1] \in News(q)
    BY <2>1, CommitFacts
  <2>4. kept \subseteq kept'
    BY CommitFacts
  <2> QED
    BY <2>2, <2>3, <2>4 DEF Told
<1>4. ASSUME NEW p \in Request PROVE TxOK(tx[p], since[p])'
  <2>1. CASE p = q
    <3>1. Idle.pc = "idle" /\ Idle.todo = <<>> /\ Idle.holds = {} /\ Idle.made = NoWrites /\ Idle.named = {}
      BY DEF Idle
    <3> QED
      BY <1>1, <2>1, <3>1 DEF TxOK, Asked, Holds, Rows, Claims, Seen, Running, Past, NoWrites
  <2>2. CASE p # q
    <3>1. Apart(tx[q], tx[p]) /\ TxOK(tx[p], since[p]) /\ tx'[p] = tx[p]
      BY <1>1, <2>2, Facts
    <3>2. Running(tx[p]) => tx[p].job # j /\ status'[tx[p].job] = status[tx[p].job]
      BY <1>0, <3>1, CommitFacts DEF Apart, Past, TxOK, Asked, Running, TypeOK
    <3>3. \A i \in Job : status[i] # "none" => status'[i] # "none"
      BY <1>0, CommitFacts DEF TypeOK
    <3>4. Spares(tx[p])
      <4>1. tx[p].holds \subseteq Record /\ (\A a \in tx[p].holds : slug[a] # NoSlug)
            /\ \A a \in Record : tx[p].made[a] # NoSlug => by[a] = "nobody" /\ slug[a] = NoSlug
        BY LockedFacts
      <4>2. \A a \in Record : tx[p].made[a] # NoSlug => a \notin NewIds(q)
        BY <3>1 DEF NewIds, Apart
      <4>3. \A a \in tx[p].holds : slug'[a] # NoSlug
        BY <4>1, CommitFacts
      <4>4. \A a \in Record : tx[p].made[a] # NoSlug => by'[a] = "nobody"
        BY <4>1, <4>2, CommitFacts
      <4> QED
        BY <4>3, <4>4 DEF Spares
    <3>5. Past(tx[p]) => since'[p] = since[p] \cup News(q) /\ plan'[tx[p].job] = plan[tx[p].job]
      <4>1. \A r \in Request : since'[r] = IF r = q \/ ~Past(tx[r]) THEN {} ELSE since[r] \cup News(q)
        BY CommitFacts
      <4>2. UNCHANGED plan
        BY CommitFacts
      <4> QED
        BY <2>2, <4>1, <4>2
    <3> QED
      BY <1>3, <3>1, <3>2, <3>3, <3>4, <3>5, OthersStep
  <2> QED
    BY <2>1, <2>2
<1>5. \A p, r \in Request : p # r => Apart(tx[p], tx[r])'
  <2>1. ASSUME NEW p \in Request, NEW r \in Request, p # r PROVE Apart(tx'[p], tx'[r])
    <3>1. \A a \in Request : tx'[a] = Idle \/ (a # q /\ tx'[a] = tx[a])
      BY <1>1
    <3>2. tx[p] \in Txs /\ tx[r] \in Txs /\ Apart(tx[p], tx[r])
      BY <2>1, Facts
    <3> QED
      BY <3>1, <3>2, IdleOK
  <2> QED
    BY <2>1 DEF Apart, Running
<1>6. PlansOK' /\ UnusedOK'
  BY <1>0, <1>3, CommitFacts DEF PlansOK, UnusedOK, Listed, Told
<1>7. DoneOK'
  BY <1>0, CommitFacts DEF DoneOK, TypeOK
<1> QED
  BY <1>2, <1>4, <1>5, <1>6, <1>7 DEF IInv

-----------------------------------------------------------------------------
(* Reviewing, and the end of a job's day *)

\* A step that leaves the catalogue alone and changes only jobs that nobody is committing.
LEMMA JobStep ==
  ASSUME IInv, NEW p \in Request, tx'[p] = tx[p], UNCHANGED <<catalogue, since>>,
         Past(tx[p]) => plan'[tx[p].job] = plan[tx[p].job],
         \A j \in Job : status[j] # "none" => status'[j] # "none",
         Running(tx[p]) => status'[tx[p].job] = status[tx[p].job]
  PROVE  TxOK(tx[p], since[p])'
<1>1. Told({})
  BY DEF Told, catalogue, IInv, UnusedOK
<1>2. Spares(tx[p])
  BY LockedFacts DEF Spares, catalogue
<1> QED
  BY <1>1, <1>2, OthersStep

LEMMA GrowLateIInv ==
  ASSUME IInv, NEW j \in Job, GrowLate(j)
  PROVE  IInv'
<1>1. TypeOK'
  BY DEF GrowLate, IInv, TypeOK, catalogue
<1>2. ASSUME NEW p \in Request PROVE TxOK(tx[p], since[p])'
  BY JobStep DEF GrowLate
<1>3. (\A p, q \in Request : p # q => Apart(tx[p], tx[q]))'
  BY DEF GrowLate, IInv, Apart, Running
<1>4. (PlansOK /\ UnusedOK /\ DoneOK)'
  BY DEF GrowLate, IInv, PlansOK, UnusedOK, DoneOK, Listed, catalogue
<1> QED
  BY <1>1, <1>2, <1>3, <1>4 DEF IInv

LEMMA MarkExpiredIInv ==
  ASSUME IInv, NEW q \in Request, MarkExpired(q)
  PROVE  IInv'
<1> DEFINE j == tx[q].job
<1>0. TypeOK /\ PlansOK /\ UnusedOK /\ DoneOK /\ j \in Job /\ UNCHANGED <<catalogue, plan, late, since, edits, done>>
  BY Facts DEF MarkExpired, IInv, TxOK, Asked
<1>1. /\ tx' = [tx EXCEPT ![q] = Idle] /\ tx'[q] = Idle /\ \A p \in Request \ {q} : tx'[p] = tx[p]
      /\ status' = [status EXCEPT ![j] = "expired"]
  BY <1>0 DEF MarkExpired, TypeOK
<1>2. TypeOK'
  <2>1. tx' \in [Request -> Txs] /\ \A p \in Request : tx'[p].pc = "idle" => tx'[p] = Idle
    BY <1>0, <1>1, IdleOK DEF TypeOK
  <2>2. status' \in [Job -> Status]
    BY <1>0, <1>1 DEF TypeOK, Status
  <2> QED
    BY <1>0, <2>1, <2>2 DEF TypeOK, catalogue
<1>3. ASSUME NEW p \in Request PROVE TxOK(tx[p], since[p])'
  <2>1. CASE p = q
    <3>1. Idle.pc = "idle" /\ Idle.todo = <<>> /\ Idle.holds = {} /\ Idle.made = NoWrites /\ Idle.named = {}
      BY DEF Idle
    <3> QED
      BY <1>1, <2>1, <3>1 DEF TxOK, Asked, Holds, Rows, Claims, Seen, Running, Past, NoWrites
  <2>2. CASE p # q
    <3>1. TxOK(tx[p], since[p]) /\ tx'[p] = tx[p]
      BY <1>1, <2>2, Facts
    <3>2. Running(tx[p]) => tx[p].job \in Job /\ tx[p].job # j /\ status'[tx[p].job] = status[tx[p].job]
      BY <1>0, <1>1, <3>1 DEF MarkExpired, JobFree, TxOK, Asked, Running, TypeOK
    <3>3. \A i \in Job : status[i] # "none" => status'[i] # "none"
      BY <1>0, <1>1 DEF TypeOK
    <3> QED
      BY <1>0, <3>1, <3>2, <3>3, JobStep
  <2> QED
    BY <2>1, <2>2
<1>4. \A p, r \in Request : p # r => Apart(tx[p], tx[r])'
  <2>1. ASSUME NEW p \in Request, NEW r \in Request, p # r PROVE Apart(tx'[p], tx'[r])
    <3>1. \A a \in Request : tx'[a] = Idle \/ (a # q /\ tx'[a] = tx[a])
      BY <1>1
    <3>2. tx[p] \in Txs /\ tx[r] \in Txs /\ Apart(tx[p], tx[r])
      BY <2>1, Facts
    <3> QED
      BY <3>1, <3>2, IdleOK
  <2> QED
    BY <2>1 DEF Apart, Running
<1>5. (PlansOK /\ UnusedOK)'
  BY <1>0 DEF PlansOK, UnusedOK, Listed, catalogue
<1>6. DoneOK'
  BY <1>0, <1>1 DEF DoneOK, TypeOK
<1> QED
  BY <1>2, <1>3, <1>4, <1>5, <1>6 DEF IInv

\* A row of a review, whatever it decides.
LEMMA EntryFacts ==
  ASSUME IInv, NEW j \in Job, NEW near, NEW i \in 1 .. Len(File[j]), Action(j, i, near) # "skip"
  PROVE /\ Entry(j, i, Action(j, i, near)) \in Entries
        /\ Action(j, i, near) = "update" =>
              /\ Entry(j, i, Action(j, i, near)).target \in Record
              /\ by[Entry(j, i, Action(j, i, near)).target] # "nobody"
<1> DEFINE row == File[j][i]
           action == Action(j, i, near)
           target == IF action = "update" THEN CHOOSE r \in Existing(row) : TRUE ELSE NoRecord
<1>1. row \in FileRows
  BY FilesAssumption
<1>2. action \in {"create", "update"} /\ (action = "update" => Existing(row) # {})
  BY DEF Action
<1>3. action = "update" => target \in Record /\ slug[target] = row.slug
  BY <1>2 DEF Existing
<1>4. action = "update" => by[target] # "nobody" /\ stamp[target] \in Nat
  BY <1>1, <1>3, Nulls DEF IInv, UnusedOK, TypeOK, FileRows
<1>5. action # "update" => target = NoRecord
  OBVIOUS
<1> DEFINE e == [action |-> action, slug |-> row.slug, explicit |-> row.explicit, person |-> row.person,
                 target |-> target, stamp |-> IF action = "update" THEN stamp[target] ELSE 0]
<1>6. Entry(j, i, action) = e
  BY DEF Entry
<1>7. row.slug \in Slug /\ row.explicit \in BOOLEAN /\ row.person \in Name \cup {NoName}
  BY <1>1 DEF FileRows
<1> HIDE DEF target, row, action
<1>8. target \in Record \cup {NoRecord} /\ (IF action = "update" THEN stamp[target] ELSE 0) \in Nat
  BY <1>3, <1>4, <1>5
<1>9. e \in Entries
  BY <1>2, <1>7, <1>8 DEF Entries
<1>10. e.target = target
  OBVIOUS
<1> QED
  BY <1>2, <1>3, <1>4, <1>6, <1>9, <1>10 DEF action

LEMMA DryRunIInv ==
  ASSUME IInv, NEW j \in Job, NEW near, DryRun(j, near)
  PROVE  IInv'
<1> DEFINE applied == {i \in 1 .. Len(File[j]) : Action(j, i, near) # "skip"}
<1>0. /\ TypeOK /\ PlansOK /\ UnusedOK /\ DoneOK /\ UNCHANGED <<catalogue, late, tx, since, edits, done>>
      /\ status[j] = "none" /\ status' = [status EXCEPT ![j] = "dry_run"]
  BY DEF DryRun, IInv
<1>1. Cardinality(applied) \in Nat
  <2>1. Len(File[j]) \in Nat
    BY FilesAssumption
  <2>2. IsFiniteSet(1 .. Len(File[j]))
    BY <2>1, FS_Interval
  <2> QED
    BY <2>2, FS_Subset, FS_CardinalityType
<1>2. PICK row \in [1 .. Cardinality(applied) -> applied] :
        plan' = [plan EXCEPT ![j] = [k \in DOMAIN row |-> Entry(j, row[k], Action(j, row[k], near))]]
  BY DEF DryRun
<1> DEFINE new == [k \in DOMAIN row |-> Entry(j, row[k], Action(j, row[k], near))]
<1>3. ASSUME NEW k \in DOMAIN row
      PROVE  new[k] \in Entries /\
             (new[k].action = "update" => new[k].target \in Record /\ by[new[k].target] # "nobody")
  <2>1. row[k] \in 1 .. Len(File[j]) /\ Action(j, row[k], near) # "skip"
    BY <1>2, <1>3
  <2>2. new[k] = Entry(j, row[k], Action(j, row[k], near)) /\ new[k].action = Action(j, row[k], near)
    BY <1>3 DEF Entry
  <2> QED
    BY <2>1, <2>2, EntryFacts
<1>4. new \in Seq(Entries) /\ Len(new) = Cardinality(applied) /\ DOMAIN row = 1 .. Len(new)
  <2>1. DOMAIN row = 1 .. Cardinality(applied) /\ new \in [1 .. Cardinality(applied) -> Entries]
    BY <1>2, <1>3
  <2> HIDE DEF new, applied
  <2> QED
    BY <1>1, <2>1
<1>5. plan' \in [Job -> Seq(Entries)] /\ plan'[j] = new /\ \A i \in Job \ {j} : plan'[i] = plan[i]
  BY <1>0, <1>2, <1>4 DEF TypeOK
<1> HIDE DEF new, applied
<1>6. TypeOK'
  BY <1>0, <1>5 DEF TypeOK, Status, catalogue
<1>7. ASSUME NEW p \in Request PROVE TxOK(tx[p], since[p])'
  <2>1. TxOK(tx[p], since[p]) /\ tx'[p] = tx[p]
    BY <1>0, Facts
  <2>2. Running(tx[p]) => tx[p].job \in Job /\ tx[p].job # j /\ status'[tx[p].job] = status[tx[p].job]
    BY <1>0, <2>1 DEF TxOK, Asked, Running, TypeOK
  <2>3. \A i \in Job : status[i] # "none" => status'[i] # "none"
    BY <1>0 DEF TypeOK
  <2>4. Past(tx[p]) => plan'[tx[p].job] = plan[tx[p].job]
    BY <1>5, <2>2 DEF Past
  <2> QED
    BY <1>0, <2>1, <2>2, <2>3, <2>4, JobStep
<1>8. (\A p, q \in Request : p # q => Apart(tx[p], tx[q]))'
  BY <1>0 DEF IInv, Apart, Running
<1>9. PlansOK'
  <2>1. ASSUME NEW i \in Job, NEW e, Listed(i, e)', e.action = "update"
        PROVE  e.target \in Record /\ by[e.target] # "nobody"
    <3>1. CASE i = j
      BY <1>3, <1>4, <1>5, <2>1, <3>1 DEF Listed
    <3>2. CASE i # j
      <4>1. plan'[i] = plan[i]
        BY <1>5, <3>2
      <4>2. Listed(i, e)
        BY <2>1, <4>1 DEF Listed
      <4> QED
        BY <1>0, <2>1, <4>2 DEF PlansOK
    <3> QED
      BY <3>1, <3>2
  <2> QED
    BY <1>0, <2>1 DEF PlansOK, catalogue
<1>10. UnusedOK' /\ DoneOK'
  BY <1>0 DEF UnusedOK, DoneOK, TypeOK, catalogue
<1> QED
  BY <1>6, <1>7, <1>8, <1>9, <1>10 DEF IInv

-----------------------------------------------------------------------------
(* The theorems *)

LEMMA StepIInv == IInv /\ [Next]_vars => IInv'
<1> SUFFICES ASSUME IInv, [Next]_vars PROVE IInv'
  OBVIOUS
<1>1. ASSUME NEW j \in Job, NEW near \in SUBSET Alike[j], DryRun(j, near) PROVE IInv'
  BY <1>1, DryRunIInv
<1>2. ASSUME NEW j \in Job, GrowLate(j) PROVE IInv'
  BY <1>2, GrowLateIInv
<1>3. ASSUME NEW q \in Request, NEW j \in Job, Ask(q, j) PROVE IInv'
  BY <1>3, AskIInv
<1>4. ASSUME NEW q \in Request, CommitStep(q) PROVE IInv'
  BY <1>4, MarkExpiredIInv, BeginIInv, CheckIInv, UpdateRowIInv, ClaimRowIInv, InsertRowIInv,
     LinkPersonIInv, ClaimPersonIInv, InsertPersonIInv, CommitIInv DEF CommitStep
<1>5. ASSUME NEW q \in Request, Rollback(q) PROVE IInv'
  BY <1>5, RollbackIInv
<1>6. ASSUME Editors PROVE IInv'
  BY <1>6, EditIInv, RenameIInv, CreateStartupIInv, HardDeleteIInv, RemoveFounderIInv DEF Editors
<1>7. CASE UNCHANGED vars
  <2>1. UNCHANGED <<slug, stamp, by, kept, people, status, plan, late, tx, edits, since, done>>
    BY <1>7 DEF vars, catalogue, jobs
  <2>2. ASSUME NEW p \in Request PROVE TxOK(tx[p], since[p])'
    BY <2>1, JobStep DEF catalogue
  <2>3. (\A p, q \in Request : p # q => Apart(tx[p], tx[q]))'
    BY <2>1 DEF IInv, Apart, Running
  <2>4. TypeOK' /\ (PlansOK /\ UnusedOK /\ DoneOK)'
    BY <2>1 DEF IInv, TypeOK, PlansOK, UnusedOK, DoneOK, Listed
  <2> QED
    BY <2>2, <2>3, <2>4 DEF IInv
<1> QED
  BY <1>1, <1>2, <1>3, <1>4, <1>5, <1>6, <1>7 DEF Next

LEMMA AlwaysIInv == Spec => []IInv
BY InitIInv, StepIInv, PTL DEF Spec

\* Type correctness (TypeOK): whatever requests, editors and the clock do, the state keeps its shape,
\* and a request that ended holds nothing.
THEOREM TypeCorrect == Spec => []TypeOK
<1>1. IInv => TypeOK
  BY DEF IInv
<1> QED
  BY <1>1, AlwaysIInv, PTL

LEMMA PlanRows ==
  ASSUME NEW j, NEW e
  PROVE /\ e \in Updates(j) <=> Listed(j, e) /\ e.action = "update"
        /\ e \in Creates(j) <=> Listed(j, e) /\ e.action = "create"
BY DEF Updates, Creates, Listed

\* At its commit a transaction has handled every row of the plan.
LEMMA AllHandled ==
  ASSUME IInv, NEW q \in Request, Commit(q), NEW e, Listed(tx[q].job, e)
  PROVE  Handled(tx[q], since[q], e) /\ Fresh(since[q], e) /\ e \in Entries
<1>1. TxOK(tx[q], since[q]) /\ Past(tx[q]) /\ tx[q].todo = <<>> /\ tx[q].job \in Job
  BY Facts, CommitFacts
<1>2. ~Left(tx[q], e)
  BY <1>1 DEF Left
<1>3. e \in Entries
  BY <1>1 DEF IInv, TypeOK, Listed
<1> QED
  BY <1>1, <1>2, <1>3 DEF TxOK, Rows, Seen

\* ImportsAsReviewed: whatever others do beside a commit, it overwrites or doubles only what was
\* committed after its comparison, changes every record and adds every startup of the review, but
\* for those deleted or taken since, and so it does for any files, requests and edits.
THEOREM ImportsDoAsReviewed == Spec => ImportsAsReviewed
<1> SUFFICES ASSUME IInv, [Next]_vars, NEW q \in Request, Commit(q)
             PROVE  /\ \A e \in Updates(tx[q].job) :
                          Exists(e.target) => stamp[e.target] = e.stamp \/ e.target \in since[q]
                    /\ \A e \in Updates(tx[q].job) : by'[e.target] = tx[q].job \/ e.target \in since[q]
                    /\ \A e \in Creates(tx[q].job) :
                          \/ \E r \in Record : ~Exists(r) /\ slug'[r] = e.slug /\ by'[r] = tx[q].job
                          \/ e.slug \in since[q] \cup kept
                    /\ \A k \in tx[q].named : k[2] = 2 => k[1] \in since[q]
  <2>1. IInv /\ [Next]_vars => \A q \in Request : Commit(q) =>
            /\ \A e \in Updates(tx[q].job) :
                  Exists(e.target) => stamp[e.target] = e.stamp \/ e.target \in since[q]
            /\ \A e \in Updates(tx[q].job) : by'[e.target] = tx[q].job \/ e.target \in since[q]
            /\ \A e \in Creates(tx[q].job) :
                  \/ \E r \in Record : ~Exists(r) /\ slug'[r] = e.slug /\ by'[r] = tx[q].job
                  \/ e.slug \in since[q] \cup kept
            /\ \A k \in tx[q].named : k[2] = 2 => k[1] \in since[q]
    OBVIOUS
  <2>2. IInv /\ [Next]_vars =>
            [\A q \in Request : Commit(q) => \A e \in Updates(tx[q].job) :
                Exists(e.target) => stamp[e.target] = e.stamp \/ e.target \in since[q]]_vars
    BY <2>1
  <2>3. IInv /\ [Next]_vars =>
            [\A q \in Request : Commit(q) =>
                LET j == tx[q].job
                IN  /\ \A e \in Updates(j) : by'[e.target] = j \/ e.target \in since[q]
                    /\ \A e \in Creates(j) :
                        \/ \E r \in Record : ~Exists(r) /\ slug'[r] = e.slug /\ by'[r] = j
                        \/ e.slug \in since[q] \cup kept]_vars
    BY <2>1
  <2>4. IInv /\ [Next]_vars =>
            [\A q \in Request : Commit(q) => \A k \in tx[q].named : k[2] = 2 => k[1] \in since[q]]_vars
    BY <2>1
  <2> QED
    BY <2>2, <2>3, <2>4, AlwaysIInv, PTL
       DEF Spec, ImportsAsReviewed, OnlyRacesOverwrite, AppliedAsReviewed, OnlyRacesDoubleFounders
<1>1. ASSUME NEW e \in Updates(tx[q].job)
      PROVE  /\ Exists(e.target) => stamp[e.target] = e.stamp \/ e.target \in since[q]
             /\ by'[e.target] = tx[q].job \/ e.target \in since[q]
  <2>1. Handled(tx[q], since[q], e) /\ Fresh(since[q], e) /\ e.action = "update"
    BY PlanRows, AllHandled
  <2>2. e.target \in tx[q].holds => by'[e.target] = tx[q].job
    BY LockedFacts, CommitFacts
  <2> QED
    BY <2>1, <2>2 DEF Handled, Fresh
<1>2. ASSUME NEW e \in Creates(tx[q].job)
      PROVE  \/ \E r \in Record : ~Exists(r) /\ slug'[r] = e.slug /\ by'[r] = tx[q].job
             \/ e.slug \in since[q] \cup kept
  <2>1. Handled(tx[q], since[q], e) /\ e.action = "create" /\ e.slug # NoSlug
    BY PlanRows, AllHandled, Nulls DEF Entries
  <2>2. ASSUME NEW r \in Record, tx[q].made[r] = e.slug
        PROVE  ~Exists(r) /\ slug'[r] = e.slug /\ by'[r] = tx[q].job
    <3>1. r \in NewIds(q)
      BY <2>1, <2>2 DEF NewIds
    <3> QED
      BY <2>2, <3>1, CommitFacts DEF Exists
  <2> QED
    BY <2>1, <2>2 DEF Handled
<1>3. \A k \in tx[q].named : k[2] = 2 => k[1] \in since[q]
  BY Facts, CommitFacts DEF TxOK, Claims
<1> QED
  BY <1>1, <1>2, <1>3

-----------------------------------------------------------------------------
(* The import as one step *)

Cat == [r \in Record |-> [slug |-> slug[r], by |-> by[r]]]
Review == [j \in Job |-> {e.target : e \in Updates(j)}]
Reviewed == {j \in Job : status[j] # "none"}

\* What a step may leave as it is: the records, the reviews, which jobs have one or are done.
LEMMA SameCatalogue ==
  ASSUME UNCHANGED <<slug, by, plan, done>>, Reviewed' = Reviewed
  PROVE  UNCHANGED Catalogue!vars
<1>1. Cat' = Cat /\ Review' = Review
  BY DEF Cat, Review, Updates
<1> QED
  BY <1>1 DEF Catalogue!vars, Cat, Review, Reviewed

LEMMA CatalogueTyped ==
  ASSUME slug \in [Record -> Slug \cup {NoSlug}], by \in [Record -> Writers]
  PROVE  Cat \in [Record -> [slug : Slug \cup {NoSlug}, by : Catalogue!Writers]]
BY DEF Cat, Writers, Catalogue!Writers

\* An editor's change is of one record.
LEMMA EditsOne ==
  ASSUME IInv, NEW r \in Record, UNCHANGED <<jobs, done>>,
         slug' \in [Record -> Slug \cup {NoSlug}], by' \in [Record -> Writers],
         by'[r] = IF slug'[r] = NoSlug THEN by[r] ELSE "editor",
         \A a \in Record \ {r} : slug'[a] = slug[a] /\ by'[a] = by[a]
  PROVE  Catalogue!Edit(r)
<1>1. Cat' \in [Record -> [slug : Slug \cup {NoSlug}, by : Catalogue!Writers]]
  BY DEF Cat, Writers, Catalogue!Writers
<1>2. /\ Cat'[r].by = IF Cat'[r].slug = NoSlug THEN Cat[r].by ELSE "editor"
      /\ \A a \in Record \ {r} : Cat'[a] = Cat[a]
  BY DEF Cat
<1>3. Review' = Review /\ Reviewed' = Reviewed /\ done' = done
  BY DEF Review, Reviewed, Updates, jobs
<1> QED
  BY <1>1, <1>2, <1>3 DEF Catalogue!Edit, Cat, Review, Reviewed

LEMMA DryRunReviews ==
  ASSUME IInv, NEW j \in Job, NEW near, DryRun(j, near)
  PROVE  Catalogue!Review(j)
<1>1. IInv' /\ status \in [Job -> Status] /\ plan \in [Job -> Seq(Entries)]
  BY DryRunIInv DEF IInv, TypeOK
<1>2. /\ status[j] = "none" /\ status' = [status EXCEPT ![j] = "dry_run"]
      /\ UNCHANGED <<catalogue, done>> /\ \A i \in Job \ {j} : plan'[i] = plan[i]
  BY <1>1 DEF DryRun
<1>3. Reviewed' = Reviewed \cup {j} /\ j \notin Reviewed
  BY <1>1, <1>2 DEF Reviewed
<1>4. Review' \in [Job -> SUBSET Record]
  BY <1>1, PlanRows DEF Review, IInv, PlansOK, Updates, Listed
<1>5. \A i \in Job \ {j} : Review'[i] = Review[i]
  BY <1>2 DEF Review, Updates
<1>6. Cat' = Cat
  BY <1>2 DEF Cat, catalogue
<1> QED
  BY <1>2, <1>3, <1>4, <1>5, <1>6 DEF Catalogue!Review, Cat, Review, Reviewed

LEMMA CommitImports ==
  ASSUME IInv, NEW q \in Request, Commit(q), NEW j \in Job, j = tx[q].job
  PROVE  Catalogue!Import(j)
<1>1. j \in Job /\ j \in Reviewed /\ j \notin done /\ status \in [Job -> Status]
  BY CommitFacts DEF Reviewed, IInv, DoneOK, TypeOK
<1>2. Cat' \in [Record -> [slug : Slug \cup {NoSlug}, by : Catalogue!Writers]]
  BY CommitFacts DEF Cat, Writers, Catalogue!Writers
<1>3. Review' = Review
  BY CommitFacts DEF Review, Updates
<1>4. Reviewed' = Reviewed
  BY <1>1, CommitFacts DEF Reviewed
<1>5. ASSUME NEW r \in Record
      PROVE  IF slug[r] # NoSlug /\ r \in Review[j]
             THEN Cat'[r] = [Cat[r] EXCEPT !.by = j]
             ELSE \/ Cat'[r] = Cat[r]
                  \/ Cat[r].by = "nobody" /\ Cat'[r].slug # NoSlug /\ Cat'[r].by = j
  <2>1. CASE slug[r] # NoSlug /\ r \in Review[j]
    <3>1. PICK e \in Updates(j) : e.target = r
      BY <1>1, <2>1 DEF Review
    <3>2. r \in tx[q].holds
      BY <2>1, <3>1, PlanRows, AllHandled DEF Handled
    <3>3. slug'[r] = slug[r] /\ by'[r] = j
      BY <3>2, CommitFacts
    <3> QED
      BY <2>1, <3>3 DEF Cat
  <2>2. CASE ~(slug[r] # NoSlug /\ r \in Review[j])
    <3>1. r \notin tx[q].holds
      <4>1. Holds(tx[q])
        BY Facts DEF TxOK
      <4>2. ASSUME r \in tx[q].holds PROVE slug[r] # NoSlug /\ \E e \in Updates(j) : e.target = r
        BY <4>1, <4>2, PlanRows DEF Holds
      <4> QED
        BY <1>1, <2>2, <4>2 DEF Review
    <3>2. CASE r \in NewIds(q)
      BY <2>2, <3>2, CommitFacts DEF Cat, NewIds
    <3>3. CASE r \notin NewIds(q)
      BY <2>2, <3>1, <3>3, CommitFacts DEF Cat
    <3> QED
      BY <3>2, <3>3
  <2> QED
    BY <2>1, <2>2
<1>6. done' = done \cup {j}
  BY CommitFacts
<1>7. \A r \in Record : Cat[r].slug = slug[r]
  BY DEF Cat
<1> QED
  BY <1>1, <1>2, <1>3, <1>4, <1>5, <1>6, <1>7 DEF Catalogue!Import, Catalogue!Exists, Cat, Review, Reviewed

LEMMA EditorsEdit ==
  ASSUME IInv, Editors
  PROVE  Catalogue!Next \/ UNCHANGED Catalogue!vars
<1>0. TypeOK /\ UnusedOK
  BY DEF IInv
<1>1. ASSUME NEW r \in Record, Edit(r) PROVE Catalogue!Edit(r)
  <2>1. /\ slug' = slug /\ by' = [by EXCEPT ![r] = "editor"] /\ UNCHANGED <<jobs, done>>
        /\ slug[r] # NoSlug
    BY <1>1 DEF Edit, Editable, Exists
  <2> QED
    BY <1>0, <2>1, EditsOne DEF TypeOK, Writers
<1>2. ASSUME NEW r \in Record, NEW s \in Slug, Rename(r, s) PROVE Catalogue!Edit(r)
  <2>1. /\ slug' = [slug EXCEPT ![r] = s] /\ by' = [by EXCEPT ![r] = "editor"]
        /\ UNCHANGED <<jobs, done>> /\ s # NoSlug
    BY <1>2, Nulls DEF Rename
  <2> QED
    BY <1>0, <2>1, EditsOne DEF TypeOK, Writers
<1>3. ASSUME NEW r \in Record, NEW s \in Slug, CreateStartup(r, s) PROVE Catalogue!Edit(r)
  <2>1. /\ slug' = [slug EXCEPT ![r] = s] /\ by' = [by EXCEPT ![r] = "editor"]
        /\ UNCHANGED <<jobs, done>> /\ s # NoSlug
    BY <1>3, Nulls DEF CreateStartup
  <2> QED
    BY <1>0, <2>1, EditsOne DEF TypeOK, Writers
<1>4. ASSUME NEW r \in Record, HardDelete(r) PROVE Catalogue!Edit(r)
  <2>1. slug' = [slug EXCEPT ![r] = NoSlug] /\ by' = by /\ UNCHANGED <<jobs, done>>
    BY <1>4 DEF HardDelete
  <2> QED
    BY <1>0, <2>1, EditsOne DEF TypeOK
<1>5. ASSUME NEW k \in Key, RemoveFounder(k) PROVE UNCHANGED Catalogue!vars
  BY <1>5, SameCatalogue DEF RemoveFounder, jobs, Reviewed
<1> QED
  BY <1>1, <1>2, <1>3, <1>4, <1>5 DEF Editors, Catalogue!Next

LEMMA StepsImport ==
  ASSUME IInv, [Next]_vars
  PROVE  [Catalogue!Next]_(Catalogue!vars)
<1>1. ASSUME NEW j \in Job, NEW near \in SUBSET Alike[j], DryRun(j, near) PROVE Catalogue!Next
  BY <1>1, DryRunReviews DEF Catalogue!Next
<1>2. ASSUME NEW q \in Request, Commit(q) PROVE Catalogue!Next
  <2>1. PICK j \in Job : j = tx[q].job
    BY <1>2, CommitFacts
  <2>2. Catalogue!Import(j)
    BY <1>2, <2>1, CommitImports
  <2> QED
    BY <2>2 DEF Catalogue!Next
<1>3. ASSUME NEW j \in Job, GrowLate(j) \/ \E q \in Request : Ask(q, j) PROVE UNCHANGED Catalogue!vars
  BY <1>3, SameCatalogue DEF GrowLate, Ask, catalogue, jobs, Reviewed
<1>4. ASSUME NEW q \in Request, MarkExpired(q) PROVE UNCHANGED Catalogue!vars
  <2>1. tx[q].job \in Job /\ status[tx[q].job] # "none" /\ status \in [Job -> Status]
    BY <1>4, Facts DEF MarkExpired, TxOK, Asked, IInv, TypeOK
  <2>2. Reviewed' = Reviewed
    BY <1>4, <2>1 DEF MarkExpired, Reviewed
  <2> QED
    BY <1>4, <2>2, SameCatalogue DEF MarkExpired, catalogue
<1>5. ASSUME NEW q \in Request,
             \/ Begin(q) \/ Check(q) \/ UpdateRow(q) \/ ClaimRow(q) \/ LinkPerson(q) \/ ClaimPerson(q)
             \/ InsertPerson(q) \/ Rollback(q) \/ \E r \in Record : InsertRow(q, r)
      PROVE  UNCHANGED Catalogue!vars
  <2>1. UNCHANGED <<catalogue, jobs, done>>
    BY <1>5 DEF Begin, Check, UpdateRow, ClaimRow, LinkPerson, ClaimPerson, InsertPerson, Rollback, InsertRow
  <2> QED
    BY <2>1, SameCatalogue DEF catalogue, jobs, Reviewed
<1>6. CASE UNCHANGED vars
  BY <1>6, SameCatalogue DEF vars, catalogue, jobs, Reviewed
<1> QED
  BY <1>1, <1>2, <1>3, <1>4, <1>5, <1>6, EditorsEdit DEF Next, CommitStep

LEMMA InitCatalogue == Init => Catalogue!Init
<1> SUFFICES ASSUME Init PROVE Catalogue!Init
  OBVIOUS
<1>1. \A r \in Record : Cat[r].slug = slug[r] /\ Cat[r].by = IF slug[r] = NoSlug THEN "nobody" ELSE "editor"
  BY DEF Init, Cat
<1>2. Review = [j \in Job |-> {}]
  BY DEF Init, Review, Updates
<1>3. Reviewed = {} /\ done = {}
  BY DEF Init, Reviewed
<1> QED
  BY <1>1, <1>2, <1>3 DEF Catalogue!Init, Catalogue!Exists, Cat, Review, Reviewed

\* ImportIsOneStep: an import that many requests try, row by row and beside editors, takes effect at
\* most once, all at once, and touches only what its review named.
THEOREM ImportsOnce == Spec => ImportIsOneStep
BY InitCatalogue, StepsImport, AlwaysIInv, PTL DEF Spec, ImportIsOneStep, Catalogue!Spec

-----------------------------------------------------------------------------
(* The screens that send calls. *)

LEMMA CallsGiven == Calls!CallsAssumption
  BY ToolsAssumption DEF ToolsAssumption

LEMMA CallsNumber == \A S : Calls!Cardinality(S) = Cardinality(S)
  BY Zenon DEF Calls!Cardinality, Cardinality

(* The list of records. *)

\* Until an answer is cut off, a run has gone through what it no longer has to change.
CallsRunning ==
  run # None =>
    /\ run = [left |-> run.left, succeeded |-> run.succeeded, failures |-> run.failures]
    /\ run.left \subseteq asked /\ did \subseteq asked /\ run.failures \subseteq asked \ run.left
    /\ ~stuck => /\ did \cap run.left = {} /\ did \cup run.failures = asked \ run.left
                 /\ run.succeeded = Cardinality(did \ run.failures)

RunInv == IsFiniteSet(did) /\ CallsRunning /\ (outcome # None => run = None) /\ Calls!RunTold

LEMMA RunStays ==
  ASSUME RunInv, UNCHANGED <<run, outcome, asked, did>>, ~stuck' => ~stuck
  PROVE  RunInv'
  BY DEF RunInv, CallsRunning, Calls!RunTold

LEMMA RunStep == ASSUME RunInv, NEW action \in Calls!BulkAction, Calls!Run(action) PROVE RunInv'
  <1> DEFINE S == Calls!Eligible(action)
  <1>1. /\ outcome' = None /\ run' = [left |-> S, succeeded |-> 0, failures |-> {}]
        /\ asked' = S /\ did' = {}
    BY DEF Calls!Run
  <1> HIDE DEF S
  <1>2. /\ run'.left = S /\ run'.succeeded = 0 /\ run'.failures = {}
        /\ run' = [left |-> run'.left, succeeded |-> run'.succeeded, failures |-> run'.failures]
    BY <1>1
  <1>3. IsFiniteSet(did') /\ Cardinality(did' \ run'.failures) = 0
    BY <1>1, FS_EmptySet
  <1>4. CallsRunning'
    BY <1>1, <1>2, <1>3 DEF CallsRunning
  <1>5. QED
    BY <1>1, <1>3, <1>4 DEF RunInv, Calls!RunTold

LEMMA ChangeStep == ASSUME RunInv, NEW r \in Item, Calls!Change(r) PROVE RunInv'
  <1>1. /\ ~stuck /\ run # None /\ r \in run.left /\ asked' = asked /\ outcome' = outcome
    BY DEF Calls!Change, Calls!On
  <1>2. PICK reached \in BOOLEAN :
          LET does == reached /\ Calls!Succeeds(pending, r)
          IN  \E answer \in Calls!Heard(reached, does) :
                /\ did' = IF does THEN did \cup {r} ELSE did
                /\ stuck' = (answer = "cut")
                /\ run' = IF answer = "cut" THEN run ELSE Calls!Counted(r, answer)
    BY DEF Calls!Change
  <1>3. PICK does \in BOOLEAN : does = (reached /\ Calls!Succeeds(pending, r))
    OBVIOUS
  <1>4. PICK answer \in Calls!Heard(reached, does) :
          /\ did' = IF does THEN did \cup {r} ELSE did
          /\ stuck' = (answer = "cut")
          /\ run' = IF answer = "cut" THEN run ELSE Calls!Counted(r, answer)
    BY <1>2, <1>3
  <1>5. /\ run = [left |-> run.left, succeeded |-> run.succeeded, failures |-> run.failures]
        /\ run.left \subseteq asked /\ did \subseteq asked /\ run.failures \subseteq asked \ run.left
        /\ did \cap run.left = {} /\ did \cup run.failures = asked \ run.left
        /\ run.succeeded = Cardinality(did \ run.failures) /\ outcome = None /\ IsFiniteSet(did)
    BY <1>1 DEF RunInv, CallsRunning
  <1>6. answer = "ok" => does
    BY <1>4 DEF Calls!Heard
  <1>7. IsFiniteSet(did') /\ did' \subseteq asked
    BY <1>1, <1>4, <1>5, FS_AddElement
  <1>8. CASE answer = "cut"
    BY <1>1, <1>4, <1>5, <1>7, <1>8 DEF RunInv, CallsRunning, Calls!RunTold
  <1>9. CASE answer = "ok"
    <2>1. run' = [left |-> run.left \ {r}, succeeded |-> run.succeeded + 1, failures |-> run.failures]
      BY <1>4, <1>5, <1>9 DEF Calls!Counted
    <2>2. did' = did \cup {r} /\ r \notin did /\ r \notin run.failures
      BY <1>1, <1>4, <1>5, <1>6, <1>9
    <2>3. did' \ run.failures = (did \ run.failures) \cup {r}
      BY <2>2
    <2>4. IsFiniteSet(did \ run.failures) /\ r \notin did \ run.failures
      BY <1>5, <2>2, FS_Difference
    <2>5. Cardinality(did' \ run.failures) = run.succeeded + 1
      BY <1>5, <2>3, <2>4, FS_AddElement
    <2>6. QED
      BY <1>1, <1>5, <1>7, <2>1, <2>2, <2>5 DEF RunInv, CallsRunning, Calls!RunTold
  <1>10. CASE answer \notin {"cut", "ok"}
    <2>1. run' = [left |-> run.left \ {r}, succeeded |-> run.succeeded, failures |-> run.failures \cup {r}]
      BY <1>4, <1>5, <1>10 DEF Calls!Counted
    <2>2. did' \ (run.failures \cup {r}) = did \ run.failures /\ did' \subseteq did \cup {r} /\ did \subseteq did'
      BY <1>1, <1>4, <1>5
    <2>3. QED
      BY <1>1, <1>5, <1>7, <2>1, <2>2 DEF RunInv, CallsRunning, Calls!RunTold
  <1>11. QED
    BY <1>8, <1>9, <1>10

LEMMA EndRunStep == ASSUME RunInv, Calls!EndRun PROVE RunInv'
  <1>1. /\ ~stuck /\ run # None /\ run.left = {} /\ run' = None /\ UNCHANGED <<asked, did>>
        /\ outcome' = [succeeded |-> run.succeeded, failures |-> run.failures]
    BY DEF Calls!EndRun, Calls!On
  <1>2. did \subseteq asked /\ did \cup run.failures = asked /\ run.succeeded = Cardinality(did \ run.failures)
    BY <1>1 DEF RunInv, CallsRunning
  <1>3. outcome'.succeeded = run.succeeded /\ outcome'.failures = run.failures
    BY <1>1
  <1>4. Calls!RunTold'
    BY <1>1, <1>2, <1>3, CallsNumber DEF Calls!RunTold
  <1>5. QED
    BY <1>1, <1>4 DEF RunInv, CallsRunning

LEMMA NextRun == ASSUME RunInv, [Calls!Next]_(Calls!vars) PROVE RunInv'
  <1>1. CASE UNCHANGED Calls!vars
    BY <1>1, RunStays DEF Calls!vars, Calls!list
  <1>2. CASE Calls!Records
    <2>1. ASSUME NEW r \in Item, NEW a \in Calls!BulkAction, Calls!Toggle(r) \/ Calls!Elsewhere(r, a) PROVE RunInv'
      BY <2>1, RunStays DEF Calls!Toggle, Calls!Elsewhere
    <2>2. ASSUME NEW r \in Item, Calls!Toggle(r) PROVE RunInv'
      BY <2>2, RunStays DEF Calls!Toggle
    <2>3. CASE Calls!SelectAll \/ Calls!Listed
      BY <2>3, RunStays DEF Calls!SelectAll, Calls!Listed
    <2>4. QED
      BY <1>2, <2>1, <2>2, <2>3, RunStep, ChangeStep, EndRunStep DEF Calls!Records
  <1>3. CASE Calls!Imports
    <2>1. UNCHANGED Calls!list
      BY <1>3 DEF Calls!Imports, Calls!ChooseFile, Calls!DryRun, Calls!AnswerDryRun,
         Calls!CommitJob, Calls!AnswerCommit, Calls!JobElsewhere
    <2>2. ~stuck' => ~stuck
      BY <1>3 DEF Calls!Imports, Calls!ChooseFile, Calls!DryRun, Calls!AnswerDryRun,
         Calls!CommitJob, Calls!AnswerCommit, Calls!JobElsewhere, Calls!On, Calls!Waits
    <2>3. QED
      BY <2>1, <2>2, RunStays DEF Calls!list
  <1>4. CASE Calls!Users
    <2>1. UNCHANGED Calls!list
      BY <1>4 DEF Calls!Users, Calls!act, Calls!AnswerAct, Calls!UsersListed, Calls!MemberSignsIn,
         Calls!OtherAdmin
    <2>2. ~stuck' => ~stuck
      BY <1>4 DEF Calls!Users, Calls!act, Calls!AnswerAct, Calls!UsersListed, Calls!MemberSignsIn,
         Calls!OtherAdmin, Calls!On, Calls!Waits
    <2>3. QED
      BY <2>1, <2>2, RunStays DEF Calls!list
  <1>5. CASE Calls!Account
    <2>1. UNCHANGED Calls!list
      BY <1>5 DEF Calls!Account, Calls!SetPassword, Calls!GenerateCodes, Calls!ChangePassword,
         Calls!RequestReset, Calls!Send, Calls!Differ, Calls!AnswerAsk, Calls!OtherTab
    <2>2. ~stuck' => ~stuck
      BY <1>5 DEF Calls!Account, Calls!SetPassword, Calls!GenerateCodes, Calls!ChangePassword,
         Calls!RequestReset, Calls!Send, Calls!Differ, Calls!AnswerAsk,
                 Calls!OtherTab, Calls!On, Calls!Waits
    <2>3. QED
      BY <2>1, <2>2, RunStays DEF Calls!list
  <1>6. CASE Calls!Reload
    BY <1>6 DEF Calls!Reload, RunInv, CallsRunning, Calls!RunTold
  <1>7. QED
    BY <1>1, <1>2, <1>3, <1>4, <1>5, <1>6 DEF Calls!Next

(* The import screen. *)

Files == Upload \cup {None}
JobStatus == {"none", "dry_run", "old", "committed", "expired"}

Importing ==
  /\ dryRuns \in [DryRuns -> JobStatus] /\ source \in [DryRuns -> Files] /\ file \in Files
  /\ mine \subseteq DryRuns /\ (\A j \in mine : dryRuns[j] = "committed")
  /\ page # "import" => report = None
  /\ report # None =>
       /\ report = [job |-> report.job, status |-> report.status, file |-> report.file]
       /\ report.job \in DryRuns /\ dryRuns[report.job] # "none"

\* What is under way has not been told as done.
Calling ==
  page = "import" /\ pending # None =>
    \/ pending.call = "upload" /\ pending.file \in Files /\ ~imported
    \/ /\ pending.call = "commit" /\ pending.job \in DryRuns /\ ~imported
       /\ report # None /\ report.job = pending.job /\ report.status = "dry_run"

ImportInv == Importing /\ Calling /\ Calls!ImportTold

LEMMA NoCalls ==
  /\ \A f \in Upload : [call |-> "upload", file |-> f] # None
  /\ \A j \in DryRuns : [call |-> "commit", job |-> j] # None
  BY CallsGiven DEF Calls!CallsAssumption

\* What happens on another page has no report to spoil.
LEMMA ImportStays ==
  ASSUME ImportInv, UNCHANGED <<page, Calls!import>>, page = "import" => pending' = pending
  PROVE  ImportInv'
  BY DEF ImportInv, Importing, Calling, Calls!ImportTold, Calls!import

LEMMA ChooseFileStep == ASSUME ImportInv, NEW f \in Files, Calls!ChooseFile(f) PROVE ImportInv'
  BY DEF Calls!ChooseFile, ImportInv, Importing, Calling, Calls!ImportTold

LEMMA DryRunStep == ASSUME ImportInv, Calls!DryRun PROVE ImportInv'
  <1>1. /\ page = "import" /\ pending' = [call |-> "upload", file |-> file] /\ file \in Upload
        /\ ~imported' /\ UNCHANGED <<page, dryRuns, source, file, report, mine>>
    BY DEF Calls!DryRun, Calls!On, ImportInv, Importing, Files
  <1>2. pending' # None /\ pending'.call = "upload" /\ pending'.file = file
    BY <1>1, NoCalls
  <1>3. Importing'
    BY <1>1 DEF ImportInv, Importing
  <1>4. QED
    BY <1>1, <1>2, <1>3 DEF ImportInv, Importing, Calling, Calls!ImportTold

LEMMA CommitJobStep == ASSUME ImportInv, Calls!CommitJob PROVE ImportInv'
  <1>1. /\ page = "import" /\ report # None /\ report.status = "dry_run"
        /\ pending' = [call |-> "commit", job |-> report.job]
        /\ UNCHANGED <<page, dryRuns, source, file, report, imported, mine>>
    BY DEF Calls!CommitJob, Calls!On
  <1>2. report.job \in DryRuns /\ ~imported
    BY <1>1 DEF ImportInv, Importing, Calls!ImportTold
  <1>3. pending' # None /\ pending'.call = "commit" /\ pending'.job = report.job
    BY <1>1, <1>2, NoCalls
  <1>4. Importing'
    BY <1>1 DEF ImportInv, Importing
  <1>5. QED
    BY <1>1, <1>2, <1>3, <1>4 DEF ImportInv, Calling, Calls!ImportTold

LEMMA AnswerDryRunStep == ASSUME ImportInv, Calls!AnswerDryRun PROVE ImportInv'
  <1>1. /\ page = "import" /\ pending # None /\ pending.call = "upload"
        /\ UNCHANGED <<page, file, imported, mine>>
    BY DEF Calls!AnswerDryRun, Calls!On
  <1>2. pending.file \in Files /\ ~imported
    BY <1>1 DEF ImportInv, Calling
  <1>3. PICK reached \in BOOLEAN, parses \in BOOLEAN, j \in DryRuns :
          LET makes == reached /\ parses
          IN  /\ makes => j \in Calls!Unused /\ \A other \in Calls!Unused : j <= other
              /\ \E answer \in Calls!Heard(reached, makes) :
                   /\ dryRuns' = IF makes THEN [dryRuns EXCEPT ![j] = "dry_run"] ELSE dryRuns
                   /\ source' = IF makes THEN [source EXCEPT ![j] = pending.file] ELSE source
                   /\ report' = IF answer = "ok"
                                THEN [job |-> j, status |-> "dry_run", file |-> pending.file]
                                ELSE report
                   /\ failure' = (answer \in {"lost", "refused"})
                   /\ Calls!Waits(answer)
    BY DEF Calls!AnswerDryRun
  <1>4. PICK makes \in BOOLEAN : makes = (reached /\ parses)
    OBVIOUS
  <1>5. PICK answer \in Calls!Heard(reached, makes) :
          /\ dryRuns' = IF makes THEN [dryRuns EXCEPT ![j] = "dry_run"] ELSE dryRuns
          /\ source' = IF makes THEN [source EXCEPT ![j] = pending.file] ELSE source
          /\ report' = IF answer = "ok"
                       THEN [job |-> j, status |-> "dry_run", file |-> pending.file]
                       ELSE report
          /\ failure' = (answer \in {"lost", "refused"})
          /\ Calls!Waits(answer)
    BY <1>3, <1>4
  <1>6. makes => dryRuns[j] = "none"
    BY <1>3, <1>4 DEF Calls!Unused
  <1>7. answer \in {"lost", "cut", "ok", "refused"} /\ (answer = "ok" => makes)
    BY <1>5 DEF Calls!Heard
  <1>8. pending' = IF answer = "cut" THEN pending ELSE None
    BY <1>5 DEF Calls!Waits
  <1>9. /\ dryRuns \in [DryRuns -> JobStatus] /\ source \in [DryRuns -> Files]
        /\ \A k \in mine : k \in DryRuns /\ dryRuns[k] = "committed"
        /\ report # None => report.job \in DryRuns /\ dryRuns[report.job] # "none"
    BY DEF ImportInv, Importing
  <1>10. dryRuns' \in [DryRuns -> JobStatus] /\ \A k \in DryRuns : dryRuns[k] # "none" => dryRuns'[k] = dryRuns[k]
    BY <1>5, <1>6, <1>9 DEF JobStatus
  <1>11. source' \in [DryRuns -> Files] /\ \A k \in DryRuns : dryRuns[k] # "none" => source'[k] = source[k]
    BY <1>2, <1>5, <1>6, <1>9
  <1>12. CASE answer = "ok"
    <2>1. /\ report' = [job |-> j, status |-> "dry_run", file |-> pending.file] /\ dryRuns'[j] = "dry_run"
          /\ source'[j] = pending.file /\ j \notin mine /\ pending' = None
      BY <1>5, <1>6, <1>7, <1>8, <1>9, <1>12
    <2>2. /\ report'.job = j /\ report'.status = "dry_run" /\ report'.file = pending.file
          /\ report' = [job |-> report'.job, status |-> report'.status, file |-> report'.file]
      BY <2>1
    <2>3. Importing'
      BY <1>1, <1>9, <1>10, <1>11, <2>1, <2>2 DEF ImportInv, Importing
    <2>4. QED
      BY <1>1, <1>2, <2>1, <2>2, <2>3 DEF ImportInv, Calling, Calls!ImportTold
  <1>13. CASE answer # "ok"
    <2>1. report' = report /\ (failure' \/ pending' # None)
      BY <1>1, <1>5, <1>7, <1>8, <1>13
    <2>2. Importing'
      BY <1>1, <1>9, <1>10, <1>11, <2>1 DEF ImportInv, Importing
    <2>3. Calls!ImportTold'
      BY <1>1, <1>2, <1>9, <1>10, <1>11, <2>1 DEF ImportInv, Calls!ImportTold
    <2>4. Calling'
      BY <1>1, <1>2, <1>8 DEF Calling
    <2>5. QED
      BY <2>2, <2>3, <2>4 DEF ImportInv
  <1>14. QED
    BY <1>12, <1>13

LEMMA AnswerCommitStep == ASSUME ImportInv, Calls!AnswerCommit PROVE ImportInv'
  <1>1. /\ page = "import" /\ pending # None /\ pending.call = "commit"
        /\ UNCHANGED <<page, source, file>>
    BY DEF Calls!AnswerCommit, Calls!On
  <1> DEFINE j == pending.job
  <1>2. j \in DryRuns /\ j = pending.job
    BY <1>1 DEF ImportInv, Calling
  <1>3. ~imported /\ report # None /\ report.job = j /\ report.status = "dry_run"
    BY <1>1, <1>2 DEF ImportInv, Calling
  <1>4. PICK reached \in BOOLEAN, applies \in BOOLEAN :
          LET before == dryRuns[j]
              after == IF reached THEN Calls!Committed(before, applies) ELSE before
              does == before # "committed" /\ after = "committed"
          IN  \E answer \in Calls!Heard(reached, does) :
                /\ dryRuns' = [dryRuns EXCEPT ![j] = after]
                /\ mine' = IF does THEN mine \cup {j} ELSE mine
                /\ report' = CASE answer = "ok" -> [report EXCEPT !.status = "committed"]
                               [] answer = "refused" /\ after = "expired" ->
                                    [report EXCEPT !.status = "expired"]
                               [] OTHER -> report
                /\ imported' = (imported \/ answer = "ok")
                /\ failure' = (answer \in {"lost", "refused"})
                /\ Calls!Waits(answer)
    BY DEF Calls!AnswerCommit
  <1> HIDE DEF j
  <1>5. PICK after : after = IF reached THEN Calls!Committed(dryRuns[j], applies) ELSE dryRuns[j]
    OBVIOUS
  <1>6. PICK does \in BOOLEAN : does = (dryRuns[j] # "committed" /\ after = "committed")
    OBVIOUS
  <1>7. PICK answer \in Calls!Heard(reached, does) :
          /\ dryRuns' = [dryRuns EXCEPT ![j] = after]
          /\ mine' = IF does THEN mine \cup {j} ELSE mine
          /\ report' = CASE answer = "ok" -> [report EXCEPT !.status = "committed"]
                         [] answer = "refused" /\ after = "expired" ->
                              [report EXCEPT !.status = "expired"]
                         [] OTHER -> report
          /\ imported' = (imported \/ answer = "ok")
          /\ failure' = (answer \in {"lost", "refused"})
          /\ Calls!Waits(answer)
    BY <1>4, <1>5, <1>6
  <1>8. answer \in {"lost", "cut", "ok", "refused"} /\ (answer = "ok" => does)
    BY <1>7 DEF Calls!Heard
  <1>9. pending' = IF answer = "cut" THEN pending ELSE None
    BY <1>7 DEF Calls!Waits
  <1>10. /\ dryRuns \in [DryRuns -> JobStatus] /\ source \in [DryRuns -> Files] /\ file \in Files
         /\ (\A k \in mine : k \in DryRuns /\ dryRuns[k] = "committed") /\ dryRuns[j] # "none"
         /\ report = [job |-> j, status |-> "dry_run", file |-> report.file]
         /\ report.file = source[j]
    BY <1>3 DEF ImportInv, Importing, Calls!ImportTold
  <1>11. after \in JobStatus \ {"none"} /\ (dryRuns[j] = "committed" => after = "committed")
    BY <1>2, <1>5, <1>10 DEF Calls!Committed, JobStatus
  <1>12. /\ dryRuns' \in [DryRuns -> JobStatus] /\ dryRuns'[j] = after
         /\ \A k \in DryRuns : k # j => dryRuns'[k] = dryRuns[k]
    BY <1>2, <1>7, <1>10, <1>11
  <1>13. /\ \A k \in mine' : k \in DryRuns /\ dryRuns'[k] = "committed"
         /\ does => j \in mine' /\ after = "committed"
    BY <1>6, <1>7, <1>10, <1>11, <1>12, ZenonT(60)
  <1>14. PICK s : report' = [job |-> j, status |-> s, file |-> report.file]
                  /\ s = CASE answer = "ok" -> "committed"
                           [] answer = "refused" /\ after = "expired" -> "expired"
                           [] OTHER -> "dry_run"
    BY <1>7, <1>10
  <1>15. /\ report'.job = j /\ report'.status = s /\ report'.file = report.file
         /\ report' = [job |-> report'.job, status |-> report'.status, file |-> report'.file]
    BY <1>14
  <1>16. Importing'
    BY <1>1, <1>2, <1>10, <1>11, <1>12, <1>13, <1>15 DEF ImportInv, Importing
  <1>17. Calls!ImportTold'
    <2>1. report'.file = source'[report'.job]
      BY <1>1, <1>10, <1>15
    <2>2. answer = "ok" => j \in mine' /\ dryRuns'[j] = "committed" /\ s = "committed"
      BY <1>8, <1>12, <1>13, <1>14
    <2>3. (imported' => answer = "ok") /\ (s = "committed" => answer = "ok")
      BY <1>3, <1>7, <1>14
    <2>4. s = "dry_run" => failure' \/ pending' # None
      BY <1>1, <1>7, <1>8, <1>9, <1>14
    <2>5. QED
      BY <1>15, <2>1, <2>2, <2>3, <2>4 DEF Calls!ImportTold
  <1>18. Calling'
    <2> SUFFICES ASSUME pending' # None PROVE Calling'
      BY DEF Calling
    <2>1. answer = "cut" /\ pending' = pending
      BY <1>9
    <2>2. report' = report /\ imported' = FALSE
      BY <1>3, <1>7, <2>1
    <2>3. QED
      BY <1>1, <1>2, <1>3, <2>1, <2>2 DEF Calling
  <1>19. QED
    BY <1>16, <1>17, <1>18 DEF ImportInv

LEMMA JobElsewhereStep == ASSUME ImportInv, NEW j \in DryRuns, Calls!JobElsewhere(j) PROVE ImportInv'
  <1>1. /\ page = "import" /\ dryRuns[j] = "dry_run"
        /\ UNCHANGED <<page, pending, source, file, report, failure, imported, mine>>
    BY DEF Calls!JobElsewhere
  <1>2. PICK s \in {"old", "committed"} : dryRuns' = [dryRuns EXCEPT ![j] = s]
    BY DEF Calls!JobElsewhere
  <1>3. /\ dryRuns' \in [DryRuns -> JobStatus] /\ dryRuns'[j] = s
        /\ \A k \in DryRuns : k # j => dryRuns'[k] = dryRuns[k]
    BY <1>2 DEF ImportInv, Importing, JobStatus
  <1>4. Importing'
    BY <1>1, <1>3 DEF ImportInv, Importing
  <1>5. Calls!ImportTold'
    BY <1>1, <1>3 DEF ImportInv, Importing, Calls!ImportTold
  <1>6. QED
    BY <1>1, <1>4, <1>5 DEF ImportInv, Calling

LEMMA ImportReload == ASSUME ImportInv, Calls!Reload PROVE ImportInv'
  <1>1. /\ pending' = None /\ imported' = FALSE /\ file' = None /\ UNCHANGED <<page, dryRuns, source, mine>>
        /\ report' = IF report = None THEN None
                     ELSE [report EXCEPT !.status =
                             IF dryRuns[report.job] = "old" THEN "dry_run" ELSE dryRuns[report.job]]
    BY DEF Calls!Reload
  <1>2. CASE report = None
    BY <1>1, <1>2 DEF ImportInv, Importing, Calling, Calls!ImportTold, Files
  <1>3. CASE report # None
    <2>1. PICK s : s = IF dryRuns[report.job] = "old" THEN "dry_run" ELSE dryRuns[report.job]
      OBVIOUS
    <2>2. /\ report = [job |-> report.job, status |-> report.status, file |-> report.file]
          /\ report.job \in DryRuns /\ dryRuns[report.job] # "none" /\ report.file = source[report.job]
      BY <1>3 DEF ImportInv, Importing, Calls!ImportTold
    <2>3. report' = [job |-> report.job, status |-> s, file |-> report.file]
      BY <1>1, <1>3, <2>1, <2>2
    <2>4. /\ report'.job = report.job /\ report'.status = s /\ report'.file = report.file
          /\ report' = [job |-> report'.job, status |-> report'.status, file |-> report'.file]
      BY <2>3
    <2>5. Importing'
      BY <1>1, <1>3, <2>2, <2>4 DEF ImportInv, Importing, Files
    <2>6. Calls!ImportTold'
      BY <1>1, <2>1, <2>2, <2>4 DEF ImportInv, Importing, Calls!ImportTold
    <2>7. QED
      BY <1>1, <2>5, <2>6 DEF ImportInv, Calling
  <1>4. QED
    BY <1>2, <1>3

LEMMA NextImport == ASSUME ImportInv, [Calls!Next]_(Calls!vars) PROVE ImportInv'
  <1>1. CASE UNCHANGED Calls!vars
    BY <1>1, ImportStays DEF Calls!vars
  <1>2. CASE Calls!Records
    <2>1. page = "records" /\ UNCHANGED <<page, Calls!import>>
      BY <1>2 DEF Calls!Records, Calls!Toggle, Calls!Change, Calls!Elsewhere, Calls!SelectAll,
         Calls!EndRun, Calls!Listed, Calls!Run, Calls!On
    <2>2. QED
      BY <2>1, ImportStays
  <1>3. CASE Calls!Imports
    BY <1>3, ChooseFileStep, DryRunStep, AnswerDryRunStep, CommitJobStep, AnswerCommitStep,
       JobElsewhereStep
       DEF Calls!Imports, Files
  <1>4. CASE Calls!Users
    <2>1. page = "users" /\ UNCHANGED <<page, Calls!import>>
      BY <1>4 DEF Calls!Users, Calls!act, Calls!AnswerAct, Calls!UsersListed, Calls!MemberSignsIn,
         Calls!OtherAdmin, Calls!On
    <2>2. QED
      BY <2>1, ImportStays
  <1>5. CASE Calls!Account
    <2>1. page \in {"account", "reset", "request"} /\ UNCHANGED <<page, Calls!import>>
      BY <1>5 DEF Calls!Account, Calls!SetPassword, Calls!GenerateCodes, Calls!ChangePassword,
         Calls!RequestReset, Calls!Send, Calls!Differ, Calls!AnswerAsk,
                 Calls!OtherTab, Calls!On
    <2>2. QED
      BY <2>1, ImportStays
  <1>6. QED
    BY <1>1, <1>2, <1>3, <1>4, <1>5, ImportReload DEF Calls!Next

(* Staff accounts. *)

Accounts == [role : Calls!Role, enrolled : BOOLEAN, active : BOOLEAN]
UsersInv ==
  /\ staff \in [Member -> Accounts \cup {None}]
  /\ page = "users" /\ pending # None => pending \in [op : Calls!Op, member : Member, role : Calls!Role]

LEMMA NoAccount == None \notin Accounts
  BY CallsGiven DEF Calls!CallsAssumption, Accounts, Calls!Role

LEMMA AfterAccount ==
  ASSUME NEW a \in Accounts \cup {None}, NEW op \in Calls!Op, NEW role \in Calls!Role,
         ~Calls!Refused(a, op)
  PROVE  Calls!After(a, op, role) \in Accounts
  <1>1. CASE a = None
    BY <1>1 DEF Calls!Refused, Calls!After, Accounts, Calls!Op
  <1>2. CASE a # None
    BY <1>2 DEF Calls!After, Accounts
  <1>3. QED
    BY <1>1, <1>2

LEMMA NextUsers == ASSUME UsersInv, [Calls!Next]_(Calls!vars) PROVE UsersInv'
  <1>1. CASE UNCHANGED Calls!vars
    BY <1>1 DEF Calls!vars, Calls!users, UsersInv
  <1>2. CASE Calls!Records
    BY <1>2 DEF Calls!Records, Calls!Toggle, Calls!Change, Calls!Elsewhere, Calls!SelectAll,
       Calls!EndRun, Calls!Listed, Calls!Run, Calls!On, Calls!users, UsersInv
  <1>3. CASE Calls!Imports
    BY <1>3 DEF Calls!Imports, Calls!ChooseFile, Calls!DryRun, Calls!AnswerDryRun,
       Calls!CommitJob, Calls!AnswerCommit, Calls!JobElsewhere, Calls!On, Calls!users, UsersInv
  <1>4. CASE Calls!Account
    BY <1>4 DEF Calls!Account, Calls!SetPassword, Calls!GenerateCodes, Calls!ChangePassword,
       Calls!RequestReset, Calls!Send, Calls!Differ, Calls!AnswerAsk,
               Calls!OtherTab, Calls!On, Calls!users, UsersInv
  <1>5. CASE Calls!Reload
    BY <1>5 DEF Calls!Reload, UsersInv
  <1>6. CASE Calls!UsersListed
    BY <1>6 DEF Calls!UsersListed, UsersInv
  <1>7. ASSUME NEW m \in Member, NEW op \in Calls!Op, NEW role \in Calls!Role, Calls!act(op, m, role) PROVE UsersInv'
    BY <1>7 DEF Calls!act, UsersInv
  <1>8. ASSUME NEW m \in Member, NEW op \in Calls!Op, NEW role \in Calls!Role, Calls!OtherAdmin(m, op, role) PROVE UsersInv'
    <2>1. Calls!After(staff[m], op, role) \in Accounts
      BY <1>8, AfterAccount DEF Calls!OtherAdmin, UsersInv
    <2>2. QED
      BY <1>8, <2>1 DEF Calls!OtherAdmin, UsersInv
  <1>9. ASSUME NEW m \in Member, Calls!MemberSignsIn(m) PROVE UsersInv'
    <2>1. staff[m] \in Accounts /\ staff' = [staff EXCEPT ![m].enrolled = TRUE] /\ UNCHANGED <<page, pending>>
      BY <1>9 DEF Calls!MemberSignsIn, Calls!Active, UsersInv
    <2>2. [staff[m] EXCEPT !.enrolled = TRUE] \in Accounts
      BY <2>1 DEF Accounts
    <2>3. staff' \in [Member -> Accounts \cup {None}]
      BY <2>1, <2>2 DEF UsersInv
    <2>4. QED
      BY <2>1, <2>3 DEF UsersInv
  <1>10. CASE Calls!AnswerAct
    <2>1. page = "users" /\ pending # None /\ page' = page
      BY <1>10 DEF Calls!AnswerAct, Calls!On
    <2>2. PICK m \in Member, op \in Calls!Op, role \in Calls!Role : m = pending.member /\ op = pending.op /\ role = pending.role
      BY <2>1 DEF UsersInv
    <2>3. \/ staff' = staff
          \/ ~Calls!Refused(staff[m], op) /\ staff' = [staff EXCEPT ![m] = Calls!After(staff[m], op, role)]
      BY <1>10, <2>2 DEF Calls!AnswerAct
    <2>4. ~Calls!Refused(staff[m], op) => Calls!After(staff[m], op, role) \in Accounts
      BY AfterAccount DEF UsersInv
    <2>5. staff' \in [Member -> Accounts \cup {None}]
      BY <2>3, <2>4 DEF UsersInv
    <2>6. pending' \in {pending, None}
      BY <1>10 DEF Calls!AnswerAct, Calls!Waits
    <2>7. QED
      BY <2>1, <2>5, <2>6 DEF UsersInv
  <1>11. QED
    BY <1>1, <1>2, <1>3, <1>4, <1>5, <1>6, <1>7, <1>8, <1>9, <1>10 DEF Calls!Next, Calls!Users

\* Only an answer says that something was done.
LEMMA NoticeStep == ASSUME UsersInv, [Calls!Next]_(Calls!vars) PROVE Calls!SignOutTold
  <1> SUFFICES ASSUME notice' # None, notice' # notice, notice'.op # "error"
               PROVE  /\ staff'[notice'.member] # None
                      /\ notice'.op = "role" => \/ notice'.member \notin signedIn'
                                                \/ staff[notice'.member].role = notice'.role
    BY DEF Calls!SignOutTold
  <1>1. Calls!AnswerAct
    <2>1. CASE UNCHANGED Calls!vars
      BY <2>1 DEF Calls!vars, Calls!users
    <2>2. CASE Calls!Records
      BY <2>2 DEF Calls!Records, Calls!Toggle, Calls!Change, Calls!Elsewhere, Calls!SelectAll,
         Calls!EndRun, Calls!Listed, Calls!Run, Calls!users
    <2>3. CASE Calls!Imports
      BY <2>3 DEF Calls!Imports, Calls!ChooseFile, Calls!DryRun, Calls!AnswerDryRun,
         Calls!CommitJob, Calls!AnswerCommit, Calls!JobElsewhere, Calls!users
    <2>4. CASE Calls!Account
      BY <2>4 DEF Calls!Account, Calls!SetPassword, Calls!GenerateCodes, Calls!ChangePassword,
         Calls!RequestReset, Calls!Send, Calls!Differ, Calls!AnswerAsk,
                 Calls!OtherTab, Calls!users
    <2>5. CASE Calls!Reload
      BY <2>5 DEF Calls!Reload
    <2>6. CASE Calls!Users
      BY <2>6 DEF Calls!Users, Calls!act, Calls!UsersListed, Calls!MemberSignsIn, Calls!OtherAdmin
    <2>7. QED
      BY <2>1, <2>2, <2>3, <2>4, <2>5, <2>6 DEF Calls!Next
  <1>2. pending \in [op : Calls!Op, member : Member, role : Calls!Role]
    BY <1>1 DEF Calls!AnswerAct, Calls!On, UsersInv
  <1>3. PICK m \in Member, op \in Calls!Op, role \in Calls!Role : m = pending.member /\ op = pending.op /\ role = pending.role
    BY <1>2
  <1>4. PICK reached \in BOOLEAN :
          LET does == reached /\ ~Calls!Refused(staff[m], op)
          IN  \E answer \in Calls!Heard(reached, does) :
                /\ staff' = IF does THEN [staff EXCEPT ![m] = Calls!After(@, op, role)] ELSE staff
                /\ signedIn' = IF does /\ Calls!SignsOut(staff[m], op, role)
                               THEN signedIn \ {m} ELSE signedIn
                /\ notice' = CASE answer = "ok" -> pending
                               [] answer = "cut" -> notice
                               [] OTHER -> [pending EXCEPT !.op = "error"]
    BY <1>1, <1>3 DEF Calls!AnswerAct
  <1>5. PICK does \in BOOLEAN : does = (reached /\ ~Calls!Refused(staff[m], op))
    OBVIOUS
  <1>6. PICK answer \in Calls!Heard(reached, does) :
          /\ staff' = IF does THEN [staff EXCEPT ![m] = Calls!After(staff[m], op, role)] ELSE staff
          /\ signedIn' = IF does /\ Calls!SignsOut(staff[m], op, role)
                         THEN signedIn \ {m} ELSE signedIn
          /\ notice' = CASE answer = "ok" -> pending
                         [] answer = "cut" -> notice
                         [] OTHER -> [pending EXCEPT !.op = "error"]
    BY <1>4, <1>5
  <1>7. [pending EXCEPT !.op = "error"].op = "error"
    BY <1>2
  <1>8. answer = "ok" /\ notice' = pending
    BY <1>6, <1>7
  <1>9. does /\ ~Calls!Refused(staff[m], op)
    BY <1>5, <1>6, <1>8 DEF Calls!Heard
  <1>10. Calls!After(staff[m], op, role) \in Accounts
    BY <1>9, AfterAccount DEF UsersInv
  <1>11. staff'[m] # None
    BY <1>6, <1>9, <1>10, NoAccount DEF UsersInv
  <1>12. op = "role" => m \notin signedIn' \/ staff[m].role = role
    BY <1>6, <1>9 DEF Calls!SignsOut
  <1>13. QED
    BY <1>3, <1>8, <1>11, <1>12

(* One's own account. *)

AccountInv ==
  page \in {"account", "reset", "request"} /\ pending # None => pending.op \in {"request", "set", "codes", "change"}

LEMMA NextAccount == ASSUME AccountInv, [Calls!Next]_(Calls!vars) PROVE AccountInv'
  <1>1. CASE UNCHANGED Calls!vars
    BY <1>1 DEF Calls!vars, AccountInv
  <1>2. CASE Calls!Records
    BY <1>2 DEF Calls!Records, Calls!Toggle, Calls!Change, Calls!Elsewhere, Calls!SelectAll,
       Calls!EndRun, Calls!Listed, Calls!Run, Calls!On, AccountInv
  <1>3. CASE Calls!Imports
    BY <1>3 DEF Calls!Imports, Calls!ChooseFile, Calls!DryRun, Calls!AnswerDryRun,
       Calls!CommitJob, Calls!AnswerCommit, Calls!JobElsewhere, Calls!On, AccountInv
  <1>4. CASE Calls!Users
    BY <1>4 DEF Calls!Users, Calls!act, Calls!AnswerAct, Calls!UsersListed, Calls!MemberSignsIn,
       Calls!OtherAdmin, Calls!On, AccountInv
  <1>5. CASE Calls!Account
    <2>1. CASE Calls!AnswerAsk
      BY <2>1 DEF Calls!AnswerAsk, Calls!Waits, AccountInv
    <2>2. CASE Calls!Differ \/ Calls!OtherTab
      BY <2>2 DEF Calls!Differ, Calls!OtherTab, AccountInv
    <2>3. ASSUME NEW op \in {"request", "set", "codes", "change"}, NEW new, Calls!Send(op, new) PROVE AccountInv'
      BY <2>3 DEF Calls!Send, AccountInv
    <2>4. QED
      BY <1>5, <2>1, <2>2, <2>3 DEF Calls!Account, Calls!SetPassword, Calls!GenerateCodes,
         Calls!ChangePassword, Calls!RequestReset
  <1>6. CASE Calls!Reload
    BY <1>6 DEF Calls!Reload, AccountInv
  <1>7. QED
    BY <1>1, <1>2, <1>3, <1>4, <1>5, <1>6 DEF Calls!Next

LEMMA AccountStep == ASSUME AccountInv, [Calls!Next]_(Calls!vars) PROVE Calls!AccountTold
  <1>1. CASE Calls!AnswerAsk
    <2>1. page \in {"account", "reset", "request"} /\ pending # None
      BY <1>1 DEF Calls!AnswerAsk, Calls!On
    <2>2. PICK op \in {"request", "set", "codes", "change"} : op = pending.op
      BY <2>1 DEF AccountInv
    <2>3. PICK reached \in BOOLEAN, right \in BOOLEAN, limited \in BOOLEAN :
            LET does == reached /\ ~limited /\ Calls!Works(op, right)
                accepted == IF op = "request" THEN ~limited ELSE does
            IN  \E answer \in Calls!Heard(reached, accepted) :
                  /\ password' = IF does /\ op \in {"set", "change"} THEN pending.new
                                 ELSE password
                  /\ others' = (others /\ ~(does /\ op \in {"set", "change"}))
                  /\ codes' = IF does /\ op = "codes" THEN pending.new ELSE codes
                  /\ shown' = IF answer = "ok" /\ op = "codes" THEN pending.new ELSE shown
                  /\ told' = Calls!Told(op, answer)
      BY <1>1, <2>2 DEF Calls!AnswerAsk
    <2>4. PICK does \in BOOLEAN : does = (reached /\ ~limited /\ Calls!Works(op, right))
      BY DEF Calls!Works
    <2>5. PICK accepted \in BOOLEAN : accepted = IF op = "request" THEN ~limited ELSE does
      OBVIOUS
    <2>6. PICK answer \in Calls!Heard(reached, accepted) :
            /\ password' = IF does /\ op \in {"set", "change"} THEN pending.new
                           ELSE password
            /\ others' = (others /\ ~(does /\ op \in {"set", "change"}))
            /\ codes' = IF does /\ op = "codes" THEN pending.new ELSE codes
            /\ shown' = IF answer = "ok" /\ op = "codes" THEN pending.new ELSE shown
            /\ told' = Calls!Told(op, answer)
      BY <2>3, <2>4, <2>5
    <2>7. answer = "ok" /\ op # "request" => does
      BY <2>5, <2>6 DEF Calls!Heard
    <2>8. told' = "done" /\ told # "done" => op # "request" /\ answer = "ok"
      BY <2>6 DEF Calls!Told
    <2>9. QED
      BY <2>2, <2>6, <2>7, <2>8 DEF Calls!AccountTold
  <1>2. CASE UNCHANGED Calls!vars
    BY <1>2 DEF Calls!vars, Calls!account, Calls!AccountTold
  <1>3. CASE Calls!Records
    BY <1>3 DEF Calls!Records, Calls!Toggle, Calls!Change, Calls!Elsewhere, Calls!SelectAll,
       Calls!EndRun, Calls!Listed, Calls!Run, Calls!account, Calls!AccountTold
  <1>4. CASE Calls!Imports
    BY <1>4 DEF Calls!Imports, Calls!ChooseFile, Calls!DryRun, Calls!AnswerDryRun,
       Calls!CommitJob, Calls!AnswerCommit, Calls!JobElsewhere, Calls!account, Calls!AccountTold
  <1>5. CASE Calls!Users
    BY <1>5 DEF Calls!Users, Calls!act, Calls!AnswerAct, Calls!UsersListed, Calls!MemberSignsIn,
       Calls!OtherAdmin, Calls!account, Calls!AccountTold
  <1>6. ASSUME Calls!Account, ~Calls!AnswerAsk PROVE Calls!AccountTold
    BY <1>6 DEF Calls!Account, Calls!SetPassword, Calls!GenerateCodes, Calls!ChangePassword,
       Calls!RequestReset, Calls!Send, Calls!Differ,
               Calls!OtherTab, Calls!AccountTold
  <1>7. CASE Calls!Reload
    BY <1>7 DEF Calls!Reload, Calls!AccountTold
  <1>8. QED
    BY <1>1, <1>2, <1>3, <1>4, <1>5, <1>6, <1>7 DEF Calls!Next

CallsInv == RunInv /\ ImportInv /\ UsersInv /\ AccountInv

LEMMA InitCalls == Calls!Init => CallsInv
  <1> SUFFICES ASSUME Calls!Init PROVE CallsInv
    OBVIOUS
  <1>1. RunInv
    BY FS_EmptySet DEF Calls!Init, RunInv, CallsRunning, Calls!RunTold
  <1>2. ImportInv
    BY DEF Calls!Init, ImportInv, Importing, Calling, Calls!ImportTold, Files, JobStatus
  <1>3. UsersInv /\ AccountInv
    BY DEF Calls!Init, UsersInv, AccountInv
  <1>4. QED
    BY <1>1, <1>2, <1>3 DEF CallsInv

\* What a screen says of its calls is what they did.
LEMMA CallsAreTold == Calls!Init /\ [][Calls!Next]_(Calls!vars) => Calls!ToldTruly
  <1>1. CallsInv /\ [Calls!Next]_(Calls!vars) => CallsInv'
    BY NextRun, NextImport, NextUsers, NextAccount DEF CallsInv
  <1>2. CallsInv => Calls!RunTold /\ Calls!ImportTold
    BY DEF CallsInv, RunInv, ImportInv
  <1>3. CallsInv /\ [Calls!Next]_(Calls!vars) => Calls!SignOutTold /\ Calls!AccountTold
    BY NoticeStep, AccountStep DEF CallsInv
  <1>4. QED
    BY <1>1, <1>2, <1>3, InitCalls, PTL DEF Calls!ToldTruly

-----------------------------------------------------------------------------
(* The forms. *)

LEMMA FormsGiven == Forms!FormsAssumption
  BY ToolsAssumption DEF ToolsAssumption

(* The forms. *)

FormTypes ==
  /\ form \in Forms!Form /\ (form \in {"erase", "slug", "delete"} => subject \in Thing)
  /\ stored \in [Thing -> Forms!Texts \cup {None}] /\ seen \in [Thing -> Forms!Texts \cup {None}]
  /\ opened \in Thing \cup {None} /\ text \in Forms!Texts /\ touched \subseteq Field
  /\ (opened # None => base \in Forms!Texts)
  /\ call \in Forms!Calls \cup {None} /\ edited \in Nat

\* What was not filled in is as the page had it, or empty where a founder's slug is to be typed.
Untouched(t, b, known) ==
  /\ form = "copy" => \A f \in Field : t[f] = b[f] \/ f \in known
  /\ form = "erase" => t[Own] = 0 \/ Own \in known

\* No slug is empty; a founder's is typed before anything is sent, and so is an outcome.
Filling ==
  /\ form = "erase" => \A t \in Thing : stored[t] # None => stored[t][Own] # 0
  /\ form = "erase" => (opened = None => text[Own] = 0) /\ (opened # None => base[Own] # 0)
  /\ opened # None => Untouched(text, base, touched)

Sending ==
  call # None =>
    /\ Untouched(call.text, call.base, call.touched)
    /\ form = "erase" => Own \in call.touched
    /\ form = "resolve" => call.text[Own] # 0

\* The field shows what was last done to it, or waits for it.
Imaging == ~crossed => (flying = {} /\ image = meant) \/ flying = {meant}

FormsInv == FormTypes /\ Filling /\ Sending /\ Imaging

LEMMA Nones == None \notin Thing /\ None \notin Forms!Texts /\ None \notin Forms!Calls /\ Own \in Field
  BY FormsGiven DEF Forms!FormsAssumption

LEMMA InitForms == Forms!Init => FormsInv
  <1> SUFFICES ASSUME Forms!Init PROVE FormsInv
    OBVIOUS
  <1>1. \A t \in Thing : stored[t] \in Forms!Texts /\ (form = "erase" => stored[t][Own] # 0)
    BY Nones DEF Forms!Init, Forms!Texts
  <1>2. stored \in [Thing -> Forms!Texts \cup {None}]
    BY <1>1 DEF Forms!Init
  <1>3. Forms!Blank \in Forms!Texts /\ Forms!Blank[Own] = 0
    BY Nones DEF Forms!Blank, Forms!Texts
  <1>4. text \in Forms!Texts /\ (form = "erase" => text[Own] = 0)
    BY <1>1, <1>3 DEF Forms!Init
  <1>5. QED
    BY <1>1, <1>2, <1>4, Nones DEF Forms!Init, FormsInv, FormTypes, Filling, Sending, Imaging

\* What leaves the forms alone, and what leaves the image field alone.
LEMMA FormsStay ==
  ASSUME FormTypes, Filling, Sending, UNCHANGED <<Forms!page, stored, seen, Forms!dialog, edited>>
  PROVE  FormTypes' /\ Filling' /\ Sending'
  BY DEF FormTypes, Filling, Sending, Untouched, Forms!page, Forms!dialog

LEMMA ImageStays ==
  ASSUME Imaging, UNCHANGED Forms!media
  PROVE  Imaging'
  BY DEF Imaging, Forms!media

LEMMA OpenStep == ASSUME FormsInv, NEW t \in Thing, Forms!Open(t) PROVE FormsInv'
  <1>1. Imaging'
    BY ImageStays DEF FormsInv, Forms!Open
  <1>2. /\ UNCHANGED <<form, subject, stored, call, edited>> /\ opened = None /\ opened' = t /\ touched' = {}
        /\ text' = Forms!Filled(t) /\ base' = seen'[t] /\ form # "image" /\ seen[t] # None
        /\ seen' = IF form = "erase" THEN [seen EXCEPT ![t] = stored[t]] ELSE seen
        /\ form = "erase" => stored[t] # None
    BY DEF Forms!Open, Forms!page, Forms!Gone
  <1>3. Forms!Blank \in Forms!Texts /\ seen[t] \in Forms!Texts /\ (form = "erase" => stored[t] \in Forms!Texts)
    BY <1>2, Nones DEF Forms!Blank, Forms!Texts, FormsInv, FormTypes
  <1>4. text' \in Forms!Texts /\ base' \in Forms!Texts /\ seen' \in [Thing -> Forms!Texts \cup {None}]
    BY <1>2, <1>3 DEF Forms!Filled, FormsInv, FormTypes
  <1>5. FormTypes'
    BY <1>2, <1>4 DEF FormsInv, FormTypes
  <1>6. form = "erase" => base' = stored[t] /\ text' = text
    BY <1>2 DEF Forms!Filled, FormsInv, FormTypes
  <1>7. form = "copy" => text' = base'
    BY <1>2 DEF Forms!Filled
  <1>8. Untouched(text, base, touched)'
    BY <1>2, <1>6, <1>7 DEF Untouched, FormsInv, Filling
  <1>9. Filling'
    BY <1>2, <1>6, <1>8, Nones DEF FormsInv, Filling, Untouched
  <1>10. Sending'
    BY <1>2 DEF FormsInv, Sending, Untouched
  <1>11. QED
    BY <1>1, <1>5, <1>9, <1>10 DEF FormsInv

LEMMA TypeStep == ASSUME FormsInv, NEW f \in Field, NEW v \in Forms!Value, Forms!Type(f, v) PROVE FormsInv'
  <1>1. Imaging'
    BY ImageStays DEF FormsInv, Forms!Type
  <1>2. /\ UNCHANGED <<form, subject, stored, seen, opened, call, base, edited>> /\ opened # None
        /\ text' = [text EXCEPT ![f] = v] /\ touched' = touched \cup {f}
    BY DEF Forms!Type, Forms!page
  <1>3. v \in Nat
    BY DEF Forms!Value
  <1>4. FormTypes'
    BY <1>2, <1>3 DEF FormsInv, FormTypes, Forms!Texts
  <1>5. \A g \in Field : g # f => text'[g] = text[g]
    BY <1>2 DEF FormsInv, FormTypes, Forms!Texts
  <1>6. Filling'
    BY <1>2, <1>5, Nones DEF FormsInv, Filling, Untouched
  <1>7. Sending'
    BY <1>2 DEF FormsInv, Sending, Untouched
  <1>8. QED
    BY <1>1, <1>4, <1>6, <1>7 DEF FormsInv

LEMMA CancelStep == ASSUME FormsInv, Forms!Cancel PROVE FormsInv'
  <1>1. Imaging'
    BY ImageStays DEF FormsInv, Forms!Cancel
  <1>2. /\ UNCHANGED <<form, subject, stored, seen, call, edited>>
        /\ opened' = None /\ text' = Forms!Left /\ touched' = {}
    BY DEF Forms!Cancel, Forms!page
  <1>3. Forms!Left \in Forms!Texts /\ (form = "erase" => Forms!Left[Own] = 0)
    BY Nones DEF Forms!Left, Forms!Blank, Forms!Texts, FormsInv, FormTypes
  <1>4. FormTypes' /\ Filling'
    BY <1>2, <1>3 DEF FormsInv, FormTypes, Filling
  <1>5. Sending'
    BY <1>2 DEF FormsInv, Sending, Untouched
  <1>6. QED
    BY <1>1, <1>4, <1>5 DEF FormsInv

LEMMA SubmitStep == ASSUME FormsInv, Forms!Submit PROVE FormsInv'
  <1>1. Forms!Sent /\ (form = "erase" => text[Own] = base[Own]) /\ (form = "resolve" => text[Own] # 0)
    BY DEF Forms!Submit, Forms!save, Forms!Erase, Forms!DeleteDialog, Forms!ResolveDialog,
       Forms!SlugDialog
  <1>2. /\ UNCHANGED <<form, subject, stored, seen, opened, text, base, touched, edited>> /\ UNCHANGED Forms!media
        /\ opened # None
        /\ call' = [thing |-> opened, text |-> text, base |-> base, touched |-> touched]
    BY <1>1 DEF Forms!Sent, Forms!page
  <1>3. Imaging'
    BY <1>2, ImageStays DEF FormsInv
  <1>4. call' \in Forms!Calls
    BY <1>2 DEF Forms!Calls, FormsInv, FormTypes
  <1>5. FormTypes' /\ Filling'
    BY <1>2, <1>4 DEF FormsInv, FormTypes, Filling, Untouched
  <1>6. /\ call'.text = text /\ call'.base = base /\ call'.touched = touched
        /\ Untouched(text, base, touched)
    BY <1>2 DEF FormsInv, Filling
  <1>7. Sending'
    BY <1>1, <1>2, <1>6 DEF FormsInv, Filling, Sending, Untouched
  <1>8. QED
    BY <1>3, <1>5, <1>7 DEF FormsInv

\* What is stored once a call was served.
LEMMA ServedRows ==
  ASSUME FormsInv, call # None, Forms!Allowed(call.thing, call.text),
         stored' = [stored EXCEPT ![call.thing] = Forms!Done(call.thing, call.text)]
  PROVE  /\ stored' \in [Thing -> Forms!Texts \cup {None}]
         /\ call.thing \in Thing /\ call.text \in Forms!Texts /\ call.touched \subseteq Field
         /\ stored[call.thing] \in Forms!Texts
         /\ \A t \in Thing : stored'[t] = IF t = call.thing THEN Forms!Done(call.thing, call.text) ELSE stored[t]
  <1>1. call \in Forms!Calls
    BY DEF FormsInv, FormTypes
  <1>2. call.thing \in Thing /\ call.text \in Forms!Texts /\ call.touched \subseteq Field
    BY <1>1 DEF Forms!Calls
  <1>3. stored[call.thing] \in Forms!Texts
    BY <1>2 DEF Forms!Allowed, Forms!Gone, FormsInv, FormTypes
  <1>4. Forms!Done(call.thing, call.text) \in Forms!Texts \cup {None}
    BY <1>2 DEF Forms!Done
  <1>5. QED
    BY <1>2, <1>3, <1>4 DEF FormsInv, FormTypes

\* A row that is there has a slug still.
LEMMA ServedSlugs ==
  ASSUME FormsInv, call # None, Forms!Allowed(call.thing, call.text), form = "erase",
         stored' = [stored EXCEPT ![call.thing] = Forms!Done(call.thing, call.text)]
  PROVE  \A t \in Thing : stored'[t] # None => stored'[t][Own] # 0
  BY ServedRows DEF Forms!Done, FormsInv, Filling

LEMMA AnswerStep == ASSUME FormsInv, Forms!Answer PROVE FormsInv'
  <1>1. PICK reached \in BOOLEAN, fits \in BOOLEAN :
          LET does == reached /\ fits /\ Forms!Allowed(call.thing, call.text)
          IN  \E ok \in {FALSE, does} :
                /\ stored' = IF does
                             THEN [stored EXCEPT ![call.thing] = Forms!Done(call.thing, call.text)]
                             ELSE stored
                /\ call' = None
                /\ IF ok THEN opened' = None /\ base' = None /\ touched' = {}
                   ELSE UNCHANGED <<opened, base, touched>>
                /\ text' = IF ok /\ form = "erase" THEN Forms!Blank ELSE text
    BY DEF Forms!Answer
  <1>2. /\ UNCHANGED <<form, subject, seen, edited>> /\ UNCHANGED Forms!media /\ call # None /\ call' = None
        /\ \/ stored' = stored
           \/ /\ Forms!Allowed(call.thing, call.text)
              /\ stored' = [stored EXCEPT ![call.thing] = Forms!Done(call.thing, call.text)]
        /\ \/ opened' = None /\ touched' = {} /\ text' = IF form = "erase" THEN Forms!Blank ELSE text
           \/ UNCHANGED <<opened, base, touched, text>>
    BY <1>1 DEF Forms!Answer, Forms!page
  <1>3. Imaging'
    BY <1>2, ImageStays DEF FormsInv
  <1>4. /\ stored' \in [Thing -> Forms!Texts \cup {None}]
        /\ form = "erase" => \A t \in Thing : stored'[t] # None => stored'[t][Own] # 0
    BY <1>2, ServedRows, ServedSlugs DEF FormsInv, FormTypes, Filling
  <1>5. Forms!Blank \in Forms!Texts /\ Forms!Blank[Own] = 0
    BY Nones DEF Forms!Blank, Forms!Texts
  <1>6. FormTypes'
    BY <1>2, <1>4, <1>5 DEF FormsInv, FormTypes
  <1>7. Filling'
    BY <1>2, <1>4, <1>5 DEF FormsInv, Filling, Untouched
  <1>8. QED
    BY <1>2, <1>3, <1>6, <1>7 DEF FormsInv, Sending

LEMMA CutOffStep == ASSUME FormsInv, Forms!CutOff PROVE FormsInv'
  <1>2. /\ UNCHANGED <<form, subject, edited>> /\ UNCHANGED Forms!media /\ call # None /\ call' = None
        /\ \/ stored' = stored
           \/ /\ Forms!Allowed(call.thing, call.text)
              /\ stored' = [stored EXCEPT ![call.thing] = Forms!Done(call.thing, call.text)]
        /\ seen' = stored' /\ opened' = None /\ touched' = {}
        /\ text' = IF form = "slug" /\ stored'[subject] # None THEN stored'[subject] ELSE Forms!Blank
    BY DEF Forms!CutOff, Forms!page
  <1>3. Imaging'
    BY <1>2, ImageStays DEF FormsInv
  <1>4. /\ stored' \in [Thing -> Forms!Texts \cup {None}]
        /\ form = "erase" => \A t \in Thing : stored'[t] # None => stored'[t][Own] # 0
    BY <1>2, ServedRows, ServedSlugs DEF FormsInv, FormTypes, Filling
  <1>5. Forms!Blank \in Forms!Texts /\ Forms!Blank[Own] = 0
    BY Nones DEF Forms!Blank, Forms!Texts
  <1>6. FormTypes'
    BY <1>2, <1>4, <1>5 DEF FormsInv, FormTypes
  <1>7. Filling'
    BY <1>2, <1>4, <1>5 DEF FormsInv, Filling, Untouched
  <1>8. QED
    BY <1>2, <1>3, <1>6, <1>7 DEF FormsInv, Sending

LEMMA RefreshStep == ASSUME FormsInv, Forms!Refresh PROVE FormsInv'
  <1>1. /\ UNCHANGED <<form, subject, stored, text, call, base, touched, edited>> /\ UNCHANGED Forms!media
        /\ seen' = stored /\ opened' \in {None, opened} /\ (form = "erase" => opened' = opened)
    BY DEF Forms!Refresh, Forms!page
  <1>2. Imaging'
    BY <1>1, ImageStays DEF FormsInv
  <1>3. FormTypes'
    BY <1>1 DEF FormsInv, FormTypes
  <1>4. Filling' /\ Sending'
    BY <1>1 DEF FormsInv, Filling, Sending, Untouched
  <1>5. QED
    BY <1>2, <1>3, <1>4 DEF FormsInv

LEMMA ElsewhereStep == ASSUME FormsInv, NEW t \in Thing, Forms!Elsewhere(t) PROVE FormsInv'
  <1>1. /\ UNCHANGED <<form, subject, seen, opened, text, call, base, touched>> /\ UNCHANGED Forms!media
        /\ edited' = edited + 1 /\ stored[t] # None
        /\ \/ \E f \in Field, v \in Forms!Value :
                /\ form = "erase" => v # 0
                /\ stored' = [stored EXCEPT ![t][f] = v]
           \/ stored' = [stored EXCEPT ![t] = None]
    BY DEF Forms!Elsewhere, Forms!page, Forms!dialog, Forms!Gone
  <1>2. Imaging'
    BY <1>1, ImageStays DEF FormsInv
  <1>3. stored[t] \in Forms!Texts
    BY <1>1 DEF FormsInv, FormTypes
  <1>4. \E x \in Forms!Texts \cup {None} :
          /\ stored' = [stored EXCEPT ![t] = x]
          /\ form = "erase" => x = None \/ x[Own] # 0
    <2>1. CASE stored' = [stored EXCEPT ![t] = None]
      BY <2>1
    <2>2. ASSUME NEW f \in Field, NEW v \in Forms!Value, form = "erase" => v # 0, stored' = [stored EXCEPT ![t][f] = v]
          PROVE  \E x \in Forms!Texts : stored' = [stored EXCEPT ![t] = x] /\ (form = "erase" => x[Own] # 0)
      <3>1. v \in Nat
        BY DEF Forms!Value
      <3>2. [stored[t] EXCEPT ![f] = v] \in Forms!Texts /\ (form = "erase" => [stored[t] EXCEPT ![f] = v][Own] # 0)
        BY <1>1, <1>3, <2>2, <3>1, Nones DEF Forms!Texts, FormsInv, Filling
      <3>3. stored' = [stored EXCEPT ![t] = [stored[t] EXCEPT ![f] = v]]
        BY <2>2 DEF FormsInv, FormTypes
      <3>4. QED
        BY <3>2, <3>3
    <2>3. QED
      BY <1>1, <2>1, <2>2
  <1>5. FormTypes'
    BY <1>1, <1>4 DEF FormsInv, FormTypes
  <1>6. form = "erase" => \A s \in Thing : stored'[s] # None => stored'[s][Own] # 0
    BY <1>4 DEF FormsInv, FormTypes, Filling
  <1>7. Filling' /\ Sending'
    BY <1>1, <1>6 DEF FormsInv, Filling, Sending, Untouched
  <1>8. QED
    BY <1>2, <1>5, <1>7 DEF FormsInv

(* The image field. *)

LEMMA ImageSteps ==
  ASSUME FormsInv, (\E suits \in BOOLEAN : Forms!Take(suits)) \/ Forms!Progress \/ Forms!Remove \/ \E i \in flying : Forms!Arrived(i)
  PROVE  FormsInv'
  <1>1. UNCHANGED <<Forms!page, stored, seen, Forms!dialog, edited>>
    BY DEF Forms!Take, Forms!Progress, Forms!Remove, Forms!Arrived
  <1>2. FormTypes' /\ Filling' /\ Sending'
    BY <1>1, FormsStay DEF FormsInv
  <1>3. Imaging'
    <2>1. ASSUME NEW suits \in BOOLEAN, Forms!Take(suits) PROVE Imaging'
      BY <2>1 DEF Forms!Take, FormsInv, Imaging
    <2>2. CASE Forms!Progress
      BY <2>2 DEF Forms!Progress, FormsInv, Imaging
    <2>3. CASE Forms!Remove
      BY <2>3 DEF Forms!Remove, FormsInv, Imaging
    <2>4. ASSUME NEW i \in flying, Forms!Arrived(i) PROVE Imaging'
      BY <2>4 DEF Forms!Arrived, FormsInv, Imaging
    <2>5. QED
      BY <2>1, <2>2, <2>3, <2>4
  <1>4. QED
    BY <1>2, <1>3 DEF FormsInv

LEMMA NextForms == FormsInv /\ [Forms!Next]_(Forms!vars) => FormsInv'
  <1> SUFFICES ASSUME FormsInv, [Forms!Next]_(Forms!vars) PROVE FormsInv'
    OBVIOUS
  <1>1. CASE UNCHANGED Forms!vars
    BY <1>1, FormsStay, ImageStays DEF Forms!vars, FormsInv
  <1>2. QED
    BY <1>1, OpenStep, TypeStep, CancelStep, SubmitStep, AnswerStep, CutOffStep, RefreshStep,
       ElsewhereStep, ImageSteps DEF Forms!Next

(* What the forms do. *)

Shown == Forms!OnlyStaleTextsUndone /\ Forms!ErasedAsTyped /\ Forms!ReportedWasDone

\* Whatever is stored by a call is what it sent, of the thing it is about.
LEMMA StoredBySends ==
  ASSUME FormsInv, [Forms!Next]_(Forms!vars), stored' # stored, edited' = edited
  PROVE  /\ call # None /\ Forms!Allowed(call.thing, call.text)
         /\ stored' = [stored EXCEPT ![call.thing] = Forms!Done(call.thing, call.text)]
  <1>1. CASE Forms!Answer \/ Forms!CutOff
    BY <1>1 DEF Forms!Answer, Forms!CutOff
  <1>2. CASE \E t \in Thing : Forms!Elsewhere(t)
    BY <1>2 DEF Forms!Elsewhere, FormsInv, FormTypes
  <1>3. QED
    BY <1>1, <1>2 DEF Forms!Next, Forms!vars, Forms!Open, Forms!Type, Forms!Cancel, Forms!Submit,
       Forms!save, Forms!Erase, Forms!DeleteDialog,
       Forms!ResolveDialog, Forms!SlugDialog, Forms!Sent, Forms!Refresh, Forms!Take, Forms!Progress, Forms!Remove, Forms!Arrived

LEMMA ShownStep == FormsInv /\ [Forms!Next]_(Forms!vars) => Shown
  <1> SUFFICES ASSUME FormsInv, [Forms!Next]_(Forms!vars) PROVE Shown
    OBVIOUS
  <1>1. Forms!OnlyStaleTextsUndone
    <2> SUFFICES ASSUME form = "copy", stored' # stored, call # None, edited' = edited, NEW f \in Field,
                        stored'[call.thing][f] # stored[call.thing][f]
                 PROVE  f \in call.touched \/ stored[call.thing][f] # call.base[f]
      BY DEF Forms!OnlyStaleTextsUndone
    <2>1. stored'[call.thing] = call.text
      BY StoredBySends, ServedRows DEF Forms!Done
    <2>2. QED
      BY <2>1 DEF FormsInv, Sending, Untouched
  <1>2. Forms!ErasedAsTyped
    <2> SUFFICES ASSUME form = "erase", stored' # stored, edited' = edited, NEW t \in Thing, Forms!Gone(t)', ~Forms!Gone(t)
                 PROVE  t = call.thing /\ Own \in call.touched /\ call.text[Own] = stored[t][Own]
      BY DEF Forms!ErasedAsTyped
    <2>1. t = call.thing
      BY StoredBySends, ServedRows DEF Forms!Gone
    <2>2. QED
      BY <2>1, StoredBySends DEF FormsInv, Sending, Forms!Allowed
  <1>3. Forms!ReportedWasDone
    <2> SUFFICES ASSUME said' # said, said' # None
                 PROVE  IF form = "erase" THEN stored'[said'] = None ELSE stored'[said'][Own] # 0
      BY DEF Forms!ReportedWasDone, Forms!Gone
    <2>1. Forms!Answer
      BY DEF Forms!Next, Forms!vars, Forms!dialog, Forms!Open, Forms!Type, Forms!Cancel,
         Forms!Submit, Forms!save, Forms!Erase, Forms!DeleteDialog, Forms!ResolveDialog,
         Forms!SlugDialog, Forms!Sent, Forms!CutOff, Forms!Refresh, Forms!Elsewhere, Forms!Take, Forms!Progress, Forms!Remove, Forms!Arrived
    <2>2. /\ form \in {"erase", "resolve"} /\ said' = call.thing
          /\ call # None /\ Forms!Allowed(call.thing, call.text)
          /\ stored' = [stored EXCEPT ![call.thing] = Forms!Done(call.thing, call.text)]
      BY <2>1 DEF Forms!Answer
    <2>3. stored'[call.thing] = Forms!Done(call.thing, call.text)
      BY <2>2, ServedRows
    <2>4. QED
      BY <2>2, <2>3 DEF Forms!Done, FormsInv, Sending
  <1>4. QED
    BY <1>1, <1>2, <1>3 DEF Shown

\* Whatever is cancelled, opened for something else and answered late: a form does what it showed
\* when it was filled in, and reports what was done.
LEMMA FormsDoAsShown == Forms!Init /\ [][Forms!Next]_(Forms!vars) => Forms!ActsAsShown
  <1>1. Forms!Init => FormsInv
    BY InitForms
  <1>2. FormsInv /\ [Forms!Next]_(Forms!vars) => FormsInv'
    BY NextForms
  <1>3. FormsInv => Forms!OnlyCrossedImagesWin
    BY DEF FormsInv, Imaging, Forms!OnlyCrossedImagesWin
  <1>4. FormsInv /\ [Forms!Next]_(Forms!vars) =>
          Forms!OnlyStaleTextsUndone /\ Forms!ErasedAsTyped /\ Forms!ReportedWasDone
    BY ShownStep DEF Shown
  <1>5. QED
    BY <1>1, <1>2, <1>3, <1>4, PTL DEF Forms!ActsAsShown

-----------------------------------------------------------------------------
(* The prefill. *)

LEMMA PageGiven == Page!PrefillAssumption
  BY ToolsAssumption DEF ToolsAssumption

(* The state. *)

Warning == Page!Purpose \cup {"status", "meta", "little"}
Fetches == MaxRedirects + 1

PrefillTypes ==
  /\ at \in [Page!Fetcher -> Nat] /\ hops \in [Page!Fetcher -> 0 .. MaxRedirects] /\ requests \in Nat
  /\ urls \in [Page!Purpose -> Nat] /\ pick \in [Page!Purpose -> Nat] /\ warned \in [Warning -> Nat]
  /\ tried \in [Page!Purpose -> SUBSET Nat] /\ broken \subseteq Page!Purpose
  /\ stage \in {"limit", "page", "firecrawl", "images", "done", "refused", "failed"}

\* Until the images are fetched there are none.
Before ==
  stage \in {"limit", "page", "firecrawl"} =>
    /\ \A p \in Page!Purpose : at[p] = 0 /\ pick[p] = 0 /\ tried[p] = {} /\ warned[p] = 0
    /\ hops["logo"] = 0 /\ hops["cover"] = 0
    /\ broken = {} /\ warned["little"] = 0

\* Each has its candidates tried one after the other.
PageCandidates(p) ==
  IF at[p] # 0
  THEN at[p] <= urls[p] /\ pick[p] = 0 /\ tried[p] = 1 .. at[p] - 1 /\ warned[p] = 0 /\ p \notin broken
  ELSE IF pick[p] # 0 THEN tried[p] = 1 .. pick[p] - 1 /\ warned[p] = 0
  ELSE /\ warned[p] = (IF urls[p] = 0 THEN 0 ELSE 1)
       /\ p \notin broken => tried[p] = 1 .. urls[p]
Trying == stage \in {"images", "done", "failed"} => \A p \in Page!Purpose : PageCandidates(p)

Thin ==
  stage \in {"images", "done", "failed"} =>
    draft.name \/ draft.description \/ warned["little"] = 1 \/ draft.by = "firecrawl"

\* What an image has cost, and may have cost once it is found.
Spent(p) == IF at[p] = 0 THEN urls[p] * Fetches ELSE (at[p] - 1) * Fetches + 1 + hops[p]
Budget ==
  /\ urls["logo"] <= MaxLogos /\ urls["cover"] <= MaxCovers
  /\ stage = "limit" => requests = 0 /\ at["page"] = 0 /\ hops["page"] = 0
  /\ stage = "page" => requests <= 1 + hops["page"]
  /\ stage \in {"firecrawl", "refused"} => requests <= Fetches /\ \A f \in Page!Fetcher : at[f] = 0
  /\ stage \in {"images", "done", "failed"} =>
       /\ at["page"] = 0 /\ requests <= Fetches + Spent("logo") + Spent("cover")

\* The search is over before the prefill is.
Ended == stage \in {"done", "failed"} => \A p \in Page!Purpose : at[p] = 0

PrefillInv == PrefillTypes /\ Before /\ Trying /\ Thin /\ Budget

LEMMA Limits == MaxRedirects \in Nat /\ Fetches \in Nat \ {0} /\ MaxLogos \in Nat \ {0} /\ MaxCovers \in Nat \ {0}
                /\ Fetches = MaxRedirects + 1
  BY PageGiven DEF Page!PrefillAssumption, Fetches

LEMMA OneMore == \A n \in Nat : (n + 1) * Fetches = n * Fetches + Fetches
  BY Limits

LEMMA NoneOrOne == 0 * Fetches = 0 /\ 1 * Fetches = Fetches
  BY Limits

LEMMA MoreCosts == \A m, n \in Nat : m <= n => m * Fetches <= n * Fetches
  BY Limits

LEMMA Costs == \A n \in Nat : n * Fetches \in Nat
  BY Limits

LEMMA InitPrefill == Page!Init => PrefillInv
  <1> SUFFICES ASSUME Page!Init PROVE PrefillInv
    OBVIOUS
  <1>1. PrefillTypes
    BY Limits DEF Page!Init, PrefillTypes, Page!NoUrls, Warning, Page!Purpose, Page!Fetcher
  <1>2. Before /\ Trying /\ Thin
    BY DEF Page!Init, Before, Trying, Thin, Page!NoUrls, Page!Purpose, Page!Fetcher
  <1>3. Budget
    BY Limits DEF Page!Init, Budget, Page!NoUrls, Page!Purpose, Page!Fetcher
  <1>4. QED
    BY <1>1, <1>2, <1>3 DEF PrefillInv

LEMMA AllowStep == ASSUME PrefillInv, Page!Allow PROVE PrefillInv'
  <1>1. CASE stage' = "page"
    <2>1. /\ stage = "limit" /\ at' = [at EXCEPT !["page"] = 1] /\ requests' = 1
          /\ UNCHANGED <<draft, urls, hops, pick, warned, tried, broken>>
      BY <1>1 DEF Page!Allow
    <2>2. PrefillTypes'
      BY <1>1, <2>1 DEF PrefillInv, PrefillTypes
    <2>3. Before' /\ Trying' /\ Thin'
      BY <1>1, <2>1 DEF PrefillInv, PrefillTypes, Before, Trying, Thin, Page!Fetcher, Page!Purpose
    <2>4. Budget'
      BY <1>1, <2>1, Limits DEF PrefillInv, PrefillTypes, Budget, Page!Fetcher
    <2>5. QED
      BY <2>2, <2>3, <2>4 DEF PrefillInv
  <1>2. CASE stage' = "refused"
    <2>1. /\ stage = "limit" /\ UNCHANGED <<draft, urls, at, hops, pick, warned, tried, broken, requests>>
      BY <1>2 DEF Page!Allow
    <2>2. PrefillTypes'
      BY <1>2, <2>1 DEF PrefillInv, PrefillTypes
    <2>3. Before' /\ Trying' /\ Thin'
      BY <1>2 DEF Before, Trying, Thin
    <2>4. Budget'
      BY <1>2, <2>1, Limits DEF PrefillInv, PrefillTypes, Budget, Before, Page!Fetcher, Page!Purpose
    <2>5. QED
      BY <2>2, <2>3, <2>4 DEF PrefillInv
  <1>3. QED
    BY <1>1, <1>2 DEF Page!Allow

LEMMA resolveRedirectStep == ASSUME PrefillInv, NEW f \in Page!Fetcher, Page!resolveRedirect(f) PROVE PrefillInv'
  <1>1. /\ at[f] # 0 /\ hops[f] < MaxRedirects /\ hops' = [hops EXCEPT ![f] = hops[f] + 1]
        /\ requests' = requests + 1 /\ UNCHANGED <<stage, draft, urls, at, pick, warned, tried, broken>>
    BY DEF Page!resolveRedirect
  <1>2. hops[f] \in Nat /\ hops'[f] = hops[f] + 1 /\ (\A g \in Page!Fetcher \ {f} : hops'[g] = hops[g])
        /\ hops' \in [Page!Fetcher -> 0 .. MaxRedirects]
    BY <1>1, Limits DEF PrefillInv, PrefillTypes
  <1>3. PrefillTypes'
    BY <1>1, <1>2 DEF PrefillInv, PrefillTypes
  <1>4. Trying' /\ Thin'
    BY <1>1 DEF PrefillInv, Trying, PageCandidates, Thin
  <1>5. Before'
    BY <1>1, <1>2 DEF PrefillInv, Before, Page!Fetcher, Page!Purpose
  <1>6. Budget'
    <2>1. CASE stage = "page"
      <3>1. f = "page"
        BY <1>1, <2>1 DEF PrefillInv, Before, Page!Fetcher
      <3>2. QED
        BY <1>1, <1>2, <2>1, <3>1 DEF PrefillInv, PrefillTypes, Budget
    <2>2. CASE stage \in {"images", "done", "failed"}
      <3>1. f \in Page!Purpose
        BY <1>1, <2>2 DEF PrefillInv, Budget, Page!Fetcher
      <3>2. Spent(f)' = Spent(f) + 1 /\ \A p \in Page!Purpose \ {f} : Spent(p)' = Spent(p)
        <4>1. at[f] - 1 \in Nat /\ (at[f] - 1) * Fetches \in Nat
          BY <1>1, <3>1, Costs DEF PrefillInv, PrefillTypes, Page!Fetcher
        <4>2. QED
          BY <1>1, <1>2, <3>1, <4>1 DEF Spent, Page!Fetcher
      <3>3. Spent("logo") \in Nat /\ Spent("cover") \in Nat
        <4> SUFFICES ASSUME NEW p \in Page!Purpose PROVE Spent(p) \in Nat
          BY DEF Page!Purpose
        <4>1. at[p] \in Nat /\ urls[p] \in Nat /\ hops[p] \in Nat
          BY DEF PrefillInv, PrefillTypes, Page!Fetcher
        <4>2. urls[p] * Fetches \in Nat /\ (at[p] # 0 => (at[p] - 1) * Fetches \in Nat)
          BY <4>1, Costs
        <4>3. QED
          BY <4>1, <4>2 DEF Spent
      <3> HIDE DEF Spent
      <3>4. QED
        BY <1>1, <2>2, <3>1, <3>2, <3>3, Limits DEF PrefillInv, PrefillTypes, Budget, Page!Purpose
    <2>3. stage \notin {"limit", "firecrawl", "refused"}
      BY <1>1 DEF PrefillInv, Before, Budget, Page!Fetcher
    <2>4. QED
      BY <2>1, <2>2, <2>3 DEF PrefillInv, PrefillTypes
  <1>7. QED
    BY <1>3, <1>4, <1>5, <1>6 DEF PrefillInv

\* The images begin.
LEMMA ImagesBegin ==
  ASSUME PrefillInv, stage \in {"page", "firecrawl"}, NEW n \in [Page!Purpose -> Nat],
         n["logo"] <= MaxLogos, n["cover"] <= MaxCovers, Page!FetchImages(n), UNCHANGED <<pick, tried, broken>>,
         warned' \in [Warning -> Nat], \A p \in Page!Purpose : warned'[p] = warned[p],
         draft'.name \/ draft'.description \/ warned'["little"] = 1 \/ draft'.by = "firecrawl"
  PROVE  PrefillInv'
  <1>1. /\ stage' = "images" /\ urls' = n /\ hops' = [f \in Page!Fetcher |-> 0]
        /\ at' = [f \in Page!Fetcher |-> IF f \in Page!Purpose /\ n[f] > 0 THEN 1 ELSE 0]
        /\ requests' = requests + (IF n["logo"] > 0 THEN 1 ELSE 0) + (IF n["cover"] > 0 THEN 1 ELSE 0)
    BY DEF Page!FetchImages
  <1>2. at'["page"] = 0 /\ \A p \in Page!Purpose : at'[p] = IF n[p] > 0 THEN 1 ELSE 0
    BY <1>1 DEF Page!Fetcher, Page!Purpose
  <1>3. PrefillTypes'
    BY <1>1, Limits DEF PrefillInv, PrefillTypes
  <1>4. Before' /\ Thin'
    BY <1>1 DEF Before, Thin
  <1>5. Trying'
    <2> SUFFICES ASSUME NEW p \in Page!Purpose PROVE PageCandidates(p)'
      BY DEF Trying
    <2>1. pick'[p] = 0 /\ tried'[p] = {} /\ warned'[p] = 0 /\ p \notin broken' /\ n[p] \in Nat
      BY DEF PrefillInv, Before
    <2>2. QED
      BY <1>1, <1>2, <2>1 DEF PageCandidates
  <1>6. Budget'
    <2>1. requests <= Fetches /\ requests \in Nat
      BY Limits, stage \in {"page", "firecrawl"} DEF PrefillInv, PrefillTypes, Budget, Page!Fetcher
    <2>2. \A p \in Page!Purpose : Spent(p)' = IF n[p] > 0 THEN 1 ELSE 0
      BY <1>1, <1>2, NoneOrOne, Limits DEF Spent, Page!Fetcher
    <2> HIDE DEF Spent
    <2>3. QED
      BY <1>1, <1>2, <2>1, <2>2, Limits DEF Budget, Page!Purpose
  <1>7. QED
    BY <1>3, <1>4, <1>5, <1>6 DEF PrefillInv

LEMMA ReadPageStep == ASSUME PrefillInv, Page!ReadPage PROVE PrefillInv'
  <1>1. stage = "page" /\ UNCHANGED <<pick, tried, broken>>
    BY DEF Page!ReadPage
  <1>2. PICK end \in Page!Ends, says \in Page!Said :
          LET n == IF end = "body" THEN [logo |-> says.logos, cover |-> says.covers] ELSE Page!NoUrls
              thin == end = "status" \/ ~(says.name \/ says.description)
          IN  /\ draft' = IF end = "body"
                          THEN [name |-> says.name, description |-> says.description, by |-> "page"]
                          ELSE draft
              /\ warned' = CASE end = "status" -> [warned EXCEPT !.status = @ + 1]
                             [] end = "body" /\ ~says.jsonLd -> [warned EXCEPT !.meta = @ + 1]
                             [] OTHER -> warned
              /\ IF end # "unsafe" /\ ~thin THEN Page!FetchImages(n)
                 ELSE /\ stage' = IF end = "unsafe" THEN "refused" ELSE "firecrawl"
                      /\ urls' = n /\ at' = [at EXCEPT !["page"] = 0] /\ UNCHANGED <<hops, requests>>
    BY DEF Page!ReadPage
  <1> DEFINE n == IF end = "body" THEN [logo |-> says.logos, cover |-> says.covers] ELSE Page!NoUrls
  <1>3. n \in [Page!Purpose -> Nat] /\ n["logo"] <= MaxLogos /\ n["cover"] <= MaxCovers
    BY Limits DEF Page!Said, Page!NoUrls, Page!Purpose
  <1>4. /\ warned' \in [Warning -> Nat] /\ warned'["little"] = warned["little"]
        /\ \A p \in Page!Purpose : warned'[p] = warned[p]
    BY <1>2 DEF PrefillInv, PrefillTypes, Warning, Page!Purpose
  <1>5. CASE Page!FetchImages(n) /\ end = "body" /\ (says.name \/ says.description)
    <2>1. draft' = [name |-> says.name, description |-> says.description, by |-> "page"]
      BY <1>2, <1>5
    <2> HIDE DEF n
    <2>2. QED
      BY <1>1, <1>3, <1>4, <1>5, <2>1, ImagesBegin
  <1>6. CASE /\ stage' \in {"refused", "firecrawl"} /\ urls' = n
             /\ at' = [at EXCEPT !["page"] = 0] /\ UNCHANGED <<hops, requests>>
    <2> HIDE DEF n
    <2>1. PrefillTypes'
      BY <1>1, <1>3, <1>4, <1>6 DEF PrefillInv, PrefillTypes
    <2>2. Before'
      BY <1>1, <1>4, <1>6 DEF PrefillInv, PrefillTypes, Before, Page!Fetcher, Page!Purpose
    <2>3. Trying' /\ Thin'
      BY <1>6 DEF Trying, Thin
    <2>4. Budget'
      BY <1>1, <1>3, <1>6, Limits DEF PrefillInv, PrefillTypes, Before, Budget, Page!Fetcher
    <2>5. QED
      BY <2>1, <2>2, <2>3, <2>4 DEF PrefillInv
  <1>7. QED
    BY <1>2, <1>5, <1>6 DEF Page!Ends

LEMMA FirecrawlStep == ASSUME PrefillInv, Page!Firecrawl PROVE PrefillInv'
  <1>1. stage = "firecrawl" /\ UNCHANGED <<pick, tried, broken>>
    BY DEF Page!Firecrawl
  <1>2. urls \in [Page!Purpose -> Nat] /\ urls["logo"] <= MaxLogos /\ urls["cover"] <= MaxCovers
        /\ warned \in [Warning -> Nat] /\ warned["little"] = 0
    BY <1>1 DEF PrefillInv, PrefillTypes, Budget, Before
  <1>3. PICK m \in Page!firecrawlScrape :
          IF m[1] = "nothing"
          THEN /\ warned' = [warned EXCEPT !.little = @ + 1] /\ draft' = draft
               /\ Page!FetchImages(urls)
          ELSE /\ draft' = [name |-> m[2].name, description |-> m[2].description, by |-> "firecrawl"]
               /\ warned' = warned
               /\ Page!FetchImages([urls EXCEPT !["cover"] = m[2].cover])
    BY DEF Page!Firecrawl
  <1>4. CASE m[1] = "nothing"
    <2>1. /\ warned' \in [Warning -> Nat] /\ warned'["little"] = 1
          /\ \A p \in Page!Purpose : warned'[p] = warned[p]
      BY <1>2, <1>3, <1>4 DEF Warning, Page!Purpose
    <2>2. QED
      BY <1>1, <1>2, <1>3, <1>4, <2>1, ImagesBegin
  <1>5. CASE m[1] # "nothing"
    <2>1. PICK n : n = [urls EXCEPT !["cover"] = m[2].cover]
      OBVIOUS
    <2>2. m[2].cover \in 0 .. 1
      BY <1>5 DEF Page!firecrawlScrape
    <2>3. n \in [Page!Purpose -> Nat] /\ n["logo"] <= MaxLogos /\ n["cover"] <= MaxCovers
      BY <1>2, <2>1, <2>2, Limits DEF Page!Purpose
    <2>4. draft'.by = "firecrawl" /\ warned' = warned /\ Page!FetchImages(n)
      BY <1>3, <1>5, <2>1
    <2>5. QED
      BY <1>1, <1>2, <2>3, <2>4, ImagesBegin
  <1>6. QED
    BY <1>4, <1>5

LEMMA SpentTypes == ASSUME PrefillTypes, NEW p \in Page!Purpose PROVE Spent(p) \in Nat
  <1>1. at[p] \in Nat /\ urls[p] \in Nat /\ hops[p] \in Nat
    BY Limits DEF PrefillTypes, Page!Fetcher
  <1>2. urls[p] * Fetches \in Nat /\ (at[p] # 0 => (at[p] - 1) * Fetches \in Nat)
    BY <1>1, Costs
  <1>3. QED
    BY <1>1, <1>2 DEF Spent

LEMMA SpentTypesNext == ASSUME PrefillTypes', NEW p \in Page!Purpose PROVE Spent(p)' \in Nat
  <1>1. at'[p] \in Nat /\ urls'[p] \in Nat /\ hops'[p] \in Nat
    BY Limits DEF PrefillTypes, Page!Fetcher
  <1>2. urls'[p] * Fetches \in Nat /\ (at'[p] # 0 => (at'[p] - 1) * Fetches \in Nat)
    BY <1>1, Costs
  <1>3. Fetches' = Fetches
    BY DEF Fetches
  <1>4. QED
    BY <1>1, <1>2, <1>3 DEF Spent

\* What one image does leaves the other alone.
LEMMA ImageGoesOn ==
  ASSUME PrefillInv, stage = "images", NEW p \in Page!Purpose, UNCHANGED <<stage, draft, urls>>,
         PrefillTypes', PageCandidates(p)', warned'["little"] = warned["little"], at'["page"] = at["page"],
         requests' - requests \in Nat, requests' - requests <= Spent(p)' - Spent(p),
         \A q \in Page!Purpose \ {p} : /\ at'[q] = at[q] /\ hops'[q] = hops[q] /\ pick'[q] = pick[q]
                                       /\ tried'[q] = tried[q] /\ warned'[q] = warned[q]
                                       /\ (q \in broken' <=> q \in broken)
  PROVE  PrefillInv'
  <1>1. Before'
    BY DEF Before
  <1>2. Thin'
    BY DEF PrefillInv, Thin
  <1>3. Trying'
    BY DEF PrefillInv, Trying, PageCandidates
  <1>4. Budget'
    <2>1. \A q \in Page!Purpose \ {p} : Spent(q)' = Spent(q)
      BY DEF Spent
    <2>2. \A q \in Page!Purpose : Spent(q) \in Nat /\ Spent(q)' \in Nat
      <3>1. PrefillTypes /\ PrefillTypes'
        BY DEF PrefillInv
      <3>2. QED
        BY <3>1, SpentTypes, SpentTypesNext
    <2> HIDE DEF Spent
    <2>3. requests \in Nat /\ requests' \in Nat
      BY DEF PrefillInv, PrefillTypes
    <2>4. requests' <= Fetches + Spent("logo")' + Spent("cover")'
      BY <2>1, <2>2, <2>3, Limits DEF PrefillInv, Budget, Page!Purpose
    <2>5. QED
      BY <2>4 DEF PrefillInv, Budget
  <1>5. QED
    BY <1>1, <1>2, <1>3, <1>4 DEF PrefillInv

LEMMA fetchImageStep == ASSUME PrefillInv, NEW p \in Page!Purpose, Page!fetchImage(p) PROVE PrefillInv'
  <1>1. stage = "images" /\ at[p] # 0 /\ UNCHANGED <<stage, draft, urls>>
    BY DEF Page!fetchImage
  <1>2. /\ at[p] \in Nat \ {0} /\ urls[p] \in Nat /\ at[p] <= urls[p] /\ hops[p] \in 0 .. MaxRedirects
        /\ pick[p] = 0 /\ tried[p] = 1 .. at[p] - 1 /\ warned[p] = 0 /\ p \notin broken
        /\ p # "page" /\ p \in Page!Fetcher /\ p \in Warning /\ p # "little" /\ "page" \in Page!Fetcher /\ "little" \in Warning
    BY <1>1 DEF PrefillInv, PrefillTypes, Trying, PageCandidates, Page!Fetcher, Page!Purpose,
       Warning
  <1>3. PICK here \in Nat : here = at[p]
    BY <1>2
  <1>4. Spent(p) = (here - 1) * Fetches + 1 + hops[p]
    BY <1>1, <1>3 DEF Spent
  <1>5. /\ here * Fetches = (here - 1) * Fetches + Fetches /\ (here - 1) * Fetches \in Nat
        /\ here * Fetches \in Nat /\ here * Fetches <= urls[p] * Fetches /\ urls[p] * Fetches \in Nat
    <2>1. here - 1 \in Nat /\ here = (here - 1) + 1
      BY <1>2, <1>3
    <2>2. QED
      BY <1>2, <1>3, <2>1, OneMore, MoreCosts, Costs
  <1>6. Spent(p) <= urls[p] * Fetches
    BY <1>2, <1>4, <1>5, Limits
  <1>7. CASE Page!NextImage(p) /\ at[p] < urls[p]
    <2>1. /\ tried' = [tried EXCEPT ![p] = @ \cup {here}] /\ at' = [at EXCEPT ![p] = here + 1]
          /\ hops' = [hops EXCEPT ![p] = 0] /\ requests' = requests + 1
          /\ UNCHANGED <<warned, pick, broken>>
      BY <1>3, <1>7 DEF Page!NextImage
    <2>2. at'[p] = here + 1 /\ hops'[p] = 0 /\ tried'[p] = 1 .. (here + 1) - 1
      BY <1>2, <1>3, <2>1 DEF PrefillInv, PrefillTypes
    <2>3. PrefillTypes'
      <3>1. at' \in [Page!Fetcher -> Nat] /\ hops' \in [Page!Fetcher -> 0 .. MaxRedirects]
        BY <1>2, <1>3, <2>1, Limits, SMTT(60) DEF PrefillInv, PrefillTypes
      <3>2. tried' \in [Page!Purpose -> SUBSET Nat] /\ requests' \in Nat
        BY <1>2, <1>3, <2>1 DEF PrefillInv, PrefillTypes
      <3>3. QED
        BY <1>1, <2>1, <3>1, <3>2 DEF PrefillInv, PrefillTypes
    <2>4. PageCandidates(p)'
      BY <1>1, <1>2, <1>3, <1>7, <2>1, <2>2 DEF PageCandidates
    <2>5. Spent(p)' = here * Fetches + 1
      <3>1. Spent(p)' = ((here + 1) - 1) * Fetches + 1 + 0
        BY <2>2 DEF Spent, Fetches
      <3>2. (here + 1) - 1 = here
        OBVIOUS
      <3>3. QED
        BY <3>1, <3>2, <1>5
    <2>6. Spent(p)' - Spent(p) \in Nat /\ 1 <= Spent(p)' - Spent(p)
      <3>1. hops[p] <= Fetches - 1 /\ hops[p] \in Nat
        BY <1>2, Limits
      <3> HIDE DEF Spent, Fetches
      <3>2. QED
        BY <1>4, <1>5, <2>5, <3>1, Limits
    <2>7. requests' - requests = 1
      BY <2>1 DEF PrefillInv, PrefillTypes
    <2>8. \A q \in Page!Purpose \ {p} : /\ at'[q] = at[q] /\ hops'[q] = hops[q] /\ pick'[q] = pick[q]
                                         /\ tried'[q] = tried[q] /\ warned'[q] = warned[q]
                                         /\ (q \in broken' <=> q \in broken)
      BY <2>1 DEF PrefillInv, PrefillTypes, Page!Fetcher
    <2>9. at'["page"] = at["page"] /\ warned'["little"] = warned["little"]
      BY <1>2, <2>1 DEF PrefillInv, PrefillTypes
    <2> HIDE DEF Spent
    <2>10. requests' - requests \in Nat /\ requests' - requests <= Spent(p)' - Spent(p)
      BY <2>6, <2>7
    <2>11. QED
      BY <1>1, <2>3, <2>4, <2>8, <2>9, <2>10, ImageGoesOn
  <1>8. ASSUME at' = [at EXCEPT ![p] = 0], hops' \in {hops, [hops EXCEPT ![p] = 0]}, requests' = requests,
               pick' \in [Page!Purpose -> Nat], warned' \in [Warning -> Nat], tried' \in [Page!Purpose -> SUBSET Nat],
               broken' \subseteq Page!Purpose, warned'["little"] = warned["little"],
               \A q \in Page!Purpose \ {p} : /\ pick'[q] = pick[q] /\ tried'[q] = tried[q] /\ warned'[q] = warned[q]
                                             /\ (q \in broken' <=> q \in broken),
               IF pick'[p] # 0 THEN tried'[p] = 1 .. pick'[p] - 1 /\ warned'[p] = 0
               ELSE warned'[p] = 1 /\ (p \notin broken' => tried'[p] = 1 .. urls[p])
        PROVE  PrefillInv'
    <2>1. at'[p] = 0 /\ at'["page"] = at["page"]
      BY <1>2, <1>8 DEF PrefillInv, PrefillTypes
    <2>2. PrefillTypes'
      <3>1. at' \in [Page!Fetcher -> Nat]
        BY <1>8 DEF PrefillInv, PrefillTypes
      <3>2. hops' \in [Page!Fetcher -> 0 .. MaxRedirects]
        <4>1. PICK few : few = 0 .. MaxRedirects
          OBVIOUS
        <4>2. hops \in [Page!Fetcher -> few] /\ 0 \in few
          BY <4>1, Limits DEF PrefillInv, PrefillTypes
        <4>3. hops' \in [Page!Fetcher -> few]
          BY <1>8, <4>2
        <4>4. QED
          BY <4>1, <4>3
      <3>3. QED
        BY <1>1, <1>8, <3>1, <3>2 DEF PrefillInv, PrefillTypes
    <2>3. PageCandidates(p)'
      BY <1>1, <1>2, <1>8, <2>1 DEF PageCandidates
    <2>4. Spent(p)' = urls[p] * Fetches
      BY <1>1, <2>1 DEF Spent, Fetches
    <2>5. requests' - requests = 0
      BY <1>8 DEF PrefillInv, PrefillTypes
    <2>6. Spent(p) \in Nat /\ 0 <= Spent(p)' - Spent(p)
      BY <1>2, <1>4, <1>5, <1>6, <2>4, Limits
    <2>7. \A q \in Page!Purpose \ {p} : at'[q] = at[q] /\ hops'[q] = hops[q]
      BY <1>8 DEF PrefillInv, PrefillTypes, Page!Fetcher
    <2> HIDE DEF Spent
    <2>8. QED
      BY <1>1, <1>8, <2>1, <2>2, <2>3, <2>5, <2>6, <2>7, ImageGoesOn
  <1>9. CASE Page!NextImage(p) /\ ~(at[p] < urls[p])
    <2>1. /\ tried' = [tried EXCEPT ![p] = @ \cup {here}] /\ at' = [at EXCEPT ![p] = 0]
          /\ hops' = [hops EXCEPT ![p] = 0] /\ requests' = requests
          /\ warned' = [warned EXCEPT ![p] = @ + 1] /\ UNCHANGED <<pick, broken>>
      BY <1>3, <1>9 DEF Page!NextImage
    <2>2. tried'[p] = 1 .. urls[p] /\ warned'[p] = 1
      BY <1>2, <1>3, <1>9, <2>1 DEF PrefillInv, PrefillTypes
    <2>3. pick' \in [Page!Purpose -> Nat] /\ warned' \in [Warning -> Nat] /\ tried' \in [Page!Purpose -> SUBSET Nat]
          /\ broken' \subseteq Page!Purpose
      <3>1. warned' \in [Warning -> Nat]
        <4>1. warned \in [Warning -> Nat]
          BY DEF PrefillInv, PrefillTypes
        <4> HIDE DEF Warning
        <4>2. QED
          BY <1>2, <2>1, <4>1
      <3>2. tried' \in [Page!Purpose -> SUBSET Nat]
        BY <1>2, <1>3, <2>1 DEF PrefillInv, PrefillTypes
      <3>3. QED
        BY <2>1, <3>1, <3>2 DEF PrefillInv, PrefillTypes
    <2>4. /\ warned'["little"] = warned["little"]
          /\ \A q \in Page!Purpose \ {p} : /\ pick'[q] = pick[q] /\ tried'[q] = tried[q] /\ warned'[q] = warned[q]
                                           /\ (q \in broken' <=> q \in broken)
      BY <1>2, <2>1 DEF PrefillInv, PrefillTypes, Warning
    <2>5. QED
      BY <1>2, <1>8, <2>1, <2>2, <2>3, <2>4
  <1>10. CASE /\ at' = [at EXCEPT ![p] = 0] /\ UNCHANGED <<tried, hops, requests, warned, broken>>
              /\ pick' = [pick EXCEPT ![p] = at[p]]
    <2>1. pick'[p] = at[p] /\ pick' \in [Page!Purpose -> Nat]
      BY <1>2, <1>10 DEF PrefillInv, PrefillTypes
    <2>2. \A q \in Page!Purpose \ {p} : pick'[q] = pick[q]
      BY <1>10 DEF PrefillInv, PrefillTypes
    <2>3. warned' \in [Warning -> Nat] /\ tried' \in [Page!Purpose -> SUBSET Nat] /\ broken' \subseteq Page!Purpose
      BY <1>10 DEF PrefillInv, PrefillTypes
    <2>4. QED
      BY <1>2, <1>8, <1>10, <2>1, <2>2, <2>3
  <1>11. CASE /\ at' = [at EXCEPT ![p] = 0] /\ UNCHANGED <<tried, hops, requests, pick>>
              /\ warned' = [warned EXCEPT ![p] = @ + 1] /\ broken' = broken \cup {p}
    <2>1. warned'[p] = 1 /\ warned'["little"] = warned["little"] /\ warned' \in [Warning -> Nat]
      BY <1>2, <1>11 DEF PrefillInv, PrefillTypes
    <2>2. \A q \in Page!Purpose \ {p} : warned'[q] = warned[q] /\ (q \in broken' <=> q \in broken)
      BY <1>2, <1>11 DEF PrefillInv, PrefillTypes, Warning
    <2>3. pick' \in [Page!Purpose -> Nat] /\ tried' \in [Page!Purpose -> SUBSET Nat] /\ broken' \subseteq Page!Purpose
      BY <1>11 DEF PrefillInv, PrefillTypes
    <2>4. QED
      BY <1>2, <1>8, <1>11, <2>1, <2>2, <2>3
  <1>12. QED
    BY <1>7, <1>9, <1>10, <1>11 DEF Page!fetchImage

LEMMA guessLocationStep == ASSUME PrefillInv, Page!guessLocation PROVE PrefillInv'
  <1>1. /\ stage = "images" /\ stage' \in {"done", "failed"}
        /\ UNCHANGED <<draft, urls, at, hops, pick, warned, tried, broken, requests>>
    BY DEF Page!guessLocation
  <1>2. PrefillTypes' /\ Before' /\ Trying' /\ Thin'
    BY <1>1 DEF PrefillInv, PrefillTypes, Before, Trying, PageCandidates, Thin
  <1>3. Budget'
    BY <1>1 DEF PrefillInv, Budget, Spent
  <1>4. QED
    BY <1>2, <1>3 DEF PrefillInv

LEMMA NextPrefill == PrefillInv /\ [Page!Next]_(Page!vars) => PrefillInv'
  <1> SUFFICES ASSUME PrefillInv, [Page!Next]_(Page!vars) PROVE PrefillInv'
    OBVIOUS
  <1>1. CASE UNCHANGED Page!vars
    BY <1>1 DEF Page!vars, PrefillInv, PrefillTypes, Before, Trying, PageCandidates, Thin, Budget,
       Spent
  <1>2. QED
    BY <1>1, AllowStep, ReadPageStep, FirecrawlStep, guessLocationStep, resolveRedirectStep,
       fetchImageStep DEF Page!Next

(* What a prefill tells. *)

\* At its end an image was stored, or all its candidates were tried.
LEMMA DraftIsTold == PrefillInv => Page!ThinTold /\ Page!FewRequests
  <1> SUFFICES ASSUME PrefillInv PROVE Page!ThinTold /\ Page!FewRequests
    OBVIOUS
  <1>1. Page!ThinTold
    BY DEF PrefillInv, Thin, Page!ThinTold
  <1>2. /\ MaxLogos * Fetches \in Nat /\ MaxCovers * Fetches \in Nat
        /\ Fetches * (1 + MaxLogos + MaxCovers) = Fetches + MaxLogos * Fetches + MaxCovers * Fetches
    BY Limits, Costs
  <1>3. \A p \in Page!Purpose : Spent(p) <= urls[p] * Fetches \/ stage \notin {"images", "done", "failed"}
    <2> SUFFICES ASSUME NEW p \in Page!Purpose, stage \in {"images", "done", "failed"}
                 PROVE  Spent(p) <= urls[p] * Fetches
      OBVIOUS
    <2>1. /\ at[p] \in Nat /\ urls[p] \in Nat /\ hops[p] \in 0 .. MaxRedirects /\ urls[p] * Fetches \in Nat
          /\ at[p] # 0 => at[p] <= urls[p]
      BY Costs DEF PrefillInv, PrefillTypes, Page!Fetcher, Trying, PageCandidates
    <2>2. CASE at[p] = 0
      BY <2>1, <2>2 DEF Spent
    <2>3. CASE at[p] # 0
      <3>1. PICK left \in Nat : at[p] = left + 1
        <4>1. at[p] - 1 \in Nat /\ at[p] = (at[p] - 1) + 1
          BY <2>1, <2>3
        <4>2. QED
          BY <4>1
      <3>2. Spent(p) = left * Fetches + 1 + hops[p]
        BY <2>3, <3>1 DEF Spent
      <3>3. /\ left * Fetches + Fetches = (left + 1) * Fetches /\ (left + 1) * Fetches <= urls[p] * Fetches
            /\ left * Fetches \in Nat /\ (left + 1) * Fetches \in Nat
        BY <2>1, <2>3, <3>1, OneMore, MoreCosts, Costs
      <3>4. QED
        BY <2>1, <3>2, <3>3, Limits
    <2>4. QED
      BY <2>2, <2>3
  <1>4. /\ urls["logo"] * Fetches <= MaxLogos * Fetches /\ urls["cover"] * Fetches <= MaxCovers * Fetches
        /\ urls["logo"] * Fetches \in Nat /\ urls["cover"] * Fetches \in Nat
    BY MoreCosts, Costs, Limits DEF PrefillInv, PrefillTypes, Budget, Page!Purpose
  <1>5. Spent("logo") \in Nat /\ Spent("cover") \in Nat
    BY SpentTypes DEF PrefillInv, Page!Purpose
  <1>6. requests <= Fetches + MaxLogos * Fetches + MaxCovers * Fetches
    <2> HIDE DEF Spent
    <2>1. CASE stage \in {"images", "done", "failed"}
      <3>1. Spent("logo") <= urls["logo"] * Fetches /\ Spent("cover") <= urls["cover"] * Fetches
        BY <1>3, <2>1 DEF Page!Purpose
      <3>2. QED
        BY <1>2, <1>4, <1>5, <2>1, <3>1, Limits DEF PrefillInv, PrefillTypes, Budget
    <2>2. CASE stage \notin {"images", "done", "failed"}
      <3>1. requests <= Fetches /\ requests \in Nat
        BY <2>2, Limits DEF PrefillInv, PrefillTypes, Budget, Page!Fetcher
      <3>2. QED
        BY <1>2, <3>1, Limits
    <2>3. QED
      BY <2>1, <2>2
  <1>7. Page!FewRequests
    BY <1>2, <1>6 DEF Page!FewRequests, Fetches
  <1>8. QED
    BY <1>1, <1>7

LEMMA DraftIsAccounted == PrefillInv /\ Ended => Page!ImagesAccounted
  BY DEF PrefillInv, Trying, PageCandidates, Ended, Page!ImagesAccounted

LEMMA EndedStays == ASSUME Ended, [Page!Next]_(Page!vars) PROVE Ended'
  <1>1. CASE UNCHANGED Page!vars
    BY <1>1 DEF Page!vars, Ended
  <1>2. CASE Page!Allow \/ Page!ReadPage \/ Page!Firecrawl
    BY <1>2 DEF Page!Allow, Page!ReadPage, Page!Firecrawl, Page!FetchImages, Ended
  <1>3. CASE Page!guessLocation
    BY <1>3 DEF Page!guessLocation, Ended
  <1>4. ASSUME NEW f \in Page!Fetcher, Page!resolveRedirect(f) PROVE Ended'
    BY <1>4 DEF Page!resolveRedirect, Ended
  <1>5. ASSUME NEW p \in Page!Purpose, Page!fetchImage(p) PROVE Ended'
    BY <1>5 DEF Page!fetchImage, Ended
  <1>6. QED
    BY <1>1, <1>2, <1>3, <1>4, <1>5 DEF Page!Next

LEMMA DraftsTellAll == Page!Init /\ [][Page!Next]_(Page!vars) => Page!DraftTold
  <1> DEFINE AllTold == Page!ImagesAccounted /\ Page!ThinTold /\ Page!FewRequests
  <1>1. Page!Init => PrefillInv /\ Ended
    BY InitPrefill DEF Page!Init, Ended
  <1>2. PrefillInv /\ Ended /\ [Page!Next]_(Page!vars) => (PrefillInv /\ Ended)'
    BY NextPrefill, EndedStays
  <1>3. PrefillInv /\ Ended => AllTold
    BY DraftIsTold, DraftIsAccounted
  <1>4. Page!DraftTold <=> [][AllTold']_(Page!vars)
    BY DEF Page!DraftTold
  <1> HIDE DEF AllTold
  <1>5. QED
    BY <1>1, <1>2, <1>3, <1>4, PTL

-----------------------------------------------------------------------------
(* The tools together. *)

LEMMA CallsPart == ToolsSpec => Calls!Init /\ [][Calls!Next]_(Calls!vars)
  <1>1. ToolsInit => Calls!Init
    BY DEF ToolsInit
  <1>2. [ToolsNext]_toolVars => [Calls!Next]_(Calls!vars)
    BY DEF ToolsNext, toolVars, calls, Calls!vars, Calls!list, Calls!import, Calls!users, Calls!account
  <1>3. QED
    BY <1>1, <1>2, PTL DEF ToolsSpec

LEMMA FormsPart == ToolsSpec => Forms!Init /\ [][Forms!Next]_(Forms!vars)
  <1>1. ToolsInit => Forms!Init
    BY DEF ToolsInit
  <1>2. [ToolsNext]_toolVars => [Forms!Next]_(Forms!vars)
    BY DEF ToolsNext, toolVars, forms, Forms!vars, Forms!page, Forms!dialog, Forms!media
  <1>3. QED
    BY <1>1, <1>2, PTL DEF ToolsSpec

LEMMA PagePart == ToolsSpec => Page!Init /\ [][Page!Next]_(Page!vars)
  <1>1. ToolsInit => Page!Init
    BY DEF ToolsInit
  <1>2. [ToolsNext]_toolVars => [Page!Next]_(Page!vars)
    BY DEF ToolsNext, toolVars, read, Page!vars
  <1>3. QED
    BY <1>1, <1>2, PTL DEF ToolsSpec

\* However many answers are lost, late or cut off, and whatever others change meanwhile: a screen
\* reports what its calls did, and a prefill every image and text it did not find.
THEOREM ScreensTellTruly == ToolsSpec => ToldTruly
  BY CallsPart, PagePart, CallsAreTold, DraftsTellAll, PTL DEF ToldTruly

\* Whatever is cancelled, opened for something else, changed meanwhile and answered late: a form
\* does what it showed when it was filled in.
THEOREM FormsActAsShown == ToolsSpec => ActsAsShown
  BY FormsPart, FormsDoAsShown, PTL DEF ActsAsShown

=============================================================================
