-------------------------- MODULE RoundTotalsProofs --------------------------
(***************************************************************************)
(* What holds of the derived totals whatever transactions overlap, for any *)
(* number of startups, rounds, requests and repair runs.  Sums are only    *)
(* compared, never computed: two views of the rounds that agree on what is *)
(* published of a startup give it the same totals.                         *)
(***************************************************************************)
EXTENDS RoundTotals, TLAPS

\* The shape of the state; that the sums are numbers is left to the runs.
Shape ==
    /\ round \in [Round -> Row]
    /\ totals = [s \in Startup |-> totals[s]]
    /\ pc \in [Tx -> PC]
    /\ mine \in [Tx -> Round \cup {NoRound}]
    /\ pending \in [Tx -> Row]
    /\ agg = [t \in Tx |-> agg[t]]
    /\ \A t \in Tx : agg[t] = [s \in Startup |-> agg[t][s]]
    /\ held \in [Tx -> SUBSET Startup]
    /\ fresh \in [Tx -> SUBSET Startup]

\* A round that is published has been listed since its first publication, and only a round that
\* was created is.
RowsListed ==
    \A r \in Round :
        /\ round[r].status = "published" => round[r].listed
        /\ round[r].status = "unborn" => ~round[r].listed

\* A transaction that has a round locked leaves it with its startup, listed if it was.
PendingOK ==
    \A t \in Tx : mine[t] # NoRound =>
        /\ round[mine[t]].status # "unborn" /\ pending[t].status # "unborn"
        /\ pending[t].of = round[mine[t]].of
        /\ round[mine[t]].listed => pending[t].listed
        /\ pending[t].status = "published" => pending[t].listed

\* Only a recompute has anything to write, and an idle transaction has no lock on a round.
IdleOK ==
    \A t \in Tx :
        /\ pc[t] = "idle" => mine[t] = NoRound
        /\ pc[t] # "recompute" => agg[t] = NoAgg

\* A round is locked by one transaction.
MineExclusive ==
    \A t, u \in Tx : t # u /\ mine[t] # NoRound => mine[t] # mine[u]

\* What a recompute is about to write names a round that was published at some time.
AggListed ==
    \A t \in Tx, s \in Startup :
        agg[t][s] # NoTotals /\ agg[t][s].latest # NoRound =>
            /\ agg[t][s].latest \in Round
            /\ View(t)[agg[t][s].latest].listed
            /\ View(t)[agg[t][s].latest].of = s

\* The latest round of every startup is one of its own that was published at some time.
LatestListed ==
    \A s \in Startup : totals[s].latest # NoRound =>
        /\ totals[s].latest \in Round
        /\ round[totals[s].latest].listed
        /\ round[totals[s].latest].of = s

\* What a recompute is about to write is what its own view of the rounds adds up to still.
AggFresh ==
    \A t \in Tx, s \in Startup :
        agg[t][s] # NoTotals /\ s \in fresh[t] => agg[t][s] = TotalsOf(View(t), s)

IInv ==
    /\ Shape
    /\ RowsListed
    /\ PendingOK
    /\ IdleOK
    /\ MineExclusive
    /\ AggListed
    /\ LatestListed
    /\ AggFresh

-----------------------------------------------------------------------------
(* The totals as a function of the rounds *)

\* Totals depend on nothing but the rounds of the startup that are published.
LEMMA TotalsDepend ==
    ASSUME NEW rows, NEW rows2, NEW s,
           \A r \in Round :
              \/ rows[r] = rows2[r]
              \/ /\ ~(rows[r].of = s /\ rows[r].status = "published")
                 /\ ~(rows2[r].of = s /\ rows2[r].status = "published")
    PROVE  TotalsOf(rows, s) = TotalsOf(rows2, s)
<1>1. \A classes : Counted(rows, s, classes) = Counted(rows2, s, classes)
  BY DEF Counted
<1>2. \A classes : \A r \in Counted(rows, s, classes) : rows[r] = rows2[r]
  BY DEF Counted
<1>3. \A classes : Amounts(rows, s, classes) = Amounts(rows2, s, classes)
  BY <1>1, <1>2 DEF Amounts
<1>4. Last(rows, s) = Last(rows2, s)
  BY <1>1, <1>2 DEF Last, NotAfter
<1>5. LatestOf(rows, s) = LatestOf(rows2, s)
  BY <1>4 DEF LatestOf
<1> QED BY <1>3, <1>5 DEF TotalsOf

\* The latest round is one of the startup's published rounds.
LEMMA LatestIsCounted ==
    ASSUME NEW rows, NEW s, TotalsOf(rows, s).latest # NoRound
    PROVE  /\ TotalsOf(rows, s).latest \in Round
           /\ rows[TotalsOf(rows, s).latest].status = "published"
           /\ rows[TotalsOf(rows, s).latest].of = s
<1>1. TotalsOf(rows, s).latest = LatestOf(rows, s)
  BY DEF TotalsOf
<1>2. LatestOf(rows, s) \in Counted(rows, s, Raised)
  BY <1>1 DEF LatestOf, Last
<1> QED BY <1>1, <1>2 DEF Counted

-----------------------------------------------------------------------------
(* Views *)

\* A transaction sees its own write in place of the round it has locked.
LEMMA ViewAt ==
    ASSUME Shape, NEW t \in Tx, NEW r \in Round
    PROVE  View(t)[r] = IF mine[t] = r THEN pending[t] ELSE round[r]
BY RoundAssumption DEF Shape, View

\* The same after a step.
LEMMA ViewAtNext ==
    ASSUME Shape', NEW t \in Tx, NEW r \in Round
    PROVE  View(t)'[r] = IF mine'[t] = r THEN pending'[t] ELSE round'[r]
BY RoundAssumption DEF Shape, View

\* What one transaction has ready to write survives a step that leaves to it the listed rounds it
\* sees, and the totals of the startups that count as fresh for it.
LEMMA AggKept ==
    ASSUME IInv, NEW u \in Tx, agg'[u] = agg[u], fresh'[u] \subseteq fresh[u],
           \A r \in Round : View(u)[r].listed =>
               View(u)'[r].listed /\ View(u)'[r].of = View(u)[r].of,
           \A s \in fresh'[u] : s \in Startup => TotalsOf(View(u), s) = TotalsOf(View(u)', s)
    PROVE  \A s \in Startup :
              /\ agg'[u][s] # NoTotals /\ agg'[u][s].latest # NoRound =>
                   /\ agg'[u][s].latest \in Round
                   /\ View(u)'[agg'[u][s].latest].listed
                   /\ View(u)'[agg'[u][s].latest].of = s
              /\ agg'[u][s] # NoTotals /\ s \in fresh'[u] => agg'[u][s] = TotalsOf(View(u)', s)
<1> SUFFICES ASSUME NEW s \in Startup, agg'[u][s] # NoTotals
             PROVE  /\ agg'[u][s].latest # NoRound =>
                         /\ agg'[u][s].latest \in Round
                         /\ View(u)'[agg'[u][s].latest].listed
                         /\ View(u)'[agg'[u][s].latest].of = s
                    /\ s \in fresh'[u] => agg'[u][s] = TotalsOf(View(u)', s)
  OBVIOUS
<1>1. agg'[u][s].latest # NoRound =>
         /\ agg'[u][s].latest \in Round
         /\ View(u)[agg'[u][s].latest].listed
         /\ View(u)[agg'[u][s].latest].of = s
  BY DEF IInv, AggListed
<1>2. s \in fresh'[u] => agg'[u][s] = TotalsOf(View(u), s)
  BY DEF IInv, AggFresh
<1> QED BY <1>1, <1>2

\* A transaction with nothing to write has nothing to get wrong.
LEMMA AggNone ==
    ASSUME NEW u \in Tx, agg'[u] = NoAgg
    PROVE  \A s \in Startup : agg'[u][s] = NoTotals
BY DEF NoAgg

-----------------------------------------------------------------------------
(* The invariant holds in every reachable state *)

LEMMA InitInv == Init => IInv
<1> SUFFICES ASSUME Init PROVE IInv
  OBVIOUS
<1>1. Blank \in Row /\ Blank.status = "unborn" /\ ~Blank.listed
  BY StartupAssumption, ContentAssumption DEF Blank, Row, RoundStatus
<1>2. Shape
  BY <1>1 DEF Init, Shape, NoAgg, PC
<1>3. \A t \in Tx : mine[t] = NoRound /\ agg[t] = NoAgg /\ pc[t] = "idle"
  BY DEF Init
<1>4. \A t \in Tx, s \in Startup : agg[t][s] = NoTotals
  BY <1>3 DEF NoAgg
<1>5. \A s \in Startup : totals[s].latest = NoRound
  BY DEF Init, Empty
<1>6. \A r \in Round : round[r] = Blank
  BY DEF Init
<1>7. RowsListed
  BY <1>1, <1>6 DEF RowsListed
<1>8. PendingOK /\ IdleOK /\ MineExclusive
  BY <1>3 DEF PendingOK, IdleOK, MineExclusive
<1>9. AggListed /\ LatestListed /\ AggFresh
  BY <1>4, <1>5 DEF AggListed, LatestListed, AggFresh
<1> QED BY <1>2, <1>7, <1>8, <1>9 DEF IInv

\* A transaction that locks a round and writes it disturbs nobody else's view.
LEMMA WriteRoundInv ==
    ASSUME IInv, NEW t \in Tx, NEW r \in Live, NEW new \in Row, WriteRound(t, r, new),
           new.of = round[r].of, round[r].listed => new.listed,
           new.status = "published" => new.listed, new.status # "unborn"
    PROVE  IInv'
<1>1. r \in Round /\ round[r].status # "unborn"
  BY DEF Live
<1>2. /\ mine' = [mine EXCEPT ![t] = r] /\ pending' = [pending EXCEPT ![t] = new]
      /\ pc' = [pc EXCEPT ![t] = "written"] /\ pc[t] = "idle"
      /\ UNCHANGED <<round, totals, agg, held, fresh>>
      /\ \A u \in Tx \ {t} : mine[u] # r
  BY DEF WriteRound, RoundFree
<1>3. Shape
  BY DEF IInv
<1>4. Shape'
  BY <1>1, <1>2, <1>3 DEF Shape, PC
<1>5. \A u \in Tx : /\ mine'[u] = IF u = t THEN r ELSE mine[u]
                    /\ pending'[u] = IF u = t THEN new ELSE pending[u]
                    /\ pc'[u] = IF u = t THEN "written" ELSE pc[u]
  BY <1>2, <1>3 DEF Shape
<1>6. RowsListed' /\ LatestListed'
  BY <1>2 DEF IInv, RowsListed, LatestListed
<1>7. PendingOK'
  BY <1>1, <1>2, <1>5 DEF IInv, PendingOK
<1>8. MineExclusive'
  BY <1>2, <1>5 DEF IInv, MineExclusive
<1>9. agg[t] = NoAgg
  BY <1>2 DEF IInv, IdleOK
<1>10. IdleOK'
  BY <1>2, <1>5, <1>9 DEF IInv, IdleOK
<1>11. ASSUME NEW u \in Tx, u # t
       PROVE  \A s \in Startup :
                /\ agg'[u][s] # NoTotals /\ agg'[u][s].latest # NoRound =>
                     /\ agg'[u][s].latest \in Round
                     /\ View(u)'[agg'[u][s].latest].listed
                     /\ View(u)'[agg'[u][s].latest].of = s
                /\ agg'[u][s] # NoTotals /\ s \in fresh'[u] => agg'[u][s] = TotalsOf(View(u)', s)
  <2>1. View(u)' = View(u)
    BY <1>2, <1>5, <1>11 DEF View
  <2> QED BY <1>2, <2>1, AggKept
<1>12. \A s \in Startup : agg'[t][s] = NoTotals
  BY <1>2, <1>9, AggNone
<1>13. AggListed' /\ AggFresh'
  BY <1>11, <1>12 DEF AggListed, AggFresh
<1> QED BY <1>4, <1>6, <1>7, <1>8, <1>10, <1>13 DEF IInv

\* Every way of changing a round is such a write.
LEMMA BeginInv ==
    ASSUME IInv, NEW t \in Tx, UpdateRound(t) \/ TransitionRound(t) \/ DeleteRound(t)
    PROVE  IInv'
<1>1. \A r \in Live : /\ r \in Round /\ round[r] \in Row /\ round[r].status # "unborn"
                      /\ round[r].status = "published" => round[r].listed
  BY DEF IInv, Shape, RowsListed, Live
<1>2. CASE UpdateRound(t)
  <2>1. PICK r \in Live, c \in Content : WriteRound(t, r, [round[r] EXCEPT !.content = c])
    BY <1>2 DEF UpdateRound
  <2>2. /\ [round[r] EXCEPT !.content = c] \in Row
        /\ [round[r] EXCEPT !.content = c].of = round[r].of
        /\ [round[r] EXCEPT !.content = c].listed = round[r].listed
        /\ [round[r] EXCEPT !.content = c].status = round[r].status
    BY <1>1 DEF Row
  <2> QED BY <1>1, <2>1, <2>2, WriteRoundInv
<1>3. CASE TransitionRound(t)
  <2>1. PICK r \in Live, to \in RoundStatus :
             /\ to # "unborn"
             /\ WriteRound(t, r, [round[r] EXCEPT !.status = to, !.listed = @ \/ to = "published"])
    BY <1>3 DEF TransitionRound, Transitions
  <2> DEFINE new == [round[r] EXCEPT !.status = to, !.listed = @ \/ to = "published"]
  <2>2. new \in Row /\ new.of = round[r].of /\ new.status = to
    BY <1>1 DEF Row
  <2>3. new.listed = (round[r].listed \/ to = "published")
    BY <1>1 DEF Row
  <2> QED BY <1>1, <2>1, <2>2, <2>3, WriteRoundInv
<1>4. CASE DeleteRound(t)
  <2>1. PICK r \in Live : WriteRound(t, r, [round[r] EXCEPT !.status = "deleted"])
    BY <1>4 DEF DeleteRound
  <2>2. /\ [round[r] EXCEPT !.status = "deleted"] \in Row
        /\ [round[r] EXCEPT !.status = "deleted"].of = round[r].of
        /\ [round[r] EXCEPT !.status = "deleted"].listed = round[r].listed
        /\ [round[r] EXCEPT !.status = "deleted"].status = "deleted"
    BY <1>1 DEF Row, RoundStatus
  <2> QED BY <1>1, <2>1, <2>2, WriteRoundInv
<1> QED BY <1>2, <1>3, <1>4

\* The recompute's statement reads a view in which every published round is listed.
LEMMA StartRecomputeInv ==
    ASSUME IInv, NEW t \in Tx, NEW scope \in SUBSET Startup, StartRecompute(t, scope)
    PROVE  IInv'
<1>1. /\ agg' = [agg EXCEPT ![t] =
                   [s \in Startup |-> IF s \in scope THEN TotalsOf(View(t), s) ELSE NoTotals]]
      /\ fresh' = [fresh EXCEPT ![t] = scope]
      /\ pc' = [pc EXCEPT ![t] = "recompute"]
      /\ UNCHANGED <<startup, round, totals, mine, pending, held>>
  BY DEF StartRecompute, Snapshot
<1>2. Shape
  BY DEF IInv
<1>3. \A u \in Tx : agg'[u] = IF u = t
                     THEN [s \in Startup |-> IF s \in scope THEN TotalsOf(View(t), s) ELSE NoTotals]
                     ELSE agg[u]
  BY <1>1, <1>2 DEF Shape
<1>4. agg' = [u \in Tx |-> agg'[u]]
  BY <1>1, <1>2 DEF Shape
<1>5. \A u \in Tx : agg'[u] = [s \in Startup |-> agg'[u][s]]
  BY <1>2, <1>3 DEF Shape
<1>6. Shape'
  BY <1>1, <1>2, <1>4, <1>5 DEF Shape, PC
<1>7. \A u \in Tx : View(u)' = View(u)
  BY <1>1 DEF View
<1>8. \A u \in Tx : /\ pc'[u] = IF u = t THEN "recompute" ELSE pc[u]
                    /\ fresh'[u] = IF u = t THEN scope ELSE fresh[u]
  BY <1>1, <1>2 DEF Shape
<1>9. RowsListed' /\ PendingOK' /\ MineExclusive' /\ LatestListed'
  BY <1>1 DEF IInv, RowsListed, PendingOK, MineExclusive, LatestListed
<1>10. IdleOK'
  BY <1>1, <1>3, <1>8 DEF IInv, IdleOK
<1>11. ASSUME NEW r \in Round, View(t)[r].status = "published"
       PROVE  View(t)[r].listed
  <2>1. CASE mine[t] = r
    <3>1. View(t)[r] = pending[t] /\ mine[t] # NoRound
      BY <1>2, <2>1, ViewAt, RoundAssumption
    <3> QED BY <1>11, <3>1 DEF IInv, PendingOK
  <2>2. CASE mine[t] # r
    <3>1. View(t)[r] = round[r]
      BY <1>2, <2>2, ViewAt
    <3> QED BY <1>11, <3>1 DEF IInv, RowsListed
  <2> QED BY <2>1, <2>2
<1>12. ASSUME NEW s \in Startup, agg'[t][s] # NoTotals
       PROVE  /\ agg'[t][s] = TotalsOf(View(t)', s)
              /\ agg'[t][s].latest # NoRound =>
                    /\ agg'[t][s].latest \in Round
                    /\ View(t)'[agg'[t][s].latest].listed
                    /\ View(t)'[agg'[t][s].latest].of = s
  <2>1. agg'[t][s] = TotalsOf(View(t), s)
    BY <1>3, <1>12
  <2> QED BY <2>1, <1>7, <1>11, LatestIsCounted
<1>13. ASSUME NEW u \in Tx, u # t
       PROVE  \A s \in Startup :
                /\ agg'[u][s] # NoTotals /\ agg'[u][s].latest # NoRound =>
                     /\ agg'[u][s].latest \in Round
                     /\ View(u)'[agg'[u][s].latest].listed
                     /\ View(u)'[agg'[u][s].latest].of = s
                /\ agg'[u][s] # NoTotals /\ s \in fresh'[u] => agg'[u][s] = TotalsOf(View(u)', s)
  BY <1>3, <1>7, <1>8, <1>13, AggKept
<1>14. AggListed' /\ AggFresh'
  BY <1>12, <1>13 DEF AggListed, AggFresh
<1> QED BY <1>6, <1>9, <1>10, <1>14 DEF IInv

\* Taking a startup's row changes nothing but the lock, or drops a startup that is gone.
LEMMA LockStartupInv ==
    ASSUME IInv, NEW t \in Tx, NEW x \in Startup, LockStartup(t, x)
    PROVE  IInv'
<1>1. /\ pc[t] = "recompute"
      /\ UNCHANGED <<startup, round, totals, pc, mine, pending, fresh>>
      /\ \/ agg' = [agg EXCEPT ![t][x] = NoTotals] /\ UNCHANGED held
         \/ held' = [held EXCEPT ![t] = @ \cup {x}] /\ UNCHANGED agg
  BY DEF LockStartup
<1>2. Shape
  BY DEF IInv
<1>3. \A u \in Tx, s \in Startup :
         agg'[u][s] = agg[u][s] \/ (u = t /\ agg'[u][s] = NoTotals)
  BY <1>1, <1>2 DEF Shape
<1>4. \A u \in Tx : u # t => agg'[u] = agg[u]
  BY <1>1, <1>2 DEF Shape
<1>5. /\ agg' = [u \in Tx |-> agg'[u]]
      /\ \A u \in Tx : agg'[u] = [s \in Startup |-> agg'[u][s]]
  <2>1. CASE agg' = [agg EXCEPT ![t] = [agg[t] EXCEPT ![x] = NoTotals]]
    <3>1. \A u \in Tx : agg'[u] = IF u = t THEN [agg[t] EXCEPT ![x] = NoTotals] ELSE agg[u]
      BY <1>2, <2>1 DEF Shape
    <3>2. \A u \in Tx : agg[u] = [s \in Startup |-> agg[u][s]]
      BY <1>2 DEF Shape
    <3>3. [agg[t] EXCEPT ![x] = NoTotals] =
             [s \in Startup |-> [agg[t] EXCEPT ![x] = NoTotals][s]]
      BY <3>2
    <3>4. agg' = [u \in Tx |-> agg'[u]]
      BY <1>2, <2>1 DEF Shape
    <3> QED BY <3>1, <3>2, <3>3, <3>4
  <2>2. CASE UNCHANGED agg
    BY <1>2, <2>2 DEF Shape
  <2> QED BY <1>1, <2>1, <2>2
<1>6. held' \in [Tx -> SUBSET Startup]
  <2>1. held \in [Tx -> SUBSET Startup] /\ held[t] \cup {x} \in SUBSET Startup
    BY <1>2 DEF Shape
  <2> QED BY <1>1, <2>1
<1>7. Shape'
  BY <1>1, <1>2, <1>5, <1>6 DEF Shape
<1>8. \A u \in Tx : View(u)' = View(u)
  BY <1>1 DEF View
<1>9. RowsListed' /\ PendingOK' /\ MineExclusive' /\ LatestListed'
  BY <1>1 DEF IInv, RowsListed, PendingOK, MineExclusive, LatestListed
<1>10. IdleOK'
  BY <1>1, <1>4 DEF IInv, IdleOK
<1>11. AggListed'
  BY <1>3, <1>8 DEF IInv, AggListed
<1>12. AggFresh'
  BY <1>1, <1>3, <1>8 DEF IInv, AggFresh
<1> QED BY <1>7, <1>9, <1>10, <1>11, <1>12 DEF IInv

\* A transaction that ends has no locks and nothing to write; the others are as they were.
LEMMA ReleaseShape ==
    ASSUME Shape, NEW t \in Tx, Release(t)
    PROVE  /\ pc' \in [Tx -> PC]
           /\ mine' \in [Tx -> Round \cup {NoRound}]
           /\ pending' \in [Tx -> Row]
           /\ held' \in [Tx -> SUBSET Startup]
           /\ agg' = [u \in Tx |-> agg'[u]]
           /\ \A u \in Tx : agg'[u] = [s \in Startup |-> agg'[u][s]]
           /\ pc'[t] = "idle" /\ mine'[t] = NoRound /\ agg'[t] = NoAgg
           /\ \A u \in Tx \ {t} : /\ pc'[u] = pc[u]
                                  /\ mine'[u] = mine[u]
                                  /\ pending'[u] = pending[u]
                                  /\ agg'[u] = agg[u]
<1>1. Blank \in Row
  BY StartupAssumption, ContentAssumption DEF Blank, Row, RoundStatus
<1>2. /\ pc' = [pc EXCEPT ![t] = "idle"]
      /\ mine' = [mine EXCEPT ![t] = NoRound]
      /\ pending' = [pending EXCEPT ![t] = Blank]
      /\ held' = [held EXCEPT ![t] = {}]
      /\ agg' = [agg EXCEPT ![t] = NoAgg]
  BY DEF Release
<1>3. \A u \in Tx : agg'[u] = IF u = t THEN NoAgg ELSE agg[u]
  BY <1>2 DEF Shape
<1>4. \A u \in Tx : agg'[u] = [s \in Startup |-> agg'[u][s]]
  BY <1>3 DEF Shape, NoAgg
<1> QED BY <1>1, <1>2, <1>3, <1>4 DEF Shape, PC

\* What is left to show of a transaction that ends: that it wrote rounds which the views of the
\* others, and the latest rounds, can live with.
LEMMA ReleaseInv ==
    ASSUME IInv, NEW t \in Tx, Release(t),
           round' \in [Round -> Row], totals' = [s \in Startup |-> totals'[s]],
           fresh' \in [Tx -> SUBSET Startup],
           RowsListed', LatestListed',
           \A u \in Tx \ {t} : mine[u] # NoRound => round'[mine[u]] = round[mine[u]],
           \A r \in Round : round[r].listed => round'[r].listed /\ round'[r].of = round[r].of,
           \A u \in Tx \ {t} : fresh'[u] \subseteq fresh[u],
           \A u \in Tx \ {t} : \A s \in fresh'[u] : TotalsOf(View(u), s) = TotalsOf(View(u)', s)
    PROVE  IInv'
<1>1. Shape
  BY DEF IInv
<1>2. /\ pc'[t] = "idle" /\ mine'[t] = NoRound /\ agg'[t] = NoAgg
      /\ \A u \in Tx \ {t} : /\ pc'[u] = pc[u]
                             /\ mine'[u] = mine[u]
                             /\ pending'[u] = pending[u]
                             /\ agg'[u] = agg[u]
  BY <1>1, ReleaseShape
<1>3. Shape'
  BY <1>1, ReleaseShape DEF Shape
<1>4. PendingOK'
  BY <1>2 DEF IInv, PendingOK
<1>5. IdleOK' /\ MineExclusive'
  BY <1>2 DEF IInv, IdleOK, MineExclusive
<1>6. ASSUME NEW u \in Tx, u # t
      PROVE  \A s \in Startup :
                /\ agg'[u][s] # NoTotals /\ agg'[u][s].latest # NoRound =>
                     /\ agg'[u][s].latest \in Round
                     /\ View(u)'[agg'[u][s].latest].listed
                     /\ View(u)'[agg'[u][s].latest].of = s
                /\ agg'[u][s] # NoTotals /\ s \in fresh'[u] => agg'[u][s] = TotalsOf(View(u)', s)
  <2>1. \A r \in Round : View(u)[r].listed =>
           View(u)'[r].listed /\ View(u)'[r].of = View(u)[r].of
    BY <1>1, <1>2, <1>3, <1>6, ViewAt, ViewAtNext
  <2> QED BY <1>2, <1>6, <2>1, AggKept
<1>7. \A s \in Startup : agg'[t][s] = NoTotals
  BY <1>2, AggNone
<1>8. AggListed' /\ AggFresh'
  BY <1>6, <1>7 DEF AggListed, AggFresh
<1> QED BY <1>3, <1>4, <1>5, <1>8 DEF IInv

-----------------------------------------------------------------------------
(* The remaining steps *)

\* A new round is a draft: nobody has it locked, and it counts for nothing.
LEMMA CreateRoundInv ==
    ASSUME IInv, NEW x \in Startup, CreateRound(x)
    PROVE  IInv'
<1>1. PICK r \in Round, c \in Content :
           /\ round[r].status = "unborn"
           /\ round' = [round EXCEPT ![r] =
                          [status |-> "draft", listed |-> FALSE, of |-> x, content |-> c]]
  BY DEF CreateRound
<1>2. UNCHANGED <<startup, totals, pc, mine, pending, agg, held, fresh>>
  BY DEF CreateRound
<1>3. Shape
  BY DEF IInv
<1>4. [status |-> "draft", listed |-> FALSE, of |-> x, content |-> c] \in Row
  BY DEF Row, RoundStatus
<1>5. \A q \in Round : round'[q] = IF q = r
         THEN [status |-> "draft", listed |-> FALSE, of |-> x, content |-> c] ELSE round[q]
  BY <1>1, <1>3 DEF Shape
<1>6. Shape'
  BY <1>1, <1>2, <1>3, <1>4 DEF Shape
<1>7. \A u \in Tx : mine[u] # r
  BY <1>1, RoundAssumption DEF IInv, PendingOK
<1>8. ~round[r].listed
  BY <1>1 DEF IInv, RowsListed
<1>9. ASSUME NEW u \in Tx, NEW q \in Round
      PROVE  \/ q # r /\ View(u)'[q] = View(u)[q]
             \/ q = r /\ ~View(u)[q].listed /\ View(u)[q].status = "unborn"
                      /\ View(u)'[q].status = "draft"
  <2>1. View(u)[q] = (IF mine[u] = q THEN pending[u] ELSE round[q])
    BY <1>3, ViewAt
  <2>2. View(u)'[q] = (IF mine[u] = q THEN pending[u] ELSE round'[q])
    BY <1>2, <1>6, ViewAtNext
  <2>3. CASE q = r
    BY <1>1, <1>5, <1>7, <1>8, <2>1, <2>2, <2>3
  <2>4. CASE q # r
    BY <1>5, <2>1, <2>2, <2>4
  <2> QED BY <2>3, <2>4
<1>10. RowsListed'
  BY <1>5 DEF IInv, RowsListed
<1>11. LatestListed'
  BY <1>2, <1>5, <1>8 DEF IInv, LatestListed
<1>12. PendingOK'
  BY <1>2, <1>5, <1>7, RoundAssumption DEF IInv, PendingOK, Shape
<1>13. IdleOK' /\ MineExclusive'
  BY <1>2 DEF IInv, IdleOK, MineExclusive
<1>14. ASSUME NEW u \in Tx
       PROVE  \A s \in Startup :
                /\ agg'[u][s] # NoTotals /\ agg'[u][s].latest # NoRound =>
                     /\ agg'[u][s].latest \in Round
                     /\ View(u)'[agg'[u][s].latest].listed
                     /\ View(u)'[agg'[u][s].latest].of = s
                /\ agg'[u][s] # NoTotals /\ s \in fresh'[u] => agg'[u][s] = TotalsOf(View(u)', s)
  <2>1. \A s : TotalsOf(View(u), s) = TotalsOf(View(u)', s)
    <3> TAKE s
    <3>1. \A q \in Round :
             \/ View(u)[q] = View(u)'[q]
             \/ /\ ~(View(u)[q].of = s /\ View(u)[q].status = "published")
                /\ ~(View(u)'[q].of = s /\ View(u)'[q].status = "published")
      BY <1>9
    <3> QED BY <3>1, TotalsDepend
  <2>2. \A q \in Round : View(u)[q].listed =>
           View(u)'[q].listed /\ View(u)'[q].of = View(u)[q].of
    BY <1>9
  <2> QED BY <1>2, <2>1, <2>2, AggKept
<1>15. AggListed' /\ AggFresh'
  BY <1>14 DEF AggListed, AggFresh
<1> QED BY <1>6, <1>10, <1>11, <1>12, <1>13, <1>15 DEF IInv

\* A commit makes its own view everyone's; only its startup's totals are stale to the others.
LEMMA CommitInv ==
    ASSUME IInv, NEW t \in Tx, Commit(t)
    PROVE  IInv'
<1>1. /\ held[t] = Scope(t)
      /\ round' = View(t)
      /\ totals' = [s \in Startup |-> IF s \in held[t] THEN agg[t][s] ELSE totals[s]]
      /\ fresh' = [u \in Tx |->
                     IF u = t THEN {}
                     ELSE IF mine[t] = NoRound THEN fresh[u] ELSE fresh[u] \ {pending[t].of}]
      /\ Release(t)
  BY DEF Commit
<1>2. Shape
  BY DEF IInv
<1>3. \A r \in Round : round'[r] = IF mine[t] = r THEN pending[t] ELSE round[r]
  BY <1>1, <1>2, ViewAt
<1>4. round' \in [Round -> Row]
  BY <1>1, <1>2 DEF View, Shape
<1>5. fresh' \in [Tx -> SUBSET Startup]
  BY <1>1, <1>2 DEF Shape
<1>6. totals' = [s \in Startup |-> totals'[s]]
  BY <1>1
<1>7. mine[t] # NoRound =>
         /\ pending[t].of = round[mine[t]].of
         /\ pending[t].status # "unborn"
         /\ round[mine[t]].listed => pending[t].listed
         /\ pending[t].status = "published" => pending[t].listed
  BY DEF IInv, PendingOK
<1>8. RowsListed'
  BY <1>3, <1>7, RoundAssumption DEF IInv, RowsListed
<1>9. \A r \in Round : round[r].listed => round'[r].listed /\ round'[r].of = round[r].of
  BY <1>3, <1>7, RoundAssumption
<1>10. ASSUME NEW s \in Startup, totals'[s].latest # NoRound
       PROVE  /\ totals'[s].latest \in Round
              /\ round'[totals'[s].latest].listed
              /\ round'[totals'[s].latest].of = s
  <2>1. CASE s \in held[t]
    <3>1. totals'[s] = agg[t][s] /\ agg[t][s] # NoTotals
      BY <1>1, <2>1 DEF Scope
    <3> QED BY <1>1, <1>10, <3>1 DEF IInv, AggListed
  <2>2. CASE s \notin held[t]
    <3>1. totals'[s] = totals[s]
      BY <1>1, <2>2
    <3> QED BY <1>9, <1>10, <3>1 DEF IInv, LatestListed
  <2> QED BY <2>1, <2>2
<1>11. LatestListed'
  BY <1>10 DEF LatestListed
<1>12. \A u \in Tx \ {t} : mine[u] # NoRound => round'[mine[u]] = round[mine[u]]
  BY <1>2, <1>3 DEF IInv, MineExclusive, Shape
<1>13. \A u \in Tx \ {t} : fresh'[u] \subseteq fresh[u]
  BY <1>1
<1>14. ASSUME NEW u \in Tx \ {t}, NEW s \in fresh'[u]
       PROVE  TotalsOf(View(u), s) = TotalsOf(View(u)', s)
  <2>1. Shape'
    BY <1>1, <1>2, <1>4, <1>5, <1>6, ReleaseShape DEF Shape
  <2>2. mine'[u] = mine[u] /\ pending'[u] = pending[u]
    BY <1>1, <1>2, ReleaseShape
  <2>3. mine[t] # NoRound => s # pending[t].of
    BY <1>1
  <2>4. \A r \in Round : \/ View(u)[r] = View(u)'[r]
                         \/ mine[t] = r /\ View(u)[r].of # s /\ View(u)'[r].of # s
    <3> TAKE r \in Round
    <3>1. View(u)[r] = (IF mine[u] = r THEN pending[u] ELSE round[r])
      BY <1>2, ViewAt
    <3>2. View(u)'[r] = (IF mine[u] = r THEN pending[u] ELSE round'[r])
      BY <2>1, <2>2, ViewAtNext
    <3> QED BY <1>3, <1>7, <2>3, <3>1, <3>2, RoundAssumption
  <2> QED BY <2>4, TotalsDepend
<1> QED BY <1>1, <1>4, <1>5, <1>6, <1>8, <1>9, <1>11, <1>12, <1>13, <1>14, ReleaseInv

\* A startup that goes takes its rounds along; to the others it is no longer fresh.
LEMMA CommitDeleteInv ==
    ASSUME IInv, NEW t \in Tx, CommitDelete(t)
    PROVE  IInv'
<1>1. PICK x \in held[t] :
         /\ \A r \in RoundsOf(x) : RoundFree(t, r)
         /\ round' = [r \in Round |-> IF r \in RoundsOf(x) /\ r \in Live
                                      THEN [round[r] EXCEPT !.status = "deleted"] ELSE round[r]]
         /\ totals' = [totals EXCEPT ![x] = Empty]
         /\ fresh' = [u \in Tx |-> fresh[u] \ {x}]
  BY DEF CommitDelete
<1>2. Release(t)
  BY DEF CommitDelete
<1>3. Shape
  BY DEF IInv
<1>4. \A r \in Round : \/ round'[r] = round[r]
                       \/ round[r].of = x /\ round'[r] = [round[r] EXCEPT !.status = "deleted"]
  BY <1>1 DEF RoundsOf
<1>5. \A r \in Round : round[r] \in Row
  BY <1>3 DEF Shape
<1>6. ASSUME NEW r \in Round, round'[r] # round[r]
      PROVE  /\ round[r].of = x /\ round'[r].of = x /\ round'[r] \in Row
             /\ round'[r].status = "deleted" /\ round'[r].listed = round[r].listed
  BY <1>4, <1>5, <1>6 DEF Row, RoundStatus
<1>7. round' \in [Round -> Row]
  <2>1. \A r \in Round : round'[r] \in Row
    BY <1>5, <1>6
  <2>2. round' = [r \in Round |-> round'[r]]
    BY <1>1
  <2> QED BY <2>1, <2>2
<1>8. totals' = [s \in Startup |-> totals'[s]]
  BY <1>1, <1>3 DEF Shape
<1>9. fresh' \in [Tx -> SUBSET Startup]
  BY <1>1, <1>3 DEF Shape
<1>10. RowsListed'
  BY <1>6 DEF IInv, RowsListed
<1>11. \A r \in Round : round[r].listed => round'[r].listed /\ round'[r].of = round[r].of
  BY <1>6
<1>12. \A s \in Startup : totals'[s] = totals[s] \/ totals'[s].latest = NoRound
  BY <1>1, <1>3 DEF Shape, Empty
<1>13. LatestListed'
  BY <1>11, <1>12 DEF IInv, LatestListed
<1>14. \A u \in Tx \ {t} : mine[u] # NoRound => round'[mine[u]] = round[mine[u]]
  BY <1>1, <1>3 DEF RoundFree, Shape
<1>15. \A u \in Tx \ {t} : fresh'[u] \subseteq fresh[u]
  BY <1>1
<1>16. ASSUME NEW u \in Tx \ {t}, NEW s \in fresh'[u]
       PROVE  TotalsOf(View(u), s) = TotalsOf(View(u)', s)
  <2>1. Shape'
    BY <1>2, <1>3, <1>7, <1>8, <1>9, ReleaseShape DEF Shape
  <2>2. mine'[u] = mine[u] /\ pending'[u] = pending[u]
    BY <1>2, <1>3, ReleaseShape
  <2>3. s # x
    BY <1>1
  <2>4. \A r \in Round : \/ View(u)[r] = View(u)'[r]
                         \/ View(u)[r].of = x /\ View(u)'[r].of = x
    <3> TAKE r \in Round
    <3>1. View(u)[r] = (IF mine[u] = r THEN pending[u] ELSE round[r])
      BY <1>3, ViewAt
    <3>2. View(u)'[r] = (IF mine[u] = r THEN pending[u] ELSE round'[r])
      BY <2>1, <2>2, ViewAtNext
    <3> QED BY <1>6, <3>1, <3>2
  <2> QED BY <2>3, <2>4, TotalsDepend
<1> QED BY <1>2, <1>7, <1>8, <1>9, <1>10, <1>11, <1>13, <1>14, <1>15, <1>16, ReleaseInv

\* A rollback leaves everything as the others see it.
LEMMA RollbackInv ==
    ASSUME IInv, NEW t \in Tx, Rollback(t)
    PROVE  IInv'
<1>1. /\ Release(t)
      /\ fresh' = [fresh EXCEPT ![t] = {}]
      /\ UNCHANGED <<round, totals>>
  BY DEF Rollback
<1>2. Shape
  BY DEF IInv
<1>3. \A u \in Tx \ {t} : mine'[u] = mine[u] /\ pending'[u] = pending[u]
  BY <1>1, <1>2, ReleaseShape
<1>4. \A u \in Tx \ {t} : View(u)' = View(u)
  BY <1>1, <1>3 DEF View
<1>5. RowsListed' /\ LatestListed'
  BY <1>1 DEF IInv, RowsListed, LatestListed
<1>6. fresh' \in [Tx -> SUBSET Startup] /\ \A u \in Tx \ {t} : fresh'[u] \subseteq fresh[u]
  BY <1>1, <1>2 DEF Shape
<1>7. round' \in [Round -> Row] /\ totals' = [s \in Startup |-> totals'[s]]
  BY <1>1, <1>2 DEF Shape
<1> QED BY <1>1, <1>4, <1>5, <1>6, <1>7, ReleaseInv

\* Locking a startup to delete it, and publishing one, concern no round.
LEMMA StartupStepInv ==
    ASSUME IInv, NEW x \in Startup,
           PublishStartup(x) \/ \E t \in Tx : DeleteStartup(t, x)
    PROVE  IInv'
<1>1. UNCHANGED <<round, totals, mine, pending, agg, fresh>>
  BY DEF PublishStartup, DeleteStartup
<1>2. Shape
  BY DEF IInv
<1>3. Shape' /\ IdleOK'
  <2>1. CASE PublishStartup(x)
    <3>1. pc' = pc /\ held' = held
      BY <2>1 DEF PublishStartup
    <3> QED BY <1>1, <1>2, <3>1 DEF IInv, Shape, IdleOK
  <2>2. ASSUME NEW t \in Tx, DeleteStartup(t, x)
        PROVE  Shape' /\ IdleOK'
    <3>1. /\ pc[t] = "idle"
          /\ pc' = [pc EXCEPT ![t] = "deleting"]
          /\ held' = [held EXCEPT ![t] = {x}]
      BY <2>2 DEF DeleteStartup
    <3>2. Shape'
      BY <1>1, <1>2, <3>1 DEF Shape, PC
    <3>3. \A u \in Tx : pc'[u] = IF u = t THEN "deleting" ELSE pc[u]
      BY <1>2, <3>1 DEF Shape
    <3>4. IdleOK'
      BY <1>1, <3>1, <3>3 DEF IInv, IdleOK
    <3> QED BY <3>2, <3>4
  <2> QED BY <2>1, <2>2
<1>4. \A u \in Tx : View(u)' = View(u)
  BY <1>1 DEF View
<1>5. RowsListed' /\ PendingOK' /\ MineExclusive' /\ LatestListed'
  BY <1>1 DEF IInv, RowsListed, PendingOK, MineExclusive, LatestListed
<1>6. AggListed'
  BY <1>1, <1>4 DEF IInv, AggListed
<1>7. AggFresh'
  BY <1>1, <1>4 DEF IInv, AggFresh
<1> QED BY <1>3, <1>5, <1>6, <1>7 DEF IInv

LEMMA NextInv == IInv /\ [Next]_vars => IInv'
<1> SUFFICES ASSUME IInv, [Next]_vars PROVE IInv'
  OBVIOUS
<1>1. CASE \E s \in Startup : PublishStartup(s) \/ CreateRound(s)
  BY <1>1, StartupStepInv, CreateRoundInv
<1>2. ASSUME NEW t \in Editor, Begin(t) PROVE IInv'
  <2>1. t \in Tx
    BY DEF Tx
  <2> QED BY <1>2, <2>1, BeginInv, StartupStepInv DEF Begin
<1>3. ASSUME NEW t \in Repairer, RepairStart(t) PROVE IInv'
  <2>1. t \in Tx /\ {s \in Startup : startup[s] # "gone"} \in SUBSET Startup
    BY DEF Tx
  <2>2. StartRecompute(t, {s \in Startup : startup[s] # "gone"})
    BY <1>3 DEF RepairStart
  <2> QED BY <2>1, <2>2, StartRecomputeInv
<1>4. ASSUME NEW t \in Tx, Step(t) \/ DeadlockVictim(t) \/ Rollback(t) PROVE IInv'
  <2>1. CASE RecomputeStart(t)
    <3>1. StartRecompute(t, {pending[t].of}) /\ {pending[t].of} \in SUBSET Startup
      BY <2>1 DEF RecomputeStart, IInv, Shape, Row
    <3> QED BY <3>1, StartRecomputeInv
  <2>2. CASE \E s \in Startup : LockStartup(t, s)
    BY <2>2, LockStartupInv
  <2>3. CASE Commit(t)
    BY <2>3, CommitInv
  <2>4. CASE CommitDelete(t)
    BY <2>4, CommitDeleteInv
  <2>5. CASE DeadlockVictim(t) \/ Rollback(t)
    BY <2>5, RollbackInv DEF DeadlockVictim
  <2> QED BY <1>4, <2>1, <2>2, <2>3, <2>4, <2>5 DEF Step
<1>5. CASE UNCHANGED vars
  <2>1. UNCHANGED <<round, totals, pc, mine, pending, agg, held, fresh>>
    BY <1>5 DEF vars
  <2>2. \A u \in Tx : View(u)' = View(u)
    BY <2>1 DEF View
  <2>3. Shape' /\ RowsListed' /\ PendingOK' /\ IdleOK' /\ MineExclusive' /\ LatestListed'
    BY <2>1 DEF IInv, Shape, RowsListed, PendingOK, IdleOK, MineExclusive, LatestListed
  <2>4. AggListed'
    BY <2>1, <2>2 DEF IInv, AggListed
  <2>5. AggFresh'
    BY <2>1, <2>2 DEF IInv, AggFresh
  <2> QED BY <2>3, <2>4, <2>5 DEF IInv
<1> QED BY <1>1, <1>2, <1>3, <1>4, <1>5 DEF Next

-----------------------------------------------------------------------------
(* Theorems *)

\* The inductive invariant holds in every reachable state.
THEOREM Invariance == Spec => []IInv
<1>1. Init => IInv
  BY InitInv
<1>2. IInv /\ [Next]_vars => IInv'
  BY NextInv
<1> QED BY <1>1, <1>2, PTL DEF Spec

\* Whatever transactions overlap, the latest round on a startup's card is one of its own that was
\* published at some time: no race, repair or deletion puts a draft nobody saw there.
THEOREM LatestAlwaysPublished == Spec => []LatestWasPublished
<1>1. IInv => LatestWasPublished
  BY DEF IInv, LatestListed, LatestWasPublished
<1> QED BY <1>1, Invariance, PTL

\* A recompute that nobody raced leaves exactly the totals of the published rounds, for any number
\* of startups, rounds and transactions, and whatever the totals were before.
THEOREM LoneRecomputeExact == Spec => RecomputeExact
<1>1. IInv /\ [Next]_vars =>
        [\A t \in Tx : Commit(t) =>
            \A s \in held[t] \cap fresh[t] : totals'[s] = TotalsOf(round, s)']_vars
  <2> SUFFICES ASSUME IInv, NEW t \in Tx, Commit(t), NEW s \in held[t] \cap fresh[t]
               PROVE  totals'[s] = TotalsOf(round, s)'
    OBVIOUS
  <2>1. s \in Startup /\ held[t] = Scope(t) /\ round' = View(t)
    BY DEF IInv, Shape, Commit
  <2>2. agg[t][s] # NoTotals /\ totals'[s] = agg[t][s]
    BY <2>1 DEF Commit, Scope
  <2>3. agg[t][s] = TotalsOf(View(t), s)
    BY <2>1, <2>2 DEF IInv, AggFresh
  <2>4. TotalsOf(round, s)' = TotalsOf(round', s)
    BY DEF TotalsOf, LatestOf, Last, NotAfter, Amounts, Counted
  <2> QED BY <2>1, <2>2, <2>3, <2>4
<1> QED BY <1>1, Invariance, PTL DEF Spec, RecomputeExact

=============================================================================
