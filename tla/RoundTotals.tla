----------------------------- MODULE RoundTotals -----------------------------
(***************************************************************************)
(* Funding rounds and the totals of their startups.                        *)
(*                                                                         *)
(* A startup's row repeats what its published rounds add up to.  Whoever   *)
(* changes a round recomputes the totals in the same transaction, with one *)
(* UPDATE whose subqueries read the rounds in the statement's snapshot     *)
(* before it waits for the startup's row.  A transaction here locks its    *)
(* round, starts that statement, takes the startups' rows one by one, and  *)
(* commits; the foreign key of the new latest round is checked last.       *)
(*                                                                         *)
(* Under READ COMMITTED a row that changed while the statement waited is   *)
(* locked in its new version, but the subqueries keep the old snapshot.    *)
(***************************************************************************)
EXTENDS Naturals, FiniteSets, FiniteSetsExt

CONSTANTS
    Startup, Round,        \* identifiers; rounds are numbers, because their order breaks ties
    Editor, Repairer,      \* requests of the panel; runs of scripts/recompute-derived.ts
    Content,               \* what an editor may say of a round: [class, amount, day]
    NoRound, NoTotals

Tx == Editor \cup Repairer

Class == {"equity", "convertible", "debt", "non_dilutive", "secondary"}
Raised == {"equity", "convertible"}
Debt == {"debt"}

ASSUME RoundAssumption == Round \subseteq Nat /\ Round # {} /\ NoRound \notin Round
ASSUME StartupAssumption == Startup # {}
ASSUME ContentAssumption ==
    Content # {} /\ Content \subseteq [class : Class, amount : Nat, day : Nat]

VARIABLES
    startup,   \* [Startup -> StartupState]
    round,     \* [Round -> Row]: funding_rounds
    totals,    \* [Startup -> Totals]: the derived columns
    pc,        \* [Tx -> PC]
    mine,      \* [Tx -> Round or NoRound]: the round it has locked
    pending,   \* [Tx -> Row]: what it leaves of that round
    agg,       \* [Tx -> [Startup -> Totals or NoTotals]]: what its UPDATE is about to write
    held,      \* [Tx -> SUBSET Startup]: the startups it has locked
    fresh      \* history: startups whose rounds nobody changed since its statement started

vars == <<startup, round, totals, pc, mine, pending, agg, held, fresh>>

StartupState == {"unpublished", "published", "gone"}   \* published: now or at some time
RoundStatus == {"unborn", "draft", "published", "archived", "deleted"}
Row == [status : RoundStatus, listed : BOOLEAN, of : Startup, content : Content]
Totals == [raised : Nat, debt : Nat, latest : Round \cup {NoRound}]
PC == {"idle", "written", "recompute", "deleting"}

TypeOK ==
    /\ startup \in [Startup -> StartupState]
    /\ round \in [Round -> Row]
    /\ totals \in [Startup -> Totals]
    /\ pc \in [Tx -> PC]
    /\ mine \in [Tx -> Round \cup {NoRound}]
    /\ pending \in [Tx -> Row]
    /\ agg \in [Tx -> [Startup -> Totals \cup {NoTotals}]]
    /\ held \in [Tx -> SUBSET Startup]
    /\ fresh \in [Tx -> SUBSET Startup]
    /\ \A t \in Tx : pc[t] = "idle" => mine[t] = NoRound /\ held[t] = {}

-----------------------------------------------------------------------------
(* What the columns are supposed to say                                    *)

\* A bug: every round counts, whatever its status.
CountedDrafts(rows, s, classes) ==
    {r \in Round : /\ rows[r].of = s
                   /\ rows[r].status \in {"draft", "published"}
                   /\ rows[r].content.class \in classes}

Counted(rows, s, classes) ==
    {r \in Round : /\ rows[r].of = s
                   /\ rows[r].status = "published"
                   /\ rows[r].content.class \in classes}

Amounts(rows, s, classes) ==
    {<<r, rows[r].content.amount>> : r \in Counted(rows, s, classes)}

SumOf(amounts) == MapThenSumSet(LAMBDA entry : entry[2], amounts)

\* order by announced_on desc, id desc
NotAfter(rows, q, r) ==
    \/ rows[q].content.day < rows[r].content.day
    \/ rows[q].content.day = rows[r].content.day /\ q <= r

Last(rows, s) ==
    LET raised == Counted(rows, s, Raised)
    IN  {r \in raised : \A q \in raised : NotAfter(rows, q, r)}

LatestOf(rows, s) ==
    IF Last(rows, s) = {} THEN NoRound ELSE CHOOSE r \in Last(rows, s) : TRUE

TotalsOf(rows, s) ==
    [raised |-> SumOf(Amounts(rows, s, Raised)),
     debt   |-> SumOf(Amounts(rows, s, Debt)),
     latest |-> LatestOf(rows, s)]

-----------------------------------------------------------------------------
NoAgg == [s \in Startup |-> NoTotals]
Empty == [raised |-> 0, debt |-> 0, latest |-> NoRound]
Blank == [status |-> "unborn", listed |-> FALSE,
          of |-> CHOOSE s \in Startup : TRUE, content |-> CHOOSE c \in Content : TRUE]

Init ==
    /\ startup = [s \in Startup |-> "unpublished"]
    /\ round = [r \in Round |-> Blank]
    /\ totals = [s \in Startup |-> Empty]
    /\ pc = [t \in Tx |-> "idle"]
    /\ mine = [t \in Tx |-> NoRound]
    /\ pending = [t \in Tx |-> Blank]
    /\ agg = [t \in Tx |-> NoAgg]
    /\ held = [t \in Tx |-> {}]
    /\ fresh = [t \in Tx |-> {}]

RoundFree(t, r) == \A u \in Tx \ {t} : mine[u] # r
StartupFree(t, s) == \A u \in Tx \ {t} : s \notin held[u]
Unlocked(s) == \A u \in Tx : s \notin held[u]

\* A bug: a transaction that ends leaves its round locked, as a connection returned to the pool
\* with its transaction open does.
ReleaseKeepsRound(t) ==
    /\ pc' = [pc EXCEPT ![t] = "idle"]
    /\ held' = [held EXCEPT ![t] = {}]
    /\ agg' = [agg EXCEPT ![t] = NoAgg]
    /\ UNCHANGED <<mine, pending>>

\* A transaction ends: its locks and its locals go.
Release(t) ==
    /\ pc' = [pc EXCEPT ![t] = "idle"]
    /\ mine' = [mine EXCEPT ![t] = NoRound]
    /\ pending' = [pending EXCEPT ![t] = Blank]
    /\ held' = [held EXCEPT ![t] = {}]
    /\ agg' = [agg EXCEPT ![t] = NoAgg]

-----------------------------------------------------------------------------
(* Transactions of a single step *)

\* A startup is created as a draft, so the model starts with all of them.
PublishStartup(s) ==
    /\ startup[s] = "unpublished"
    /\ Unlocked(s)
    /\ startup' = [startup EXCEPT ![s] = "published"]
    /\ UNCHANGED <<round, totals, pc, mine, pending, agg, held, fresh>>

\* A round is created as a draft, under its startup's lock; drafts count for nothing.
CreateRound(s) ==
    /\ startup[s] # "gone"
    /\ Unlocked(s)
    /\ \E r \in Round, c \in Content :
        /\ round[r].status = "unborn"
        /\ round' = [round EXCEPT ![r] =
                       [status |-> "draft", listed |-> FALSE, of |-> s, content |-> c]]
    /\ UNCHANGED <<startup, totals, pc, mine, pending, agg, held, fresh>>

-----------------------------------------------------------------------------
(* Changing a round: lock it, write it, recompute, commit *)

Live == {r \in Round : round[r].status \in {"draft", "published", "archived"}}

WriteRound(t, r, new) ==
    /\ pc[t] = "idle"
    /\ RoundFree(t, r)
    /\ mine' = [mine EXCEPT ![t] = r]
    /\ pending' = [pending EXCEPT ![t] = new]
    /\ pc' = [pc EXCEPT ![t] = "written"]
    /\ UNCHANGED <<startup, round, totals, agg, held, fresh>>

\* An update that changes nothing writes nothing.
UpdateRound(t) ==
    \E r \in Live, c \in Content :
        /\ c # round[r].content
        /\ WriteRound(t, r, [round[r] EXCEPT !.content = c])

Transitions ==
    {<<"draft", "published">>, <<"published", "draft">>,
     <<"draft", "archived">>, <<"published", "archived">>, <<"archived", "draft">>}

TransitionRound(t) ==
    \E r \in Live, to \in RoundStatus :
        /\ <<round[r].status, to>> \in Transitions
        /\ WriteRound(t, r, [round[r] EXCEPT !.status = to,
                                             !.listed = @ \/ to = "published"])

\* Hard delete: only a round that was never published, which no startup names as its latest.
DeleteRound(t) ==
    \E r \in Live :
        /\ ~round[r].listed
        /\ WriteRound(t, r, [round[r] EXCEPT !.status = "deleted"])

\* The rounds as this transaction sees them: what is committed, and its own write.
View(t) ==
    IF mine[t] = NoRound THEN round ELSE [round EXCEPT ![mine[t]] = pending[t]]

\* A bug: the totals are recomputed from the rounds as they were before the write.
SnapshotBeforeWrite(t) == round

Snapshot(t) == View(t)

StartRecompute(t, scope) ==
    /\ agg' = [agg EXCEPT ![t] =
                 [s \in Startup |-> IF s \in scope THEN TotalsOf(Snapshot(t), s) ELSE NoTotals]]
    /\ fresh' = [fresh EXCEPT ![t] = scope]
    /\ pc' = [pc EXCEPT ![t] = "recompute"]
    /\ UNCHANGED <<startup, round, totals, mine, pending, held>>

RecomputeStart(t) ==
    /\ pc[t] = "written"
    /\ StartRecompute(t, {pending[t].of})

\* The repair script recomputes every startup; what it counts before and after is only reported.
RepairStart(t) ==
    /\ pc[t] = "idle"
    /\ StartRecompute(t, {s \in Startup : startup[s] # "gone"})

Scope(t) == {s \in Startup : agg[t][s] # NoTotals}

\* The UPDATE reaches a startup's row and locks it; a row deleted meanwhile is skipped.
LockStartup(t, s) ==
    /\ pc[t] = "recompute"
    /\ s \in Scope(t) \ held[t]
    /\ StartupFree(t, s)
    /\ IF startup[s] = "gone"
       THEN /\ agg' = [agg EXCEPT ![t][s] = NoTotals]
            /\ UNCHANGED held
       ELSE /\ held' = [held EXCEPT ![t] = @ \cup {s}]
            /\ UNCHANGED agg
    /\ UNCHANGED <<startup, round, totals, pc, mine, pending, fresh>>

\* A changed latest_round_id is checked against the round's row, which must not be locked.
LatestToCheck(t) ==
    {agg[t][s].latest : s \in {x \in held[t] : agg[t][x].latest # totals[x].latest}} \ {NoRound}

RoundsOf(s) == {r \in Round : round[r].of = s}

Commit(t) ==
    /\ pc[t] = "recompute"
    /\ held[t] = Scope(t)
    /\ \A r \in LatestToCheck(t) : RoundFree(t, r)
    /\ round' = View(t)
    /\ totals' = [s \in Startup |-> IF s \in held[t] THEN agg[t][s] ELSE totals[s]]
    /\ fresh' = [u \in Tx |->
                   IF u = t THEN {}
                   ELSE IF mine[t] = NoRound THEN fresh[u] ELSE fresh[u] \ {pending[t].of}]
    /\ Release(t)
    /\ UNCHANGED startup

-----------------------------------------------------------------------------
(* Hard delete of a startup: its row first, then by cascade its rounds *)

DeleteStartup(t, s) ==
    /\ pc[t] = "idle"
    /\ startup[s] = "unpublished"
    /\ Unlocked(s)
    /\ held' = [held EXCEPT ![t] = {s}]
    /\ pc' = [pc EXCEPT ![t] = "deleting"]
    /\ UNCHANGED <<startup, round, totals, mine, pending, agg, fresh>>

CommitDelete(t) ==
    /\ pc[t] = "deleting"
    /\ \E s \in held[t] :
        /\ \A r \in RoundsOf(s) : RoundFree(t, r)
        /\ startup' = [startup EXCEPT ![s] = "gone"]
        /\ round' = [r \in Round |-> IF r \in RoundsOf(s) /\ r \in Live
                                     THEN [round[r] EXCEPT !.status = "deleted"] ELSE round[r]]
        /\ totals' = [totals EXCEPT ![s] = Empty]
        /\ fresh' = [u \in Tx |-> fresh[u] \ {s}]
    /\ Release(t)

-----------------------------------------------------------------------------
(* Transactions that do not commit *)

Rollback(t) ==
    /\ pc[t] # "idle"
    /\ Release(t)
    /\ fresh' = [fresh EXCEPT ![t] = {}]
    /\ UNCHANGED <<startup, round, totals>>

\* Who makes whom wait for a row.
WaitsFor(t, u) ==
    /\ t # u
    /\ \/ pc[t] = "recompute" /\ \E s \in Scope(t) \ held[t] : s \in held[u]
       \/ pc[t] = "recompute" /\ held[t] = Scope(t) /\ mine[u] \in LatestToCheck(t)
       \/ pc[t] = "deleting" /\ \E s \in held[t] : mine[u] \in RoundsOf(s)

\* Transactions that wait for each other; Postgres aborts one of them.
Deadlocked(t) ==
    \E C \in SUBSET Tx :
        /\ t \in C
        /\ \A u \in C : \E v \in C : WaitsFor(u, v)
        /\ \A v \in C : \E u \in C : WaitsFor(u, v)

DeadlockVictim(t) == Deadlocked(t) /\ Rollback(t)

-----------------------------------------------------------------------------
Step(t) ==
    \/ RecomputeStart(t)
    \/ \E s \in Startup : LockStartup(t, s)
    \/ Commit(t)
    \/ CommitDelete(t)

Begin(t) ==
    \/ UpdateRound(t) \/ TransitionRound(t) \/ DeleteRound(t)
    \/ \E s \in Startup : DeleteStartup(t, s)

Next ==
    \/ \E s \in Startup : PublishStartup(s) \/ CreateRound(s)
    \/ \E t \in Editor : Begin(t)
    \/ \E t \in Repairer : RepairStart(t)
    \/ \E t \in Tx : Step(t) \/ DeadlockVictim(t) \/ Rollback(t)

Spec == Init /\ [][Next]_vars

\* Row locks are granted in the order they were asked for, and a deadlock is broken.
Fairness == \A t \in Tx : SF_vars(Step(t)) /\ WF_vars(DeadlockVictim(t))

FairSpec == Spec /\ Fairness

-----------------------------------------------------------------------------
(* Safety *)

\* The latest round on a startup's public card is one of its own that was published at some time:
\* no race, repair or deletion puts a round there that the public never saw (FR-404).
LatestWasPublished ==
    \A s \in Startup :
        totals[s].latest # NoRound =>
            /\ round[totals[s].latest].listed
            /\ round[totals[s].latest].of = s

\* A recompute during which nobody else changed the startup's rounds leaves the totals those rounds
\* add up to, however wrong they were before: this is what makes the repair script one (ADR-009).
RecomputeExact ==
    [][\A t \in Tx : Commit(t) =>
          \A s \in held[t] \cap fresh[t] : totals'[s] = TotalsOf(round, s)']_vars

\* FR-404: the totals of a startup are what its published rounds add up to, after every commit.
TotalsMatch ==
    \A s \in Startup : totals[s] = TotalsOf(round, s)

(* Liveness *)

\* No transaction waits for ever, though a round's lock and a startup's are taken in both orders.
TxFinishes == \A t \in Tx : pc[t] # "idle" ~> pc[t] = "idle"
=============================================================================
