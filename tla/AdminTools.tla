----------------------------- MODULE AdminTools -----------------------------
(***************************************************************************)
(* What the admin panel does, each tool by itself: imports (ImportJobs),   *)
(* the screens that send calls (AdminCalls), the forms and the image field *)
(* (AdminForms), and the prefill (Prefill).  Beside an import the tools    *)
(* share no state; leaving one for another is left out.                    *)
(***************************************************************************)
EXTENDS ImportJobs

CONSTANTS
    Item, Incomplete, DryRuns, Upload, Member,
    Thing, Field, Own, MaxVisits, MaxImages,
    MaxRedirects, MaxLogos, MaxCovers,
    None

VARIABLES
    tool,   \* the one in use
    page, pending, stuck, listStatus, items, selected, run, outcome, asked, did,
    dryRuns, source, file, report, failure, imported, mine, staff, listed, signedIn, notice,
    link, password, codes, others, shown, told,
    form, subject, stored, seen, opened, text, call, error, said, base, touched, edited, visits,
    image, field, flying, taken, meant, crossed,
    stage, draft, urls, at, hops, pick, warned, tried, broken, requests

Calls == INSTANCE AdminCalls WITH
    Record <- Item, Job <- DryRuns, status <- listStatus, jobs <- dryRuns
Forms == INSTANCE AdminForms WITH open <- opened, notice <- said, edits <- edited
Page == INSTANCE Prefill WITH kept <- pick

ASSUME ToolsAssumption ==
    Calls!CallsAssumption /\ Forms!FormsAssumption /\ Page!PrefillAssumption

calls == <<page, pending, stuck, listStatus, items, selected, run, outcome, asked, did,
    dryRuns, source, file, report, failure, imported, mine, staff, listed, signedIn, notice,
    link, password, codes, others, shown, told>>
forms == <<form, subject, stored, seen, opened, text, call, error, said, base, touched, edited,
    visits, image, field, flying, taken, meant, crossed>>
read == <<stage, draft, urls, at, hops, pick, warned, tried, broken, requests>>
toolVars == <<tool, vars, calls, forms, read>>

With(name) == tool = name /\ UNCHANGED tool

ToolsInit ==
    /\ tool \in {"import", "calls", "forms", "prefill"}
    /\ Init /\ Calls!Init /\ Forms!Init /\ Page!Init
ToolsNext ==
    \/ With("import") /\ Next /\ UNCHANGED <<calls, forms, read>>
    \/ With("calls") /\ Calls!Next /\ UNCHANGED <<vars, forms, read>>
    \/ With("forms") /\ Forms!Next /\ UNCHANGED <<vars, calls, read>>
    \/ With("prefill") /\ Page!Next /\ UNCHANGED <<vars, calls, forms>>
ToolsSpec == ToolsInit /\ [][ToolsNext]_toolVars

-----------------------------------------------------------------------------

\* What a screen says it did was done, to what it names (AdminCalls); what a prefill found, and
\* what it did not, is in its draft (Prefill).
ToldTruly == Calls!ToldTruly /\ Page!DraftTold
\* What a form does is what it showed when it was filled in (AdminForms).
ActsAsShown == Forms!ActsAsShown
=============================================================================
