--------------------------- MODULE StartupEditor ---------------------------
(***************************************************************************)
(* The editor of a startup: its fields and industries (AdminEditor), which *)
(* are saved together or list by list, and its links to founders,          *)
(* investors, batches and rounds (StartupLinks), each a call of its own.   *)
(* Both are on one page.  Besides the page itself they share one wait: the *)
(* answer of any list or link lets all of them go on.  Each module makes   *)
(* the other's calls too, for that wait alone (AdminEditor's ChangeLink,   *)
(* StartupLinks' PutIndustries).                                           *)
(***************************************************************************)
EXTENDS AdminEditor

CONSTANTS
  Name, Kind, RecordIds, First, Round,
  LinkCalls, LinkMoves        \* bounds: link calls under way, and what the admin does with links

VARIABLES
  records, links, startup, saved, local, listed, waiting, box, stint, dialog, round,
  sent, leaving, refresh, steps, wished, unwant, crossed

Links == INSTANCE StartupLinks WITH
  Ids <- RecordIds, MaxCalls <- LinkCalls, MaxMoves <- LinkMoves, shown <- listed,
  pending <- waiting, calls <- sent, nav <- leaving, moves <- steps, want <- wished,
  hasty <- crossed
linkVars == <<records, links, startup, saved, local, listed, waiting, box, stint, dialog,
              round, sent, leaving, refresh, steps, wished, unwant, crossed>>

ASSUME LinksAssumption == Links!LinksAssumption

\* A stored startup is linked to whom its admin chose, and to nobody they removed; exceptions are
\* overlapping changes and those made while another page was coming (StartupLinks).
LinksKept == Links!LinksAsChosen

\* A startup published without a reported failure is linked to no draft it was linked to then, nor
\* are drafts among the participants of its rounds (StartupLinks).
PublishedTogether == Links!PublishedTogether
=============================================================================
