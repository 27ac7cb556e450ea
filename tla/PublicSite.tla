----------------------------- MODULE PublicSite -----------------------------
(***************************************************************************)
(* What the public site shows: pages as they are read from the database    *)
(* (PublicPages) and as the data cache keeps them (CacheTags).  The two    *)
(* look at the same writes for different questions and share no state: the *)
(* first says what the statements of a page return, the second which of    *)
(* the entries made of them a write must expire.                           *)
(***************************************************************************)
EXTENDS PublicPages

CONSTANTS
    Company, End,   \* the cache's startups, and what is linked to them
    List,           \* the entry of the pages that show every card
    Tx,
    MaxTx           \* bound: transactions that begin

VARIABLES
    name, money, head, joined, acquirer, erased,   \* the records and links that entries show
    tx, watched, cache, reading, begun, owed, since

Cache == INSTANCE CacheTags WITH
    Startup <- Company, MaxWrites <- MaxTx,
    links <- joined, gone <- erased, page <- watched, writes <- begun
cached == <<name, money, head, joined, acquirer, erased, tx, watched, cache, reading, begun, owed,
    since>>

ASSUME EntriesAssumption == Cache!PagesAssumption

\* A cached page that is not what is committed is about to be expired, unless its write missed
\* the page's tag or its server stopped before it expired any (CacheTags).
StaleIsExpired == Cache!StaleIsExpired

\* A committed write has the tag of every page it changes, but for pages tied to what it changed
\* by a link or an acquisition committed after it collected its tags (CacheTags).
OnlyLateTiesMissed == Cache!OnlyLateTiesMissed
=============================================================================
