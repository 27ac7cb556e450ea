----------------------------- MODULE ExploreGrid -----------------------------
(***************************************************************************)
(* The explore grid of the public site: a visitor types, filters, sorts    *)
(* and asks for more, while startups change under the list.                *)
(*                                                                         *)
(* The grid's query is the page's URL, and a navigation changes the URL    *)
(* some time after it was asked for.  The box above the grid follows the   *)
(* URL and asks for a navigation when the visitor has paused.  Cards come  *)
(* page by page, each page with a cursor to the next; React runs a         *)
(* component's effects before the next event, so an effect is part of the  *)
(* action that causes it.                                                  *)
(***************************************************************************)
EXTENDS Listings

CONSTANTS
  Startups,     \* ids, numbers: the tie-breaker of every sort
  Added,        \* Added[s]: when a startup was added; two may be equal
  Raised,       \* Raised[s]: a startup's sortable amount at first, 0 or 1
  Named,        \* the startups whose text matches the word visitors search
  Seed,         \* the startups of the one stage visitors filter by
  Limit,        \* cards of a page (24 in the code)
  MaxDepth,     \* pages an anonymous visitor may open (20 in the code)
  MaxMoves,     \* bound: what the visitor does to the query
  MaxChanges,   \* bound: what happens to startups meanwhile
  None          \* no cursor, no navigation, no timer

VARIABLES
  rec,      \* rec[s]: a startup's sortable amount, its slug and whether it is public
  url,      \* the query of the page's URL
  nav,      \* the query of a navigation that has not arrived
  text,     \* the search box
  timer,    \* what the box will search for when the visitor pauses
  sheet,    \* the draft of an open filter sheet
  initial,  \* the page the server rendered, with what has not changed since
  grid,     \* the cards shown and where they end
  live,     \* requests that may still be answered
  moves, changes,   \* how often visitor and startups have moved
  wanted,   \* history: the query the visitor has asked for
  crossed   \* history: a choice was made on a query that was not the latest

vars == <<rec, url, nav, text, timer, sheet, initial, grid, live, moves, changes, wanted, crossed>>
serverVars == <<rec, changes>>
askVars == <<url, nav, text, timer, sheet, wanted, crossed>>

Texts == {"", "a", "word"}
Sorts == {"recent", "raised"}
Queries == [q : {"", "word"}, stage : BOOLEAN, sort : Sorts]
Default == [q |-> "", stage |-> FALSE, sort |-> "recent"]

Cursors == [sort : Sorts, key : Nat, id : Startups, page : Nat]

GridAssumption ==
  /\ Startups \subseteq Nat /\ IsFiniteSet(Startups)
  /\ Added \in [Startups -> Nat] /\ Raised \in [Startups -> {0, 1}]
  /\ Named \subseteq Startups /\ Seed \subseteq Startups
  /\ Limit \in Nat \ {0} /\ MaxDepth \in Nat \ {0}
  /\ MaxMoves \in Nat /\ MaxChanges \in Nat
  /\ None \notin Queries \cup Texts \cup Cursors

\* What the URL keeps of a search text: one of a single letter is left out.
Searched(t) == IF t = "a" THEN "" ELSE t

(***************************************************************************)
(* The server: one page of a list.                                         *)
(***************************************************************************)
filterConditions(query, s) ==
  /\ rec[s].public
  /\ query.q = "" \/ s \in Named
  /\ ~query.stage \/ s \in Seed

SortKey(sort, s) == IF sort = "recent" THEN Added[s] ELSE rec[s].raised

\* Descending by the sort's key, then ascending by id.
Precedes(k1, s1, k2, s2) == k1 > k2 \/ (k1 = k2 /\ s1 < s2)

\* A bug: rows with the cursor's key are taken for shown already.
AfterWithoutTie(cursor, s) == cursor = None \/ cursor.key > SortKey(cursor.sort, s)

\* Strictly after a cursor in its sort's order.
after(cursor, s) ==
  cursor = None \/ Precedes(cursor.key, cursor.id, SortKey(cursor.sort, s), s)

\* A card shows its startup under the slug it had; no two startups have the same.
Card(s) == [id |-> s, renamed |-> rec[s].renamed]

\* The page of at most Limit + 1 rows: the last of them only proves there is more.
toPage(query, depth, rows) ==
  LET shown == SubSeq(rows, 1, IF Len(rows) < Limit THEN Len(rows) ELSE Limit)
  IN  [cards |-> [i \in DOMAIN shown |-> Card(shown[i])],
       cursor |-> IF Len(rows) > Limit
                  THEN LET last == shown[Len(shown)]
                       IN  [sort |-> query.sort, key |-> SortKey(query.sort, last), id |-> last,
                            page |-> depth + 1]
                  ELSE None]

list(query, cursor) ==
  LET matches == {s \in Startups : filterConditions(query, s) /\ after(cursor, s)}
      sorted == Ordered(matches, {p \in matches \X matches :
                  Precedes(SortKey(query.sort, p[1]), p[1], SortKey(query.sort, p[2]), p[2])})
      rows == SubSeq(sorted, 1, IF Len(sorted) < Limit + 1 THEN Len(sorted) ELSE Limit + 1)
  IN  toPage(query, IF cursor = None THEN 1 ELSE cursor.page, rows)

TooDeep(cursor) == cursor # None /\ cursor.page > MaxDepth

\* A startup is edited, renamed, withdrawn or published.  What has been the same since a
\* page was read shrinks by it.
Change(s) ==
  /\ changes < MaxChanges
  /\ changes' = changes + 1
  /\ \E r \in {[rec[s] EXCEPT !.raised = 1 - @], [rec[s] EXCEPT !.public = ~@],
               [rec[s] EXCEPT !.renamed = TRUE]} :
       r # rec[s] /\ rec' = [rec EXCEPT ![s] = r]
  /\ initial' = [initial EXCEPT !.same = @ \ {s}]
  /\ grid' = [grid EXCEPT !.same = @ \ {s}]
  /\ live' = {[r EXCEPT !.same = @ \ {s}] : r \in live}
  /\ UNCHANGED <<askVars, moves>>

(***************************************************************************)
(* The grid: what it holds, and its requests.                              *)
(***************************************************************************)
fromPage(query, page, same) ==
  [query |-> query, cards |-> page.cards, nextCursor |-> page.cursor,
   hasMore |-> page.cursor # None, depthLimited |-> FALSE, status |-> "ready", same |-> same]

\* What is shown already is not shown again.
appendUnique(shown, page) ==
  shown \o EntriesAt(page, {k \in DOMAIN page : \A i \in DOMAIN shown : shown[i] # page[k]})

\* fetchPage aborts the request before it: what is aborted never answers.
fetchPage(query, cursor) ==
  {[query |-> query, cursor |-> cursor, state |-> "sent", page |-> initial.page, same |-> {}]}

\* What a grid does when it needs the cards of a query.
load(query) ==
  IF query = Default
  THEN /\ grid' = fromPage(query, initial.page, initial.same)
       /\ live' = {}
  ELSE /\ grid' = [grid EXCEPT !.query = query, !.cards = <<>>, !.status = "loading",
                               !.depthLimited = FALSE, !.same = {}]
       /\ live' = fetchPage(query, None)

LoadMoreOffered ==
  /\ grid.cards # <<>> /\ ~grid.depthLimited
  /\ (grid.status = "ready" /\ grid.hasMore) \/ grid.status = "error-more"

loadMore ==
  /\ LoadMoreOffered /\ sheet = None /\ grid.nextCursor # None
  /\ grid' = [grid EXCEPT !.status = "loading-more"]
  /\ live' = fetchPage(url, grid.nextCursor)
  /\ UNCHANGED <<serverVars, askVars, initial, moves>>

TryAgain ==
  /\ grid.status = "error" /\ sheet = None
  /\ load(url)
  /\ UNCHANGED <<serverVars, askVars, initial, moves>>

\* The server answers a request from what is in the database now.
Serve(r) ==
  /\ r.state = "sent"
  /\ live' = (live \ {r}) \cup
       {IF TooDeep(r.cursor) THEN [r EXCEPT !.state = "deep"]
        ELSE [r EXCEPT !.state = "page", !.page = list(r.query, r.cursor), !.same = Startups]}
  /\ UNCHANGED <<serverVars, askVars, initial, grid, moves>>

\* No answer comes, or one that is an error.
Fail(r) ==
  /\ r.state = "sent"
  /\ live' = (live \ {r}) \cup {[r EXCEPT !.state = "failed"]}
  /\ UNCHANGED <<serverVars, askVars, initial, grid, moves>>

\* A bug: a first page that does not come leaves the grid loading.
AnsweredStillLoading(r) ==
  IF r.cursor = None
  THEN IF r.state = "page" THEN fromPage(r.query, r.page, r.same) ELSE grid
  ELSE CASE r.state = "page" ->
              [grid EXCEPT !.cards = appendUnique(grid.cards, r.page.cards),
                           !.nextCursor = r.page.cursor,
                           !.hasMore = r.page.cursor # None, !.status = "ready"]
         [] r.state = "deep" ->
              [grid EXCEPT !.hasMore = FALSE, !.depthLimited = TRUE, !.status = "ready"]
         [] OTHER -> [grid EXCEPT !.status = "error-more"]

\* What an answer makes of the grid: the first page, one more, or the reason why not.
Answered(r) ==
  IF r.cursor = None
  THEN IF r.state = "page" THEN fromPage(r.query, r.page, r.same)
       ELSE [grid EXCEPT !.status = "error"]
  ELSE CASE r.state = "page" ->
              [grid EXCEPT !.cards = appendUnique(grid.cards, r.page.cards),
                           !.nextCursor = r.page.cursor,
                           !.hasMore = r.page.cursor # None, !.status = "ready"]
         [] r.state = "deep" ->
              [grid EXCEPT !.hasMore = FALSE, !.depthLimited = TRUE, !.status = "ready"]
         [] OTHER -> [grid EXCEPT !.status = "error-more"]

Receive(r) ==
  /\ r.state # "sent"
  /\ live' = live \ {r}
  /\ grid' = IF grid.query = r.query THEN Answered(r) ELSE grid
  /\ UNCHANGED <<serverVars, askVars, initial, moves>>

(***************************************************************************)
(* The visitor: the box, the filters, the sort, and the browser's history. *)
(***************************************************************************)
Move == moves < MaxMoves /\ moves' = moves + 1

\* A later navigation takes the place of one that has not arrived.
navigate(query) == nav' = query

\* The choice was made on a query that a navigation under way will replace.
Crossing == nav # None

\* The box waits for a pause unless its text is what the URL has, or is a single letter.
Awaits(t, query) == IF t = query.q \/ t = "a" THEN None ELSE t

Type(t) ==
  /\ Move /\ sheet = None /\ t # text
  /\ text' = t
  /\ timer' = Awaits(t, url)
  /\ wanted' = [wanted EXCEPT !.q = IF t = "a" THEN (IF nav = None THEN url ELSE nav).q ELSE t]
  /\ crossed' = (crossed \/ Crossing)
  /\ UNCHANGED <<serverVars, url, nav, sheet, initial, grid, live>>

\* A bug: the box forgets the rest of the query.
PauseDropsFilters ==
  /\ timer # None
  /\ navigate([Default EXCEPT !.q = timer])
  /\ timer' = None
  /\ crossed' = (crossed \/ Crossing)
  /\ UNCHANGED <<serverVars, url, text, sheet, initial, grid, live, moves, wanted>>

\* The pause is over: the box asks for the newest URL with its text.
Pause ==
  /\ timer # None
  /\ navigate([url EXCEPT !.q = timer])
  /\ timer' = None
  /\ crossed' = (crossed \/ Crossing)
  /\ UNCHANGED <<serverVars, url, text, sheet, initial, grid, live, moves, wanted>>

\* Enter in the box.  The pause it may be waiting for still ends.
Submit ==
  /\ Move /\ sheet = None
  /\ navigate([url EXCEPT !.q = Searched(text)])
  /\ wanted' = [wanted EXCEPT !.q = Searched(text)]
  /\ crossed' = (crossed \/ Crossing)
  /\ UNCHANGED <<serverVars, url, text, timer, sheet, initial, grid, live>>

ChooseSort(sort) ==
  /\ Move /\ sheet = None /\ sort # url.sort
  /\ navigate([url EXCEPT !.sort = sort])
  /\ wanted' = [wanted EXCEPT !.sort = sort]
  /\ crossed' = (crossed \/ Crossing)
  /\ UNCHANGED <<serverVars, url, text, timer, sheet, initial, grid, live>>

\* A filter's chip is removed.
RemoveChip ==
  /\ Move /\ sheet = None /\ url.stage
  /\ navigate([url EXCEPT !.stage = FALSE])
  /\ wanted' = [wanted EXCEPT !.stage = FALSE]
  /\ crossed' = (crossed \/ Crossing)
  /\ UNCHANGED <<serverVars, url, text, timer, sheet, initial, grid, live>>

\* The sheet keeps a draft of the whole query, as it was when the sheet was opened.
OpenFilters ==
  /\ sheet = None /\ moves < MaxMoves
  /\ sheet' = url
  /\ UNCHANGED <<serverVars, url, nav, text, timer, initial, grid, live, moves, wanted, crossed>>

\* "Show results" after the stage was ticked or unticked.
Apply ==
  /\ Move /\ sheet # None
  /\ navigate([sheet EXCEPT !.stage = ~@])
  /\ sheet' = None
  /\ wanted' = [wanted EXCEPT !.stage = ~sheet.stage]
  /\ crossed' = (crossed \/ Crossing \/ sheet # url)
  /\ UNCHANGED <<serverVars, url, text, timer, initial, grid, live>>

CloseFilters ==
  /\ sheet # None
  /\ sheet' = None
  /\ UNCHANGED <<serverVars, url, nav, text, timer, initial, grid, live, moves, wanted, crossed>>

\* The URL changes: the box follows its text, and the grid its query.
FollowUrl(query) ==
  /\ url' = query
  /\ IF query.q # url.q /\ query.q # text
     THEN text' = query.q /\ timer' = None
     ELSE UNCHANGED <<text, timer>>
  /\ IF query # grid.query THEN load(query) ELSE UNCHANGED <<grid, live>>

Arrive ==
  /\ nav # None
  /\ FollowUrl(nav)
  /\ nav' = None
  /\ crossed' = (crossed \/ (nav.q # url.q /\ nav.q # text))
  /\ UNCHANGED <<serverVars, sheet, initial, moves, wanted>>

\* Back, forward or a link; a navigation under way is given up.
Travel(query) ==
  /\ Move /\ query # url
  /\ FollowUrl(query)
  /\ nav' = None
  /\ wanted' = query
  /\ crossed' = (crossed \/ Crossing \/ (timer # None /\ text' = text))
  /\ UNCHANGED <<serverVars, sheet, initial>>

(***************************************************************************)
(* The specification.                                                      *)
(***************************************************************************)
Init ==
  /\ rec = [s \in Startups |-> [raised |-> Raised[s], renamed |-> FALSE, public |-> TRUE]]
  /\ url \in Queries
  /\ nav = None /\ timer = None /\ sheet = None
  /\ text = url.q /\ wanted = url /\ crossed = FALSE
  /\ initial = [page |-> list(Default, None), same |-> Startups]
  /\ IF url = Default
     THEN grid = fromPage(url, initial.page, Startups) /\ live = {}
     ELSE /\ grid = [fromPage(url, initial.page, {}) EXCEPT !.cards = <<>>, !.status = "loading"]
          /\ live = {[query |-> url, cursor |-> None, state |-> "sent",
                      page |-> initial.page, same |-> {}]}
  /\ moves = 0 /\ changes = 0

Visitor ==
  \/ \E t \in Texts : Type(t)
  \/ Submit \/ RemoveChip \/ Apply \/ OpenFilters \/ CloseFilters
  \/ \E sort \in Sorts : ChooseSort(sort)
  \/ \E query \in Queries : Travel(query)
  \/ loadMore \/ TryAgain

Page ==
  \/ Pause \/ Arrive
  \/ \E r \in live : Serve(r) \/ Fail(r) \/ Receive(r)

Next == Visitor \/ Page \/ \E s \in Startups : Change(s)

\* The browser's timers end, navigations arrive, and requests are answered or fail.
Fairness == WF_vars(Page)

Spec == Init /\ [][Next]_vars /\ Fairness

-----------------------------------------------------------------------------
(***************************************************************************)
(* Properties.                                                             *)
(***************************************************************************)
Cards == [id : Startups, renamed : BOOLEAN]

\* The variables have their types.
TypeOK ==
  /\ rec \in [Startups -> [raised : {0, 1}, renamed : BOOLEAN, public : BOOLEAN]]
  /\ url \in Queries /\ nav \in Queries \cup {None} /\ sheet \in Queries \cup {None}
  /\ text \in Texts /\ timer \in Texts \cup {None} /\ wanted \in Queries
  /\ grid.query = url /\ grid.cards \in Seq(Cards)
  /\ grid.status \in {"ready", "loading", "loading-more", "error", "error-more"}
  /\ Cardinality(live) <= 1 /\ crossed \in BOOLEAN

Shown == {grid.cards[i].id : i \in DOMAIN grid.cards}

\* However the visitor pages, retries, leaves a query and comes back to it while the list
\* changes: a startup that matches and has not changed since the first page was read is
\* among the cards, or still to come after the cursor.  Paging by signed keyset cursors
\* (src/server/lib/keyset.ts) is there for this.
NothingSkipped ==
  grid.status \in {"ready", "loading-more", "error-more"} =>
    \A s \in grid.same :
      filterConditions(grid.query, s) =>
        \/ s \in Shown
        \/ grid.nextCursor # None /\ after(grid.nextCursor, s)

\* A startup is shown once, though its place in the list may have moved behind the cursor
\* since; twice only when it was renamed in between, as cards are told apart by slug.
ShownOnce ==
  \A i, j \in DOMAIN grid.cards :
    i # j /\ grid.cards[i].id = grid.cards[j].id => grid.cards[i].renamed # grid.cards[j].renamed

Quiet == nav = None /\ timer = None /\ sheet = None

\* When the page has come to rest its URL has everything the visitor asked for, the search
\* and every filter, and the box agrees, unless a choice crossed a navigation: was made
\* while one was under way, or in a sheet opened before it.  Those crossings do lose
\* choices: a typed word, or a filter.
OnlyCrossingsLoseChoices ==
  Quiet /\ ~crossed => url = wanted /\ Searched(text) \in {url.q, ""}

\* The grid says it is loading.
Loading == grid.status \in {"loading", "loading-more"}
=============================================================================
