---------------------------- MODULE SearchPages ----------------------------
(***************************************************************************)
(* Search in the browser: the palette that suggests pages while a visitor  *)
(* types (components/search/SearchPalette.tsx, SearchLauncher.tsx) and the *)
(* search page (SearchView.tsx), with what they share in lib/search.ts.    *)
(*                                                                         *)
(* Each has one request under way at most, for the text it is about: when  *)
(* that text changes the request is aborted.  The palette outlives         *)
(* navigations, the search page does not.                                  *)
(***************************************************************************)
EXTENDS Listings

CONSTANTS
  Text,        \* what visitors type, normalised; "" is nothing
  Short,       \* texts too short to be searched for
  Fold,        \* [Text -> Text]: lower case
  Hits,        \* [Text -> Seq(Slug)]: the pages suggested for a text
  Slug,
  Tab,         \* tabs of the search page, "all" among them
  CacheSize,   \* texts whose suggestions are kept (30 in the code)
  MaxRecent,   \* searches remembered (5 in the code)
  MaxMoves,    \* bound: what the visitor does
  None

\* Where a visitor may be: the search page with its query, or the page of a slug.
Search(q, type) == [q |-> q, type |-> type]
PageOf(s) == [q |-> s, type |-> "page"]
Searches == [q : Text, type : Tab]
Places == Searches \cup {PageOf(s) : s \in Slug}

\* Suggestions do not depend on case; nothing is suggested for nothing.
SearchAssumption ==
  /\ "" \in Short /\ Short \subseteq Text /\ "all" \in Tab
  /\ Fold \in [Text -> Text] /\ Hits \in [Text -> Seq(Slug)] /\ Hits[""] = <<>>
  /\ \A t \in Text : Hits[Fold[t]] = Hits[t] /\ (Fold[t] = "" <=> t = "")
  /\ {CacheSize, MaxRecent, MaxMoves} \subseteq Nat \ {0} /\ None \notin Places

VARIABLES
  url,      \* where the visitor is
  nav,      \* where a navigation under way leads
  recent,   \* remembered searches, the newest first
  box,      \* the palette: [open, text, active, q, status, of], of: whose suggestions it has
  asking,   \* the palette's request: "none", "pausing" or "sent"
  cache,    \* texts whose suggestions it keeps, the oldest first
  view,     \* the search page: [text, q, status]
  sent,     \* the texts of its requests that may still be answered
  moves,    \* for the bound
  wanted,   \* history: the place the visitor has asked for
  crossed,  \* history: it was asked for on a URL that was about to be replaced
  meant     \* history: what Enter may open: what the visitor pointed at, {} when nothing

palette == <<box, asking, cache>>
page == <<view, sent>>
history == <<wanted, crossed, meant>>
vars == <<url, nav, recent, palette, page, moves, history>>

Long(q) == q \notin Short
OnSearch == url.type # "page"

TypeOK ==
  /\ url \in Places /\ nav \in Places \cup {None} /\ wanted \in Places
  /\ recent \in Seq(Text)
  /\ box \in [open : BOOLEAN, text : Text, active : Nat, q : Text,
              status : {"loading", "ready", "error"}, of : Text]
  /\ asking \in {"none", "pausing", "sent"} /\ cache \in Seq(Text)
  /\ view \in [text : Text, q : Text, status : {"loading", "ready", "error"}]
  /\ sent \subseteq Text /\ moves \in 0 .. MaxMoves
  /\ crossed \in BOOLEAN /\ meant \subseteq Places

Move == moves < MaxMoves /\ moves' = moves + 1

-----------------------------------------------------------------------------
(* Recent searches, kept by the browser. *)

rememberSearch(q) ==
  IF Long(q)
  THEN LET others == EntriesAt(recent, {i \in DOMAIN recent : Fold[recent[i]] # Fold[q]})
           all == <<q>> \o others
       IN  SubSeq(all, 1, IF Len(all) < MaxRecent THEN Len(all) ELSE MaxRecent)
  ELSE recent

-----------------------------------------------------------------------------
(* The palette. *)

\* What the list offers: recent searches, or suggestions and then the search itself.
Options ==
  IF box.text = ""
  THEN [i \in DOMAIN recent |-> Search(recent[i], "all")]
  ELSE [i \in DOMAIN Hits[box.of] |-> PageOf(Hits[box.of][i])]
         \o (IF Long(box.text) THEN <<Search(box.text, "all")>> ELSE <<>>)

Cached(q) == \E i \in DOMAIN cache : cache[i] = Fold[q]

Keep(q) ==
  LET more == IF Cached(q) THEN cache ELSE Append(cache, Fold[q])
  IN  IF Len(more) > CacheSize THEN Tail(more) ELSE more

\* A bug: the highlight stays where it was while the list under it becomes another.
SetTextKeepsActive(q) ==
  /\ box' = [open |-> TRUE, text |-> q, active |-> box.active, q |-> q,
             status |-> IF q = "" \/ Cached(q) THEN "ready" ELSE "loading",
             of |-> IF Cached(q) THEN q ELSE box.of]
  /\ asking' = IF q = "" \/ Cached(q) THEN "none" ELSE "pausing"
  /\ UNCHANGED cache

\* The text is now q: the request for another is aborted, and until there are suggestions for
\* this one those of the last text stay.
SetText(q) ==
  /\ IF q = box.text \/ q = "" THEN box' = [box EXCEPT !.open = TRUE, !.text = q, !.active = 0]
     ELSE box' = [open |-> TRUE, text |-> q, active |-> 0, q |-> q,
                  status |-> IF Cached(q) THEN "ready" ELSE "loading",
                  of |-> IF Cached(q) THEN q ELSE box.of]
  /\ asking' = IF q = box.text THEN asking
               ELSE IF q = "" \/ Cached(q) THEN "none" ELSE "pausing"
  /\ UNCHANGED cache

\* A click on the pill, or its shortcut.
Open ==
  /\ Move /\ ~box.open
  /\ SetText("")
  /\ meant' = {}
  /\ UNCHANGED <<url, nav, recent, page, wanted, crossed>>

\* Escape, or a click beside it; what it asked for goes on.
Close ==
  /\ box.open
  /\ box' = [box EXCEPT !.open = FALSE]
  /\ UNCHANGED <<url, nav, recent, asking, cache, page, moves, history>>

Type(q) ==
  /\ Move /\ box.open /\ q # box.text
  /\ SetText(q)
  /\ meant' = {}
  /\ UNCHANGED <<url, nav, recent, page, wanted, crossed>>

\* An arrow key, or the pointer over an option.
PointAt(i) ==
  /\ Move /\ box.open /\ i \in DOMAIN Options
  /\ box' = [box EXCEPT !.active = i]
  /\ meant' = {Options[i]}
  /\ UNCHANGED <<url, nav, recent, asking, cache, page, wanted, crossed>>

Pause ==
  /\ asking = "pausing" /\ asking' = "sent"
  /\ UNCHANGED <<url, nav, recent, box, cache, page, moves, history>>

\* The suggestions come, or an error.  Where the highlight is there may be another option now.
Suggested ==
  /\ asking = "sent" /\ asking' = "none"
  /\ \/ /\ box' = [box EXCEPT !.q = box.text, !.status = "ready", !.of = box.text]
        /\ cache' = Keep(box.text)
     \/ /\ box' = [box EXCEPT !.q = box.text, !.status = "error", !.of = ""]
        /\ UNCHANGED cache
  /\ meant' = IF meant = {} THEN {} ELSE Places
  /\ UNCHANGED <<url, nav, recent, page, moves, wanted, crossed>>

\* The router is asked for a place that depends on nothing shown.
Visit(place) ==
  /\ nav' = place /\ wanted' = place /\ crossed' = FALSE

\* The option is opened; a search is remembered.
Choose(option) ==
  /\ box' = [box EXCEPT !.open = FALSE]
  /\ recent' = IF option.type = "page" THEN recent ELSE rememberSearch(option.q)
  /\ Visit(option)
  /\ UNCHANGED <<url, asking, cache, page, meant>>

\* Enter opens the highlighted option, or searches for the text.
Enter ==
  /\ Move /\ box.open
  /\ IF box.active \in DOMAIN Options THEN Choose(Options[box.active])
     ELSE Long(box.text) /\ Choose(Search(box.text, "all"))

Click(i) ==
  /\ Move /\ box.open /\ i \in DOMAIN Options
  /\ Choose(Options[i])

-----------------------------------------------------------------------------
(* The search page. *)

\* The request for another text is aborted.
Abandon(texts) == {}

\* The page is about q: nothing is asked for a text that is too short.
Ask(q) ==
  /\ sent' = Abandon(sent) \cup (IF Long(q) THEN {q} ELSE {})
  /\ view' = [text |-> q, q |-> IF Long(q) THEN q ELSE view.q,
              status |-> IF Long(q) THEN "loading" ELSE view.status]

\* The router arrives.  The form is made anew when the query's text is another one, and with it
\* goes what was typed; a page opened anew has no results.
Arrive ==
  /\ nav # None
  /\ url' = nav /\ nav' = None
  /\ IF nav.type = "page"
     THEN sent' = {} /\ UNCHANGED view
     ELSE IF OnSearch /\ nav.q = url.q THEN UNCHANGED page ELSE Ask(nav.q)
  /\ UNCHANGED <<recent, palette, moves, history>>

Results(q) ==
  /\ q \in sent /\ sent' = sent \ {q}
  /\ \E status \in {"ready", "error"} : view' = [view EXCEPT !.q = q, !.status = status]
  /\ UNCHANGED <<url, nav, recent, palette, moves, history>>

Status == IF view.q = url.q THEN view.status ELSE "loading"

TryAgain ==
  /\ Move /\ ~box.open /\ OnSearch /\ Long(url.q) /\ Status = "error"
  /\ sent' = {url.q} /\ view' = [view EXCEPT !.status = "loading"]
  /\ UNCHANGED <<url, nav, recent, palette, history>>

TypeQuery(t) ==
  /\ Move /\ ~box.open /\ OnSearch /\ t # view.text
  /\ view' = [view EXCEPT !.text = t]
  /\ UNCHANGED <<url, nav, recent, palette, sent, history>>

\* The form and the tabs ask for a place made from the URL, whatever is on its way.
searchHref(q, type) ==
  /\ nav' = Search(q, type)
  /\ crossed' = (crossed \/ nav # None)

Submit ==
  /\ Move /\ ~box.open /\ OnSearch
  /\ recent' = rememberSearch(view.text)
  /\ searchHref(view.text, url.type)
  /\ wanted' = Search(view.text, IF wanted \in Searches THEN wanted.type ELSE url.type)
  /\ UNCHANGED <<url, palette, page, meant>>

\* A tab, or "See all" of a group.
ChooseTab(tab) ==
  /\ Move /\ ~box.open /\ OnSearch /\ Long(url.q) /\ tab # url.type
  /\ searchHref(url.q, tab)
  /\ wanted' = Search(IF wanted \in Searches THEN wanted.q ELSE url.q, tab)
  /\ UNCHANGED <<url, recent, palette, page, meant>>

\* The page without a search lists the remembered ones.
Idle == ~box.open /\ OnSearch /\ ~Long(url.q)
ChooseRecent(i) ==
  /\ Move /\ Idle /\ i \in DOMAIN recent
  /\ Visit(Search(recent[i], "all"))
  /\ UNCHANGED <<url, recent, palette, page, meant>>
ClearRecent ==
  /\ Move /\ Idle /\ recent # <<>>
  /\ recent' = <<>>
  /\ UNCHANGED <<url, nav, palette, page, history>>

\* Back, forward, or a link to the page of a result.
Travel(place) ==
  /\ Move /\ ~box.open /\ place # url
  /\ Visit(place)
  /\ UNCHANGED <<url, recent, palette, page, meant>>

-----------------------------------------------------------------------------
Init ==
  /\ url \in {Search("", "all")} \cup {PageOf(s) : s \in Slug}
  /\ nav = None /\ recent = <<>>
  /\ box = [open |-> FALSE, text |-> "", active |-> 0, q |-> "", status |-> "ready", of |-> ""]
  /\ asking = "none" /\ cache = <<>>
  /\ view = [text |-> "", q |-> "", status |-> "loading"] /\ sent = {}
  /\ moves = 0
  /\ wanted = url /\ crossed = FALSE /\ meant = {}

Browser == Pause \/ Suggested \/ Arrive \/ \E q \in sent : Results(q)

Next ==
  \/ Browser
  \/ Open \/ Close \/ Enter \/ Submit \/ TryAgain \/ ClearRecent
  \/ \E q \in Text : Type(q) \/ TypeQuery(q)
  \/ \E i \in 1 .. 3 : PointAt(i) \/ Click(i) \/ ChooseRecent(i)
  \/ \E tab \in Tab : ChooseTab(tab)
  \/ \E place \in Places : Travel(place)

\* Timers end, navigations arrive, and requests are answered or fail.
Fairness == WF_vars(Browser)

Spec == Init /\ [][Next]_vars /\ Fairness

-----------------------------------------------------------------------------
(* Properties. *)

\* Enter opens the option the visitor pointed at, or searches for the text when they typed since;
\* only suggestions that came after they pointed may have put another option there.
OpensWhatWasMeant ==
  [][Enter => nav' \in IF meant = {} THEN {Search(box.text, "all")} ELSE meant]_vars

\* With no navigation under way the visitor is where they asked to be, in the text and in the
\* tab, unless they asked on a page that was about to be replaced: a tab clicked while a search
\* is on its way undoes it.
OnlyCrossingsLoseSearches == nav = None /\ ~crossed => url = wanted

\* The palette or the page says it is loading.
Waiting ==
  \/ box.text # "" /\ box.status = "loading"
  \/ OnSearch /\ Long(url.q) /\ Status = "loading"
=============================================================================
