----------------------------- MODULE PublicTab -----------------------------
(***************************************************************************)
(* A visitor's tab on the public site has one of four things open: the     *)
(* explore grid (ExploreGrid), the search palette and page (SearchPages),  *)
(* the landing's two views (LandingView), or the landing's canvas          *)
(* (CardAtlas).  They share no state: leaving one for another starts anew, *)
(* and is left out.                                                        *)
(***************************************************************************)
CONSTANTS
  Items, Added, Raised, Named, Seed, Limit, MaxDepth,
  Text, Short, Fold, Suggestions, Slug, Tab, CacheSize, MaxRecent,
  CardCount, Slots,
  MaxGridMoves, MaxChanges, MaxSearchMoves, MaxGestures, MaxRenderers, MaxInputs,   \* bounds
  Nothing

VARIABLES
  open,      \* which of them is open
  rec, url, nav, text, timer, sheet, initial, grid, requests, moves, changes, wanted, crossed,
  place, going, recent, box, asking, kept, results, sent, steps, sought, missed, meant,
  view, saved, run, armed, reduced, code, asks, made, renderers, ready, ref, context, surface,
  available, gestures, flickered, disposed, pressed,
  width, theme, camera, atlas, loading, raf, speed, tween, press, eased, opened, inputs, allowed

Grid == INSTANCE ExploreGrid WITH
  Startups <- Items, MaxMoves <- MaxGridMoves, None <- Nothing, live <- requests
Palette == INSTANCE SearchPages WITH
  Hits <- Suggestions, MaxMoves <- MaxSearchMoves, None <- Nothing, url <- place, nav <- going,
  view <- results, moves <- steps, wanted <- sought, crossed <- missed, cache <- kept
Views == INSTANCE LandingView WITH
  None <- Nothing, live <- renderers, on <- armed, mode <- surface
Canvas == INSTANCE CardAtlas WITH Count <- CardCount, None <- Nothing

ASSUME TabAssumption ==
  /\ Grid!GridAssumption /\ Palette!SearchAssumption
  /\ Views!ViewAssumption /\ Canvas!AtlasAssumption

gridVars ==
  <<rec, url, nav, text, timer, sheet, initial, grid, requests, moves, changes, wanted, crossed>>
searchVars ==
  <<place, going, recent, box, asking, kept, results, sent, steps, sought, missed, meant>>
viewVars ==
  <<view, saved, run, armed, reduced, code, asks, made, renderers, ready, ref, context, surface,
    available, gestures, flickered, disposed, pressed>>
canvasVars ==
  <<width, theme, camera, atlas, loading, raf, speed, tween, press, eased, opened, inputs, allowed>>
tabVars == <<open, gridVars, searchVars, viewVars, canvasVars>>

In(what) == open = what /\ UNCHANGED open

TabInit ==
  /\ open \in {"explore", "search", "views", "canvas"}
  /\ Grid!Init /\ Palette!Init /\ Views!Init /\ Canvas!Init

TabNext ==
  \/ In("explore") /\ Grid!Next /\ UNCHANGED <<searchVars, viewVars, canvasVars>>
  \/ In("search") /\ Palette!Next /\ UNCHANGED <<gridVars, viewVars, canvasVars>>
  \/ In("views") /\ Views!Next /\ UNCHANGED <<gridVars, searchVars, canvasVars>>
  \/ In("canvas") /\ Canvas!Next /\ UNCHANGED <<gridVars, searchVars, viewVars>>

\* The browser goes on with whatever is open, on its own.
Browser ==
  \/ In("explore") /\ Grid!Page /\ UNCHANGED <<searchVars, viewVars, canvasVars>>
  \/ In("search") /\ Palette!Browser /\ UNCHANGED <<gridVars, viewVars, canvasVars>>
  \/ In("views") /\ Views!Browser /\ UNCHANGED <<gridVars, searchVars, canvasVars>>
  \/ In("canvas") /\ Canvas!Browser /\ UNCHANGED <<gridVars, searchVars, viewVars>>

TabSpec == TabInit /\ [][TabNext]_tabVars /\ WF_tabVars(Browser)

-----------------------------------------------------------------------------
(* Properties. *)

\* Paging through a changing list skips nothing that stayed the same, and repeats nothing.
ListsWhole == Grid!NothingSkipped /\ Grid!ShownOnce

\* The grid and the search page end where the visitor asked to be, unless a wish was made on a
\* URL that was about to be replaced: those are lost.
OnlyCrossingsLoseWishes ==
  Grid!OnlyCrossingsLoseChoices /\ Palette!OnlyCrossingsLoseSearches

\* Enter in the palette opens what was pointed at, and a press on the canvas the card it was on or
\* near.
OpensWhatWasMeant == Palette!OpensWhatWasMeant /\ Canvas!OpensTheCardPressed

\* The landing's list is hidden only behind a canvas that draws, one renderer runs at most, and
\* the way back to the list stays; exceptions are motion allowed again while the code comes, and
\* a press on the view one has.
CanvasInOrder == Views!CanvasDraws /\ Views!OneRenderer /\ Views!ListInReach

\* The canvas shows every cell's own card, in today's theme, with its images: at rest, and in every
\* frame as long as the cards in view have a slot each.
ShowsItsCards == Canvas!ShowsItsCards

\* Left alone, nothing waits for ever: loading ends in the grid, in the palette and on the search
\* page, the landing's canvas comes, and what moves there comes to rest, unless more cards are in
\* view than there are slots.
EverythingSettles ==
  []<>( /\ ~Grid!Loading /\ ~Palette!Waiting /\ ~Views!Awaited
        /\ (open = "canvas" => ~raf \/ ~Canvas!Fits))
=============================================================================
