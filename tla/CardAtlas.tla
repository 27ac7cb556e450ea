----------------------------- MODULE CardAtlas -----------------------------
(***************************************************************************)
(* What the landing's canvas draws, and what a visitor does to it          *)
(* (components/landing/grid-renderer.ts, with the geometry of grid-math.ts *)
(* and the drawing of card-raster.ts).                                     *)
(*                                                                         *)
(* The cards repeat endlessly over the plane; here the plane is a row of   *)
(* cells, and the view begins at a border or in the middle of one, where   *)
(* one cell more is in view.  Cards are painted into slots of a texture    *)
(* when they come into view, first without their images and again when     *)
(* those have come; a slot is taken from the card that was on screen the   *)
(* longest time ago.  A frame is drawn when something asked for one, and   *)
(* asks for the next while something moves or when it has painted a card.  *)
(* So a view of more cards than the texture has slots is drawn for ever.   *)
(***************************************************************************)
EXTENDS Integers, FiniteSets

CONSTANTS
  Count,      \* cards, and the cells of the repeating tile
  Slots,      \* slots of the texture
  MaxInputs,  \* bound: what the visitor and the page do
  None

\* The texture is made for a quarter more cells than are in view when the canvas gets its size, and
\* for fewer where slots would get narrower than 96 pixels; moving may bring more into view.
AtlasAssumption ==
  Count \in Nat \ {0} /\ Slots \in Nat \ {0} /\ MaxInputs \in Nat /\ None \notin Int

VARIABLES
  width,     \* of the view, in halves of a cell
  theme,     \* the colours and fonts drawings are made with
  camera,    \* where the view begins, in halves of a cell, modulo the tile
  atlas,     \* the texture: which it is; each slot's card, last frame, and what it shows
  loading,   \* images on their way: <<card, slot, which texture>>
  raf,       \* whether a frame was asked for
  speed,     \* how fast the grid coasts, and in which direction
  tween,     \* where it glides to
  press,     \* the pointer that is held: [at, moved, long], or None; others are ignored then
  eased,     \* whether the curve and the highlight have come to what they should be
  opened,    \* the card the last press has opened
  inputs,    \* for the bound
  allowed    \* history: the cards a release may open

motion == <<camera, speed, tween>>
picture == <<atlas, loading>>
user == <<press, opened, allowed>>
atlasVars == <<width, theme, raf, eased, inputs, motion, picture, user>>

Widths == {1, 3}
Cards == 0 .. Count - 1

Input == inputs < MaxInputs /\ inputs' = inputs + 1
invalidate == raf' = TRUE
\* The grid moves under a pointer that may be held.
Unsettle == allowed' = IF allowed = {} THEN {} ELSE Cards

\* The card a cell shows: short rows repeat from the start.
cardIndexAt(cell) == cell % Count

\* The cells that a view overlaps, and their cards.
first(at) == at \div 2
last(at) == (at + width) \div 2
visibleCells == {cardIndexAt(cell) : cell \in first(camera) .. last(camera)}

\* Whether they have a slot each.
Fits == Cardinality(visibleCells) <= Slots

\* What lies at a point of the view, and near it: a press may be released a few pixels away, and the
\* curve of the view may have eased since.
cardAt(point) == cardIndexAt((camera + point) \div 2)
CardsNear(point) == {cardAt(point + d) : d \in -1 .. 1}

-----------------------------------------------------------------------------
(* The texture. *)

\* What a slot looks like: a card in a theme's colours, with or without its images.
rasterCard(card, colours, images) == [card |-> card, theme |-> colours, images |-> images]
Empty(n) ==
  [made |-> n, owner |-> [s \in 1 .. Slots |-> None], lastSeen |-> [s \in 1 .. Slots |-> 0],
   paint |-> [s \in 1 .. Slots |-> rasterCard(None, 0, FALSE)]]

\* No card has a slot; what is painted there is painted over before it is shown.
reset(a) == Empty(a.made)

SlotOf(a, card) == {s \in 1 .. Slots : a.owner[s] = card}

\* Frames are numbered anew after each one: only which was before which matters, and that the one
\* being drawn is after all others.
Now == Slots + 1
Renumbered(a) ==
  [a EXCEPT !.lastSeen = [s \in 1 .. Slots |->
     Cardinality({t \in 1 .. Slots : a.lastSeen[t] < a.lastSeen[s]})]]

\* The slot shown the longest time ago, the first of them if there are more.
Oldest(a) ==
  CHOOSE s \in 1 .. Slots : \A t \in 1 .. Slots :
    a.lastSeen[s] < a.lastSeen[t] \/ (a.lastSeen[s] = a.lastSeen[t] /\ s <= t)

\* The slot of a card; a fresh one is painted at once without its images, which are asked for.
\* A card in view may lose its slot to one that is looked at before it in the same frame; and when
\* this frame has shown all slots, the first one is taken from its card though that is still shown.
acquire(f, card) ==
  IF SlotOf(f.atlas, card) # {}
  THEN [f EXCEPT !.atlas.lastSeen = [s \in 1 .. Slots |->
          IF s \in SlotOf(f.atlas, card) THEN Now ELSE @[s]]]
  ELSE LET s == Oldest(f.atlas) IN
       [atlas |-> [f.atlas EXCEPT !.owner[s] = card, !.lastSeen[s] = Now,
                                  !.paint[s] = rasterCard(card, theme, FALSE)],
        loading |-> f.loading \cup {<<card, s, f.atlas.made>>}, fresh |-> TRUE]

\* A bug: the slot is painted whoever has it now.
holdsAnyway(a, load) == load[3] = a.made

\* draw: an image that comes is painted only where its card still is, in today's theme.
holds(a, load) == load[3] = a.made /\ a.owner[load[2]] = load[1]

ImagesCome(load) ==
  /\ load \in loading
  /\ loading' = loading \ {load}
  /\ IF holds(atlas, load)
     THEN /\ atlas' = [atlas EXCEPT !.paint[load[2]] =
                         rasterCard(load[1], theme, TRUE)]
          /\ invalidate
     ELSE UNCHANGED <<atlas, raf>>
  /\ UNCHANGED <<width, theme, eased, inputs, motion, user>>

\* Colours change, or the fonts have come: every card is painted anew.
retheme ==
  /\ Input
  /\ theme' = 1 - theme
  /\ atlas' = reset(atlas) /\ invalidate
  /\ UNCHANGED <<width, loading, eased, motion, user>>

\* The canvas has another size; slots of another size are those of another texture.
resize ==
  /\ Input
  /\ width' \in Widths
  /\ \/ atlas' = Empty(1 - atlas.made) /\ loading' = {l \in loading : l[3] = atlas.made}
     \/ atlas' = reset(atlas) /\ UNCHANGED loading
  /\ invalidate
  /\ Unsettle
  /\ UNCHANGED <<theme, eased, motion, press, opened>>

-----------------------------------------------------------------------------
(* A frame. *)

Moved(by) == (camera + by) % (2 * Count)
Toward(to) == IF (to - camera) % (2 * Count) <= Count THEN 1 ELSE -1
Slower(v) == IF v > 0 THEN v - 1 ELSE v + 1

Arrived(to) == camera' = to

\* A glide takes several frames and ends at its card; coasting slows down frame by frame.
Advance ==
  IF tween # None
  THEN /\ \/ camera' = tween
          \/ camera # tween /\ camera' = Moved(Toward(tween))
       /\ tween' = IF Arrived(tween) THEN None ELSE tween
       /\ UNCHANGED speed
  ELSE IF speed # 0
  THEN /\ camera' = Moved(IF speed > 0 THEN -1 ELSE 1)
       /\ speed' = Slower(speed) /\ UNCHANGED tween
  ELSE UNCHANGED motion

dragging == press # None /\ press.moved

\* The cells that come into view are looked up one after the other; there are three at most.
Blank == [atlas |-> atlas, loading |-> loading, fresh |-> FALSE]
Look(f, n) ==
  LET cell == first(camera') + n
  IN  IF cell <= last(camera') THEN acquire(f, cardIndexAt(cell)) ELSE f

render ==
  /\ raf
  /\ Advance
  /\ eased' = TRUE
  /\ \E f \in {Look(Blank, 0)} : \E g \in {Look(f, 1)} : \E h \in {Look(g, 2)} :
       /\ atlas' = Renumbered(h.atlas) /\ loading' = h.loading
       /\ raf' = (h.fresh \/ tween # None \/ speed # 0 \/ ~eased)
  /\ UNCHANGED <<width, theme, inputs, user>>

-----------------------------------------------------------------------------
(* The visitor. *)

onPointerDown(point) ==
  /\ Input /\ press = None
  /\ press' = [at |-> point, moved |-> FALSE, long |-> FALSE]
  /\ tween' = None /\ speed' = 0
  /\ opened' = None /\ allowed' = CardsNear(point)
  /\ UNCHANGED <<width, theme, raf, eased, camera, picture>>

\* More than 600 ms.
HoldLong ==
  /\ Input /\ press # None /\ ~press.long
  /\ press' = [press EXCEPT !.long = TRUE]
  /\ allowed' = {}
  /\ UNCHANGED <<width, theme, raf, eased, motion, picture, opened>>

\* The pointer that is held has moved by half a cell, well over the threshold, and takes the grid
\* along.  The grid may coast and glide meanwhile.
DragBy(step) ==
  /\ Input /\ press # None
  /\ press' = [press EXCEPT !.moved = TRUE]
  /\ camera' = Moved(-step)
  /\ speed' = 2 * step /\ UNCHANGED tween
  /\ allowed' = {}
  /\ eased' = (eased /\ dragging) /\ invalidate
  /\ UNCHANGED <<width, theme, picture, opened>>

\* A mouse that is not held, over another cell than before.
Hover ==
  /\ Input /\ press = None
  /\ eased' = FALSE /\ invalidate
  /\ UNCHANGED <<width, theme, motion, picture, user>>

\* A press that was short and did not drag opens the card under the point of its release.
Opens(up) == IF up /\ ~dragging /\ ~press.long THEN CardsNear(press.at) ELSE {opened}

\* The pointer is released or taken away; what stood still before does not coast.
onPointerUp(up) ==
  /\ press # None /\ press' = None
  /\ opened' \in Opens(up)
  /\ IF dragging THEN speed' \in {0, speed} /\ eased' = FALSE ELSE UNCHANGED <<speed, eased>>
  /\ invalidate
  /\ UNCHANGED <<width, theme, inputs, camera, tween, picture, allowed>>

\* The wheel ends what moves, and moves the grid itself.
onWheel(step) ==
  /\ Input
  /\ camera' = Moved(step)
  /\ tween' = None /\ speed' = 0
  /\ Unsettle /\ invalidate
  /\ UNCHANGED <<width, theme, eased, picture, press, opened>>

\* A link gets the keyboard's focus: the grid glides to the nearest copy of its card.
focusCard(card) ==
  /\ Input
  /\ tween' = 2 * card /\ speed' = 0
  /\ Unsettle /\ invalidate
  /\ UNCHANGED <<width, theme, eased, camera, picture, press, opened>>

-----------------------------------------------------------------------------
Init ==
  /\ width = 3 /\ theme = 0 /\ camera = 0
  /\ atlas = Empty(0) /\ loading = {}
  /\ raf = TRUE /\ speed = 0 /\ tween = None /\ eased = TRUE
  /\ press = None /\ opened = None /\ inputs = 0 /\ allowed = {}

Browser == render \/ \E load \in loading : ImagesCome(load)

Next ==
  \/ Browser \/ retheme \/ resize \/ Hover \/ HoldLong
  \/ \E point \in 0 .. width - 1 : onPointerDown(point)
  \/ \E step \in {-1, 1} : onWheel(step) \/ DragBy(step)
  \/ \E up \in BOOLEAN : onPointerUp(up)
  \/ \E card \in Cards : focusCard(card)

Fairness == WF_atlasVars(Browser)
Spec == Init /\ [][Next]_atlasVars /\ Fairness

-----------------------------------------------------------------------------
(* Properties. *)

\* Every cell in view shows its own card in today's theme, with its images unless they are still to
\* come.
Shown ==
  \A card \in visibleCells : \E s \in SlotOf(atlas, card) :
    /\ atlas.paint[s].card = card /\ atlas.paint[s].theme = theme
    /\ atlas.paint[s].images \/ <<card, s, atlas.made>> \in loading

\* It does at rest, and in every frame but those where more cards are in view than there are slots:
\* through recycled slots, themes, sizes, and images that come late.
ShowsItsCards ==
  [](~raf => Shown) /\ [][render /\ Fits' => Shown']_atlasVars

\* A press opens the card it was on, or the one beside it when it was near that one, and none when
\* it dragged or lasted; only a wheel, a glide or a resize under the held pointer may put another
\* card there.
OpensTheCardPressed ==
  [][opened' \notin {opened, None} => opened' \in allowed]_atlasVars
=============================================================================
