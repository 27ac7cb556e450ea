---------------------------- MODULE LandingView ----------------------------
(***************************************************************************)
(* The landing page's two views (components/landing/Landing.tsx and        *)
(* CurvedGrid.tsx): a list of links, and a canvas drawn with WebGL that    *)
(* takes its place once its code has come and its first frame is drawn.    *)
(*                                                                         *)
(* A React effect starts the renderer and its cleanup disposes of it.  The *)
(* code comes later than it was asked for; by then the effect may be over, *)
(* or the visitor may have asked for less motion.  The canvas element      *)
(* outlives the effects, and with it its one WebGL context.                *)
(***************************************************************************)
EXTENDS Naturals, FiniteSets, Sequences

CONSTANTS
  MaxGestures,  \* bound: what the visitor does
  MaxRenderers, \* bound: renderers made
  None

ViewAssumption == None \notin Nat /\ {MaxGestures, MaxRenderers} \subseteq Nat

VARIABLES
  view,       \* "curved" or "flat": what the visitor chose
  saved,      \* the choice the browser remembers
  run,        \* which run of the effect this is
  on,         \* whether that run has started something it must clean up
  reduced,    \* the visitor's system asks for less motion
  code,       \* the renderer's code: "absent", "coming", "here" or "failed"
  asks,       \* runs whose import has not resolved, the oldest first
  made,       \* renderers made so far, numbered
  live,       \* renderers not disposed of: <<number, run>>
  ready,      \* numbers of those that have drawn a frame
  ref,        \* rendererRef: a number, None, or 0 for the one that does nothing
  context,    \* "live", "losing" (its event is on the way) or "lost"
  mode,       \* "flat" or "canvas"
  available,  \* whether the toggle is offered on account of the canvas
  gestures,   \* for the bound
  flickered,  \* history: motion was allowed again while the code was on its way
  disposed,   \* history: a renderer of this canvas was disposed of
  pressed     \* history: "curved" was pressed though it was chosen

effect == <<run, on, asks>>
canvas == <<made, live, ready, ref, context>>
shown == <<mode, available>>
history == <<flickered, disposed, pressed>>
landingVars == <<view, saved, effect, reduced, code, canvas, shown, gestures, history>>

Gesture == gestures < MaxGestures /\ gestures' = gestures + 1

-----------------------------------------------------------------------------
(* The renderer: what making it and disposing of it does to the canvas. *)

\* It stops listening first; then it gives its context away, which others on the canvas notice.
dispose(n) ==
  IF n \in {None, 0} THEN UNCHANGED <<live, ready, context, disposed>>
  ELSE /\ live' = {r \in live : r[1] # n} /\ ready' = ready \ {n}
       /\ context' = IF context = "live" THEN "losing" ELSE context
       /\ disposed' = TRUE

\* The list is shown again.  A toggle that was offered stays.
stop ==
  /\ dispose(ref) /\ ref' = None
  /\ mode' = "flat" /\ UNCHANGED <<made, available>>

\* Where there is no WebGL the caller is told at once, and gets a renderer that does nothing; on
\* a context that is lost it depends on the browser whether this throws.
createGridRenderer(r) ==
  \/ /\ made' = made + 1 /\ made < MaxRenderers
     /\ live' = live \cup {<<made + 1, r>>} /\ ref' = made + 1
     /\ UNCHANGED <<ready, context, shown, disposed>>
  \/ /\ context = "live" /\ live = {} /\ made = 0
     /\ ref' = 0 /\ mode' = "flat"
     /\ UNCHANGED <<made, live, ready, context, available, disposed>>
  \/ context # "live" /\ stop

-----------------------------------------------------------------------------
(* CurvedGrid's effect. *)

\* The code is asked for once however often it is needed, and again after it has failed.
import(r) ==
  /\ asks' = Append(asks, r)
  /\ code' = IF code \in {"absent", "failed"} THEN "coming" ELSE code

start(r, less) == IF less \/ ref # None THEN UNCHANGED <<asks, code>> ELSE import(r)

\* A bug: the run that asked is taken for the one that is on.
MayStartAny(r) == ~reduced

\* The code has come: the run that asked may be over.
MayStart(r) == on /\ r = run /\ ~reduced

Resolve ==
  /\ code = "here" /\ asks # <<>>
  /\ asks' = Tail(asks)
  /\ IF MayStart(Head(asks)) THEN createGridRenderer(Head(asks))
     ELSE UNCHANGED <<canvas, shown, disposed>>
  /\ UNCHANGED <<view, saved, run, on, reduced, code, gestures, flickered, pressed>>

\* Or it fails, for all that have asked.
Deliver ==
  /\ code = "coming"
  /\ \/ code' = "here" /\ UNCHANGED <<asks, canvas, shown, disposed>>
     \/ code' = "failed" /\ asks' = <<>> /\ stop
  /\ UNCHANGED <<view, saved, run, on, reduced, gestures, flickered, pressed>>

\* onReady: a renderer's first frame.
FirstFrame(r) ==
  /\ r \in live /\ r[1] \notin ready
  /\ ready' = ready \cup {r[1]}
  /\ IF on /\ r[2] = run THEN mode' = "canvas" /\ available' = (available \/ mode = "flat")
     ELSE UNCHANGED shown
  /\ UNCHANGED <<view, saved, effect, reduced, code, made, live, ref, context, gestures, history>>

\* The browser takes the context away, or a renderer has; those still listening fall back.
LoseContext ==
  /\ context = "live" /\ live # {} /\ Gesture
  /\ context' = "losing"
  /\ UNCHANGED <<view, saved, effect, reduced, code, made, live, ready, ref, shown, history>>

onFail ==
  /\ context = "losing"
  /\ IF on /\ \E r \in live : r[2] = run
     THEN /\ live' = {r \in live : r[1] # ref} /\ ready' = ready \ {ref}
          /\ disposed' = (disposed \/ \E r \in live : r[1] = ref)
          /\ ref' = None /\ mode' = "flat"
     ELSE UNCHANGED <<live, ready, ref, mode, disposed>>
  /\ context' = "lost"
  /\ UNCHANGED <<view, saved, effect, reduced, code, made, available, gestures, flickered, pressed>>

\* The system's setting for motion changes.
onMotionChange ==
  /\ Gesture
  /\ reduced' = ~reduced
  /\ IF ~on THEN UNCHANGED <<asks, code, canvas, shown, disposed>>
     ELSE IF reduced' THEN stop /\ UNCHANGED <<asks, code>>
     ELSE UNCHANGED <<canvas, shown, disposed>> /\ start(run, FALSE)
  /\ flickered' = (flickered \/ (reduced /\ on /\ asks # <<>>))
  /\ UNCHANGED <<view, saved, run, on, pressed>>

-----------------------------------------------------------------------------
(* Landing. *)

Toggle == available \/ view = "flat"

\* The visitor chooses a view; the effect is cleaned up and run anew when it is another.
chooseView(next) ==
  /\ Gesture /\ Toggle /\ (on \/ view = "flat")
  /\ view' = next /\ saved' = next
  /\ pressed' = (pressed \/ (next = "curved" /\ view = "curved"))
  /\ IF next = view
     THEN /\ available' = (available /\ next = "flat")
          /\ UNCHANGED <<effect, code, canvas, mode, disposed>>
     ELSE IF next = "flat"
     THEN stop /\ on' = FALSE /\ UNCHANGED <<run, asks, code>>
     ELSE /\ run' = run + 1 /\ on' = TRUE /\ available' = FALSE
          /\ UNCHANGED <<canvas, mode, disposed>> /\ start(run + 1, reduced)
  /\ UNCHANGED <<reduced, flickered>>

\* The visitor leaves the curved view's page; a list that was chosen has nothing to clean up.
Leave ==
  /\ Gesture /\ on
  /\ on' = FALSE /\ stop
  /\ UNCHANGED <<view, saved, run, asks, reduced, code, flickered, pressed>>

\* The page is opened: the list is there, the effect has run, and then the saved view is read.
Init ==
  /\ saved \in {"curved", "flat"} /\ view = saved
  /\ run = 1 /\ on = (saved = "curved")
  /\ reduced \in BOOLEAN
  /\ code \in IF reduced THEN {"absent", "here"} ELSE {"coming", "here"}
  /\ asks = IF reduced THEN <<>> ELSE <<1>>
  /\ made = 0 /\ live = {} /\ ready = {} /\ ref = None /\ context = "live"
  /\ mode = "flat" /\ available = FALSE
  /\ gestures = 0 /\ flickered = FALSE /\ disposed = FALSE /\ pressed = FALSE

Browser == Resolve \/ Deliver \/ onFail \/ \E r \in live : FirstFrame(r)

Next ==
  \/ Browser \/ LoseContext \/ onMotionChange \/ Leave
  \/ \E next \in {"curved", "flat"} : chooseView(next)

\* Imports resolve, frames are drawn, events are delivered.
Fairness == WF_landingVars(Browser)

Spec == Init /\ [][Next]_landingVars /\ Fairness

-----------------------------------------------------------------------------
(* Properties. *)

\* The links are hidden only while a renderer that has drawn is behind them on a context that is
\* there, or no longer once a renderer has given the canvas's one context away.
CanvasDraws ==
  mode = "canvas" => ready # {} /\ (context = "lost" => disposed)

\* There is one renderer for the canvas at most, the one that will be disposed of, and none when
\* the list was chosen, motion is not wanted, or the page was left; unless motion was allowed
\* again while the code was on its way, when it is started twice and one goes on for good.
OneRenderer ==
  ~flickered => /\ \A r \in live : r[1] = ref
                /\ ~on \/ reduced => live = {}

\* Who sees the canvas can always choose the list, unless they pressed the view they had.
ListInReach == mode = "canvas" /\ ~pressed => Toggle

\* The canvas is to come: motion is allowed, the code has not failed, WebGL is there.
Awaited ==
  /\ view = "curved" /\ on /\ ~reduced /\ mode = "flat"
  /\ code # "failed" /\ ref # 0 /\ context = "live"
=============================================================================
