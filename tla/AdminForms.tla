----------------------------- MODULE AdminForms -----------------------------
(***************************************************************************)
(* Forms of the admin panel that are opened for one of several things,     *)
(* filled in, sent, and closed by the answer: the texts of a category, the *)
(* erasure of a founder, the outcome of a privacy request, the slug and    *)
(* the deletion of a record; and the image field of the editors.           *)
(*                                                                         *)
(* A form can be cancelled and opened for something else while its call is *)
(* under way.  The answer, when it comes, is handled by the closure that   *)
(* sent the call, but closes, clears or marks whatever is open by then.    *)
(***************************************************************************)
EXTENDS Naturals, FiniteSets

CONSTANTS
  Thing,      \* what a form may be opened for
  Field,      \* a category's texts; the other forms use Own
  Own,        \* a founder's or record's slug, a record's title, a request's outcome
  MaxEdits,   \* bound: what others change
  MaxVisits,  \* bound: how often a form is opened
  MaxImages,  \* bound: images taken
  None        \* nothing open, under way or left

VARIABLES
  form,       \* which form this is
  subject,    \* the record an editor is open for; to erase, one of two that differ
  stored,     \* stored[t]: a thing's values in the database, or None
  seen,       \* seen[t]: what the page, or the search of founders, last loaded of it
  open,       \* the thing the form is open for, or None
  text,       \* what is filled in
  call,       \* the call under way, or None
  error,      \* the thing the error in the form is about, or None
  notice,     \* the thing whose change the page reports, or None
  edits, visits,   \* what others have changed, and how often a form was opened
  base,       \* history: what the page knew of the thing when the form was opened
  touched,    \* history: the fields filled in since
  image, field, flying, taken,   \* the image field: its value, its state, uploads under way
  meant,      \* history: the image the field should show
  crossed     \* history: something was done to the field while an upload was under way

page == <<form, subject>>
dialog == <<open, text, call, error, notice, base, touched>>
media == <<image, field, flying, taken, meant, crossed>>
vars == <<page, stored, seen, dialog, edits, visits, media>>

Form == {"copy", "erase", "resolve", "slug", "delete", "image"}
Texts == [Field -> Nat]
Calls == [thing : Thing, text : Texts, base : Texts, touched : SUBSET Field]

FormsAssumption ==
  Own \in Field /\ {MaxEdits, MaxVisits, MaxImages} \subseteq Nat /\ None \notin Thing \cup Texts \cup Calls

\* 0 is an empty text, and the outcome of an open request; no slug and no title is empty.
Value ==
  CASE form = "copy" -> 0 .. 1
    [] form = "resolve" -> 0 .. 2
    [] OTHER -> 0 .. 3
Blank == [f \in Field |-> 0]
Gone(t) == stored[t] = None
Named(v) == \E t \in Thing : ~Gone(t) /\ stored[t][Own] = v

\* What a form holds when it opens: the texts loaded, nothing, or what an earlier visit left.
Filled(t) ==
  CASE form = "copy" -> seen[t]
    [] form = "resolve" -> Blank
    [] OTHER -> text
\* A bug: what was typed to confirm an erasure stays when the form is cancelled.
LeftTyped == text
\* What it keeps when it is cancelled.
Left == IF form = "erase" THEN Blank ELSE text

\* A founder is looked for when it is chosen; the other forms go by what the page loaded.
Open(t) ==
  /\ form # "image" /\ open = None /\ seen[t] # None
  /\ form = "erase" => ~Gone(t)
  /\ form = "resolve" => seen[t][Own] = 0
  /\ form \in {"slug", "delete"} => t = subject
  /\ seen' = IF form = "erase" THEN [seen EXCEPT ![t] = stored[t]] ELSE seen
  /\ visits < MaxVisits /\ visits' = visits + 1
  /\ open' = t /\ text' = Filled(t) /\ base' = seen'[t] /\ touched' = {}
  /\ error' = IF form = "copy" THEN None ELSE error
  /\ UNCHANGED <<page, stored, call, notice, edits, media>>

Type(f, v) ==
  /\ open # None /\ text[f] # v
  /\ f = Own \/ form = "copy"
  /\ text' = [text EXCEPT ![f] = v] /\ touched' = touched \cup {f}
  /\ error' = IF form = "slug" THEN None ELSE error
  /\ UNCHANGED <<page, stored, seen, open, call, notice, base, edits, visits, media>>

Cancel ==
  /\ open # None
  /\ open' = None /\ text' = Left /\ base' = None /\ touched' = {}
  /\ UNCHANGED <<page, stored, seen, call, error, notice, edits, visits, media>>

\* What is filled in is sent.  The buttons work while no call of the form is under way, its
\* last one or another's.
Sent ==
  /\ open # None /\ call = None
  /\ call' = [thing |-> open, text |-> text, base |-> base, touched |-> touched]
  /\ UNCHANGED <<page, stored, seen, open, text, error, notice, base, touched, edits, visits, media>>

save == form = "copy" /\ Sent
\* What is typed repeats the slug of the founder chosen, or the title the page shows.
Erase == form = "erase" /\ open # None /\ text[Own] = base[Own] /\ Sent
DeleteDialog == form = "delete" /\ open # None /\ text[Own] = seen[open][Own] /\ Sent
ResolveDialog == form = "resolve" /\ text[Own] # 0 /\ Sent
\* A slug that is new and is one.
SlugDialog ==
  form = "slug" /\ open # None /\ text[Own] \notin {0, seen[open][Own]} /\ Sent
Submit == save \/ Erase \/ DeleteDialog \/ ResolveDialog \/ SlugDialog

\* Whether the service does what it is asked; it looks at the row as it is now.  It may refuse
\* for a reason of its own: a record published since, a limit, a session that ended.
Allowed(t, x) ==
  /\ ~Gone(t)
  /\ form = "erase" => x[Own] = stored[t][Own]
  /\ form = "resolve" => stored[t][Own] = 0
  /\ form = "slug" => ~Named(x[Own])

Done(t, x) == IF form \in {"erase", "delete"} THEN None ELSE x

\* An answer closes what is open; an erasure also clears what is typed, and a deletion leaves
\* the page.  An error is shown in what is open, or on the page, where the next notice
\* replaces it; nothing takes it out of the forms to resolve and to delete.
Answer ==
  /\ call # None
  /\ \E reached, fits \in BOOLEAN :
       LET does == reached /\ fits /\ Allowed(call.thing, call.text)
       IN  \E ok \in {FALSE, does} :
             /\ stored' = IF does
                          THEN [stored EXCEPT ![call.thing] = Done(call.thing, call.text)]
                          ELSE stored
             /\ call' = None
             /\ IF ok THEN open' = None /\ base' = None /\ touched' = {}
                ELSE UNCHANGED <<open, base, touched>>
             /\ text' = IF ok /\ form = "erase" THEN Blank ELSE text
             /\ error' = IF ok \/ form = "erase" THEN error ELSE call.thing
             /\ notice' = CASE ok /\ form \in {"erase", "resolve"} -> call.thing
                            [] ~ok /\ form = "erase" -> None
                            [] OTHER -> notice
  /\ UNCHANGED <<page, seen, edits, visits, media>>

\* An answer is cut off after its head: the call throws, and the form waits until the page is
\* loaded again, which leaves nothing of what was filled in.
CutOff ==
  /\ call # None
  /\ \E reached \in BOOLEAN :
       stored' = IF reached /\ Allowed(call.thing, call.text)
                 THEN [stored EXCEPT ![call.thing] = Done(call.thing, call.text)]
                 ELSE stored
  /\ seen' = stored' /\ open' = None /\ call' = None /\ error' = None /\ notice' = None
  /\ text' = IF form = "slug" /\ stored'[subject] # None THEN stored'[subject] ELSE Blank
  /\ base' = None /\ touched' = {}
  /\ UNCHANGED <<page, edits, visits, media>>

\* The page is loaded again, after an answer or by hand; a form that is open keeps its text,
\* unless the record of the page is gone.
Refresh ==
  /\ seen' = stored
  /\ open' = IF form \in {"slug", "delete"} /\ Gone(subject) THEN None ELSE open
  /\ UNCHANGED <<page, stored, text, call, error, notice, base, touched, edits, visits, media>>

\* Somebody else changes a value, resolves a request or removes a thing.
Elsewhere(t) ==
  /\ form # "image" /\ edits < MaxEdits /\ edits' = edits + 1 /\ ~Gone(t)
  /\ \/ \E f \in Field, v \in Value :
          /\ CASE form = "copy" -> stored[t][f] # v
               [] form = "resolve" -> f = Own /\ stored[t][f] = 0 /\ v # 0
               [] OTHER -> f = Own /\ v # 0 /\ ~Named(v)
          /\ stored' = [stored EXCEPT ![t][f] = v]
     \/ form \notin {"copy", "resolve"} /\ stored' = [stored EXCEPT ![t] = None]
  /\ UNCHANGED <<page, seen, dialog, visits, media>>

-----------------------------------------------------------------------------
(* The image field *)

\* An image is chosen, which the button allows while nothing is under way, or dropped, which is
\* always possible.  One of the wrong kind or size shows an error and sends nothing.
Take(suits) ==
  /\ form = "image" /\ taken < MaxImages
  /\ taken' = taken + 1
  /\ field' = IF suits THEN "uploading" ELSE "error"
  /\ flying' = IF suits THEN flying \cup {taken'} ELSE flying
  /\ meant' = IF suits THEN taken' ELSE meant
  /\ crossed' = (crossed \/ flying # {})
  /\ UNCHANGED <<page, stored, seen, dialog, edits, visits, image>>

Progress ==
  /\ flying # {} /\ field' = "uploading"
  /\ UNCHANGED <<page, stored, seen, dialog, edits, visits, image, flying, taken, meant, crossed>>

Arrived(i) ==
  /\ i \in flying /\ flying' = flying \ {i}
  /\ \/ image' = i /\ field' = "idle" /\ meant' = meant
     \/ image' = image /\ field' = "error" /\ meant' = IF meant = i THEN image ELSE meant
  /\ UNCHANGED <<page, stored, seen, dialog, edits, visits, taken, crossed>>

Remove ==
  /\ form = "image" /\ image # 0 /\ field # "uploading"
  /\ image' = 0 /\ meant' = 0
  /\ crossed' = (crossed \/ flying # {})
  /\ UNCHANGED <<page, stored, seen, dialog, edits, visits, field, flying, taken>>

-----------------------------------------------------------------------------

Init ==
  /\ form \in Form
  /\ IF form \in {"erase", "slug", "delete"} THEN subject \in Thing ELSE subject = None
  /\ stored = [t \in Thing |-> [f \in Field |->
                 CASE f # Own \/ form = "resolve" -> 0
                   [] form = "copy" \/ t = subject -> 1
                   [] OTHER -> 2]]
  /\ seen = stored /\ open = None /\ call = None
  /\ text = IF form = "slug" THEN stored[subject] ELSE Blank
  /\ error = None /\ notice = None /\ edits = 0 /\ visits = 0 /\ base = None /\ touched = {}
  /\ image = 0 /\ field = "idle" /\ flying = {} /\ taken = 0 /\ meant = 0 /\ crossed = FALSE

Next ==
  \/ \E t \in Thing : Open(t) \/ Elsewhere(t)
  \/ \E f \in Field, v \in Value : Type(f, v)
  \/ Cancel \/ Submit \/ Answer \/ CutOff \/ Refresh
  \/ \E suits \in BOOLEAN : Take(suits)
  \/ Progress \/ Remove \/ \E i \in flying : Arrived(i)
Spec == Init /\ [][Next]_vars

-----------------------------------------------------------------------------

\* A save of a category's texts, all of which are sent, changes a text the admin did not touch
\* only when somebody else had changed it since the page loaded it.
OnlyStaleTextsUndone ==
  form = "copy" /\ stored' # stored /\ call # None /\ edits' = edits =>
    \A f \in Field : stored'[call.thing][f] # stored[call.thing][f] =>
                      f \in call.touched \/ stored[call.thing][f] # call.base[f]

\* The form erases the founder whose slug was typed since that founder was chosen, and no other.
ErasedAsTyped ==
  form = "erase" /\ stored' # stored /\ edits' = edits =>
    \A t \in Thing : Gone(t)' /\ ~Gone(t) =>
      t = call.thing /\ Own \in call.touched /\ call.text[Own] = stored[t][Own]

\* What the page reports happened to what it names: the founder is gone, the request resolved.
ReportedWasDone ==
  notice' # notice /\ notice' # None =>
    IF form = "erase" THEN Gone(notice)' ELSE stored'[notice'][Own] # 0

\* With nothing under way the image field shows what was last done to it, unless it was dropped
\* or removed while an upload was under way: the last answer then wins.
OnlyCrossedImagesWin == flying = {} /\ ~crossed => image = meant

ActsAsShown ==
  [][OnlyStaleTextsUndone /\ ErasedAsTyped /\ ReportedWasDone /\ OnlyCrossedImagesWin']_vars
=============================================================================
