---------------------------- MODULE AdminEditor ----------------------------
(***************************************************************************)
(* The editor of the admin panel: one tab on one startup, beside other     *)
(* admins who change the same startup.                                     *)
(*                                                                         *)
(* The form keeps the values as typed and a baseline to compare them with; *)
(* fields wait for Save, while the list of industries is replaced at once, *)
(* each time from the list the page last loaded.  The list and the links   *)
(* wait together, and the first answer ends the wait of them all.  Calls   *)
(* run while the admin goes on typing, and an answer is handled in the     *)
(* closure of the render that sent its call, so it sees the values of that *)
(* render.                                                                 *)
(***************************************************************************)
EXTENDS Naturals, FiniteSets

CONSTANTS
  Record,     \* ids of startups
  Existing,   \* those that are there at first
  Field,      \* fields of the form
  Industry,   \* industries a startup may be in
  MaxCalls,   \* bound: calls under way at once
  MaxMoves,   \* bound: what the admin at the tab does
  MaxOthers,  \* bound: what other admins do
  New,        \* the page of a startup that is not there yet
  None        \* no record, call, draft, navigation or reload

Values == 0 .. 2     \* 0 is an empty field, and 2 what a draft offers
Status == {"draft", "published"}
Startups == [fields : [Field -> Values], industries : SUBSET Industry, status : Status]
Lists == [industries : SUBSET Industry, status : Status, read : BOOLEAN]
Drafts == [ticked : SUBSET Field, chosen : SUBSET Field]
Fetches == [at : Nat, ticked : SUBSET Field]     \* at: the move that began it
Calls == [kind : {"save", "put", "link", "publish"},
          page : Record \cup {New},     \* that of the render that sent it
          record : Record \cup {New},   \* the one it is about, New before it is created
          values : [Field -> Values], only : SUBSET Field, list : SUBSET Industry,
          stay : BOOLEAN,               \* to be published once it is saved
          state : {"sent", "done", "failed"},
          late : SUBSET Field]          \* history: fields typed in since it was sent

ASSUME EditorAssumption ==
  /\ Existing \subseteq Record /\ New \notin Record
  /\ Field \cap Industry = {}
  /\ MaxCalls \in Nat \ {0} /\ MaxMoves \in Nat /\ MaxOthers \in Nat
ASSUME NoneAssumption ==
  None \notin Record \cup Startups \cup Lists \cup Drafts \cup Calls

VARIABLES
  store,      \* store[r]: a startup's fields, industries and status, or None
  page,       \* the record whose editor is open, or New
  values,     \* the form as typed
  baseline,   \* what the form compares it with
  shown,      \* industries and status of the record as the page last loaded it
  saving,     \* the form waits for a save
  pending,    \* the lists and links wait for a change
  calls,      \* calls[i]: a call under way, or None
  fetching,   \* what the prefill panel fetches
  draft,      \* what it offers
  nav,        \* the record whose page is being opened
  reload,     \* a reload of the page: asked for, or on its way with what it read
  moves, others,
  typed,      \* history: fields the admin typed in or filled from a draft
  mine,       \* history: mine[f]: what the admin last put into f
  raced,      \* history: fields typed in while a new page or a draft was coming
  foreign,    \* history: fields and industries other admins changed
  unsure,     \* history: saves overlapped, or an answer was lost
  want,       \* history: want[i]: whether the admin put i in or took it out
  hasty       \* history: a list was changed before the page had loaded the change before

form == <<values, baseline>>
tab == <<page, form, shown, saving, pending, fetching, draft, nav, reload>>
history == <<typed, mine, raced, foreign, unsure, want, hasty>>
vars == <<store, tab, calls, moves, others, history>>

TypeOK ==
  /\ store \in [Record -> Startups \cup {None}]
  /\ page \in Record \cup {New} /\ nav \in Record \cup {None}
  /\ values \in [Field -> Values] /\ baseline \in [Field -> Values]
  /\ shown \in Lists /\ reload \in Lists \cup {None}
  /\ saving \in BOOLEAN /\ pending \in BOOLEAN
  /\ calls \in [1 .. MaxCalls -> Calls \cup {None}]
  /\ fetching \subseteq Fetches /\ draft \in Drafts \cup {None}
  /\ moves \in Nat /\ others \in Nat
  /\ typed \subseteq Field /\ raced \subseteq Field /\ foreign \subseteq Field \cup Industry
  /\ mine \in [Field -> Values \cup {None}]
  /\ want \in [Industry -> {"in", "out", None}]
  /\ unsure \in BOOLEAN /\ hasty \in BOOLEAN

Ids == 1 .. MaxCalls
Free == {i \in Ids : calls[i] = None}
UnderWay(kind) == {i \in Ids \ Free : calls[i].kind = kind}

\* A call as the page makes it now: of the values it shows, for the record it is about.
Call(kind) ==
  [kind |-> kind, page |-> page, record |-> page, values |-> values, only |-> {}, list |-> {},
   stay |-> FALSE, state |-> "sent", late |-> {}]

Send(call) ==
  LET i == CHOOSE n \in Free : TRUE
  IN  calls' = [calls EXCEPT ![i] = call]

dirty == values # baseline
busy == \E i \in UnderWay("publish") : calls[i].page = page
disabled == saving \/ busy

Move == moves < MaxMoves /\ moves' = moves + 1

\* The page will be replaced by that of the record it creates, with a new form.
Replacing == nav # None \/ \E i \in Ids \ Free : calls[i].page = New

\* A draft is offered, or on its way.
Prefilling == fetching # {} \/ draft # None

\* History: what is in flight is older than the fields that change now.
Later(fields) ==
  [i \in Ids |-> IF calls[i] = None THEN None ELSE [calls[i] EXCEPT !.late = @ \cup fields]]

(***************************************************************************)
(* Typing, saving and publishing.                                          *)
(***************************************************************************)
setField(f, v) ==
  /\ Move /\ v # values[f]
  /\ values' = [values EXCEPT ![f] = v]
  /\ typed' = typed \cup {f}
  /\ mine' = [mine EXCEPT ![f] = v]
  /\ raced' = IF Replacing \/ Prefilling THEN raced \cup {f} ELSE raced \ {f}
  /\ calls' = Later({f})
  /\ UNCHANGED <<store, page, baseline, shown, saving, pending, fetching, draft, nav, reload,
                 others, foreign, unsure, want, hasty>>

changedFields(before, after) == {f \in DOMAIN after : before[f] # after[f]}

\* What a save sends: everything for a create, only changes for an update.
prepare == IF page = New THEN Field ELSE changedFields(baseline, values)

save(stay) ==
  /\ Free # {}
  /\ Send([Call("save") EXCEPT !.only = prepare, !.stay = stay,
                               !.list = IF page = New THEN shown.industries ELSE {}])
  /\ saving' = TRUE
  /\ unsure' = (unsure \/ UnderWay("save") # {})

\* The Save button; or Enter in a form that has a submit button, which nothing holds back.
Submit ==
  /\ Move /\ prepare # {}
  /\ save(FALSE)
  /\ UNCHANGED <<store, page, form, shown, pending, fetching, draft, nav, reload,
                 others, typed, mine, raced, foreign, want, hasty>>

\* A bug: what is typed and not saved stays in the form only.
PublishUnsaved ==
  /\ Move /\ ~disabled /\ shown.status = "draft"
  /\ IF page = New
     THEN save(TRUE)
     ELSE Free # {} /\ Send(Call("publish")) /\ UNCHANGED <<saving, unsure>>
  /\ UNCHANGED <<store, page, form, shown, pending, fetching, draft, nav, reload,
                 others, typed, mine, raced, foreign, want, hasty>>

\* Publishing first saves whatever is unsaved.
Publish ==
  /\ Move /\ ~disabled /\ shown.status = "draft"
  /\ IF dirty \/ page = New
     THEN save(TRUE)
     ELSE Free # {} /\ Send(Call("publish")) /\ UNCHANGED <<saving, unsure>>
  /\ UNCHANGED <<store, page, form, shown, pending, fetching, draft, nav, reload,
                 others, typed, mine, raced, foreign, want, hasty>>

(***************************************************************************)
(* The industries: in the form until there is a startup, then replaced by  *)
(* a call of their own.                                                    *)
(***************************************************************************)
PutList(next) ==
  /\ Free # {} /\ ~pending
  /\ Send([Call("put") EXCEPT !.list = next])
  /\ pending' = TRUE
  /\ hasty' = (hasty \/ Replacing \/ reload # None \/ UnderWay("put") # {})
  /\ UNCHANGED shown

\* A new startup's list goes out with its create.
KeepList(next) ==
  /\ shown' = [shown EXCEPT !.industries = next]
  /\ hasty' = (hasty \/ Replacing)
  /\ UNCHANGED <<calls, pending>>

\* An industry is put in, taken out, or made the primary one: the whole list is replaced.
setIndustries(next) ==
  /\ Move
  /\ IF page = New THEN KeepList(next) ELSE PutList(next)
  /\ want' = [i \in Industry |-> IF (i \in next) = (i \in shown.industries) THEN want[i]
                                 ELSE IF i \in next THEN "in" ELSE "out"]
  /\ UNCHANGED <<store, page, form, saving, fetching, draft, nav, reload,
                 others, typed, mine, raced, foreign, unsure>>

ChooseIndustries ==
  \E i \in Industry :
    \/ setIndustries(shown.industries \cup {i})
    \/ i \in shown.industries /\ setIndustries(shown.industries \ {i})

\* A link is added or removed, which the draft of a closed dialog does however the page waits.
ChangeLink ==
  /\ Move /\ page # New /\ Free # {}
  /\ Send(Call("link"))
  /\ pending' = TRUE
  /\ UNCHANGED <<store, page, form, shown, saving, fetching, draft, nav, reload, others, history>>

(***************************************************************************)
(* The server, and what becomes of its answers.                            *)
(***************************************************************************)
Apply(c, r) ==
  CASE c.kind = "save" /\ c.record = New ->
         [fields |-> c.values, industries |-> c.list, status |-> "draft"]
    [] c.kind = "save" /\ c.record # New ->
         [store[r] EXCEPT !.fields = [f \in Field |-> IF f \in c.only THEN c.values[f] ELSE @[f]]]
    [] c.kind = "put" -> [store[r] EXCEPT !.industries = c.list]
    [] c.kind = "link" -> store[r]
    [] c.kind = "publish" -> [store[r] EXCEPT !.status = "published"]

\* Done, with an answer that arrives or is lost on its way.
Serve(i) ==
  /\ calls[i] # None /\ calls[i].state = "sent"
  /\ \E r \in Record, arrives \in BOOLEAN :
       /\ IF calls[i].record = New THEN store[r] = None ELSE r = calls[i].record
       /\ store' = [store EXCEPT ![r] = Apply(calls[i], r)]
       /\ calls' = [calls EXCEPT ![i].state = IF arrives THEN "done" ELSE "failed",
                                 ![i].record = r]
       /\ unsure' = (unsure \/ ~arrives)
  /\ UNCHANGED <<tab, moves, others, typed, mine, raced, foreign, want, hasty>>

\* Refused, or never there.
Refuse(i) ==
  /\ calls[i] # None /\ calls[i].state = "sent"
  /\ calls' = [calls EXCEPT ![i].state = "failed"]
  /\ UNCHANGED <<store, tab, moves, others, history>>

\* A bug: what was typed since the save began counts as saved.
MarkSavedNow(c) == baseline' = IF c.page = page THEN values ELSE baseline

\* The values of the save become the baseline, unless its form is gone.
markSaved(c) == baseline' = IF c.page = page THEN c.values ELSE baseline

\* A created record's page is opened, another one's is loaded again.
Follow(c) ==
  IF c.page = New THEN nav' = c.record /\ UNCHANGED reload
  ELSE reload' = [shown EXCEPT !.read = FALSE] /\ UNCHANGED nav

AnswerSave(i) ==
  LET c == calls[i] IN
  /\ i \in UnderWay("save") /\ c.state # "sent"
  /\ saving' = (saving /\ c.page # page)
  /\ IF c.state = "done" THEN markSaved(c) ELSE UNCHANGED baseline
  /\ IF c.state = "done" /\ c.stay
     THEN /\ calls' = [calls EXCEPT ![i] = [c EXCEPT !.kind = "publish", !.state = "sent"]]
          /\ UNCHANGED <<nav, reload>>
     ELSE /\ calls' = [calls EXCEPT ![i] = None]
          /\ IF c.state = "done" THEN Follow(c) ELSE UNCHANGED <<nav, reload>>
  /\ UNCHANGED <<store, page, values, shown, pending, fetching, draft, moves, others, history>>

\* A record that was created is opened also when it could not be published.
AnswerPublish(i) ==
  LET c == calls[i] IN
  /\ i \in UnderWay("publish") /\ c.state # "sent"
  /\ calls' = [calls EXCEPT ![i] = None]
  /\ IF c.state = "done" \/ c.page = New THEN Follow(c) ELSE UNCHANGED <<nav, reload>>
  /\ UNCHANGED <<store, page, form, shown, saving, pending, fetching, draft, moves, others, history>>

\* Whichever change is answered, the page waits no more.
AnswerChange(i) ==
  LET c == calls[i] IN
  /\ i \in UnderWay("put") \cup UnderWay("link") /\ c.state # "sent"
  /\ calls' = [calls EXCEPT ![i] = None]
  /\ pending' = (pending /\ c.page # page)
  /\ reload' = IF c.state = "done" THEN [shown EXCEPT !.read = FALSE] ELSE reload
  /\ unsure' = (unsure \/ (c.kind = "put" /\ c.state # "done"))
  /\ UNCHANGED <<store, page, form, shown, saving, fetching, draft, nav, moves, others,
                 typed, mine, raced, foreign, want, hasty>>

Loaded(r) == [industries |-> store[r].industries, status |-> store[r].status, read |-> TRUE]

ReadReload ==
  /\ reload # None /\ ~reload.read
  /\ reload' = Loaded(page)
  /\ UNCHANGED <<store, page, form, shown, saving, pending, fetching, draft, nav, calls, moves,
                 others, history>>

\* A bug: a reload resets the form.
ReloadResetsForm ==
  /\ reload # None /\ reload.read
  /\ shown' = reload /\ reload' = None
  /\ values' = store[page].fields /\ baseline' = store[page].fields
  /\ UNCHANGED <<store, page, saving, pending, fetching, draft, nav, calls, moves,
                 others, history>>

\* The page has its record again; the form is that of the same record and stays.
Reload ==
  /\ reload # None /\ reload.read
  /\ shown' = reload /\ reload' = None
  /\ UNCHANGED <<store, page, form, saving, pending, fetching, draft, nav, calls, moves,
                 others, history>>

\* The editor of another record is a new one.
Open ==
  /\ nav # None
  /\ page' = nav
  /\ values' = store[nav].fields /\ baseline' = store[nav].fields
  /\ shown' = Loaded(nav)
  /\ saving' = FALSE /\ pending' = FALSE /\ nav' = None /\ reload' = None
  /\ fetching' = {} /\ draft' = None
  /\ UNCHANGED <<store, calls, moves, others, history>>

(***************************************************************************)
(* Prefilling from the company's website.                                  *)
(***************************************************************************)
Blank == {f \in Field : values[f] = 0}

\* The fields to tick are those that are empty when the page is asked for; Enter asks for another
\* page whatever is on its way.
fetchDraft ==
  /\ Move
  /\ fetching' = fetching \cup {[at |-> moves, ticked |-> Blank]}
  /\ draft' = None
  /\ UNCHANGED <<store, page, form, shown, saving, pending, nav, reload, calls, others, history>>

\* What comes replaces what was offered; what fails leaves it.
Offer(fetch) ==
  /\ fetching' = fetching \ {fetch}
  /\ draft' \in {draft, [ticked |-> fetch.ticked, chosen |-> {}]}
  /\ UNCHANGED <<store, page, form, shown, saving, pending, nav, reload, calls, moves,
                 others, history>>

Tick(f) ==
  /\ Move /\ draft # None
  /\ draft' = IF f \in draft.ticked
              THEN [draft EXCEPT !.ticked = @ \ {f}, !.chosen = @ \ {f}]
              ELSE [draft EXCEPT !.ticked = @ \cup {f}, !.chosen = @ \cup {f}]
  /\ UNCHANGED <<store, page, form, shown, saving, pending, fetching, nav, reload, calls,
                 others, history>>

onApply ==
  LET asked == draft.chosen \cup (draft.ticked \cap Blank) IN
  /\ Move /\ draft # None /\ draft.ticked # {}
  /\ values' = [f \in Field |-> IF f \in draft.ticked THEN 2 ELSE values[f]]
  /\ draft' = None
  /\ typed' = typed \cup draft.ticked
  /\ mine' = [f \in Field |-> IF f \in asked THEN 2 ELSE mine[f]]
  /\ raced' = IF Replacing \/ fetching # {} THEN raced \cup draft.ticked ELSE raced \ asked
  /\ calls' = Later(draft.ticked)
  /\ UNCHANGED <<store, page, baseline, shown, saving, pending, fetching, nav, reload, others,
                 foreign, unsure, want, hasty>>

(***************************************************************************)
(* Other admins.                                                           *)
(***************************************************************************)
OtherEdit(r) ==
  /\ others < MaxOthers /\ others' = others + 1
  /\ store[r] # None
  /\ \/ \E f \in Field, v \in Values :
          /\ store' = [store EXCEPT ![r].fields[f] = v]
          /\ foreign' = foreign \cup {f}
     \/ \E i \in Industry :
          /\ store' = [store EXCEPT ![r].industries = (@ \ {i}) \cup ({i} \ @)]
          /\ foreign' = foreign \cup {i}
  /\ UNCHANGED <<tab, calls, moves, typed, mine, raced, unsure, want, hasty>>

(***************************************************************************)
(* The specification.                                                      *)
(***************************************************************************)
Blanks == [f \in Field |-> 0]

Init ==
  /\ store = [r \in Record |-> IF r \in Existing
                               THEN [fields |-> Blanks, industries |-> {}, status |-> "draft"]
                               ELSE None]
  /\ page \in Existing \cup {New}
  /\ values = Blanks /\ baseline = Blanks
  /\ shown = [industries |-> {}, status |-> "draft", read |-> TRUE]
  /\ saving = FALSE /\ pending = FALSE /\ nav = None /\ reload = None
  /\ fetching = {} /\ draft = None
  /\ calls = [i \in Ids |-> None]
  /\ moves = 0 /\ others = 0
  /\ typed = {} /\ mine = [f \in Field |-> None] /\ raced = {} /\ foreign = {}
  /\ unsure = FALSE /\ want = [i \in Industry |-> None] /\ hasty = FALSE

Admin ==
  \/ \E f \in Field, v \in Values : setField(f, v)
  \/ Submit \/ Publish \/ ChooseIndustries \/ ChangeLink
  \/ fetchDraft \/ onApply \/ \E f \in Field : Tick(f)

Page ==
  \/ \E i \in Ids : Serve(i) \/ Refuse(i) \/ AnswerSave(i) \/ AnswerPublish(i) \/ AnswerChange(i)
  \/ ReadReload \/ Reload \/ Open \/ \E fetch \in fetching : Offer(fetch)

Next == Admin \/ Page \/ \E r \in Record : OtherEdit(r)

Spec == Init /\ [][Next]_vars

-----------------------------------------------------------------------------
(***************************************************************************)
(* Properties.                                                             *)
(***************************************************************************)

\* A PATCH never rewrites a field its admin did not touch, so two admins on one startup do not
\* undo each other, whatever was saved, answered late or reloaded in between (fields.ts:613).
UntouchedStays ==
  [][\A i \in Ids : Serve(i) =>
       \A r \in Record, f \in Field \ typed :
         store[r] # None => store'[r].fields[f] = store[r].fields[f]]_vars

\* A form without unsaved changes, with no save under way, shows what is stored: what was typed
\* during a save is still unsaved after it.  Only saves that overlapped, an answer that was
\* lost, or another admin make the editor believe what is not so.
QuietMeansStored ==
  page \in Record /\ ~dirty /\ UnderWay("save") = {} /\ ~unsure =>
    \A f \in typed \ foreign : store[page].fields[f] = values[f]

\* What the admin typed stays in the form until they type over it, through reloads, failed
\* saves and the page of a record they created; the exceptions are fields they typed in while
\* that page, or a draft, was on its way.
TypedIsKept ==
  \A f \in Field : mine[f] # None => values[f] = mine[f] \/ f \in raced \cup foreign

\* RecordActions.tsx: "publishing first saves whatever is unsaved".  When a startup is published
\* it has in each field what the form had when Publish was clicked.
PublishedAsSeen ==
  [][\A i \in Ids : Serve(i) /\ calls[i].kind = "publish" /\ ~unsure =>
       \A f \in typed \ (foreign \cup calls[i].late) :
         store[calls[i].record].fields[f] = calls[i].values[f]]_vars

\* Each industry the admin put in or took out stays so, though every change replaces the whole
\* list; only a change made before the page had loaded the one before, which the answer to a link
\* allows, may undo that one.
IndustriesKept ==
  page \in Record /\ calls = [i \in Ids |-> None] /\ ~unsure /\ ~hasty =>
    \A i \in Industry \ foreign :
      want[i] # None => (want[i] = "in") = (i \in store[page].industries)

\* What the admin typed, and the industries they put in or took out, stay until they change them;
\* exceptions are what they change while a page, a draft or a reload is on its way.
EntriesKept == TypedIsKept /\ IndustriesKept

\* A save sends what its admin touched and nothing else, and a startup is published with what the
\* form had when Publish was clicked.
SavesWhatWasSeen == UntouchedStays /\ PublishedAsSeen
=============================================================================
