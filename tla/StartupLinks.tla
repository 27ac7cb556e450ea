---------------------------- MODULE StartupLinks ----------------------------
(***************************************************************************)
(* Whom a startup is linked to, in its editor: founders, investors,        *)
(* batches and rounds with their participants.                             *)
(*                                                                         *)
(* Until there is a startup the links are kept in the form and go out with *)
(* its create; afterwards each change is a call of its own.  A picker      *)
(* looks a name up while it is typed, and creates a draft when there is no *)
(* such record.  Publishing may publish the linked drafts as well.         *)
(*                                                                         *)
(* Answers are handled in the closure of the render that sent their call:  *)
(* when the page has been replaced by the created record's, there is       *)
(* nothing left that they could change.                                    *)
(***************************************************************************)
EXTENDS Naturals, FiniteSets, SequencesExt

CONSTANTS
  Name,       \* names of founders, investors and batches
  Kind,       \* Kind[n]: what n names
  Ids,        \* ids of records, rounds among them
  First,      \* the name of the record that is there at first
  MaxCalls,   \* bound: calls under way at once
  MaxMoves,   \* bound: what the admin does
  Round,      \* what a round is named, and the id of one that is not stored yet
  None        \* no record, name, link, call, or list

Place == {"founder", "investor", "batch", "participant"}
Link == [to : Ids \cup {Round}, with : SUBSET Ids]
Entity == [name : Name \cup {Round}, status : {"draft", "published", "archived"}]
Calls == [kind : {"draft", "link", "unlink", "put", "round", "create", "publish", "read", "drafts"},
          page : {"new", "saved"}, name : Name \cup {None},
          place : Place \cup {"orphan", None}, link : Link \cup {None}, body : Seq(Link),
          stay : BOOLEAN, read : SUBSET Link, todo : SUBSET Ids, failed : BOOLEAN,
          state : {"sent", "done", "failed"}]

LinksAssumption ==
  /\ Kind \in [Name -> {"founder", "investor", "batch"}]
  /\ First \in Name /\ 1 \in Ids
  /\ Round \notin Name \cup Ids
  /\ MaxCalls \in Nat \ {0} /\ MaxMoves \in Nat
  /\ None \notin Name \cup Ids /\ None \notin Place \cup {"orphan", "draft", "published"}
  /\ None \notin Link /\ None \notin Entity /\ None \notin Calls
  /\ \A S \in SUBSET Ids : None # S

VARIABLES
  records,    \* records[i]: name and status of a record, or None
  links,      \* the links stored for the startup
  startup,    \* its status, or None
  saved,      \* the page is that of a stored startup
  local,      \* the links of one that is not: a sequence
  shown,      \* its links as the page last loaded them
  pending,    \* the pickers and the industries wait for a change
  box,        \* box[p]: a picker's text, and the options loaded for a text
  stint,      \* the founder whose years are being typed, or None
  dialog,     \* dialog[p]: the name that the dialog describing a draft starts from, or None
  round,      \* the round dialog: open, participants, waiting
  calls,      \* calls[i]: a call under way, or None
  nav,        \* the created startup's page is coming
  refresh,    \* the page is being loaded again
  moves,
  want,       \* history: what the admin added, and was not told to have failed
  unwant,     \* history: the records whose links the admin removed
  hasty       \* history: a link was changed while another change of it, or another page, was coming,
              \* or a draft submitted while another of its dialog was

db == <<records, links, startup>>
tab == <<saved, local, shown, pending>>
forms == <<box, stint, dialog, round>>
net == <<calls, nav, refresh>>
history == <<want, unwant, hasty>>
vars == <<db, tab, forms, net, moves, history>>

Picks(p) == IF p = "participant" THEN "investor" ELSE p
Slots == 1 .. MaxCalls

\* A link to a record; a round's participants hang on its own.
LinkTo(i) == [to |-> i, with |-> {}]
NameOf(i) == IF i = Round THEN Round ELSE records[i].name
Wish(name, with) == [name |-> name, with |-> {NameOf(i) : i \in with}]

links_ == IF saved THEN shown ELSE Range(local)

Page == IF saved THEN "saved" ELSE "new"
Replacing == ~saved /\ (nav \/ \E i \in Slots : calls[i] # None /\ calls[i].kind \in
                                 {"create", "publish", "read", "drafts"})

Free == {i \in Slots : calls[i] = None}
UnderWay(kinds) == \E i \in Slots \ Free : calls[i].kind \in kinds /\ calls[i].page = Page
saving == UnderWay({"create"})
busy == UnderWay({"publish", "read", "drafts"})

Call(kind) ==
  [kind |-> kind, page |-> Page, name |-> None, place |-> None, link |-> None, body |-> <<>>,
   stay |-> FALSE, read |-> {}, todo |-> {}, failed |-> FALSE, state |-> "sent"]

With(cs, call) ==
  [cs EXCEPT ![CHOOSE i \in Slots : cs[i] = None] = call]

Send(call) == Free # {} /\ calls' = With(calls, call)

Move == moves < MaxMoves /\ moves' = moves + 1

\* Dialogs are modal; below them nothing can be reached.
Modal == round.open \/ \E p \in Place : dialog[p] # None
Reachable(p) ==
  /\ \A q \in Place : dialog[q] = None
  /\ IF p = "participant" THEN round.open ELSE ~round.open
  /\ p = "founder" => stint = None

(***************************************************************************)
(* A picker.                                                               *)
(***************************************************************************)
Empty == [text |-> None, open |-> FALSE, seen |-> None, options |-> {}, load |-> None,
          loading |-> FALSE]

\* One has the focus; what another was loading is not waited for.
Focused(p, typed) ==
  [q \in Place |-> IF q = p THEN [box[q] EXCEPT !.text = typed, !.open = TRUE, !.load = None,
                                                !.loading = TRUE]
                   ELSE [box[q] EXCEPT !.open = FALSE, !.load = None]]

Type(p, n) ==
  /\ Move /\ Reachable(p) /\ (p # "participant" => ~pending)
  /\ Kind[n] = Picks(p)
  /\ box' = Focused(p, n)
  /\ UNCHANGED <<db, tab, stint, dialog, round, net, history>>

\* The server looks the name up: eight records at most, archived ones left out afterwards, and none
\* when it fails.
recordLoader(p) ==
  /\ box[p].open /\ box[p].loading /\ box[p].load = None
  /\ \E found \in SUBSET {i \in Ids : records[i] # None /\ records[i].name = box[p].text
                                       /\ records[i].status # "archived"} :
       box' = [box EXCEPT ![p].load = found]
  /\ UNCHANGED <<db, tab, stint, dialog, round, net, moves, history>>

Loaded(p) ==
  /\ box[p].load # None
  /\ box' = [box EXCEPT ![p] = [box[p] EXCEPT !.seen = box[p].text, !.options = box[p].load,
                                              !.load = None, !.loading = FALSE]]
  /\ UNCHANGED <<db, tab, stint, dialog, round, net, moves, history>>

options(p) == IF box[p].seen = box[p].text THEN box[p].options ELSE {}

\* Unless the name is among the options.  A batch is found by its program or by its label, never by
\* the two together, which are its name.
offerCreate(p) == box[p].text # None /\ ~box[p].loading /\ (options(p) = {} \/ p = "batch")

\* The founders' picker makes room for the years.
Chosen(p) ==
  [box EXCEPT ![p] = [@ EXCEPT !.text = None, !.open = FALSE, !.load = None]]

(***************************************************************************)
(* Adding and removing links.                                              *)
(***************************************************************************)
Crossed(to) ==
  \E i \in Slots \ Free : calls[i].kind \in {"link", "unlink"} /\ calls[i].link.to = to

Wanted(wish, to) ==
  /\ want' = want \cup {wish} /\ unwant' = unwant \ {to}
  /\ hasty' = (hasty \/ Replacing \/ Crossed(to))

\* Added to the form of the page that is there, or to what is stored, beside the calls cs.  A form
\* that is gone is added to in vain.
Add(cs, page, link) ==
  IF page = "new"
  THEN /\ local' = IF saved \/ (link \in Range(local) /\ link.to # Round
                                /\ Kind[NameOf(link.to)] = "batch")
                   THEN local ELSE Append(local, link)
       /\ calls' = cs /\ UNCHANGED pending
  ELSE /\ calls' = With(cs, [Call("link") EXCEPT !.page = "saved", !.link = link])
       /\ pending' = TRUE /\ UNCHANGED local

\* A participant is one of the round being typed, once.
Participate(i) == round' = [round EXCEPT !.with = @ \cup {i}]

\* One of the options is chosen.
Choose(p) ==
  /\ Move /\ Reachable(p) /\ box[p].open
  /\ box' = IF p = "founder" THEN [box EXCEPT ![p] = Empty] ELSE Chosen(p)
  /\ \E i \in options(p) :
       CASE p = "participant" ->
              Participate(i) /\ UNCHANGED <<stint, tab, calls, history>>
         [] p = "founder" ->
              stint' = i /\ UNCHANGED <<round, tab, calls, history>>
         [] OTHER ->
              /\ Free # {}
              /\ Add(calls, Page, LinkTo(i)) /\ Wanted(Wish(NameOf(i), {}), i)
              /\ UNCHANGED <<stint, round, saved, shown>>
  /\ UNCHANGED <<db, dialog, nav, refresh>>

\* Or what was typed is to be a draft: of a founder at once, of the others once they are described.
Create(p) ==
  /\ Move /\ Reachable(p) /\ box[p].open /\ offerCreate(p)
  /\ box' = Chosen(p)
  /\ IF p = "founder"
     THEN Send([Call("draft") EXCEPT !.name = box[p].text, !.place = p]) /\ UNCHANGED dialog
     ELSE dialog' = [dialog EXCEPT ![p] = box[p].text] /\ UNCHANGED calls
  /\ UNCHANGED <<db, tab, stint, round, nav, refresh, history>>

\* The drafts that a dialog of this page has sent.
Coming(p) ==
  {i \in Slots \ Free : calls[i].kind = "draft" /\ calls[i].place = p /\ calls[i].page = Page}

\* Under any name: the dialog only starts from what was typed.  Its button waits for the draft, the
\* Enter key does not.
SubmitDraft(p) ==
  /\ Move /\ dialog[p] # None
  /\ \E n \in Name :
       /\ Kind[n] = Picks(p)
       /\ Send([Call("draft") EXCEPT !.name = n, !.place = p])
       /\ IF p = "participant" THEN UNCHANGED <<want, hasty>>
          ELSE want' = want \cup {Wish(n, {})} /\ hasty' = (hasty \/ Replacing \/ Coming(p) # {})
  /\ UNCHANGED <<db, tab, forms, nav, refresh, unwant>>

\* What was sent goes on; the admin no longer counts on it.
CancelDraft(p) ==
  /\ dialog[p] # None
  /\ dialog' = [dialog EXCEPT ![p] = None]
  /\ want' = want \ {Wish(calls[i].name, {}) : i \in Coming(p)}
  /\ UNCHANGED <<moves, db, tab, box, stint, round, net, unwant, hasty>>

SubmitStint ==
  /\ Move /\ ~Modal /\ stint # None /\ ~pending /\ Free # {}
  /\ Add(calls, Page, LinkTo(stint)) /\ Wanted(Wish(NameOf(stint), {}), stint)
  /\ stint' = IF saved THEN stint ELSE None
  /\ UNCHANGED <<db, saved, shown, box, dialog, round, nav, refresh>>

CancelStint ==
  /\ ~Modal /\ stint # None
  /\ stint' = None
  /\ UNCHANGED <<moves, db, tab, box, dialog, round, net, history>>

\* The remove button of a link; that of a round is there only until it is stored.
RemoveLink ==
  /\ Move /\ ~Modal
  /\ \/ /\ saved /\ ~pending
        /\ \E link \in shown :
             /\ records[link.to].name # Round
             /\ Send([Call("unlink") EXCEPT !.link = link])
             /\ want' = want \ {Wish(NameOf(link.to), link.with)}
             /\ unwant' = unwant \cup {link.to}
             /\ hasty' = (hasty \/ Replacing \/ Crossed(link.to))
        /\ pending' = TRUE /\ UNCHANGED local
     \/ /\ ~saved
        /\ \E k \in DOMAIN local :
             /\ local' = RemoveAt(local, k)
             /\ want' = IF local[k] \in Range(RemoveAt(local, k)) THEN want
                        ELSE want \ {Wish(NameOf(local[k].to), local[k].with)}
             /\ unwant' = unwant
             /\ hasty' = (hasty \/ Replacing)
        /\ UNCHANGED <<calls, pending>>
  /\ UNCHANGED <<db, saved, shown, forms, nav, refresh>>

\* The industries are AdminEditor's; what they share with the links is that one waits for the other.
PutIndustries ==
  /\ Move /\ ~Modal /\ saved /\ ~pending
  /\ Send(Call("put")) /\ pending' = TRUE
  /\ UNCHANGED <<db, saved, local, shown, forms, nav, refresh, history>>

(***************************************************************************)
(* The round dialog.                                                       *)
(***************************************************************************)
OpenRound ==
  /\ Move /\ ~Modal /\ ~pending
  /\ round' = [round EXCEPT !.open = TRUE]
  /\ UNCHANGED <<db, tab, box, stint, dialog, net, history>>

\* Closed, with what was typed; its picker goes with it.
closed(waiting) ==
  /\ round' = [open |-> FALSE, with |-> {}, busy |-> waiting]
  /\ box' = [box EXCEPT !["participant"] = Empty]
  /\ dialog' = [dialog EXCEPT !["participant"] = None]

\* A draft that picker waits for will still take part in the next round.
Orphaned ==
  [i \in Slots |-> IF calls[i] # None /\ calls[i].place = "participant"
                   THEN [calls[i] EXCEPT !.place = "orphan"] ELSE calls[i]]

CloseRound ==
  /\ round.open /\ dialog["participant"] = None
  /\ closed(round.busy)
  /\ calls' = Orphaned
  /\ want' = IF round.busy THEN {w \in want : w.name # Round} ELSE want
  /\ UNCHANGED <<moves, db, tab, stint, nav, refresh, unwant, hasty>>

submit ==
  LET entry == [to |-> Round, with |-> round.with] IN
  /\ Move /\ round.open /\ dialog["participant"] = None /\ ~round.busy
  /\ Wanted(Wish(Round, round.with), None)
  /\ IF saved
     THEN /\ Send([Call("round") EXCEPT !.link = entry])
          /\ round' = [round EXCEPT !.busy = TRUE] /\ pending' = TRUE
          /\ UNCHANGED <<local, box, dialog>>
     ELSE /\ local' = Append(local, entry)
          /\ closed(round.busy)
          /\ calls' = Orphaned /\ UNCHANGED pending
  /\ UNCHANGED <<db, saved, shown, stint, nav, refresh>>

(***************************************************************************)
(* Saving a new startup, and publishing.                                   *)
(***************************************************************************)
\* A new startup is created with its links, in one request.
Save(stay) ==
  /\ Move /\ ~Modal /\ ~saving /\ ~busy /\ ~saved /\ ~nav
  /\ Send([Call("create") EXCEPT !.body = local, !.stay = stay])
  /\ UNCHANGED <<db, tab, forms, nav, refresh, history>>

Publish ==
  /\ Move /\ ~Modal /\ ~saving /\ ~busy /\ saved /\ startup = "draft"
  /\ Send(Call("publish"))
  /\ UNCHANGED <<db, tab, forms, nav, refresh, history>>

(***************************************************************************)
(* The server.                                                             *)
(***************************************************************************)
NewIds(rows) == {f \in [rows -> {k \in Ids : records[k] = None}] : IsInjective(f)}
Room(rows) == NewIds(rows) # {}
NewId(rows) == CHOOSE f \in NewIds(rows) : TRUE
Draft(n) == [name |-> n, status |-> "draft"]

\* The rounds of a new startup, each with an id of its own.
Rounds(body) == {k \in DOMAIN body : body[k].to = Round}
\* A bug: participants do not go out with their round.
StoredBare(body) ==
  {l \in Range(body) : l.to # Round} \cup {LinkTo(NewId(Rounds(body))[k]) : k \in Rounds(body)}

Stored(body) ==
  {l \in Range(body) : l.to # Round}
    \cup {[to |-> NewId(Rounds(body))[k], with |-> body[k].with] : k \in Rounds(body)}

\* The id of a draft or a round.
One == 1 .. 1
NextId == NewId(One)[1]

Apply(c) ==
  CASE c.kind = "draft" ->
         /\ Room(One) /\ records' = [records EXCEPT ![NextId] = Draft(c.name)]
         /\ UNCHANGED <<links, startup>>
    [] c.kind = "link" ->
         c.link \notin links /\ links' = links \cup {c.link} /\ UNCHANGED <<records, startup>>
    [] c.kind = "unlink" ->
         c.link \in links /\ links' = links \ {c.link} /\ UNCHANGED <<records, startup>>
    [] c.kind = "round" ->
         /\ Room(One) /\ records' = [records EXCEPT ![NextId] = Draft(Round)]
         /\ links' = links \cup {[c.link EXCEPT !.to = NextId]} /\ UNCHANGED startup
    [] c.kind = "create" ->
         /\ Room(Rounds(c.body))
         /\ Cardinality({k \in DOMAIN c.body : c.body[k].to # Round})
              = Cardinality({l \in Range(c.body) : l.to # Round})
         /\ links' = Stored(c.body) /\ startup' = "draft"
         /\ records' = [i \in Ids |->
              IF records[i] = None /\ \E l \in Stored(c.body) : l.to = i THEN Draft(Round)
              ELSE records[i]]
    [] c.kind = "publish" ->
         startup' = "published" /\ UNCHANGED <<records, links>>
    [] c.kind \in {"put", "read"} -> UNCHANGED db
    [] c.kind = "drafts" ->
         /\ records' = [records EXCEPT ![CHOOSE d \in c.todo : TRUE].status = "published"]
         /\ UNCHANGED <<links, startup>>

\* Done; the answer may be lost.  (A create whose answer is lost is AdminEditor's.)
Serve(i) ==
  LET c == calls[i] IN
  /\ c # None /\ c.state = "sent"
  /\ Apply(c)
  /\ \E arrives \in {TRUE, c.kind = "create"} :
       /\ calls' = [calls EXCEPT
            ![i].state = IF arrives THEN "done" ELSE "failed",
            ![i].link = IF c.kind = "draft" THEN LinkTo(NextId) ELSE c.link,
            ![i].read = IF c.kind = "read" /\ arrives THEN links ELSE c.read]
  /\ UNCHANGED <<tab, forms, nav, refresh, moves, history>>

Refuse(i) ==
  /\ calls[i] # None /\ calls[i].state = "sent"
  /\ calls' = [calls EXCEPT ![i].state = "failed"]
  /\ UNCHANGED <<db, tab, forms, nav, refresh, moves, history>>

(***************************************************************************)
(* Their answers.                                                          *)
(***************************************************************************)
Answered(i, kind) == calls[i] # None /\ calls[i].kind = kind /\ calls[i].state # "sent"
Without(i) == [calls EXCEPT ![i] = None]
Here(c) == c.page = Page

\* A failure is shown to the admin, who no longer counts on the link.
Told(wish) == want' = want \ {wish} /\ UNCHANGED <<unwant, hasty>>

\* A created draft is linked, or waits for its years, or takes part in the round; also one whose
\* dialog was cancelled, whatever was done to its link since.
AnswerDraft(i) ==
  LET c == calls[i] IN
  /\ Answered(i, "draft")
  /\ IF c.state = "done"
     THEN /\ dialog' = IF Here(c) /\ c.place \in Place THEN [dialog EXCEPT ![c.place] = None] ELSE dialog
          /\ CASE c.place \in {"participant", "orphan"} ->
                    /\ IF Here(c) THEN Participate(c.link.to) ELSE UNCHANGED round
                    /\ calls' = Without(i) /\ UNCHANGED <<box, stint, local, pending, history>>
               [] c.place = "founder" ->
                    /\ IF Here(c) THEN stint' = c.link.to /\ box' = [box EXCEPT !["founder"] = Empty]
                       ELSE UNCHANGED <<stint, box>>
                    /\ calls' = Without(i) /\ UNCHANGED <<round, local, pending, history>>
               [] OTHER ->
                    /\ Add(Without(i), c.page, c.link) /\ UNCHANGED <<box, stint, round>>
                    /\ unwant' = unwant \ {c.link.to}
                    /\ hasty' = (hasty \/ Crossed(c.link.to))
                    /\ UNCHANGED want
     ELSE /\ calls' = Without(i) /\ Told(Wish(c.name, {}))
          /\ UNCHANGED <<dialog, box, stint, round, local, pending>>
  /\ UNCHANGED <<db, saved, shown, nav, refresh, moves>>

\* The first answer lets the pickers go on, whatever else is under way.
call(i) ==
  LET c == calls[i] IN
  /\ \E kind \in {"link", "unlink", "put"} : Answered(i, kind)
  /\ calls' = Without(i)
  /\ pending' = (pending /\ ~Here(c))
  /\ refresh' = (refresh \/ c.state = "done")
  /\ stint' = IF Here(c) /\ c.kind = "link" /\ Kind[NameOf(c.link.to)] = "founder"
                 /\ c.state = "done" THEN None ELSE stint
  /\ IF c.state = "done" \/ c.kind = "put" THEN UNCHANGED <<want, unwant>>
     ELSE IF c.kind = "link" THEN want' = want \ {Wish(NameOf(c.link.to), {})} /\ UNCHANGED unwant
     ELSE unwant' = unwant \ {c.link.to} /\ UNCHANGED want
  /\ UNCHANGED <<db, saved, local, shown, box, dialog, round, nav, moves, hasty>>

AnswerRound(i) ==
  LET c == calls[i] IN
  /\ Answered(i, "round")
  /\ calls' = IF c.state = "done" THEN [Orphaned EXCEPT ![i] = None] ELSE Without(i)
  /\ pending' = FALSE
  /\ IF c.state = "done"
     THEN closed(FALSE) /\ refresh' = TRUE /\ UNCHANGED history
     ELSE /\ round' = [round EXCEPT !.busy = FALSE]
          /\ Told(Wish(Round, c.link.with)) /\ UNCHANGED <<box, dialog, refresh>>
  /\ UNCHANGED <<db, saved, local, shown, stint, nav, moves>>

\* Done: the page is that of the created startup, or is loaded again.
Followed(c) == nav' = (nav \/ c.page = "new") /\ refresh' = (refresh \/ c.page = "saved")

AnswerCreate(i) ==
  LET c == calls[i] IN
  /\ Answered(i, "create")
  /\ IF c.state = "done" /\ c.stay
     THEN /\ calls' = [calls EXCEPT ![i] = [Call("publish") EXCEPT !.page = c.page]]
          /\ UNCHANGED <<nav, refresh>>
     ELSE /\ calls' = Without(i)
          /\ IF c.state = "done" THEN Followed(c) ELSE UNCHANGED <<nav, refresh>>
  /\ UNCHANGED <<db, tab, forms, moves, history>>

\* A created startup that could not be published is opened all the same.  Linked drafts are
\* published unless the admin unticked that.
AnswerPublish(i) ==
  LET c == calls[i] IN
  /\ Answered(i, "publish")
  /\ \/ /\ c.state = "done"
        /\ calls' = [calls EXCEPT ![i] = [Call("read") EXCEPT !.page = c.page]]
        /\ UNCHANGED <<nav, refresh>>
     \/ /\ calls' = Without(i)
        /\ IF c.state = "done" \/ c.page = "new" THEN Followed(c) ELSE UNCHANGED <<nav, refresh>>
  /\ UNCHANGED <<db, tab, forms, moves, history>>

\* A bug: rounds are taken to follow their startup.
DraftPeople(list) ==
  {i \in UNION {{l.to} \cup l.with : l \in list} :
     records[i].status = "draft" /\ records[i].name # Round}

\* Whom a startup is linked to, and who takes part in its rounds, as far as they are drafts.
linkedDrafts(list) ==
  {i \in UNION {{l.to} \cup l.with : l \in list} : records[i].status = "draft"}

AnswerRead(i) ==
  LET c == calls[i]
      todo == linkedDrafts(c.read)
  IN
  /\ Answered(i, "read")
  /\ IF todo # {}
     THEN /\ calls' = [calls EXCEPT ![i] = [c EXCEPT !.kind = "drafts", !.todo = todo,
                                                     !.state = "sent"]]
          /\ UNCHANGED <<nav, refresh>>
     ELSE calls' = Without(i) /\ Followed(c)
  /\ UNCHANGED <<db, tab, forms, moves, history>>

\* One draft after the other, whatever becomes of them; failures are counted.
AnswerDrafts(i) ==
  LET c == calls[i]
      left == c.todo \ {CHOOSE d \in c.todo : TRUE}
  IN
  /\ Answered(i, "drafts")
  /\ IF left # {}
     THEN /\ calls' = [calls EXCEPT ![i] = [c EXCEPT !.todo = left, !.state = "sent",
                                                     !.failed = @ \/ c.state = "failed"]]
          /\ UNCHANGED <<nav, refresh>>
     ELSE calls' = Without(i) /\ Followed(c)
  /\ UNCHANGED <<db, tab, forms, moves, history>>

Reload ==
  /\ saved /\ refresh
  /\ shown' = links /\ refresh' = FALSE
  /\ UNCHANGED <<db, saved, local, pending, forms, calls, nav, moves, history>>

NoForms ==
  [box |-> [p \in Place |-> Empty], dialog |-> [p \in Place |-> None],
   round |-> [open |-> FALSE, with |-> {}, busy |-> FALSE]]

\* The created startup's page is another one: its editor starts anew.
Open ==
  /\ nav
  /\ saved' = TRUE /\ shown' = links /\ local' = <<>> /\ nav' = FALSE /\ pending' = FALSE
  /\ box' = NoForms.box /\ dialog' = NoForms.dialog
  /\ round' = NoForms.round /\ stint' = None
  /\ UNCHANGED <<db, calls, refresh, moves, history>>

(***************************************************************************)
(* The specification.                                                      *)
(***************************************************************************)
Init ==
  /\ saved \in BOOLEAN
  /\ \E status \in {"draft", "archived"} :
       records = [i \in Ids |-> IF i = 1 THEN [name |-> First, status |-> status] ELSE None]
  /\ links = IF saved THEN {LinkTo(1)} ELSE {}
  /\ startup = IF saved THEN "draft" ELSE None
  /\ shown = links /\ local = <<>> /\ pending = FALSE
  /\ box = NoForms.box /\ dialog = NoForms.dialog
  /\ round = NoForms.round /\ stint = None
  /\ calls = [i \in Slots |-> None] /\ nav = FALSE /\ refresh = FALSE /\ moves = 0
  /\ want = {} /\ unwant = {} /\ hasty = FALSE

Admin ==
  \/ \E p \in Place :
       \/ \E n \in Name : Type(p, n)
       \/ Choose(p) \/ Create(p) \/ SubmitDraft(p) \/ CancelDraft(p)
  \/ SubmitStint \/ CancelStint \/ RemoveLink \/ PutIndustries
  \/ OpenRound \/ CloseRound \/ submit
  \/ Publish \/ \E stay \in BOOLEAN : Save(stay)

Browser ==
  \/ \E p \in Place : recordLoader(p) \/ Loaded(p)
  \/ \E i \in Slots :
       \/ Serve(i) \/ Refuse(i)
       \/ AnswerDraft(i) \/ call(i) \/ AnswerRound(i)
       \/ AnswerCreate(i) \/ AnswerPublish(i) \/ AnswerRead(i) \/ AnswerDrafts(i)
  \/ Reload \/ Open

Next == Admin \/ Browser

Spec == Init /\ [][Next]_vars

-----------------------------------------------------------------------------
(***************************************************************************)
(* Properties.                                                             *)
(***************************************************************************)

\* A stored startup has every link its admin added and none they removed, unless they were told
\* that it failed: links of its form that went out with its create, drafts made on the way, calls
\* that overlapped.  A link that goes with a draft is to some record of the name that was submitted.
\* Changes made while the created startup's page is coming may be lost, two changes of one link that
\* overlap may be served in either order, and a draft that comes after its dialog was cancelled is
\* linked, also when its link was removed meanwhile.  The first of two drafts of one dialog closes
\* it, and the second may come too late for the create.
LinksAsChosen ==
  saved /\ ~refresh /\ Free = Slots /\ ~hasty =>
    /\ \A w \in want : \E l \in links : w = Wish(NameOf(l.to), l.with)
    /\ \A l \in links : l.to \notin unwant

\* Once publishing ends without counting a failure, no record that the published startup was
\* linked to, and none that took part in a round of it, is a draft.  (Where its links could not be
\* read, nothing is published and nothing said: publishLinkedDrafts takes that for no failures.)
PublishedTogether ==
  [][\A i \in Slots :
       /\ calls[i] # None /\ calls[i].kind \in {"read", "drafts"} /\ calls'[i] = None
       /\ ~calls[i].failed /\ calls[i].state = "done"
       => \A l \in calls[i].read : \A j \in {l.to} \cup l.with : records[j].status # "draft"]_vars
=============================================================================
