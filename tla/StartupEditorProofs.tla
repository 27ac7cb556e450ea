------------------------ MODULE StartupEditorProofs ------------------------
(***************************************************************************)
(* Why the editor neither loses nor rewrites what its admins entered, for  *)
(* any number of startups, fields, industries, records, calls and admins:  *)
(* first the fields and industries (AdminEditor), then the links           *)
(* (StartupLinks).                                                         *)
(*                                                                         *)
(* Fields.  What is invariant is said in five layers, each of a page and   *)
(* of every call under way: whose record it is about (Routes), what it may *)
(* rewrite (Touches), what a page that is coming will show (Keeps), what a *)
(* form that is not dirty knows to be stored (Stores), and what the list   *)
(* last loaded or sent knows (Alone and Listed).                           *)
(*                                                                         *)
(* Links.  One save or publish is under way on a page that is not stored   *)
(* (Pages), and, unless a change crossed another, one draft is awaited for *)
(* each dialog (DialogsWait).  So every link the admin counts on is        *)
(* stored, in the form and the create that took it along, or in a call or  *)
(* a draft on its way (Wishes).                                            *)
(***************************************************************************)
EXTENDS StartupEditor, SequenceTheorems, TLAPS

\* A call that has made a record, whose page is coming.
Coming(c) == c.page = New /\ c.record # New

\* Routes: a page, and each call, is about a record that is there.  Nothing else knows of a record
\* whose page is coming.
PageRoutes ==
  /\ page \in Record => store[page] # None
  /\ page = New => reload = None
  /\ nav # None => store[nav] # None /\ nav # page
CallRoutes(c) ==
  /\ c.page \in Record => c.record = c.page /\ store[c.page] # None /\ page # New
  /\ c.kind \in {"put", "link"} => c.page \in Record
  /\ c.kind = "publish" \/ c.state = "done" => c.record \in Record
  /\ nav # None => c.page # nav
  /\ Coming(c) => store[c.record] # None /\ c.record # page /\ c.record # nav
CallsApart(c, d) ==
  Coming(c) => d.page # c.record /\ (Coming(d) => d.record # c.record)
Routes ==
  /\ PageRoutes
  /\ \A i \in Ids : calls[i] # None => CallRoutes(calls[i])
  /\ \A i, j \in Ids : i # j /\ calls[i] # None /\ calls[j] # None => CallsApart(calls[i], calls[j])

\* Touches: what was never typed in is as the form got it, and no save sends it.
CallTouches(c) ==
  /\ c.late \subseteq typed
  /\ c.kind = "save" /\ c.state = "sent" => c.record = c.page
  /\ c.kind = "save" /\ c.page \in Record => c.only \subseteq typed
  /\ c.page = page => \A f \in Field \ c.late : c.values[f] = values[f]
Touches ==
  /\ \A f \in Field \ typed : values[f] = baseline[f]
  /\ \A i \in Ids : calls[i] # None => CallTouches(calls[i])

\* Keeps: a page that is coming will show what was typed, but for what was typed since.
Mine(vs) == \A f \in Field : mine[f] # None => vs[f] = mine[f] \/ f \in raced \cup foreign
Wanted(list) == \A i \in Industry \ foreign : want[i] # None => (want[i] = "in" <=> i \in list)
CallKeeps(c) == c.page = New =>
  /\ Mine(c.values)
  /\ ~hasty => Wanted(c.list)
  /\ Coming(c) => /\ \A f \in Field \ foreign : store[c.record].fields[f] = c.values[f]
                  /\ \A i \in Industry \ foreign : i \in store[c.record].industries <=> i \in c.list
Drafted ==
  /\ draft # None => /\ draft.chosen \subseteq draft.ticked
                     /\ \A f \in draft.ticked \ draft.chosen : values[f] = 0 \/ f \in raced
  /\ \A fetch \in fetching : \A f \in fetch.ticked : values[f] = 0 \/ f \in raced
Keeps ==
  /\ TypedIsKept
  /\ nav # None => Mine(store[nav].fields) /\ (~hasty => Wanted(store[nav].industries))
  /\ page = New /\ ~hasty => Wanted(shown.industries)
  /\ Drafted
  /\ \A i \in Ids : calls[i] # None => CallKeeps(calls[i])

\* Stores: while the editor is sure, one save at a time is under way, and it and the baseline say
\* what is stored.
Saves(c) == c.kind = "save" /\ c.page = page
CallStores(c) ==
  /\ Saves(c) => saving
  /\ c.kind = "save" /\ c.page \in Record =>
       \A f \in Field \ foreign :
         f \notin c.only \/ c.state = "done" => store[c.page].fields[f] = c.values[f]
  /\ c.kind = "publish" =>
       \A f \in Field \ (foreign \cup c.late) : store[c.record].fields[f] = c.values[f]
CallsAgree(c, d) ==
  /\ c.kind = "save" => d.kind # "save"
  /\ c.kind = "publish" /\ d.kind = "save" /\ c.page = d.page /\ c.page \in Record =>
       \A f \in d.only : f \in c.late \/ d.values[f] = c.values[f]
Stores == ~unsure =>
  /\ page \in Record =>
       \/ \A f \in Field \ foreign : store[page].fields[f] = baseline[f]
       \/ \E i \in Ids : calls[i] # None /\ Saves(calls[i]) /\ calls[i].state = "done"
  /\ \A i \in Ids : calls[i] # None => CallStores(calls[i])
  /\ \A i, j \in Ids : i # j /\ calls[i] # None /\ calls[j] # None => CallsAgree(calls[i], calls[j])

\* Lists: while nobody was hasty, the list as last loaded, or as last sent, is what was wanted.
Puts(c) == c.kind = "put" /\ c.page = page
CallLists(c) == Puts(c) /\ c.state # "failed" =>
  /\ Wanted(c.list)
  /\ c.state = "done" => Wanted(store[page].industries)
Putting == \E i \in Ids : calls[i] # None /\ Puts(calls[i])
Alone == ~hasty =>
  \A i, j \in Ids : i # j /\ calls[i] # None /\ calls[j] # None => ~(Puts(calls[i]) /\ Puts(calls[j]))
Listed == ~unsure /\ ~hasty =>
  /\ ~Putting /\ page \in Record => Wanted(store[page].industries)
  /\ ~Putting /\ reload = None => Wanted(shown.industries)
  /\ ~Putting /\ reload # None /\ reload.read => Wanted(reload.industries)
  /\ \A i \in Ids : calls[i] # None => CallLists(calls[i])

IInv == TypeOK /\ Routes /\ Touches /\ Keeps /\ Stores /\ Alone /\ Listed

LEMMA Nulls ==
  /\ New \notin Record /\ None \notin Record
  /\ None \notin Startups /\ None \notin Lists /\ None \notin Drafts /\ None \notin Calls
  /\ Existing \subseteq Record /\ Field \cap Industry = {}
  BY EditorAssumption, NoneAssumption

(***************************************************************************)
(* What becomes of the calls.                                              *)
(***************************************************************************)

\* One of them is put in, changed or taken out.
LEMMA Replaced ==
  ASSUME TypeOK, NEW i \in Ids, NEW c \in Calls \cup {None}, calls' = [calls EXCEPT ![i] = c]
  PROVE  /\ calls' \in [1 .. MaxCalls -> Calls \cup {None}]
         /\ calls'[i] = c /\ \A j \in Ids \ {i} : calls'[j] = calls[j]
  BY DEF TypeOK, Ids

\* All of them are older than what is typed now.
LEMMA Aged ==
  ASSUME TypeOK, NEW F \in SUBSET Field, calls' = Later(F)
  PROVE  /\ calls' \in [1 .. MaxCalls -> Calls \cup {None}]
         /\ \A i \in Ids : calls[i] = None => calls'[i] = None
         /\ \A i \in Ids : calls[i] # None =>
              /\ calls'[i] # None
              /\ calls'[i].kind = calls[i].kind /\ calls'[i].page = calls[i].page
              /\ calls'[i].record = calls[i].record /\ calls'[i].values = calls[i].values
              /\ calls'[i].only = calls[i].only /\ calls'[i].list = calls[i].list
              /\ calls'[i].stay = calls[i].stay /\ calls'[i].state = calls[i].state
              /\ calls'[i].late = calls[i].late \cup F
<1>1. ASSUME NEW c \in Calls
      PROVE  LET d == [c EXCEPT !.late = @ \cup F] IN
             /\ d \in Calls
             /\ d.kind = c.kind /\ d.page = c.page /\ d.record = c.record /\ d.values = c.values
             /\ d.only = c.only /\ d.list = c.list /\ d.stay = c.stay /\ d.state = c.state
             /\ d.late = c.late \cup F
  BY DEF Calls
<1> DEFINE older(c) == [c EXCEPT !.late = @ \cup F]
<1>2. calls' = [i \in Ids |-> IF calls[i] = None THEN None ELSE older(calls[i])]
  BY DEF Later
<1>3. \A c \in Calls : /\ older(c) \in Calls
             /\ older(c).kind = c.kind /\ older(c).page = c.page /\ older(c).record = c.record
             /\ older(c).values = c.values /\ older(c).only = c.only /\ older(c).list = c.list
             /\ older(c).stay = c.stay /\ older(c).state = c.state
             /\ older(c).late = c.late \cup F
  BY <1>1
<1> HIDE DEF older
<1>4. \A i \in Ids : calls[i] # None => calls[i] \in Calls
  BY DEF TypeOK, Ids
<1> QED
  BY <1>2, <1>3, <1>4, Nulls DEF Ids

\* A call that is made now.
LEMMA Made ==
  ASSUME TypeOK, NEW kind \in {"save", "put", "link", "publish"}
  PROVE  /\ Call(kind) \in Calls /\ Call(kind).kind = kind
         /\ Call(kind).page = page /\ Call(kind).record = page /\ Call(kind).values = values
         /\ Call(kind).only = {} /\ Call(kind).list = {} /\ Call(kind).stay = FALSE
         /\ Call(kind).state = "sent" /\ Call(kind).late = {}
  BY DEF Call, Calls, TypeOK

LEMMA Sent ==
  ASSUME TypeOK, NEW c \in Calls, Free # {}, Send(c)
  PROVE  \E i \in Ids : calls[i] = None /\ calls' = [calls EXCEPT ![i] = c]
<1> DEFINE i == CHOOSE n \in Free : TRUE
<1>1. i \in Free
  OBVIOUS
<1> QED
  BY <1>1 DEF Send, Free

LEMMA SaveSent ==
  ASSUME TypeOK, NEW stay \in BOOLEAN, save(stay)
  PROVE  \E i \in Ids, c \in Calls :
           /\ calls[i] = None /\ calls' = [calls EXCEPT ![i] = c]
           /\ c.kind = "save" /\ c.page = page /\ c.record = page /\ c.values = values
           /\ c.only = prepare /\ c.stay = stay /\ c.state = "sent" /\ c.late = {}
           /\ c.list = IF page = New THEN shown.industries ELSE {}
<1> DEFINE list == IF page = New THEN shown.industries ELSE {}
           d == Call("save")
           c == [d EXCEPT !.only = prepare, !.stay = stay, !.list = list]
<1>1. prepare \subseteq Field /\ list \subseteq Industry
  BY DEF TypeOK, prepare, changedFields, Lists
<1>2. /\ d \in Calls /\ d.kind = "save" /\ d.page = page /\ d.record = page /\ d.values = values
      /\ d.state = "sent" /\ d.late = {}
  BY Made
<1>3. Free # {} /\ Send(c)
  BY DEF save
<1> HIDE DEF d, list
<1>4. /\ c \in Calls /\ c.kind = "save" /\ c.page = page /\ c.record = page /\ c.values = values
      /\ c.only = prepare /\ c.stay = stay /\ c.state = "sent" /\ c.late = {} /\ c.list = list
  BY <1>1, <1>2 DEF Calls
<1> HIDE DEF c
<1> QED
  BY <1>3, <1>4, Sent DEF list

\* What serving calls[i] does to its record r, which becomes s, and to the call, which becomes d.
ServedAs(i, r, s, d) ==
  /\ calls[i] # None /\ calls[i].state = "sent"
  /\ store' = [store EXCEPT ![r] = s] /\ calls' = [calls EXCEPT ![i] = d]
  /\ d.kind = calls[i].kind /\ d.page = calls[i].page /\ d.record = r
  /\ d.values = calls[i].values /\ d.only = calls[i].only /\ d.list = calls[i].list
  /\ d.stay = calls[i].stay /\ d.late = calls[i].late
  /\ d.state \in {"done", "failed"} /\ (unsure' <=> unsure \/ d.state = "failed")
  /\ calls[i].record = New =>
       /\ store[r] = None /\ d.kind = "save" /\ d.page = New
       /\ s.fields = d.values /\ s.industries = d.list
  /\ calls[i].record # New =>
       /\ r = calls[i].record /\ store[r] # None
       /\ \A f \in Field : s.fields[f] = IF d.kind = "save" /\ f \in d.only THEN d.values[f]
                                         ELSE store[r].fields[f]
       /\ s.industries = IF d.kind = "put" THEN d.list ELSE store[r].industries

LEMMA Served ==
  ASSUME TypeOK, Routes, NEW i \in Ids, Serve(i)
  PROVE  \E r \in Record, s \in Startups, d \in Calls : ServedAs(i, r, s, d)
<1> DEFINE c == calls[i]
<1>1. c # None /\ c \in Calls /\ c.state = "sent" /\ CallRoutes(c)
  BY DEF Serve, TypeOK, Routes, Ids
<1>2. PICK r \in Record, arrives \in BOOLEAN :
        /\ IF c.record = New THEN store[r] = None ELSE r = c.record
        /\ store' = [store EXCEPT ![r] = Apply(c, r)]
        /\ calls' = [calls EXCEPT ![i].state = IF arrives THEN "done" ELSE "failed", ![i].record = r]
        /\ unsure' = (unsure \/ ~arrives)
  BY DEF Serve
<1> DEFINE s == Apply(c, r)
           d == [[c EXCEPT !.state = IF arrives THEN "done" ELSE "failed"] EXCEPT !.record = r]
<1>3. calls' = [calls EXCEPT ![i] = d]
  BY <1>2 DEF TypeOK, Ids
<1>4. /\ d \in Calls /\ d.kind = c.kind /\ d.page = c.page /\ d.record = r
      /\ d.values = c.values /\ d.only = c.only /\ d.list = c.list /\ d.stay = c.stay /\ d.late = c.late
      /\ d.state = IF arrives THEN "done" ELSE "failed"
  BY <1>1 DEF Calls
<1>5. CASE c.record = New
  <2>1. c.kind = "save" /\ c.page = New
    BY <1>1, <1>5, Nulls DEF CallRoutes, Calls
  <2>2. s = [fields |-> c.values, industries |-> c.list, status |-> "draft"]
    BY <1>5, <2>1 DEF Apply
  <2>3. s \in Startups /\ s.fields = c.values /\ s.industries = c.list
    BY <1>1, <2>2 DEF Startups, Status, Calls
  <2>4. store' = [store EXCEPT ![r] = s]
    BY <1>2
  <2> HIDE DEF d, s
  <2>5. ServedAs(i, r, s, d)
    BY <1>1, <1>2, <1>3, <1>4, <1>5, <2>1, <2>3, <2>4 DEF ServedAs
  <2> QED
    BY <1>4, <2>3, <2>5
<1>6. CASE c.record # New
  <2>1. r = c.record /\ store[r] # None /\ store[r] \in Startups
    BY <1>1, <1>2, <1>6, Nulls DEF CallRoutes, Coming, Calls, TypeOK
  <2>2. c.kind \in {"save", "put", "link", "publish"} /\ c.values \in [Field -> Values] /\ c.list \subseteq Industry
    BY <1>1 DEF Calls
  <2>3. /\ s \in Startups
        /\ \A f \in Field : s.fields[f] = IF c.kind = "save" /\ f \in c.only THEN c.values[f]
                                          ELSE store[r].fields[f]
        /\ s.industries = IF c.kind = "put" THEN c.list ELSE store[r].industries
    <3>1. CASE c.kind = "save"
      <4> DEFINE fs == [f \in Field |-> IF f \in c.only THEN c.values[f] ELSE store[r].fields[f]]
      <4>1. s = [store[r] EXCEPT !.fields = fs]
        BY <1>6, <3>1 DEF Apply
      <4>2. fs \in [Field -> Values]
        BY <2>1, <2>2 DEF Startups
      <4>3. \A f \in Field : fs[f] = IF f \in c.only THEN c.values[f] ELSE store[r].fields[f]
        OBVIOUS
      <4> HIDE DEF fs
      <4>4. s \in Startups /\ s.fields = fs /\ s.industries = store[r].industries
        BY <2>1, <4>1, <4>2 DEF Startups
      <4> QED
        BY <3>1, <4>3, <4>4
    <3>2. CASE c.kind = "put"
      <4>1. s = [store[r] EXCEPT !.industries = c.list]
        BY <3>2 DEF Apply
      <4>2. s \in Startups /\ s.fields = store[r].fields /\ s.industries = c.list
        BY <2>1, <2>2, <4>1 DEF Startups
      <4> QED
        BY <3>2, <4>2
    <3>3. CASE c.kind = "publish"
      <4>1. s = [store[r] EXCEPT !.status = "published"]
        BY <3>3 DEF Apply
      <4>2. s \in Startups /\ s.fields = store[r].fields /\ s.industries = store[r].industries
        BY <2>1, <4>1 DEF Startups, Status
      <4> QED
        BY <3>3, <4>2
    <3>4. CASE c.kind = "link"
      BY <2>1, <3>4 DEF Apply
    <3> QED
      BY <2>2, <3>1, <3>2, <3>3, <3>4
  <2>4. store' = [store EXCEPT ![r] = s]
    BY <1>2
  <2> HIDE DEF d, s
  <2>5. ServedAs(i, r, s, d)
    BY <1>1, <1>2, <1>3, <1>4, <1>6, <2>1, <2>3, <2>4, Nulls DEF ServedAs
  <2> QED
    BY <1>4, <2>3, <2>5
<1> QED
  BY <1>5, <1>6

\* A save that is answered and is to be published: its call is made of it.
LEMMA Continued ==
  ASSUME TypeOK, NEW i \in Ids, calls[i] # None,
         calls' = [calls EXCEPT ![i] = [calls[i] EXCEPT !.kind = "publish", !.state = "sent"]]
  PROVE  \E d \in Calls :
           /\ calls' = [calls EXCEPT ![i] = d]
           /\ d.kind = "publish" /\ d.state = "sent" /\ d.page = calls[i].page
           /\ d.record = calls[i].record /\ d.values = calls[i].values /\ d.only = calls[i].only
           /\ d.list = calls[i].list /\ d.stay = calls[i].stay /\ d.late = calls[i].late
<1>1. calls[i] \in Calls
  BY DEF TypeOK, Ids
<1> DEFINE d == [calls[i] EXCEPT !.kind = "publish", !.state = "sent"]
<1>2. /\ d \in Calls /\ d.kind = "publish" /\ d.state = "sent" /\ d.page = calls[i].page
      /\ d.record = calls[i].record /\ d.values = calls[i].values /\ d.only = calls[i].only
      /\ d.list = calls[i].list /\ d.stay = calls[i].stay /\ d.late = calls[i].late
  BY <1>1 DEF Calls
<1> HIDE DEF d
<1> QED
  BY <1>2 DEF d

\* A call that is refused.
LEMMA Refused ==
  ASSUME TypeOK, NEW i \in Ids, Refuse(i)
  PROVE  \E d \in Calls :
           /\ calls[i] # None /\ calls[i].state = "sent"
           /\ calls' = [calls EXCEPT ![i] = d]
           /\ d.kind = calls[i].kind /\ d.state = "failed" /\ d.page = calls[i].page
           /\ d.record = calls[i].record /\ d.values = calls[i].values /\ d.only = calls[i].only
           /\ d.list = calls[i].list /\ d.stay = calls[i].stay /\ d.late = calls[i].late
<1>1. calls[i] \in Calls
  BY DEF TypeOK, Ids, Refuse
<1> DEFINE d == [calls[i] EXCEPT !.state = "failed"]
<1>2. /\ d \in Calls /\ d.kind = calls[i].kind /\ d.state = "failed" /\ d.page = calls[i].page
      /\ d.record = calls[i].record /\ d.values = calls[i].values /\ d.only = calls[i].only
      /\ d.list = calls[i].list /\ d.stay = calls[i].stay /\ d.late = calls[i].late
  BY <1>1 DEF Calls
<1>3. calls' = [calls EXCEPT ![i] = d]
  BY DEF Refuse, TypeOK, Ids
<1> HIDE DEF d
<1> QED
  BY <1>2, <1>3 DEF Refuse

\* The two buttons: a save, or the publication of a form that is not dirty.
LEMMA Clicked ==
  ASSUME TypeOK, Submit \/ Publish
  PROVE  /\ UNCHANGED <<store, page, form, shown, pending, fetching, draft, nav, reload, others,
                        typed, mine, raced, foreign, want, hasty>>
         /\ moves' \in Nat
         /\ \/ \E stay \in BOOLEAN : save(stay)
            \/ /\ page \in Record /\ values = baseline /\ saving = FALSE
               /\ Free # {} /\ Send(Call("publish")) /\ UNCHANGED <<saving, unsure>>
<1>1. moves' \in Nat
  <2>1. Move
    BY DEF Submit, Publish
  <2> QED
    BY <2>1 DEF Move, TypeOK
<1>2. CASE Submit
  <2>1. save(FALSE)
    BY <1>2 DEF Submit
  <2> QED
    BY <1>1, <1>2, <2>1 DEF Submit
<1>3. CASE Publish
  <2>1. saving = FALSE
    BY <1>3 DEF Publish, disabled, TypeOK
  <2>2. CASE dirty \/ page = New
    <3>1. save(TRUE)
      BY <1>3, <2>2 DEF Publish
    <3> QED
      BY <1>1, <1>3, <3>1 DEF Publish
  <2>3. CASE ~dirty /\ page # New
    BY <1>1, <1>3, <2>1, <2>3 DEF Publish, dirty, TypeOK
  <2> QED
    BY <2>2, <2>3
<1> QED
  BY <1>2, <1>3

LEMMA PublishSent ==
  ASSUME TypeOK, Free # {}, Send(Call("publish"))
  PROVE  \E i \in Ids, c \in Calls :
           /\ calls[i] = None /\ calls' = [calls EXCEPT ![i] = c]
           /\ c.kind = "publish" /\ c.page = page /\ c.record = page /\ c.values = values
           /\ c.state = "sent" /\ c.late = {}
<1>1. Call("publish") \in Calls
  BY Made
<1>2. PICK i \in Ids : calls[i] = None /\ calls' = [calls EXCEPT ![i] = Call("publish")]
  BY <1>1, Sent
<1> QED
  BY <1>2, Made

LEMMA PutSent ==
  ASSUME TypeOK, NEW next \in SUBSET Industry, PutList(next)
  PROVE  \E i \in Ids, c \in Calls :
           /\ calls[i] = None /\ calls' = [calls EXCEPT ![i] = c]
           /\ c.kind = "put" /\ c.page = page /\ c.record = page /\ c.values = values
           /\ c.list = next /\ c.state = "sent" /\ c.late = {}
<1> DEFINE d == Call("put")
           c == [d EXCEPT !.list = next]
<1>1. d \in Calls /\ d.kind = "put" /\ d.page = page /\ d.record = page /\ d.values = values
      /\ d.state = "sent" /\ d.late = {}
  BY Made
<1>2. Free # {} /\ Send(c)
  BY DEF PutList
<1> HIDE DEF d
<1>3. c \in Calls /\ c.kind = "put" /\ c.page = page /\ c.record = page /\ c.values = values
      /\ c.list = next /\ c.state = "sent" /\ c.late = {}
  BY <1>1 DEF Calls
<1> HIDE DEF c
<1> QED
  BY <1>2, <1>3, Sent

LEMMA LinkSent ==
  ASSUME TypeOK, ChangeLink
  PROVE  /\ \E i \in Ids, c \in Calls :
              /\ calls[i] = None /\ calls' = [calls EXCEPT ![i] = c]
              /\ c.kind = "link" /\ c.page = page /\ c.record = page /\ c.values = values
              /\ c.state = "sent" /\ c.late = {}
         /\ page \in Record /\ pending' = TRUE /\ moves' \in Nat
         /\ UNCHANGED <<store, page, form, shown, saving, fetching, draft, nav, reload, others, history>>
<1>1. Call("link") \in Calls /\ Free # {} /\ Send(Call("link"))
  BY Made DEF ChangeLink
<1>2. PICK i \in Ids : calls[i] = None /\ calls' = [calls EXCEPT ![i] = Call("link")]
  BY <1>1, Sent
<1>3. page \in Record /\ moves' \in Nat
  BY DEF ChangeLink, TypeOK, Move
<1> QED
  BY <1>2, <1>3, Made DEF ChangeLink

\* The list of industries that is asked for is one.
LEMMA Choosing ==
  ASSUME TypeOK, ChooseIndustries
  PROVE  \E next \in SUBSET Industry : setIndustries(next)
<1>1. shown.industries \subseteq Industry
  BY DEF TypeOK, Lists
<1>2. PICK i \in Industry : \/ setIndustries(shown.industries \cup {i})
                            \/ i \in shown.industries /\ setIndustries(shown.industries \ {i})
  BY DEF ChooseIndustries
<1>3. shown.industries \cup {i} \in SUBSET Industry /\ shown.industries \ {i} \in SUBSET Industry
  BY <1>1
<1> QED
  BY <1>2, <1>3

\* What another admin's edit leaves of a startup.
LEMMA Edited ==
  ASSUME TypeOK, NEW r \in Record, OtherEdit(r)
  PROVE  /\ store[r] # None /\ others' \in Nat /\ foreign \subseteq foreign' /\ foreign' \subseteq Field \cup Industry
         /\ UNCHANGED <<tab, calls, moves, typed, mine, raced, unsure, want, hasty>>
         /\ \E s \in Startups : /\ store' = [store EXCEPT ![r] = s]
                                /\ \A f \in Field \ foreign' : s.fields[f] = store[r].fields[f]
                                /\ \A i \in Industry \ foreign' :
                                     i \in s.industries <=> i \in store[r].industries
<1>1. /\ store[r] # None /\ others' \in Nat
      /\ UNCHANGED <<tab, calls, moves, typed, mine, raced, unsure, want, hasty>>
  BY DEF OtherEdit, TypeOK
<1>2. store[r] \in Startups
  BY <1>1 DEF TypeOK
<1>3. ASSUME NEW f \in Field, NEW v \in Values,
             store' = [store EXCEPT ![r].fields[f] = v], foreign' = foreign \cup {f}
      PROVE  \E s \in Startups : /\ store' = [store EXCEPT ![r] = s]
                                 /\ \A g \in Field \ foreign' : s.fields[g] = store[r].fields[g]
                                 /\ s.industries = store[r].industries
  <2> DEFINE fs == [store[r].fields EXCEPT ![f] = v]
             s == [store[r] EXCEPT !.fields = fs]
  <2>1. fs \in [Field -> Values] /\ \A g \in Field \ {f} : fs[g] = store[r].fields[g]
    BY <1>2 DEF Startups
  <2>2. store' = [store EXCEPT ![r] = s]
    BY <1>3
  <2> HIDE DEF fs
  <2>3. s \in Startups /\ s.fields = fs /\ s.industries = store[r].industries
    BY <1>2, <2>1 DEF Startups
  <2> HIDE DEF s
  <2> QED
    BY <1>3, <2>1, <2>2, <2>3
<1>4. ASSUME NEW i \in Industry,
             store' = [store EXCEPT ![r].industries = (@ \ {i}) \cup ({i} \ @)],
             foreign' = foreign \cup {i}
      PROVE  \E s \in Startups : /\ store' = [store EXCEPT ![r] = s]
                                 /\ s.fields = store[r].fields
                                 /\ \A k \in Industry \ foreign' :
                                      k \in s.industries <=> k \in store[r].industries
  <2> DEFINE is == (store[r].industries \ {i}) \cup ({i} \ store[r].industries)
             s == [store[r] EXCEPT !.industries = is]
  <2>1. is \subseteq Industry /\ \A k \in Industry \ {i} : k \in is <=> k \in store[r].industries
    BY <1>2 DEF Startups
  <2>2. store' = [store EXCEPT ![r] = s]
    BY <1>4
  <2> HIDE DEF is
  <2>3. s \in Startups /\ s.industries = is /\ s.fields = store[r].fields
    BY <1>2, <2>1 DEF Startups
  <2> HIDE DEF s
  <2> QED
    BY <1>4, <2>1, <2>2, <2>3
<1>5. \/ \E f \in Field, v \in Values :
           store' = [store EXCEPT ![r].fields[f] = v] /\ foreign' = foreign \cup {f}
      \/ \E i \in Industry : /\ store' = [store EXCEPT ![r].industries = (@ \ {i}) \cup ({i} \ @)]
                             /\ foreign' = foreign \cup {i}
  BY DEF OtherEdit
<1>6. foreign \subseteq foreign' /\ foreign' \subseteq Field \cup Industry
  BY <1>5 DEF TypeOK
<1> QED
  BY <1>1, <1>3, <1>4, <1>5, <1>6

(***************************************************************************)
(* Types.                                                                  *)
(***************************************************************************)
LEMMA LoadedType ==
  ASSUME TypeOK, NEW r \in Record, store[r] # None
  PROVE  store[r] \in Startups /\ Loaded(r) \in Lists
         /\ Loaded(r).industries = store[r].industries /\ Loaded(r).read
<1>1. store[r] \in Startups
  BY DEF TypeOK
<1> QED
  BY <1>1 DEF Loaded, Startups, Lists

LEMMA FollowType ==
  ASSUME TypeOK, NEW c \in Calls, c.page = New => c.record \in Record, Follow(c)
  PROVE  nav' \in Record \cup {None} /\ reload' \in Lists \cup {None}
<1>1. [shown EXCEPT !.read = FALSE] \in Lists
  BY DEF TypeOK, Lists
<1> QED
  BY <1>1 DEF Follow, TypeOK

LEMMA TypeStep ==
  ASSUME TypeOK, Routes, [Next]_vars
  PROVE  TypeOK'
<1>1. ASSUME NEW f \in Field, NEW v \in Values, setField(f, v) PROVE TypeOK'
  <2>1. calls' \in [1 .. MaxCalls -> Calls \cup {None}]
    BY <1>1, Aged DEF setField
  <2>2. typed' \subseteq Field /\ raced' \subseteq Field
    BY <1>1 DEF setField, TypeOK
  <2>3. values' \in [Field -> Values] /\ mine' \in [Field -> Values \cup {None}]
    BY <1>1 DEF setField, TypeOK
  <2>4. moves' \in Nat /\ UNCHANGED <<store, page, baseline, shown, saving, pending, fetching, draft, nav, reload,
                                     others, foreign, unsure, want, hasty>>
    BY <1>1 DEF setField, Move, TypeOK
  <2> QED
    BY <2>1, <2>2, <2>3, <2>4 DEF TypeOK
<1>2. CASE Submit \/ Publish
  <2>1. ASSUME NEW stay \in BOOLEAN, save(stay) PROVE TypeOK'
    <3>1. calls' \in [1 .. MaxCalls -> Calls \cup {None}]
      BY <2>1, SaveSent, Replaced
    <3>2. saving' = TRUE /\ unsure' \in BOOLEAN
      BY <2>1 DEF save
    <3> QED
      BY <1>2, <3>1, <3>2, Clicked DEF TypeOK, form
  <2>2. ASSUME Free # {}, Send(Call("publish")), UNCHANGED <<saving, unsure>> PROVE TypeOK'
    <3>1. calls' \in [1 .. MaxCalls -> Calls \cup {None}]
      BY <2>2, PublishSent, Replaced
    <3> QED
      BY <1>2, <2>2, <3>1, Clicked DEF TypeOK, form
  <2> QED
    BY <1>2, <2>1, <2>2, Clicked
<1>3. ASSUME NEW next \in SUBSET Industry, setIndustries(next) PROVE TypeOK'
  <2>1. want' \in [Industry -> {"in", "out", None}] /\ moves' \in Nat
    BY <1>3 DEF setIndustries, TypeOK, Move
  <2>2. CASE page = New
    <3>1. KeepList(next)
      BY <1>3, <2>2 DEF setIndustries
    <3>2. shown' \in Lists
      BY <3>1 DEF KeepList, TypeOK, Lists
    <3>3. hasty' \in BOOLEAN
      BY <3>1 DEF KeepList
    <3> QED
      BY <1>3, <2>1, <3>1, <3>2, <3>3 DEF KeepList, setIndustries, TypeOK, form
  <2>3. CASE page # New
    <3>1. PutList(next)
      BY <1>3, <2>3 DEF setIndustries
    <3>2. calls' \in [1 .. MaxCalls -> Calls \cup {None}]
      BY <3>1, PutSent, Replaced
    <3>3. hasty' \in BOOLEAN /\ pending' \in BOOLEAN
      BY <3>1 DEF PutList
    <3> QED
      BY <1>3, <2>1, <3>1, <3>2, <3>3 DEF PutList, setIndustries, TypeOK, form
  <2> QED
    BY <2>2, <2>3
<1>4. CASE fetchDraft
  <2>1. [at |-> moves, ticked |-> Blank] \in Fetches
    BY DEF TypeOK, Fetches, Blank
  <2>2. fetching' \subseteq Fetches /\ draft' = None
    BY <1>4, <2>1 DEF fetchDraft, TypeOK
  <2> QED
    BY <1>4, <2>2 DEF fetchDraft, TypeOK, form, history, Move
<1>5. CASE onApply
  <2>1. draft \in Drafts
    BY <1>5 DEF onApply, TypeOK
  <2>2. draft.ticked \subseteq Field /\ draft.chosen \subseteq Field
    BY <2>1 DEF Drafts
  <2>3. calls' \in [1 .. MaxCalls -> Calls \cup {None}]
    BY <1>5, <2>2, Aged DEF onApply
  <2>4. values' \in [Field -> Values] /\ mine' \in [Field -> Values \cup {None}]
    BY <1>5 DEF onApply, TypeOK, Values
  <2>5. typed' \subseteq Field /\ raced' \subseteq Field
    BY <1>5, <2>2 DEF onApply, TypeOK
  <2> QED
    BY <1>5, <2>3, <2>4, <2>5 DEF onApply, TypeOK, Move
<1>6. ASSUME NEW f \in Field, Tick(f) PROVE TypeOK'
  <2>1. draft \in Drafts
    BY <1>6 DEF Tick, TypeOK
  <2>2. draft' \in Drafts
    BY <1>6, <2>1 DEF Tick, Drafts
  <2> QED
    BY <1>6, <2>2 DEF Tick, TypeOK, form, history, Move
<1>7. ASSUME NEW i \in Ids, Serve(i) PROVE TypeOK'
  <2>1. PICK r \in Record, s \in Startups, d \in Calls : ServedAs(i, r, s, d)
    BY <1>7, Served
  <2>2. calls' \in [1 .. MaxCalls -> Calls \cup {None}] /\ store' \in [Record -> Startups \cup {None}]
    BY <2>1, Replaced DEF ServedAs, TypeOK
  <2>3. unsure' \in BOOLEAN
    BY <1>7 DEF Serve
  <2> QED
    BY <1>7, <2>2, <2>3 DEF Serve, TypeOK, tab, form
<1>8. ASSUME NEW i \in Ids, Refuse(i) PROVE TypeOK'
  <2>1. calls' \in [1 .. MaxCalls -> Calls \cup {None}]
    BY <1>8, Refused, Replaced
  <2> QED
    BY <1>8, <2>1 DEF Refuse, TypeOK, tab, form, history
<1>9. ASSUME NEW i \in Ids, AnswerSave(i) PROVE TypeOK'
  <2> DEFINE c == calls[i]
  <2>1. c \in Calls /\ c # None /\ CallRoutes(c)
    BY <1>9 DEF AnswerSave, UnderWay, Free, TypeOK, Routes, Ids
  <2>2. saving' \in BOOLEAN
    BY <1>9 DEF AnswerSave
  <2>3. baseline' \in [Field -> Values]
    BY <1>9, <2>1 DEF AnswerSave, markSaved, TypeOK, Calls
  <2>4. /\ calls' \in [1 .. MaxCalls -> Calls \cup {None}]
        /\ nav' \in Record \cup {None} /\ reload' \in Lists \cup {None}
    <3>1. CASE c.state = "done" /\ c.stay
      <4>1. /\ calls' = [calls EXCEPT ![i] = [calls[i] EXCEPT !.kind = "publish", !.state = "sent"]]
            /\ UNCHANGED <<nav, reload>>
        BY <1>9, <3>1 DEF AnswerSave
      <4>2. PICK d \in Calls : calls' = [calls EXCEPT ![i] = d]
        BY <2>1, <4>1, Continued
      <4> QED
        BY <4>1, <4>2, Replaced DEF TypeOK
    <3>2. CASE ~(c.state = "done" /\ c.stay)
      <4>1. /\ calls' = [calls EXCEPT ![i] = None]
            /\ IF c.state = "done" THEN Follow(c) ELSE UNCHANGED <<nav, reload>>
        BY <1>9, <3>2 DEF AnswerSave
      <4>2. nav' \in Record \cup {None} /\ reload' \in Lists \cup {None}
        BY <2>1, <4>1, FollowType DEF TypeOK, CallRoutes
      <4> QED
        BY <4>1, <4>2, Replaced
    <3> QED
      BY <3>1, <3>2
  <2> QED
    BY <1>9, <2>2, <2>3, <2>4 DEF AnswerSave, TypeOK, history
<1>10. ASSUME NEW i \in Ids, AnswerPublish(i) PROVE TypeOK'
  <2>1. calls[i] \in Calls /\ calls[i] # None /\ calls[i].kind = "publish" /\ CallRoutes(calls[i])
    BY <1>10 DEF AnswerPublish, UnderWay, Free, TypeOK, Routes, Ids
  <2>2. nav' \in Record \cup {None} /\ reload' \in Lists \cup {None}
    BY <1>10, <2>1, FollowType DEF AnswerPublish, TypeOK, CallRoutes
  <2>3. calls' \in [1 .. MaxCalls -> Calls \cup {None}]
    BY <1>10, Replaced DEF AnswerPublish
  <2> QED
    BY <1>10, <2>2, <2>3 DEF AnswerPublish, TypeOK, form, history
<1>11. ASSUME NEW i \in Ids, AnswerChange(i) PROVE TypeOK'
  <2>1. calls' \in [1 .. MaxCalls -> Calls \cup {None}]
    BY <1>11, Replaced DEF AnswerChange
  <2>2. pending' \in BOOLEAN /\ unsure' \in BOOLEAN
    BY <1>11 DEF AnswerChange
  <2>3. [shown EXCEPT !.read = FALSE] \in Lists
    BY DEF TypeOK, Lists
  <2> QED
    BY <1>11, <2>1, <2>2, <2>3 DEF AnswerChange, TypeOK, form
<1>12. CASE ReadReload
  <2>1. page \in Record /\ store[page] # None
    BY <1>12 DEF ReadReload, Routes, PageRoutes, TypeOK
  <2> QED
    BY <1>12, <2>1, LoadedType DEF ReadReload, TypeOK, form, history
<1>13. CASE Reload
  BY <1>13 DEF Reload, TypeOK, form, history
<1>14. CASE Open
  <2>1. nav \in Record /\ store[nav] # None
    BY <1>14 DEF Open, Routes, PageRoutes, TypeOK
  <2>2. store[nav].fields \in [Field -> Values] /\ Loaded(nav) \in Lists
    BY <2>1, LoadedType DEF Startups
  <2> QED
    BY <1>14, <2>1, <2>2 DEF Open, TypeOK, history
<1>15. ASSUME NEW fetch \in fetching, Offer(fetch) PROVE TypeOK'
  <2>1. fetch \in Fetches /\ fetching' \subseteq Fetches
    BY <1>15 DEF Offer, TypeOK
  <2>2. [ticked |-> fetch.ticked, chosen |-> {}] \in Drafts
    BY <2>1 DEF Fetches, Drafts
  <2>3. draft' \in Drafts \cup {None}
    BY <1>15, <2>2 DEF Offer, TypeOK
  <2> QED
    BY <1>15, <2>1, <2>3 DEF Offer, TypeOK, form, history
<1>16. ASSUME NEW r \in Record, OtherEdit(r) PROVE TypeOK'
  <2>1. store' \in [Record -> Startups \cup {None}]
    BY <1>16, Edited DEF TypeOK
  <2> QED
    BY <1>16, <2>1, Edited DEF TypeOK, tab, form
<1>17. CASE UNCHANGED vars
  BY <1>17 DEF vars, tab, form, history, TypeOK
<1>18. CASE ChangeLink
  <2>1. calls' \in [1 .. MaxCalls -> Calls \cup {None}]
    BY <1>18, LinkSent, Replaced
  <2> QED
    BY <1>18, <2>1, LinkSent DEF TypeOK, form, history
<1> QED
  BY <1>1, <1>2, <1>3, <1>4, <1>5, <1>6, <1>7, <1>8, <1>9, <1>10, <1>11, <1>12, <1>13, <1>14, <1>15,
     <1>16, <1>17, <1>18, Choosing DEF Next, Admin, Page

(***************************************************************************)
(* Routes.                                                                 *)
(***************************************************************************)

\* What leaves the page, and of every call its page and record.
LEMMA RoutesKept ==
  ASSUME TypeOK, Routes, UNCHANGED <<page, nav>>, page = New => reload' = None,
         \A r \in Record : store[r] # None => store'[r] # None,
         \A i \in Ids : calls'[i] # None =>
           /\ calls[i] # None /\ calls'[i].page = calls[i].page /\ calls'[i].record = calls[i].record
           /\ calls'[i].kind \in {"put", "link"} => calls[i].kind \in {"put", "link"}
           /\ calls'[i].kind = "publish" \/ calls'[i].state = "done" => calls[i].record \in Record
  PROVE  Routes'
<1>1. PageRoutes'
  BY DEF Routes, PageRoutes, TypeOK
<1>2. ASSUME NEW i \in Ids, calls'[i] # None PROVE CallRoutes(calls[i])'
  <2>1. calls[i] \in Calls /\ CallRoutes(calls[i])
    BY <1>2 DEF Routes, TypeOK, Ids
  <2>2. calls[i].page \in Record \cup {New} /\ calls[i].record \in Record \cup {New}
    BY <2>1 DEF Calls
  <2> QED
    BY <1>2, <2>1, <2>2 DEF CallRoutes, Coming
<1>3. ASSUME NEW i \in Ids, NEW j \in Ids, i # j, calls'[i] # None, calls'[j] # None
      PROVE  CallsApart(calls'[i], calls'[j])
  BY <1>3 DEF Routes, CallsApart, Coming
<1> QED
  BY <1>1, <1>2, <1>3 DEF Routes

LEMMA RoutesSent ==
  ASSUME TypeOK, Routes, NEW i \in Ids, NEW c \in Calls,
         UNCHANGED <<store, page, nav, reload>>, calls[i] = None, calls' = [calls EXCEPT ![i] = c],
         c.page = page, c.record = page, c.kind # "save" => page \in Record, c.state = "sent"
  PROVE  Routes'
<1>1. PageRoutes'
  BY DEF Routes, PageRoutes
<1>2. /\ calls'[i] = c /\ \A j \in Ids \ {i} : calls'[j] = calls[j]
  BY Replaced
<1>3. CallRoutes(c)
  BY Nulls DEF Routes, PageRoutes, CallRoutes, Coming, Calls, TypeOK
<1>4. ASSUME NEW j \in Ids, calls'[j] # None PROVE CallRoutes(calls[j])'
  <2>1. CallRoutes(calls'[j])
    BY <1>2, <1>3, <1>4 DEF Routes
  <2> QED
    BY <2>1 DEF CallRoutes, Coming
<1>5. ASSUME NEW j \in Ids, NEW k \in Ids, j # k, calls'[j] # None, calls'[k] # None
      PROVE  CallsApart(calls'[j], calls'[k])
  <2>1. CASE j = i
    BY <1>2, <2>1, Nulls DEF CallsApart, Coming
  <2>2. CASE k = i
    <3>1. CallRoutes(calls[j]) /\ calls'[j] = calls[j]
      BY <1>2, <1>5, <2>2 DEF Routes
    <3> QED
      BY <1>2, <2>2, <3>1 DEF CallsApart, CallRoutes, Coming
  <2>3. CASE j # i /\ k # i
    BY <1>2, <1>5, <2>3 DEF Routes
  <2> QED
    BY <2>1, <2>2, <2>3
<1> QED
  BY <1>1, <1>4, <1>5 DEF Routes

\* An answered call is gone; the page of what it created is coming, or its page is loaded again.
LEMMA RoutesAnswered ==
  ASSUME TypeOK, Routes, NEW i \in Ids, calls[i] # None, calls' = [calls EXCEPT ![i] = None],
         UNCHANGED <<store, page>>, Follow(calls[i]), calls[i].page = New => calls[i].record \in Record
  PROVE  Routes'
<1> DEFINE c == calls[i]
<1>1. c \in Calls /\ CallRoutes(c)
  BY DEF Routes, TypeOK, Ids
<1>2. calls'[i] = None /\ \A j \in Ids \ {i} : calls'[j] = calls[j]
  BY Replaced
<1>3. CASE c.page = New
  <2>1. nav' = c.record /\ UNCHANGED reload /\ Coming(c)
    BY <1>3, Nulls DEF Follow, Coming
  <2>2. PageRoutes'
    BY <1>1, <2>1 DEF Routes, PageRoutes, CallRoutes
  <2>3. ASSUME NEW j \in Ids, calls'[j] # None PROVE CallRoutes(calls[j])'
    <3>1. i # j /\ calls'[j] = calls[j] /\ CallRoutes(calls[j]) /\ CallsApart(c, calls[j])
      BY <1>2, <2>3 DEF Routes
    <3> QED
      BY <2>1, <3>1 DEF CallRoutes, CallsApart, Coming
  <2>4. ASSUME NEW j \in Ids, NEW k \in Ids, j # k, calls'[j] # None, calls'[k] # None
        PROVE  CallsApart(calls'[j], calls'[k])
    BY <1>2, <2>4 DEF Routes
  <2> QED
    BY <2>2, <2>3, <2>4 DEF Routes
<1>4. CASE c.page # New
  <2>1. UNCHANGED nav /\ page # New
    BY <1>1, <1>4 DEF Follow, CallRoutes, Calls
  <2>2. \A j \in Ids : calls'[j] # None => calls'[j] = calls[j] /\ CallRoutes(calls[j])
    BY <1>2 DEF Routes
  <2> QED
    BY <2>1, <2>2, RoutesKept DEF CallRoutes
<1> QED
  BY <1>3, <1>4

LEMMA RoutesServed ==
  ASSUME TypeOK, Routes, NEW i \in Ids, Serve(i)
  PROVE  Routes'
<1>1. PICK r \in Record, s \in Startups, d \in Calls : ServedAs(i, r, s, d)
  BY Served
<1>2. calls'[i] = d /\ \A j \in Ids \ {i} : calls'[j] = calls[j]
  BY <1>1, Replaced DEF ServedAs
<1>3. UNCHANGED <<page, nav, reload>>
  BY DEF Serve, tab
<1>4. \A q \in Record : store[q] # None => store'[q] # None
  BY <1>1, Nulls DEF ServedAs, TypeOK
<1>5. calls[i] \in Calls /\ calls[i] # None /\ CallRoutes(calls[i])
  BY <1>1 DEF ServedAs, Routes, TypeOK, Ids
<1>6. CASE calls[i].record # New
  <2>1. d.page = calls[i].page /\ d.record = calls[i].record /\ d.kind = calls[i].kind /\ d.record \in Record
    BY <1>1, <1>6 DEF ServedAs
  <2>2. \A j \in Ids \ {i} : calls[j] # None => CallRoutes(calls[j])
    BY DEF Routes
  <2>3. page = New => reload' = None
    BY <1>3 DEF Routes, PageRoutes
  <2>4. \A j \in Ids : calls'[j] # None =>
           /\ calls[j] # None /\ calls'[j].page = calls[j].page /\ calls'[j].record = calls[j].record
           /\ calls'[j].kind \in {"put", "link"} => calls[j].kind \in {"put", "link"}
           /\ calls'[j].kind = "publish" \/ calls'[j].state = "done" => calls[j].record \in Record
    BY <1>2, <1>5, <2>1, <2>2 DEF CallRoutes
  <2> QED
    BY <1>3, <1>4, <2>3, <2>4, RoutesKept
<1>7. CASE calls[i].record = New
  <2>1. /\ store[r] = None /\ store'[r] # None /\ d.kind = "save" /\ d.page = New /\ d.record = r
        /\ calls[i].page = New
    BY <1>1, <1>7, Nulls DEF ServedAs, TypeOK
  <2>2. r # page /\ r # nav
    BY <2>1, Nulls DEF Routes, PageRoutes
  <2>3. \A j \in Ids : calls[j] # None => calls[j].page # r /\ (Coming(calls[j]) => calls[j].record # r)
    BY <2>1 DEF Routes, CallRoutes
  <2>4. PageRoutes'
    BY <1>3, <1>4 DEF Routes, PageRoutes, TypeOK
  <2>5. CallRoutes(d)'
    BY <1>3, <1>5, <2>1, <2>2, Nulls DEF CallRoutes, Coming
  <2>6. ASSUME NEW j \in Ids, calls'[j] # None PROVE CallRoutes(calls[j])'
    <3>1. CASE j = i
      BY <1>2, <2>5, <3>1
    <3>2. CASE j # i
      <4>1. calls'[j] = calls[j] /\ CallRoutes(calls[j]) /\ calls[j] \in Calls
        BY <1>2, <2>6, <3>2 DEF Routes, TypeOK, Ids
      <4>2. calls[j].page \in Record \cup {New} /\ calls[j].record \in Record \cup {New}
        BY <4>1 DEF Calls
      <4> QED
        BY <1>3, <1>4, <4>1, <4>2 DEF CallRoutes, Coming
    <3> QED
      BY <3>1, <3>2
  <2>7. ASSUME NEW j \in Ids, NEW k \in Ids, j # k, calls'[j] # None, calls'[k] # None
        PROVE  CallsApart(calls'[j], calls'[k])
    <3>1. CASE j = i
      BY <1>2, <2>1, <2>3, <2>7, <3>1 DEF CallsApart
    <3>2. CASE k = i
      <4>1. calls'[j] = calls[j] /\ CallsApart(calls[j], calls[i])
        BY <1>2, <1>5, <2>3, <2>7, <3>2 DEF Routes
      <4> QED
        BY <1>2, <2>1, <2>3, <2>7, <3>2, Nulls DEF CallsApart, Coming
    <3>3. CASE j # i /\ k # i
      BY <1>2, <2>7, <3>3 DEF Routes
    <3> QED
      BY <3>1, <3>2, <3>3
  <2> QED
    BY <2>4, <2>6, <2>7 DEF Routes
<1> QED
  BY <1>6, <1>7

LEMMA RoutesStep ==
  ASSUME TypeOK, Routes, [Next]_vars
  PROVE  Routes'
<1>0. page = New => reload = None
  BY DEF Routes, PageRoutes
<1> DEFINE SameCalls == \A i \in Ids : calls'[i] # None =>
           /\ calls[i] # None /\ calls'[i].page = calls[i].page /\ calls'[i].record = calls[i].record
           /\ calls'[i].kind \in {"put", "link"} => calls[i].kind \in {"put", "link"}
           /\ calls'[i].kind = "publish" \/ calls'[i].state = "done" => calls[i].record \in Record
<1>a. \A i \in Ids : calls[i] # None => calls[i] \in Calls /\ CallRoutes(calls[i])
  BY DEF Routes, TypeOK, Ids
<1>b. \A i \in Ids : calls[i] # None =>
        (calls[i].kind = "publish" \/ calls[i].state = "done" => calls[i].record \in Record)
  BY <1>a DEF CallRoutes
<1>1. ASSUME NEW f \in Field, NEW v \in Values, setField(f, v) PROVE Routes'
  <2> DEFINE F == {f}
  <2>1. calls' = Later(F) /\ F \in SUBSET Field
    BY <1>1 DEF setField
  <2> HIDE DEF F
  <2>2. SameCalls
    BY <1>b, <2>1, Aged
  <2> QED
    BY <1>0, <1>1, <2>2, RoutesKept DEF setField
<1>2. CASE Submit \/ Publish
  <2>1. UNCHANGED <<store, page, nav, reload>>
    BY <1>2, Clicked
  <2>2. ASSUME NEW stay \in BOOLEAN, save(stay) PROVE Routes'
    <3>1. PICK i \in Ids, c \in Calls :
            /\ calls[i] = None /\ calls' = [calls EXCEPT ![i] = c]
            /\ c.kind = "save" /\ c.page = page /\ c.record = page /\ c.state = "sent"
      BY <2>2, SaveSent
    <3> QED
      BY <2>1, <3>1, RoutesSent
  <2>3. ASSUME page \in Record, Free # {}, Send(Call("publish")) PROVE Routes'
    <3>1. PICK i \in Ids, c \in Calls :
            /\ calls[i] = None /\ calls' = [calls EXCEPT ![i] = c]
            /\ c.kind = "publish" /\ c.page = page /\ c.record = page /\ c.state = "sent"
      BY <2>3, PublishSent
    <3> QED
      BY <2>1, <2>3, <3>1, RoutesSent
  <2> QED
    BY <1>2, <2>2, <2>3, Clicked
<1>3. ASSUME NEW next \in SUBSET Industry, setIndustries(next) PROVE Routes'
  <2>1. UNCHANGED <<store, page, nav, reload>>
    BY <1>3 DEF setIndustries
  <2>2. CASE page = New
    <3>1. UNCHANGED calls
      BY <1>3, <2>2 DEF setIndustries, KeepList
    <3>2. SameCalls
      BY <1>b, <3>1
    <3> QED
      BY <1>0, <2>1, <3>2, RoutesKept
  <2>3. CASE page # New
    <3>1. PutList(next) /\ page \in Record
      BY <1>3, <2>3 DEF setIndustries, TypeOK
    <3>2. PICK i \in Ids, c \in Calls :
            /\ calls[i] = None /\ calls' = [calls EXCEPT ![i] = c]
            /\ c.kind = "put" /\ c.page = page /\ c.record = page /\ c.state = "sent"
      BY <3>1, PutSent
    <3> QED
      BY <2>1, <3>1, <3>2, RoutesSent
  <2> QED
    BY <2>2, <2>3
<1>4. CASE fetchDraft \/ (\E fetch \in fetching : Offer(fetch)) \/ \E f \in Field : Tick(f)
  <2>1. UNCHANGED <<store, page, nav, reload, calls>>
    BY <1>4 DEF fetchDraft, Offer, Tick
  <2> QED
    BY <1>0, <1>b, <2>1, RoutesKept
<1>5. CASE onApply
  <2>1. draft.ticked \in SUBSET Field
    BY <1>5 DEF onApply, TypeOK, Drafts
  <2>2. SameCalls
    BY <1>b, <1>5, <2>1, Aged DEF onApply
  <2> QED
    BY <1>0, <1>5, <2>2, RoutesKept DEF onApply
<1>6. ASSUME NEW i \in Ids, Serve(i) PROVE Routes'
  BY <1>6, RoutesServed
<1>7. ASSUME NEW i \in Ids, Refuse(i) PROVE Routes'
  <2>1. PICK d \in Calls :
          /\ calls[i] # None /\ calls' = [calls EXCEPT ![i] = d] /\ d.page = calls[i].page
          /\ d.record = calls[i].record /\ d.kind = calls[i].kind /\ d.state = "failed"
    BY <1>7, Refused
  <2>2. calls'[i] = d /\ \A j \in Ids \ {i} : calls'[j] = calls[j]
    BY <2>1, Replaced
  <2>3. SameCalls
    BY <1>b, <2>1, <2>2
  <2> QED
    BY <1>0, <1>7, <2>3, RoutesKept DEF Refuse, tab
<1>8. ASSUME NEW i \in Ids, AnswerSave(i) PROVE Routes'
  <2>1. calls[i] # None /\ UNCHANGED <<store, page>> /\ CallRoutes(calls[i])
    BY <1>8, <1>a DEF AnswerSave, UnderWay, Free
  <2>2. CASE calls[i].state = "done" /\ calls[i].stay
    <3>1. /\ calls' = [calls EXCEPT ![i] = [calls[i] EXCEPT !.kind = "publish", !.state = "sent"]]
          /\ UNCHANGED <<nav, reload>>
      BY <1>8, <2>2 DEF AnswerSave
    <3>2. PICK d \in Calls : /\ calls' = [calls EXCEPT ![i] = d] /\ d.page = calls[i].page
                             /\ d.record = calls[i].record /\ d.kind = "publish"
      BY <2>1, <3>1, Continued
    <3>3. calls'[i] = d /\ \A j \in Ids \ {i} : calls'[j] = calls[j]
      BY <3>2, Replaced
    <3>4. SameCalls
      BY <1>b, <2>1, <2>2, <3>2, <3>3
    <3> QED
      BY <1>0, <2>1, <3>1, <3>4, RoutesKept
  <2>3. CASE calls[i].state = "done" /\ ~calls[i].stay
    <3>1. calls' = [calls EXCEPT ![i] = None] /\ Follow(calls[i])
      BY <1>8, <2>3 DEF AnswerSave
    <3> QED
      BY <1>b, <2>1, <2>3, <3>1, RoutesAnswered
  <2>4. CASE calls[i].state # "done"
    <3>1. calls' = [calls EXCEPT ![i] = None] /\ UNCHANGED <<nav, reload>>
      BY <1>8, <2>4 DEF AnswerSave
    <3>2. SameCalls
      BY <1>b, <3>1, Replaced
    <3> QED
      BY <1>0, <2>1, <3>1, <3>2, RoutesKept
  <2> QED
    BY <2>2, <2>3, <2>4
<1>9. ASSUME NEW i \in Ids, AnswerPublish(i) PROVE Routes'
  <2>1. calls[i] # None /\ UNCHANGED <<store, page>> /\ calls' = [calls EXCEPT ![i] = None]
        /\ calls[i].record \in Record
    BY <1>9, <1>b DEF AnswerPublish, UnderWay, Free
  <2>2. CASE Follow(calls[i])
    BY <2>1, <2>2, RoutesAnswered
  <2>3. CASE UNCHANGED <<nav, reload>>
    <3>1. SameCalls
      BY <1>b, <2>1, Replaced
    <3> QED
      BY <1>0, <2>1, <2>3, <3>1, RoutesKept
  <2> QED
    BY <1>9, <2>2, <2>3 DEF AnswerPublish
<1>10. ASSUME NEW i \in Ids, AnswerChange(i) PROVE Routes'
  <2>1. calls[i] # None /\ calls[i].kind \in {"put", "link"} /\ UNCHANGED <<store, page, nav>>
        /\ calls' = [calls EXCEPT ![i] = None]
    BY <1>10 DEF AnswerChange, UnderWay, Free
  <2>2. page # New
    BY <1>a, <2>1 DEF CallRoutes
  <2>3. SameCalls
    BY <1>b, <2>1, Replaced
  <2> QED
    BY <2>1, <2>2, <2>3, RoutesKept
<1>11. CASE ReadReload \/ Reload
  <2>1. UNCHANGED <<store, page, nav, calls>> /\ page # New
    BY <1>0, <1>11 DEF ReadReload, Reload
  <2> QED
    BY <1>b, <2>1, RoutesKept
<1>12. CASE Open
  <2>1. /\ nav # None /\ nav \in Record /\ page' = nav /\ nav' = None /\ reload' = None
        /\ UNCHANGED <<store, calls>>
    BY <1>12 DEF Open, TypeOK
  <2>2. PageRoutes'
    BY <2>1, Nulls DEF Routes, PageRoutes
  <2>3. ASSUME NEW i \in Ids, calls'[i] # None PROVE CallRoutes(calls[i])'
    <3>1. calls[i] \in Calls /\ CallRoutes(calls[i])
      BY <1>a, <2>1, <2>3
    <3>2. Coming(calls[i]) => calls[i].record # None
      BY <3>1, Nulls DEF Calls, Coming
    <3>3. /\ page' # New /\ page' = nav /\ nav' = None
          /\ store' = store /\ calls' = calls
      BY <2>1, Nulls
    <3> QED
      BY <3>1, <3>2, <3>3 DEF CallRoutes, Coming
  <2>4. ASSUME NEW i \in Ids, NEW j \in Ids, i # j, calls'[i] # None, calls'[j] # None
        PROVE  CallsApart(calls'[i], calls'[j])
    BY <2>1, <2>4 DEF Routes
  <2> QED
    BY <2>2, <2>3, <2>4 DEF Routes
<1>13. ASSUME NEW r \in Record, OtherEdit(r) PROVE Routes'
  <2>1. UNCHANGED <<page, nav, reload, calls>>
    BY <1>13, Edited DEF tab
  <2>2. PICK s \in Startups : store' = [store EXCEPT ![r] = s]
    BY <1>13, Edited
  <2>3. \A q \in Record : store[q] # None => store'[q] # None
    BY <2>2, Nulls DEF TypeOK
  <2> QED
    BY <1>0, <1>b, <2>1, <2>3, RoutesKept
<1>14. CASE UNCHANGED vars
  <2>1. UNCHANGED <<store, page, nav, reload, calls>>
    BY <1>14 DEF vars, tab
  <2> QED
    BY <1>0, <1>b, <2>1, RoutesKept
<1>15. CASE ChangeLink
  BY <1>15, LinkSent, RoutesSent
<1> QED
  BY <1>1, <1>2, <1>3, <1>4, <1>5, <1>6, <1>7, <1>8, <1>9, <1>10, <1>11, <1>12, <1>13, <1>14, <1>15,
     Choosing
  DEF Next, Admin, Page

(***************************************************************************)
(* Touches.                                                                *)
(***************************************************************************)

\* The calls that are left differ in their state, or are published now.
LEMMA TouchesKept ==
  ASSUME TypeOK, Touches, UNCHANGED <<page, values, baseline, typed>>,
         \A i \in Ids : calls'[i] # None =>
           /\ calls[i] # None /\ calls'[i].page = calls[i].page /\ calls'[i].values = calls[i].values
           /\ calls'[i].late = calls[i].late /\ calls'[i].only = calls[i].only
           /\ calls'[i].kind = "save" =>
                /\ calls[i].kind = "save"
                /\ calls'[i].state = "sent" => calls[i].state = "sent" /\ calls'[i].record = calls[i].record
  PROVE  Touches'
<1>1. ASSUME NEW i \in Ids, calls'[i] # None PROVE CallTouches(calls[i])'
  BY <1>1 DEF Touches, CallTouches
<1> QED
  BY <1>1 DEF Touches

\* The admin types in fields F.
LEMMA TouchesTyped ==
  ASSUME TypeOK, Touches, NEW F \in SUBSET Field, calls' = Later(F), typed' = typed \cup F,
         \A f \in Field \ F : values'[f] = values[f], UNCHANGED <<page, baseline>>
  PROVE  Touches'
<1>1. ASSUME NEW i \in Ids, calls'[i] # None PROVE CallTouches(calls[i])'
  <2>1. /\ calls[i] # None /\ calls'[i].page = calls[i].page /\ calls'[i].values = calls[i].values
        /\ calls'[i].late = calls[i].late \cup F /\ calls'[i].only = calls[i].only
        /\ calls'[i].kind = calls[i].kind /\ calls'[i].state = calls[i].state
        /\ calls'[i].record = calls[i].record
    BY <1>1, Aged
  <2>2. CallTouches(calls[i])
    BY <2>1 DEF Touches
  <2> QED
    BY <2>1, <2>2 DEF CallTouches
<1>2. \A f \in Field \ typed' : values'[f] = baseline'[f]
  BY DEF Touches
<1> QED
  BY <1>1, <1>2 DEF Touches

LEMMA TouchesSent ==
  ASSUME TypeOK, Touches, NEW i \in Ids, NEW c \in Calls,
         UNCHANGED <<page, values, baseline, typed>>, calls' = [calls EXCEPT ![i] = c],
         c.page = page, c.record = page, c.values = values, c.late = {}, c.kind = "save" => c.only = prepare
  PROVE  Touches'
<1>1. calls'[i] = c /\ \A j \in Ids \ {i} : calls'[j] = calls[j]
  BY Replaced
<1>2. c.kind = "save" /\ page \in Record => c.only \subseteq typed
  BY EditorAssumption DEF prepare, changedFields, Touches, TypeOK
<1>3. ASSUME NEW j \in Ids, calls'[j] # None PROVE CallTouches(calls[j])'
  <2>1. CASE j = i
    BY <1>1, <1>2, <2>1 DEF CallTouches
  <2>2. CASE j # i
    BY <1>1, <1>3, <2>2 DEF Touches, CallTouches
  <2> QED
    BY <2>1, <2>2
<1> QED
  BY <1>3 DEF Touches

LEMMA TouchesStep ==
  ASSUME TypeOK, Routes, Touches, [Next]_vars
  PROVE  Touches'
<1> DEFINE SameCalls == \A i \in Ids : calls'[i] # None =>
           /\ calls[i] # None /\ calls'[i].page = calls[i].page /\ calls'[i].values = calls[i].values
           /\ calls'[i].late = calls[i].late /\ calls'[i].only = calls[i].only
           /\ calls'[i].kind = "save" =>
                /\ calls[i].kind = "save"
                /\ calls'[i].state = "sent" => calls[i].state = "sent" /\ calls'[i].record = calls[i].record
<1>1. ASSUME NEW f \in Field, NEW v \in Values, setField(f, v) PROVE Touches'
  <2> DEFINE F == {f}
  <2>1. /\ calls' = Later(F) /\ F \in SUBSET Field /\ typed' = typed \cup F
        /\ UNCHANGED <<page, baseline>>
    BY <1>1 DEF setField
  <2>2. \A g \in Field \ F : values'[g] = values[g]
    BY <1>1 DEF setField, TypeOK
  <2> HIDE DEF F
  <2> QED
    BY <2>1, <2>2, TouchesTyped
<1>2. CASE Submit \/ Publish
  <2>1. UNCHANGED <<page, values, baseline, typed>>
    BY <1>2, Clicked DEF form
  <2>2. ASSUME NEW stay \in BOOLEAN, save(stay) PROVE Touches'
    BY <2>1, <2>2, SaveSent, TouchesSent
  <2>3. ASSUME Free # {}, Send(Call("publish")) PROVE Touches'
    BY <2>1, <2>3, PublishSent, TouchesSent
  <2> QED
    BY <1>2, <2>2, <2>3, Clicked
<1>3. ASSUME NEW next \in SUBSET Industry, setIndustries(next) PROVE Touches'
  <2>1. UNCHANGED <<page, values, baseline, typed>>
    BY <1>3 DEF setIndustries, form
  <2>2. CASE page = New
    BY <1>3, <2>1, <2>2, TouchesKept DEF setIndustries, KeepList
  <2>3. CASE page # New
    BY <1>3, <2>1, <2>3, PutSent, TouchesSent DEF setIndustries
  <2> QED
    BY <2>2, <2>3
<1>4. CASE onApply
  <2>1. draft.ticked \in SUBSET Field
    BY <1>4 DEF onApply, TypeOK, Drafts
  <2>2. \A g \in Field \ draft.ticked : values'[g] = values[g]
    BY <1>4 DEF onApply
  <2> QED
    BY <1>4, <2>1, <2>2, TouchesTyped DEF onApply
<1>5. ASSUME NEW i \in Ids, Serve(i) PROVE Touches'
  <2>1. UNCHANGED <<page, values, baseline, typed>>
    BY <1>5 DEF Serve, tab, form
  <2>2. PICK r \in Record, s \in Startups, d \in Calls : ServedAs(i, r, s, d)
    BY <1>5, Served
  <2>3. calls'[i] = d /\ \A j \in Ids \ {i} : calls'[j] = calls[j]
    BY <2>2, Replaced DEF ServedAs
  <2>4. SameCalls
    BY <2>2, <2>3 DEF ServedAs
  <2> QED
    BY <2>1, <2>4, TouchesKept
<1>6. ASSUME NEW i \in Ids, Refuse(i) PROVE Touches'
  <2>1. UNCHANGED <<page, values, baseline, typed>>
    BY <1>6 DEF Refuse, tab, form, history
  <2>2. PICK d \in Calls :
          /\ calls[i] # None /\ calls' = [calls EXCEPT ![i] = d]
          /\ d.kind = calls[i].kind /\ d.page = calls[i].page /\ d.values = calls[i].values
          /\ d.only = calls[i].only /\ d.late = calls[i].late /\ d.state = "failed"
    BY <1>6, Refused
  <2>3. calls'[i] = d /\ \A j \in Ids \ {i} : calls'[j] = calls[j]
    BY <2>2, Replaced
  <2>4. SameCalls
    BY <2>2, <2>3
  <2> QED
    BY <2>1, <2>4, TouchesKept
<1>7. ASSUME NEW i \in Ids, AnswerSave(i) PROVE Touches'
  <2>1. calls[i] # None /\ CallTouches(calls[i]) /\ UNCHANGED <<page, values, typed>>
    BY <1>7 DEF AnswerSave, UnderWay, Free, Touches, history
  <2>2. SameCalls
    <3>1. CASE calls' = [calls EXCEPT ![i] = None]
      BY <3>1, Replaced
    <3>2. CASE calls' = [calls EXCEPT ![i] = [calls[i] EXCEPT !.kind = "publish", !.state = "sent"]]
      <4>1. PICK d \in Calls :
              /\ calls' = [calls EXCEPT ![i] = d] /\ d.kind = "publish" /\ d.page = calls[i].page
              /\ d.values = calls[i].values /\ d.only = calls[i].only /\ d.late = calls[i].late
        BY <2>1, <3>2, Continued
      <4> QED
        BY <2>1, <4>1, Replaced
    <3> QED
      BY <1>7, <3>1, <3>2 DEF AnswerSave
  <2>3. \A f \in Field \ typed' : values'[f] = baseline'[f]
    BY <1>7, <2>1 DEF AnswerSave, markSaved, Touches, CallTouches
  <2>4. ASSUME NEW j \in Ids, calls'[j] # None PROVE CallTouches(calls[j])'
    BY <2>1, <2>2, <2>4 DEF Touches, CallTouches
  <2> QED
    BY <2>3, <2>4 DEF Touches
<1>8. ASSUME NEW i \in Ids, AnswerPublish(i) PROVE Touches'
  <2>1. calls' = [calls EXCEPT ![i] = None] /\ UNCHANGED <<page, values, baseline, typed>>
    BY <1>8 DEF AnswerPublish, form, history
  <2>2. SameCalls
    BY <2>1, Replaced
  <2> QED
    BY <2>1, <2>2, TouchesKept
<1>9. ASSUME NEW i \in Ids, AnswerChange(i) PROVE Touches'
  <2>1. calls' = [calls EXCEPT ![i] = None] /\ UNCHANGED <<page, values, baseline, typed>>
    BY <1>9 DEF AnswerChange, form
  <2>2. SameCalls
    BY <2>1, Replaced
  <2> QED
    BY <2>1, <2>2, TouchesKept
<1>10. CASE Open
  <2>1. nav # None /\ page' = nav /\ values' = baseline' /\ UNCHANGED <<calls, typed>>
    BY <1>10 DEF Open, history
  <2>2. ASSUME NEW i \in Ids, calls'[i] # None PROVE CallTouches(calls[i])'
    BY <2>1, <2>2 DEF Routes, CallRoutes, Touches, CallTouches
  <2> QED
    BY <2>1, <2>2 DEF Touches
<1>11. CASE \/ fetchDraft \/ ReadReload \/ Reload \/ UNCHANGED vars
            \/ \E fetch \in fetching : Offer(fetch)
            \/ (\E f \in Field : Tick(f)) \/ \E r \in Record : OtherEdit(r)
  <2>1. UNCHANGED <<page, values, baseline, typed, calls>>
    BY <1>11 DEF fetchDraft, Offer, ReadReload, Reload, vars, Tick, OtherEdit, tab, form, history
  <2> QED
    BY <2>1, TouchesKept
<1>12. CASE ChangeLink
  <2>1. UNCHANGED <<page, values, baseline, typed>>
    BY <1>12, LinkSent DEF form, history
  <2> QED
    BY <1>12, <2>1, LinkSent, TouchesSent
<1> QED
  BY <1>1, <1>2, <1>3, <1>4, <1>5, <1>6, <1>7, <1>8, <1>9, <1>10, <1>11, <1>12, Choosing
  DEF Next, Admin, Page

(***************************************************************************)
(* Keeps.                                                                  *)
(***************************************************************************)

\* A step leaves of a startup what no other admin has changed by then.
Alike(s, t) ==
  /\ \A f \in Field \ foreign' : t.fields[f] = s.fields[f]
  /\ \A i \in Industry \ foreign' : i \in t.industries <=> i \in s.industries

LEMMA CallKept ==
  ASSUME TypeOK, NEW i \in Ids, calls[i] # None, CallKeeps(calls[i]), foreign \subseteq foreign',
         calls[i].page = New =>
           /\ calls'[i].page = calls[i].page /\ calls'[i].record = calls[i].record
           /\ calls'[i].values = calls[i].values /\ calls'[i].list = calls[i].list,
         calls'[i].page = New => calls[i].page = New,
         UNCHANGED <<mine, raced>>, ~hasty' => ~hasty /\ UNCHANGED want,
         Coming(calls[i]) => Alike(store[calls[i].record], store'[calls[i].record])
  PROVE  CallKeeps(calls[i])'
<1> SUFFICES ASSUME calls'[i].page = New
             PROVE  CallKeeps(calls[i])'
  BY DEF CallKeeps
<1>1. Mine(calls[i].values)'
  BY DEF CallKeeps, Mine
<1>2. (~hasty => Wanted(calls[i].list))'
  BY DEF CallKeeps, Wanted
<1>3. Coming(calls'[i]) =>
        /\ \A f \in Field \ foreign' : store'[calls'[i].record].fields[f] = calls'[i].values[f]
        /\ \A k \in Industry \ foreign' :
             k \in store'[calls'[i].record].industries <=> k \in calls'[i].list
  BY DEF CallKeeps, Coming, Alike
<1> QED
  BY <1>1, <1>2, <1>3 DEF CallKeeps, Coming

\* Nothing is typed, chosen, fetched or opened, and no call creates a startup.
LEMMA KeepsKept ==
  ASSUME TypeOK, Keeps, UNCHANGED <<page, values, fetching, draft, nav, mine, raced, want, hasty>>,
         page = New => UNCHANGED shown, foreign \subseteq foreign',
         \A i \in Ids : calls'[i] # None /\ calls'[i].page = New =>
           /\ calls[i] # None /\ calls'[i].page = calls[i].page /\ calls'[i].record = calls[i].record
           /\ calls'[i].values = calls[i].values /\ calls'[i].list = calls[i].list,
         nav # None => Alike(store[nav], store'[nav]),
         \A i \in Ids : calls[i] # None /\ Coming(calls[i]) =>
           Alike(store[calls[i].record], store'[calls[i].record])
  PROVE  Keeps'
<1>1. TypedIsKept'
  BY DEF Keeps, TypedIsKept
<1>2. (nav # None => Mine(store[nav].fields) /\ (~hasty => Wanted(store[nav].industries)))'
  BY DEF Keeps, Mine, Wanted, Alike
<1>3. (page = New /\ ~hasty => Wanted(shown.industries))'
  BY DEF Keeps, Wanted
<1>4. Drafted'
  BY DEF Keeps, Drafted
<1>5. ASSUME NEW i \in Ids, calls'[i] # None PROVE CallKeeps(calls[i])'
  <2>1. CASE calls'[i].page # New
    BY <2>1 DEF CallKeeps
  <2>2. CASE calls'[i].page = New
    BY <1>5, <2>2, CallKept DEF Keeps
  <2> QED
    BY <2>1, <2>2
<1> QED
  BY <1>1, <1>2, <1>3, <1>4, <1>5 DEF Keeps

\* The admin types in fields F: what they type is theirs, or was raced.
LEMMA KeepsTyped ==
  ASSUME TypeOK, Keeps, NEW F \in SUBSET Field, NEW G \in SUBSET F, calls' = Later(F),
         \A f \in Field \ F : values'[f] = values[f],
         \A f \in Field \ G : mine'[f] = mine[f],
         \A f \in G : values'[f] = mine'[f],
         F \ G \subseteq raced, raced \ G \subseteq raced', Replacing => raced \cup F \subseteq raced',
         draft' \in {None, draft}, draft' # None \/ fetching # {} => raced \cup F \subseteq raced',
         UNCHANGED <<store, page, shown, fetching, nav, foreign, want, hasty>>
  PROVE  Keeps'
<1>1. TypedIsKept'
  BY DEF Keeps, TypedIsKept
<1>2. (nav # None => Mine(store[nav].fields) /\ (~hasty => Wanted(store[nav].industries)))'
  BY DEF Keeps, Mine, Wanted, Replacing
<1>3. (page = New /\ ~hasty => Wanted(shown.industries))'
  BY DEF Keeps, Wanted
<1>4. Drafted'
  <2>1. ASSUME draft' # None
        PROVE  /\ draft'.chosen \subseteq draft'.ticked
               /\ \A f \in draft'.ticked \ draft'.chosen : values'[f] = 0 \/ f \in raced'
    <3>1. draft \in Drafts
      BY <2>1 DEF TypeOK
    <3>2. draft.ticked \subseteq Field
      BY <3>1 DEF Drafts
    <3> QED
      BY <2>1, <3>2 DEF Keeps, Drafted
  <2>2. ASSUME NEW fetch \in fetching', NEW f \in fetch.ticked PROVE values'[f] = 0 \/ f \in raced'
    <3>1. fetch \in fetching /\ f \in Field
      BY <2>2 DEF TypeOK, Fetches
    <3> QED
      BY <2>2, <3>1 DEF Keeps, Drafted
  <2> QED
    BY <2>1, <2>2 DEF Drafted
<1>5. ASSUME NEW i \in Ids, calls'[i] # None PROVE CallKeeps(calls[i])'
  <2>1. /\ calls[i] # None /\ calls'[i].page = calls[i].page /\ calls'[i].values = calls[i].values
        /\ calls'[i].record = calls[i].record /\ calls'[i].list = calls[i].list
    BY <1>5, Aged
  <2>2. CallKeeps(calls[i])
    BY <2>1 DEF Keeps
  <2>3. calls[i].page = New => raced \cup F \subseteq raced'
    BY <2>1 DEF Replacing, Free
  <2> QED
    BY <2>1, <2>2, <2>3 DEF CallKeeps, Mine, Wanted, Coming
<1> QED
  BY <1>1, <1>2, <1>3, <1>4, <1>5 DEF Keeps

\* A call is sent: if it is to create a startup, with the values and the industries of the page.
LEMMA KeepsSent ==
  ASSUME TypeOK, Keeps, NEW i \in Ids, NEW c \in Calls,
         calls[i] = None, calls' = [calls EXCEPT ![i] = c],
         c.page = page, c.record = page,
         page = New => c.values = values /\ c.list = shown.industries,
         UNCHANGED <<store, page, values, shown, fetching, draft, nav, mine, raced, foreign>>,
         ~hasty' => ~hasty /\ (UNCHANGED want \/ (page # New /\ ~Replacing))
  PROVE  Keeps'
<1>1. calls'[i] = c /\ \A j \in Ids \ {i} : calls'[j] = calls[j]
  BY Replaced
<1>2. TypedIsKept'
  BY DEF Keeps, TypedIsKept
<1>3. (nav # None => Mine(store[nav].fields) /\ (~hasty => Wanted(store[nav].industries)))'
  BY DEF Keeps, Mine, Wanted, Replacing
<1>4. (page = New /\ ~hasty => Wanted(shown.industries))'
  BY DEF Keeps, Wanted
<1>5. Drafted'
  BY DEF Keeps, Drafted
<1>6. CallKeeps(c)'
  <2>1. CASE page = New
    BY <1>2, <1>4, <2>1 DEF CallKeeps, TypedIsKept, Mine, Coming, Wanted
  <2>2. CASE page # New
    BY <2>2 DEF CallKeeps
  <2> QED
    BY <2>1, <2>2
<1>7. ASSUME NEW j \in Ids, calls'[j] # None PROVE CallKeeps(calls[j])'
  <2>1. CASE j = i
    <3>1. calls'[j] = c
      BY <1>1, <2>1
    <3> QED
      BY <1>6, <3>1 DEF CallKeeps, Mine, Wanted, Coming
  <2>2. CASE j # i
    <3>1. calls'[j] = calls[j] /\ CallKeeps(calls[j])
      BY <1>1, <1>7, <2>2 DEF Keeps
    <3>2. calls[j].page = New => Replacing
      BY <1>7, <3>1 DEF Replacing, Free
    <3> QED
      BY <3>1, <3>2 DEF CallKeeps, Mine, Wanted, Coming
  <2> QED
    BY <2>1, <2>2
<1> QED
  BY <1>2, <1>3, <1>4, <1>5, <1>7 DEF Keeps

\* The list of a startup that is not there yet is changed.
LEMMA KeepsListed ==
  ASSUME TypeOK, Keeps, NEW next \in SUBSET Industry, setIndustries(next), page = New
  PROVE  Keeps'
<1>1. /\ UNCHANGED <<store, page, values, fetching, draft, nav, calls, mine, raced, foreign>>
      /\ shown' = [shown EXCEPT !.industries = next] /\ hasty' = (hasty \/ Replacing)
      /\ want' = [i \in Industry |-> IF (i \in next) = (i \in shown.industries) THEN want[i]
                                     ELSE IF i \in next THEN "in" ELSE "out"]
  BY DEF setIndustries, KeepList, form
<1>2. shown'.industries = next
  BY <1>1 DEF TypeOK, Lists
<1>3. TypedIsKept'
  BY <1>1 DEF Keeps, TypedIsKept
<1>4. (nav # None => Mine(store[nav].fields) /\ (~hasty => Wanted(store[nav].industries)))'
  BY <1>1 DEF Keeps, Mine, Replacing
<1>5. (page = New /\ ~hasty => Wanted(shown.industries))'
  BY <1>1, <1>2 DEF Keeps, Wanted
<1>6. Drafted'
  BY <1>1 DEF Keeps, Drafted
<1>7. ASSUME NEW i \in Ids, calls'[i] # None PROVE CallKeeps(calls[i])'
  <2>1. calls'[i] = calls[i] /\ CallKeeps(calls[i]) /\ (calls[i].page = New => Replacing)
    BY <1>1, <1>7 DEF Keeps, Replacing, Free
  <2> QED
    BY <1>1, <2>1 DEF CallKeeps, Mine, Coming
<1> QED
  BY <1>3, <1>4, <1>5, <1>6, <1>7 DEF Keeps

\* A startup whose page is coming is written only by the call that creates or publishes it.
LEMMA KeepsServed ==
  ASSUME TypeOK, Routes, Keeps, NEW i \in Ids, Serve(i)
  PROVE  Keeps'
<1>1. PICK r \in Record, s \in Startups, d \in Calls : ServedAs(i, r, s, d)
  BY Served
<1>2. calls'[i] = d /\ \A j \in Ids \ {i} : calls'[j] = calls[j]
  BY <1>1, Replaced DEF ServedAs
<1>3. UNCHANGED <<page, values, shown, fetching, draft, nav, mine, raced, foreign, want, hasty>>
  BY DEF Serve, tab, form
<1>4. store'[r] = s /\ \A q \in Record \ {r} : store'[q] = store[q]
  BY <1>1 DEF ServedAs, TypeOK
<1>5. calls[i] \in Calls /\ calls[i] # None /\ CallRoutes(calls[i]) /\ CallKeeps(calls[i])
  BY <1>1 DEF ServedAs, Routes, Keeps, TypeOK, Ids
<1>6. d.page = calls[i].page /\ d.values = calls[i].values /\ d.list = calls[i].list /\ d.record = r
  BY <1>1 DEF ServedAs
<1>7. nav # None => nav \in Record /\ nav # r
  BY <1>1, <1>5 DEF ServedAs, Routes, PageRoutes, CallRoutes, Coming, TypeOK, Calls
<1>8. ASSUME NEW j \in Ids, j # i, calls[j] # None, Coming(calls[j])
      PROVE  calls[j].record \in Record \ {r}
  <2>1. /\ calls[j] \in Calls /\ CallRoutes(calls[j])
        /\ CallsApart(calls[j], calls[i])
    BY <1>5, <1>8 DEF Routes, TypeOK, Ids
  <2>2. calls[j].record \in Record /\ store[calls[j].record] # None
    BY <1>8, <2>1 DEF Calls, CallRoutes, Coming
  <2>3. CASE calls[i].record = New
    BY <1>1, <2>2, <2>3 DEF ServedAs
  <2>4. CASE calls[i].record # New
    <3>1. r = calls[i].record /\ (calls[i].page \in Record => r = calls[i].page)
      BY <1>1, <1>5, <2>4 DEF ServedAs, CallRoutes
    <3>2. calls[i].page \in Record \/ Coming(calls[i])
      BY <1>5, <2>4 DEF Calls, Coming
    <3> QED
      BY <1>8, <2>1, <2>2, <3>1, <3>2 DEF CallsApart
  <2> QED
    BY <2>3, <2>4
<1>9. CallKeeps(d)'
  <2> SUFFICES ASSUME d.page = New
               PROVE  CallKeeps(d)'
    BY DEF CallKeeps
  <2>1. Mine(d.values)' /\ (~hasty => Wanted(d.list))'
    BY <1>3, <1>5, <1>6 DEF CallKeeps, Mine, Wanted
  <2>2. /\ \A f \in Field \ foreign : s.fields[f] = d.values[f]
        /\ \A k \in Industry \ foreign : k \in s.industries <=> k \in d.list
    <3>1. CASE calls[i].record = New
      BY <1>1, <3>1 DEF ServedAs
    <3>2. CASE calls[i].record # New
      <4>1. Coming(calls[i]) /\ r = calls[i].record /\ d.kind # "put"
        BY <1>1, <1>5, <1>6, <3>2, Nulls DEF ServedAs, Coming, CallRoutes
      <4>2. /\ \A f \in Field : s.fields[f] = IF d.kind = "save" /\ f \in d.only THEN d.values[f]
                                              ELSE store[r].fields[f]
            /\ s.industries = store[r].industries
        BY <1>1, <3>2, <4>1 DEF ServedAs
      <4> QED
        BY <1>5, <1>6, <4>1, <4>2 DEF CallKeeps
    <3> QED
      BY <3>1, <3>2
  <2> QED
    BY <1>3, <1>4, <1>6, <2>1, <2>2 DEF CallKeeps
<1>10. TypedIsKept'
  BY <1>3 DEF Keeps, TypedIsKept
<1>11. (nav # None => Mine(store[nav].fields) /\ (~hasty => Wanted(store[nav].industries)))'
  BY <1>3, <1>4, <1>7 DEF Keeps, Mine, Wanted
<1>12. (page = New /\ ~hasty => Wanted(shown.industries))'
  BY <1>3 DEF Keeps, Wanted
<1>13. Drafted'
  BY <1>3 DEF Keeps, Drafted
<1>14. ASSUME NEW j \in Ids, calls'[j] # None PROVE CallKeeps(calls[j])'
  <2>1. CASE j = i
    BY <1>2, <1>9, <2>1 DEF CallKeeps, Mine, Wanted, Coming
  <2>2. CASE j # i
    <3>1. calls'[j] = calls[j] /\ calls[j] # None /\ CallKeeps(calls[j])
      BY <1>2, <1>14, <2>2 DEF Keeps
    <3>2. Coming(calls[j]) => store'[calls[j].record] = store[calls[j].record]
      BY <1>4, <1>8, <2>2, <3>1
    <3> QED
      BY <1>3, <3>1, <3>2 DEF CallKeeps, Mine, Wanted, Coming
  <2> QED
    BY <2>1, <2>2
<1> QED
  BY <1>10, <1>11, <1>12, <1>13, <1>14 DEF Keeps

\* The page of what a call created is coming.
LEMMA KeepsAnswered ==
  ASSUME TypeOK, Routes, Keeps, NEW i \in Ids, calls[i] # None, calls' = [calls EXCEPT ![i] = None],
         Follow(calls[i]), calls[i].record \in Record,
         UNCHANGED <<store, page, values, shown, fetching, draft, mine, raced, foreign, want, hasty>>
  PROVE  Keeps'
<1>1. calls'[i] = None /\ \A j \in Ids \ {i} : calls'[j] = calls[j]
  BY Replaced
<1>2. CASE calls[i].page # New
  <2>1. UNCHANGED nav
    BY <1>2 DEF Follow
  <2> QED
    BY <1>1, <2>1, KeepsKept DEF Alike
<1>3. CASE calls[i].page = New
  <2>1. nav' = calls[i].record /\ Coming(calls[i]) /\ CallKeeps(calls[i])
    BY <1>3, Nulls DEF Follow, Coming, Keeps
  <2>2. (nav # None => Mine(store[nav].fields) /\ (~hasty => Wanted(store[nav].industries)))'
    BY <1>3, <2>1 DEF CallKeeps, Mine, Wanted
  <2>3. TypedIsKept' /\ (page = New /\ ~hasty => Wanted(shown.industries))'
    BY DEF Keeps, TypedIsKept, Wanted
  <2>4. Drafted'
    BY DEF Keeps, Drafted
  <2>5. ASSUME NEW j \in Ids, calls'[j] # None PROVE CallKeeps(calls[j])'
    <3>1. calls'[j] = calls[j] /\ CallKeeps(calls[j])
      BY <1>1, <2>5 DEF Keeps
    <3> QED
      BY <3>1 DEF CallKeeps, Mine, Wanted, Coming
  <2> QED
    BY <2>2, <2>3, <2>4, <2>5 DEF Keeps
<1> QED
  BY <1>2, <1>3

LEMMA KeepsOpened ==
  ASSUME TypeOK, Keeps, Open
  PROVE  Keeps'
<1>1. /\ nav # None /\ nav \in Record /\ page' = nav /\ values' = store[nav].fields
      /\ fetching' = {} /\ draft' = None /\ nav' = None
      /\ UNCHANGED <<store, calls, mine, raced, foreign, want, hasty>>
  BY DEF Open, TypeOK, history
<1>2. TypedIsKept'
  BY <1>1 DEF Keeps, TypedIsKept, Mine
<1>3. (page = New /\ ~hasty => Wanted(shown.industries))'
  BY <1>1, Nulls
<1>4. ASSUME NEW j \in Ids, calls'[j] # None PROVE CallKeeps(calls[j])'
  BY <1>1, <1>4 DEF Keeps, CallKeeps, Mine, Wanted, Coming
<1> QED
  BY <1>1, <1>2, <1>3, <1>4 DEF Keeps, Drafted

\* What the panel for a draft does.
LEMMA KeepsDrafted ==
  ASSUME TypeOK, Keeps, fetchDraft \/ (\E fetch \in fetching : Offer(fetch)) \/ \E f \in Field : Tick(f)
  PROVE  Keeps'
<1>1. UNCHANGED <<store, page, values, shown, nav, calls, mine, raced, foreign, want, hasty>>
  BY DEF fetchDraft, Offer, Tick, form, history
<1>2. Drafted'
  <2>1. ASSUME NEW fetch \in fetching', NEW f \in fetch.ticked PROVE values'[f] = 0 \/ f \in raced'
    <3>1. fetch \in fetching \/ (fetchDraft /\ fetch = [at |-> moves, ticked |-> Blank])
      BY <2>1 DEF fetchDraft, Offer, Tick
    <3> QED
      BY <1>1, <2>1, <3>1 DEF Keeps, Drafted, Blank
  <2>2. ASSUME NEW fetch \in fetching, Offer(fetch), draft' # draft
        PROVE  draft'.chosen = {} /\ draft'.ticked = fetch.ticked
    BY <2>2 DEF Offer
  <2>3. ASSUME NEW f \in Field, Tick(f)
        PROVE  draft'.chosen \subseteq draft'.ticked
               /\ \A g \in draft'.ticked \ draft'.chosen : values'[g] = 0 \/ g \in raced'
    <3>1. draft \in Drafts /\ draft # None
      BY <2>3 DEF Tick, TypeOK
    <3>2. CASE f \in draft.ticked
      <4>1. draft'.ticked = draft.ticked \ {f} /\ draft'.chosen = draft.chosen \ {f}
        BY <2>3, <3>1, <3>2 DEF Tick, Drafts
      <4> QED
        BY <1>1, <3>1, <4>1 DEF Keeps, Drafted
    <3>3. CASE f \notin draft.ticked
      <4>1. draft'.ticked = draft.ticked \cup {f} /\ draft'.chosen = draft.chosen \cup {f}
        BY <2>3, <3>1, <3>3 DEF Tick, Drafts
      <4> QED
        BY <1>1, <3>1, <4>1 DEF Keeps, Drafted
    <3> QED
      BY <3>2, <3>3
  <2>4. CASE draft' = None
    BY <2>1, <2>4 DEF Drafted
  <2>5. CASE draft' = draft
    BY <1>1, <2>1, <2>5 DEF Keeps, Drafted
  <2>6. ASSUME NEW fetch \in fetching, Offer(fetch), draft' # draft PROVE Drafted'
    BY <1>1, <2>1, <2>2, <2>6 DEF Keeps, Drafted
  <2>7. ASSUME NEW f \in Field, Tick(f) PROVE Drafted'
    BY <2>1, <2>3, <2>7 DEF Drafted
  <2>8. fetchDraft => draft' = None
    BY DEF fetchDraft
  <2> QED
    BY <2>4, <2>5, <2>6, <2>7, <2>8
<1>3. TypedIsKept' /\ (page = New /\ ~hasty => Wanted(shown.industries))'
  BY <1>1 DEF Keeps, TypedIsKept, Wanted
<1>4. (nav # None => Mine(store[nav].fields) /\ (~hasty => Wanted(store[nav].industries)))'
  BY <1>1 DEF Keeps, Mine, Wanted
<1>5. ASSUME NEW j \in Ids, calls'[j] # None PROVE CallKeeps(calls[j])'
  BY <1>1, <1>5 DEF Keeps, CallKeeps, Mine, Wanted, Coming
<1> QED
  BY <1>2, <1>3, <1>4, <1>5 DEF Keeps

LEMMA KeepsStep ==
  ASSUME TypeOK, Routes, Keeps, [Next]_vars
  PROVE  Keeps'
<1> DEFINE SameCalls == \A i \in Ids : calls'[i] # None /\ calls'[i].page = New =>
           /\ calls[i] # None /\ calls'[i].page = calls[i].page /\ calls'[i].record = calls[i].record
           /\ calls'[i].values = calls[i].values /\ calls'[i].list = calls[i].list
<1>1. ASSUME NEW f \in Field, NEW v \in Values, setField(f, v) PROVE Keeps'
  <2> DEFINE F == {f}
  <2>1. /\ calls' = Later(F) /\ F \in SUBSET Field /\ F \in SUBSET F /\ draft' \in {None, draft}
        /\ UNCHANGED <<store, page, shown, fetching, nav, foreign, want, hasty>>
    BY <1>1 DEF setField
  <2>2. /\ \A g \in Field \ F : values'[g] = values[g] /\ mine'[g] = mine[g]
        /\ \A g \in F : values'[g] = mine'[g]
    BY <1>1 DEF setField, TypeOK
  <2>3. /\ F \ F \subseteq raced /\ raced \ F \subseteq raced'
        /\ Replacing => raced \cup F \subseteq raced'
        /\ draft' # None \/ fetching # {} => raced \cup F \subseteq raced'
    BY <1>1 DEF setField, Prefilling
  <2> HIDE DEF F
  <2> QED
    BY <2>1, <2>2, <2>3, KeepsTyped
<1>2. CASE onApply
  <2> DEFINE F == draft.ticked
             G == draft.chosen \cup (draft.ticked \cap Blank)
  <2>1. draft # None /\ draft \in Drafts
    BY <1>2 DEF onApply, TypeOK
  <2>2. F \in SUBSET Field /\ G \in SUBSET F
    BY <2>1 DEF Drafts, Keeps, Drafted
  <2>3. /\ calls' = Later(F) /\ draft' = None
        /\ UNCHANGED <<store, page, shown, fetching, nav, foreign, want, hasty>>
    BY <1>2 DEF onApply
  <2>4. /\ \A g \in Field \ F : values'[g] = values[g]
        /\ \A g \in Field \ G : mine'[g] = mine[g]
        /\ \A g \in G : values'[g] = mine'[g]
    BY <1>2, <2>2 DEF onApply
  <2>5. F \ G \subseteq raced
    BY <2>1, <2>2 DEF Keeps, Drafted, Blank
  <2>6. /\ raced \ G \subseteq raced' /\ (Replacing => raced \cup F \subseteq raced')
        /\ draft' # None \/ fetching # {} => raced \cup F \subseteq raced'
    BY <1>2 DEF onApply
  <2> HIDE DEF F, G
  <2> QED
    BY <2>2, <2>3, <2>4, <2>5, <2>6, KeepsTyped
<1>3. CASE Submit \/ Publish
  <2>1. UNCHANGED <<store, page, values, shown, fetching, draft, nav, mine, raced, foreign, want, hasty>>
    BY <1>3, Clicked DEF form
  <2>2. ASSUME NEW stay \in BOOLEAN, save(stay) PROVE Keeps'
    <3>1. PICK i \in Ids, c \in Calls :
            /\ calls[i] = None /\ calls' = [calls EXCEPT ![i] = c] /\ c.page = page /\ c.record = page
            /\ c.values = values /\ c.list = IF page = New THEN shown.industries ELSE {}
      BY <2>2, SaveSent
    <3> QED
      BY <2>1, <3>1, KeepsSent
  <2>3. ASSUME page \in Record, Free # {}, Send(Call("publish")) PROVE Keeps'
    <3>1. PICK i \in Ids, c \in Calls :
            calls[i] = None /\ calls' = [calls EXCEPT ![i] = c] /\ c.page = page /\ c.record = page
      BY <2>3, PublishSent
    <3> QED
      BY <2>1, <2>3, <3>1, Nulls, KeepsSent
  <2> QED
    BY <1>3, <2>2, <2>3, Clicked
<1>4. ASSUME NEW next \in SUBSET Industry, setIndustries(next) PROVE Keeps'
  <2>1. CASE page = New
    BY <1>4, <2>1, KeepsListed
  <2>2. CASE page # New
    <3>1. PutList(next) /\ UNCHANGED <<store, page, values, fetching, draft, nav, mine, raced, foreign>>
      BY <1>4, <2>2 DEF setIndustries, form
    <3>2. UNCHANGED shown /\ (~hasty' => ~hasty /\ ~Replacing)
      BY <3>1 DEF PutList
    <3>3. PICK i \in Ids, c \in Calls :
            calls[i] = None /\ calls' = [calls EXCEPT ![i] = c] /\ c.page = page /\ c.record = page
      BY <3>1, PutSent
    <3> QED
      BY <2>2, <3>1, <3>2, <3>3, KeepsSent
  <2> QED
    BY <2>1, <2>2
<1>5. ASSUME NEW i \in Ids, Serve(i) PROVE Keeps'
  BY <1>5, KeepsServed
<1>6. ASSUME NEW i \in Ids, calls[i] # None, SameCalls,
             UNCHANGED <<store, page, values, shown, fetching, draft, nav, mine, raced, foreign, want, hasty>>
      PROVE  Keeps'
  BY <1>6, KeepsKept DEF Alike
<1>7. ASSUME NEW i \in Ids, Refuse(i) PROVE Keeps'
  <2>1. UNCHANGED <<store, page, values, shown, fetching, draft, nav, mine, raced, foreign, want, hasty>>
    BY <1>7 DEF Refuse, tab, form, history
  <2>2. PICK d \in Calls :
          /\ calls[i] # None /\ calls' = [calls EXCEPT ![i] = d] /\ d.page = calls[i].page
          /\ d.record = calls[i].record /\ d.values = calls[i].values /\ d.list = calls[i].list
    BY <1>7, Refused
  <2>3. SameCalls
    BY <2>2, Replaced
  <2> QED
    BY <1>6, <2>1, <2>2, <2>3
<1>8. ASSUME NEW i \in Ids, AnswerSave(i) PROVE Keeps'
  <2>1. /\ calls[i] # None /\ (calls[i].state = "done" => calls[i].record \in Record)
        /\ UNCHANGED <<store, page, values, shown, fetching, draft, mine, raced, foreign, want, hasty>>
    BY <1>8 DEF AnswerSave, UnderWay, Free, Routes, CallRoutes, history
  <2>2. CASE /\ calls' = [calls EXCEPT ![i] = [calls[i] EXCEPT !.kind = "publish", !.state = "sent"]]
             /\ UNCHANGED nav
    <3>1. PICK d \in Calls :
            /\ calls' = [calls EXCEPT ![i] = d] /\ d.page = calls[i].page
            /\ d.record = calls[i].record /\ d.values = calls[i].values /\ d.list = calls[i].list
      BY <2>1, <2>2, Continued
    <3>2. SameCalls
      BY <2>1, <3>1, Replaced
    <3> QED
      BY <1>6, <2>1, <2>2, <3>2
  <2>3. CASE calls' = [calls EXCEPT ![i] = None] /\ calls[i].state = "done" /\ Follow(calls[i])
    BY <2>1, <2>3, KeepsAnswered
  <2>4. CASE calls' = [calls EXCEPT ![i] = None] /\ UNCHANGED nav
    <3>1. SameCalls
      BY <2>4, Replaced
    <3> QED
      BY <1>6, <2>1, <2>4, <3>1
  <2> QED
    BY <1>8, <2>2, <2>3, <2>4 DEF AnswerSave
<1>9. ASSUME NEW i \in Ids, AnswerPublish(i) PROVE Keeps'
  <2>1. /\ calls[i] # None /\ calls' = [calls EXCEPT ![i] = None] /\ calls[i].record \in Record
        /\ UNCHANGED <<store, page, values, shown, fetching, draft, mine, raced, foreign, want, hasty>>
    BY <1>9 DEF AnswerPublish, UnderWay, Free, Routes, CallRoutes, form, history
  <2>2. CASE Follow(calls[i])
    BY <2>1, <2>2, KeepsAnswered
  <2>3. CASE UNCHANGED nav
    <3>1. SameCalls
      BY <2>1, Replaced
    <3> QED
      BY <1>6, <2>1, <2>3, <3>1
  <2> QED
    BY <1>9, <2>2, <2>3 DEF AnswerPublish
<1>10. ASSUME NEW i \in Ids, AnswerChange(i) PROVE Keeps'
  <2>1. /\ calls[i] # None /\ calls' = [calls EXCEPT ![i] = None]
        /\ UNCHANGED <<store, page, values, shown, fetching, draft, nav, mine, raced, foreign, want, hasty>>
    BY <1>10 DEF AnswerChange, UnderWay, Free, form
  <2>2. SameCalls
    BY <2>1, Replaced
  <2> QED
    BY <1>6, <2>1, <2>2
<1>11. CASE ReadReload \/ Reload
  <2>1. UNCHANGED <<store, page, values, fetching, draft, nav, calls, mine, raced, foreign, want, hasty>>
    BY <1>11 DEF ReadReload, Reload, form, history
  <2>2. page # New
    BY <1>11 DEF ReadReload, Reload, Routes, PageRoutes
  <2> QED
    BY <2>1, <2>2, KeepsKept DEF Alike
<1>12. CASE Open
  BY <1>12, KeepsOpened
<1>13. CASE fetchDraft \/ (\E fetch \in fetching : Offer(fetch)) \/ \E f \in Field : Tick(f)
  BY <1>13, KeepsDrafted
<1>14. ASSUME NEW r \in Record, OtherEdit(r) PROVE Keeps'
  <2>1. UNCHANGED <<page, values, shown, fetching, draft, nav, calls, mine, raced, want, hasty>>
    BY <1>14, Edited DEF tab, form
  <2>2. foreign \subseteq foreign'
    BY <1>14, Edited
  <2>3. PICK s \in Startups : /\ store' = [store EXCEPT ![r] = s]
                              /\ \A f \in Field \ foreign' : s.fields[f] = store[r].fields[f]
                              /\ \A i \in Industry \ foreign' :
                                   i \in s.industries <=> i \in store[r].industries
    BY <1>14, Edited
  <2>4. \A q \in Record : Alike(store[q], store'[q])
    BY <2>3 DEF Alike, TypeOK
  <2>5. nav # None => nav \in Record
    BY DEF TypeOK
  <2>6. \A i \in Ids : calls[i] # None /\ Coming(calls[i]) => calls[i].record \in Record
    BY DEF Coming, TypeOK, Calls, Ids
  <2> QED
    BY <2>1, <2>2, <2>4, <2>5, <2>6, KeepsKept
<1>15. CASE UNCHANGED vars
  BY <1>15, KeepsKept DEF vars, tab, form, history, Alike
<1>16. CASE ChangeLink
  <2>1. UNCHANGED <<store, page, values, shown, fetching, draft, nav, mine, raced, foreign, want, hasty>>
    BY <1>16, LinkSent DEF form, history
  <2> QED
    BY <1>16, <2>1, LinkSent, Nulls, KeepsSent
<1> QED
  BY <1>1, <1>2, <1>3, <1>4, <1>5, <1>7, <1>8, <1>9, <1>10, <1>11, <1>12, <1>13, <1>14, <1>15, <1>16,
     Choosing
  DEF Next, Admin, Page

(***************************************************************************)
(* Stores.                                                                 *)
(***************************************************************************)

\* Its three parts, while the editor is sure.
FormStored == page \in Record =>
  \/ \A f \in Field \ foreign : store[page].fields[f] = baseline[f]
  \/ \E i \in Ids : calls[i] # None /\ Saves(calls[i]) /\ calls[i].state = "done"
CallsStored == \A i \in Ids : calls[i] # None => CallStores(calls[i])
Agreed == \A i, j \in Ids : i # j /\ calls[i] # None /\ calls[j] # None => CallsAgree(calls[i], calls[j])

LEMMA StoresParts ==
  /\ Stores <=> (~unsure => FormStored /\ CallsStored /\ Agreed)
  /\ Stores' <=> (~unsure' => FormStored' /\ CallsStored' /\ Agreed')
<1>1. Stores <=> (~unsure => FormStored /\ CallsStored /\ Agreed)
  BY DEF Stores, FormStored, CallsStored, Agreed
<1>2. Stores' <=> (~unsure' => FormStored' /\ CallsStored' /\ Agreed')
  BY DEF Stores, FormStored, CallsStored, Agreed
<1> QED
  BY <1>1, <1>2

\* No save begins, is done or goes away, and no field but foreign ones is written.
LEMMA StoresKept ==
  ASSUME TypeOK, Stores, ~unsure' => ~unsure, UNCHANGED <<page, baseline, saving>>,
         foreign \subseteq foreign',
         \A r \in Record, f \in Field \ foreign' : store'[r].fields[f] = store[r].fields[f],
         \A i \in Ids : calls'[i] # None =>
           /\ calls[i] # None /\ calls'[i].kind = calls[i].kind
           /\ calls'[i].page = calls[i].page /\ calls'[i].record = calls[i].record
           /\ calls'[i].values = calls[i].values /\ calls'[i].only = calls[i].only
           /\ calls[i].late \subseteq calls'[i].late /\ (calls'[i].state = "done" => calls[i].state = "done"),
         \A i \in Ids : calls[i] # None /\ calls[i].kind = "save" /\ calls[i].state = "done" =>
           calls'[i] # None /\ calls'[i].state = "done",
         \A i \in Ids : calls[i] # None /\ calls[i].kind = "publish" => calls[i].record \in Record
  PROVE  Stores'
<1> SUFFICES ASSUME ~unsure' PROVE FormStored' /\ CallsStored' /\ Agreed'
  BY StoresParts
<1>1. FormStored /\ CallsStored /\ Agreed
  BY StoresParts
<1>2. FormStored'
  <2>1. ASSUME page \in Record, \A f \in Field \ foreign : store[page].fields[f] = baseline[f]
        PROVE  FormStored'
    BY <2>1 DEF FormStored
  <2>2. ASSUME NEW i \in Ids, calls[i] # None, Saves(calls[i]), calls[i].state = "done"
        PROVE  FormStored'
    <3>1. calls'[i] # None /\ calls'[i].state = "done" /\ Saves(calls[i])'
      BY <2>2 DEF Saves
    <3> QED
      BY <3>1 DEF FormStored
  <2>3. CASE page \notin Record
    BY <2>3 DEF FormStored
  <2> QED
    BY <1>1, <2>1, <2>2, <2>3 DEF FormStored
<1>3. ASSUME NEW i \in Ids, calls'[i] # None PROVE CallStores(calls[i])'
  <2>1. CallStores(calls[i])
    BY <1>1, <1>3 DEF CallsStored
  <2>2. (Saves(calls[i]) => saving)'
    BY <1>3, <2>1 DEF CallStores, Saves
  <2>3. (calls[i].kind = "save" /\ calls[i].page \in Record =>
          \A f \in Field \ foreign :
            f \notin calls[i].only \/ calls[i].state = "done" =>
              store[calls[i].page].fields[f] = calls[i].values[f])'
    BY <1>3, <2>1 DEF CallStores
  <2>4. (calls[i].kind = "publish" =>
          \A f \in Field \ (foreign \cup calls[i].late) :
            store[calls[i].record].fields[f] = calls[i].values[f])'
    BY <1>3, <2>1 DEF CallStores
  <2> QED
    BY <2>2, <2>3, <2>4 DEF CallStores
<1>4. ASSUME NEW i \in Ids, NEW j \in Ids, i # j, calls'[i] # None, calls'[j] # None
      PROVE  CallsAgree(calls'[i], calls'[j])
  <2>1. CallsAgree(calls[i], calls[j])
    BY <1>1, <1>4 DEF Agreed
  <2> QED
    BY <1>4, <2>1 DEF CallsAgree
<1> QED
  BY <1>2, <1>3, <1>4 DEF CallsStored, Agreed

\* A save is sent, while none is under way if the editor is still to be sure.
LEMMA StoresSaveSent ==
  ASSUME TypeOK, Routes, Touches, Stores, NEW stay \in BOOLEAN, save(stay),
         UNCHANGED <<store, page, baseline, foreign>>
  PROVE  Stores'
<1> SUFFICES ASSUME ~unsure' PROVE FormStored' /\ CallsStored' /\ Agreed'
  BY StoresParts
<1>1. ~unsure /\ UnderWay("save") = {} /\ saving' = TRUE
  BY DEF save
<1>2. FormStored /\ CallsStored /\ Agreed
  BY <1>1, StoresParts
<1>3. \A i \in Ids : calls[i] # None => calls[i].kind # "save"
  BY <1>1 DEF UnderWay, Free
<1>4. PICK i \in Ids, c \in Calls :
        /\ calls[i] = None /\ calls' = [calls EXCEPT ![i] = c]
        /\ c.kind = "save" /\ c.page = page /\ c.record = page /\ c.values = values
        /\ c.only = prepare /\ c.state = "sent"
  BY SaveSent
<1>5. calls'[i] = c /\ \A j \in Ids \ {i} : calls'[j] = calls[j]
  BY <1>4, Replaced
<1>6. page \in Record => \A f \in Field \ foreign : store[page].fields[f] = baseline[f]
  BY <1>2, <1>3 DEF FormStored, Saves
<1>7. FormStored'
  BY <1>6 DEF FormStored
<1>8. ASSUME NEW j \in Ids, calls'[j] # None PROVE CallStores(calls[j])'
  <2>1. CASE j = i
    <3>1. page \in Record => \A f \in Field \ c.only : baseline[f] = values[f]
      BY <1>4, EditorAssumption DEF prepare, changedFields, TypeOK
    <3> QED
      BY <1>1, <1>4, <1>5, <1>6, <2>1, <3>1 DEF CallStores, Saves
  <2>2. CASE j # i
    <3>1. calls'[j] = calls[j] /\ CallStores(calls[j])
      BY <1>2, <1>5, <1>8, <2>2 DEF CallsStored
    <3> QED
      BY <1>1, <3>1 DEF CallStores, Saves
  <2> QED
    BY <2>1, <2>2
<1>9. ASSUME NEW j \in Ids, NEW k \in Ids, j # k, calls'[j] # None, calls'[k] # None
      PROVE  CallsAgree(calls'[j], calls'[k])
  <2>1. CASE j = i
    <3>1. calls'[k] = calls[k] /\ calls[k].kind # "save"
      BY <1>3, <1>5, <1>9, <2>1
    <3> QED
      BY <1>4, <1>5, <2>1, <3>1 DEF CallsAgree
  <2>2. CASE k = i
    <3>1. calls'[j] = calls[j] /\ calls[j].kind # "save" /\ CallTouches(calls[j])
      BY <1>3, <1>5, <1>9, <2>2 DEF Touches
    <3>2. c.only \subseteq Field
      BY DEF Calls
    <3> QED
      BY <1>4, <1>5, <2>2, <3>1, <3>2 DEF CallsAgree, CallTouches
  <2>3. CASE j # i /\ k # i
    BY <1>2, <1>5, <1>9, <2>3 DEF Agreed
  <2> QED
    BY <2>1, <2>2, <2>3
<1> QED
  BY <1>7, <1>8, <1>9 DEF CallsStored, Agreed

\* A form that is not dirty is published, or a list is put: what is stored is what is seen.
LEMMA StoresSent ==
  ASSUME TypeOK, Stores, NEW i \in Ids, NEW c \in Calls,
         calls[i] = None, calls' = [calls EXCEPT ![i] = c],
         UNCHANGED <<store, page, baseline, saving, foreign, unsure>>,
         \/ c.kind \in {"put", "link"}
         \/ /\ c.kind = "publish" /\ c.page = page /\ c.record = page /\ c.values = baseline
            /\ page \in Record /\ saving = FALSE
  PROVE  Stores'
<1> SUFFICES ASSUME ~unsure' PROVE FormStored' /\ CallsStored' /\ Agreed'
  BY StoresParts
<1>1. FormStored /\ CallsStored /\ Agreed
  BY StoresParts
<1>2. calls'[i] = c /\ \A j \in Ids \ {i} : calls'[j] = calls[j]
  BY Replaced
<1>3. FormStored'
  BY <1>1, <1>2 DEF FormStored, Saves
<1>4. c.kind = "publish" =>
        /\ \A j \in Ids : calls[j] # None => ~Saves(calls[j])
        /\ \A f \in Field \ foreign : store[page].fields[f] = baseline[f]
  BY <1>1 DEF FormStored, CallsStored, CallStores
<1>5. ASSUME NEW j \in Ids, calls'[j] # None PROVE CallStores(calls[j])'
  <2>1. CASE j = i
    BY <1>2, <1>4, <2>1 DEF CallStores, Saves
  <2>2. CASE j # i
    <3>1. calls'[j] = calls[j] /\ CallStores(calls[j])
      BY <1>1, <1>2, <1>5, <2>2 DEF CallsStored
    <3> QED
      BY <3>1 DEF CallStores, Saves
  <2> QED
    BY <2>1, <2>2
<1>6. ASSUME NEW j \in Ids, NEW k \in Ids, j # k, calls'[j] # None, calls'[k] # None
      PROVE  CallsAgree(calls'[j], calls'[k])
  <2>1. CASE j = i
    BY <1>2, <1>4, <1>6, <2>1 DEF CallsAgree, Saves
  <2>2. CASE k = i
    BY <1>2, <2>2 DEF CallsAgree
  <2>3. CASE j # i /\ k # i
    BY <1>1, <1>2, <1>6, <2>3 DEF Agreed
  <2> QED
    BY <2>1, <2>2, <2>3
<1> QED
  BY <1>3, <1>5, <1>6 DEF CallsStored, Agreed

LEMMA StoresServed ==
  ASSUME TypeOK, Routes, Stores, NEW i \in Ids, Serve(i)
  PROVE  Stores'
<1> SUFFICES ASSUME ~unsure' PROVE FormStored' /\ CallsStored' /\ Agreed'
  BY StoresParts
<1>1. PICK r \in Record, s \in Startups, d \in Calls : ServedAs(i, r, s, d)
  BY Served
<1>2. calls'[i] = d /\ \A j \in Ids \ {i} : calls'[j] = calls[j]
  BY <1>1, Replaced DEF ServedAs
<1>3. UNCHANGED <<page, baseline, saving, foreign>>
  BY DEF Serve, tab, form
<1>4. store'[r] = s /\ \A q \in Record \ {r} : store'[q] = store[q]
  BY <1>1 DEF ServedAs, TypeOK
<1>5. /\ calls[i] \in Calls /\ calls[i] # None /\ CallRoutes(calls[i])
      /\ calls[i].page \in Record \cup {New} /\ calls[i].record \in Record \cup {New}
  BY <1>1 DEF ServedAs, Routes, TypeOK, Ids, Calls
<1>6. /\ d.page = calls[i].page /\ d.values = calls[i].values /\ d.only = calls[i].only
      /\ d.kind = calls[i].kind /\ d.late = calls[i].late /\ d.record = r /\ d.state = "done"
      /\ calls[i].state = "sent" /\ ~unsure
  BY <1>1 DEF ServedAs
<1>7. FormStored /\ CallsStored /\ Agreed /\ CallStores(calls[i])
  BY <1>5, <1>6, StoresParts DEF CallsStored
<1>8. calls[i].record # New =>
        /\ r = calls[i].record /\ store[r] # None
        /\ \A f \in Field : s.fields[f] = IF d.kind = "save" /\ f \in d.only THEN d.values[f]
                                          ELSE store[r].fields[f]
  BY <1>1 DEF ServedAs
<1>9. calls[i].record = New => store[r] = None /\ d.kind = "save" /\ d.page = New
  BY <1>1 DEF ServedAs
<1>10. FormStored'
  <2> SUFFICES ASSUME page \in Record PROVE FormStored'
    BY <1>3 DEF FormStored
  <2>1. store[page] # None
    BY DEF Routes, PageRoutes
  <2>2. r = page => d.page = page /\ calls[i].record # New
    BY <1>5, <1>6, <1>8, <1>9, <2>1 DEF CallRoutes, Coming
  <2>3. ASSUME NEW j \in Ids, calls[j] # None, Saves(calls[j]), calls[j].state = "done"
        PROVE  FormStored'
    <3>1. j # i /\ calls'[j] = calls[j]
      BY <1>2, <1>6, <2>3
    <3> QED
      BY <1>3, <2>3, <3>1 DEF FormStored, Saves
  <2>4. CASE \A f \in Field \ foreign : store[page].fields[f] = baseline[f]
    <3>1. CASE r = page /\ d.kind = "save"
      <4>1. calls'[i] # None /\ Saves(calls[i])' /\ calls'[i].state = "done"
        BY <1>2, <1>3, <1>6, <2>2, <3>1, Nulls DEF Saves
      <4> QED
        BY <4>1 DEF FormStored
    <3>2. CASE r # page \/ d.kind # "save"
      <4>1. \A f \in Field : store'[page].fields[f] = store[page].fields[f]
        BY <1>4, <1>8, <2>2, <3>2
      <4> QED
        BY <1>3, <2>4, <4>1 DEF FormStored
    <3> QED
      BY <3>1, <3>2
  <2> QED
    BY <1>7, <2>3, <2>4 DEF FormStored
<1>11. CallStores(d)'
  <2>1. (Saves(d) => saving)'
    BY <1>3, <1>6, <1>7 DEF CallStores, Saves
  <2>2. d.kind = "save" /\ d.page \in Record =>
          \A f \in Field \ foreign : store'[d.page].fields[f] = d.values[f]
    <3> SUFFICES ASSUME d.kind = "save", d.page \in Record, NEW f \in Field \ foreign
                 PROVE  store'[d.page].fields[f] = d.values[f]
      OBVIOUS
    <3>1. r = d.page /\ calls[i].record # New
      BY <1>5, <1>6, <1>8, Nulls DEF CallRoutes
    <3>2. f \notin d.only => store[r].fields[f] = d.values[f]
      BY <1>6, <1>7, <3>1 DEF CallStores
    <3> QED
      BY <1>4, <1>8, <3>1, <3>2
  <2>3. d.kind = "publish" =>
          \A f \in Field \ (foreign \cup d.late) : store'[d.record].fields[f] = d.values[f]
    <3> SUFFICES ASSUME d.kind = "publish", NEW f \in Field \ (foreign \cup d.late)
                 PROVE  store'[d.record].fields[f] = d.values[f]
      OBVIOUS
    <3>1. calls[i].record # New
      BY <1>9
    <3> QED
      BY <1>4, <1>6, <1>7, <1>8, <3>1 DEF CallStores
  <2> QED
    BY <1>3, <2>1, <2>2, <2>3 DEF CallStores
<1>12. ASSUME NEW j \in Ids, j # i, calls[j] # None PROVE CallStores(calls[j])'
  <2>1. calls'[j] = calls[j] /\ CallStores(calls[j]) /\ CallRoutes(calls[j]) /\ calls[j] \in Calls
    BY <1>2, <1>7, <1>12 DEF CallsStored, Routes, TypeOK, Ids
  <2>2. (Saves(calls[j]) => saving)'
    BY <1>3, <2>1 DEF CallStores, Saves
  <2>3. ASSUME calls[j].kind = "save", calls[j].page \in Record
        PROVE  \A f \in Field : store'[calls[j].page].fields[f] = store[calls[j].page].fields[f]
    <3>1. d.kind # "save" /\ calls[i].record # New
      BY <1>5, <1>6, <1>7, <1>9, <1>12, <2>3 DEF Agreed, CallsAgree
    <3> QED
      BY <1>4, <1>8, <2>3, <3>1
  <2>4. ASSUME calls[j].kind = "publish", NEW f \in Field \ (foreign \cup calls[j].late)
        PROVE  store'[calls[j].record].fields[f] = calls[j].values[f]
    <3> DEFINE q == calls[j].record
    <3>1. /\ q \in Record /\ store[q] # None /\ (calls[j].page \in Record => calls[j].page = q)
          /\ store[q].fields[f] = calls[j].values[f]
      BY <2>1, <2>4, Nulls DEF CallRoutes, Coming, Calls, CallStores
    <3>2. CASE r # q \/ d.kind # "save"
      <4>1. r = q => calls[i].record # New
        BY <1>9, <3>1
      <4> QED
        BY <1>4, <1>8, <3>1, <3>2, <4>1
    <3>3. CASE r = q /\ d.kind = "save"
      <4>1. calls[i].record = r /\ (calls[i].page \in Record => calls[i].page = r)
        BY <1>5, <1>8, <1>9, <3>1, <3>3 DEF CallRoutes
      <4>2. CallsApart(calls[i], calls[j]) /\ CallsApart(calls[j], calls[i])
        BY <1>5, <1>12 DEF Routes
      <4>3. calls[i].page = calls[j].page /\ calls[j].page \in Record
        BY <1>5, <2>1, <3>1, <3>3, <4>1, <4>2, Nulls DEF CallsApart, Coming, Calls
      <4>4. CallsAgree(calls[j], calls[i])
        BY <1>5, <1>7, <1>12 DEF Agreed
      <4>5. f \in d.only => d.values[f] = calls[j].values[f]
        BY <1>6, <2>4, <3>3, <4>3, <4>4 DEF CallsAgree
      <4>6. calls[i].record # New
        BY <4>1, Nulls
      <4> QED
        BY <1>4, <1>8, <3>1, <3>3, <4>5, <4>6
    <3> QED
      BY <3>2, <3>3
  <2> QED
    BY <1>3, <2>1, <2>2, <2>3, <2>4 DEF CallStores
<1>13. ASSUME NEW j \in Ids, calls'[j] # None PROVE CallStores(calls[j])'
  <2>1. CASE j = i
    BY <1>2, <1>11, <2>1 DEF CallStores, Saves
  <2>2. CASE j # i
    BY <1>2, <1>12, <1>13, <2>2
  <2> QED
    BY <2>1, <2>2
<1>14. ASSUME NEW j \in Ids, NEW k \in Ids, j # k, calls'[j] # None, calls'[k] # None
       PROVE  CallsAgree(calls'[j], calls'[k])
  <2>1. CallsAgree(calls[j], calls[k])
    BY <1>2, <1>5, <1>7, <1>14 DEF Agreed
  <2> QED
    BY <1>2, <1>6, <2>1 DEF CallsAgree
<1> QED
  BY <1>10, <1>13, <1>14 DEF CallsStored, Agreed

\* A save that is answered becomes the baseline; one that goes on is published as it is stored.
LEMMA StoresAnswered ==
  ASSUME TypeOK, Routes, Keeps, Stores, NEW i \in Ids, AnswerSave(i)
  PROVE  Stores'
<1> DEFINE c == calls[i]
<1> SUFFICES ASSUME ~unsure' PROVE FormStored' /\ CallsStored' /\ Agreed'
  BY StoresParts
<1>1. /\ c # None /\ c.kind = "save" /\ c.state # "sent" /\ ~unsure
      /\ saving' = (saving /\ c.page # page) /\ UNCHANGED <<store, page, foreign>>
      /\ IF c.state = "done" THEN markSaved(c) ELSE UNCHANGED baseline
  BY DEF AnswerSave, UnderWay, Free, history
<1>2. FormStored /\ CallsStored /\ Agreed /\ CallStores(c) /\ CallRoutes(c) /\ CallKeeps(c)
  BY <1>1, StoresParts DEF CallsStored, Routes, Keeps
<1>3. \A j \in Ids \ {i} : calls[j] # None => calls[j].kind # "save"
  BY <1>1, <1>2 DEF Agreed, CallsAgree
<1>4. PICK d \in Calls \cup {None} :
        /\ calls' = [calls EXCEPT ![i] = d]
        /\ d # None => /\ d.kind = "publish" /\ c.state = "done"
                       /\ d.page = c.page /\ d.record = c.record /\ d.values = c.values
  <2>1. CASE calls' = [calls EXCEPT ![i] = None]
    BY <2>1
  <2>2. CASE /\ calls' = [calls EXCEPT ![i] = [c EXCEPT !.kind = "publish", !.state = "sent"]]
             /\ c.state = "done"
    BY <1>1, <2>2, Continued
  <2> QED
    BY <2>1, <2>2 DEF AnswerSave
<1>5. calls'[i] = d /\ \A j \in Ids \ {i} : calls'[j] = calls[j]
  BY <1>4, Replaced
<1>6. FormStored'
  <2> SUFFICES ASSUME page \in Record
               PROVE  \A f \in Field \ foreign' : store'[page'].fields[f] = baseline'[f]
    BY <1>1 DEF FormStored
  <2>1. CASE c.state = "done" /\ c.page = page
    BY <1>1, <1>2, <2>1 DEF CallStores, markSaved
  <2>2. CASE ~(c.state = "done" /\ c.page = page)
    <3>1. UNCHANGED baseline
      BY <1>1, <2>2 DEF markSaved
    <3>2. \A j \in Ids : calls[j] # None => ~(Saves(calls[j]) /\ calls[j].state = "done")
      BY <1>3, <2>2 DEF Saves
    <3> QED
      BY <1>1, <1>2, <3>1, <3>2 DEF FormStored
  <2> QED
    BY <2>1, <2>2
<1>7. ASSUME NEW j \in Ids, calls'[j] # None PROVE CallStores(calls[j])'
  <2>1. CASE j = i
    <3>1. d # None /\ c.state = "done" /\ c.record \in Record
      BY <1>2, <1>4, <1>5, <1>7, <2>1 DEF CallRoutes
    <3>2. \A f \in Field \ foreign : store[c.record].fields[f] = c.values[f]
      <4>1. CASE c.page \in Record
        BY <1>1, <1>2, <3>1, <4>1 DEF CallStores, CallRoutes
      <4>2. CASE c.page = New
        BY <1>2, <3>1, <4>2, Nulls DEF CallKeeps, Coming
      <4>3. c \in Calls
        BY <1>1 DEF TypeOK, Ids
      <4> QED
        BY <4>1, <4>2, <4>3 DEF Calls
    <3> QED
      BY <1>1, <1>4, <1>5, <2>1, <3>1, <3>2 DEF CallStores, Saves
  <2>2. CASE j # i
    <3>1. calls'[j] = calls[j] /\ CallStores(calls[j]) /\ calls[j].kind # "save"
      BY <1>2, <1>3, <1>5, <1>7, <2>2 DEF CallsStored
    <3> QED
      BY <1>1, <3>1 DEF CallStores, Saves
  <2> QED
    BY <2>1, <2>2
<1>8. ASSUME NEW j \in Ids, NEW k \in Ids, j # k, calls'[j] # None, calls'[k] # None
      PROVE  CallsAgree(calls'[j], calls'[k])
  <2>1. calls'[j].kind # "save" /\ calls'[k].kind # "save"
    BY <1>3, <1>4, <1>5, <1>8
  <2> QED
    BY <2>1 DEF CallsAgree
<1> QED
  BY <1>6, <1>7, <1>8 DEF CallsStored, Agreed

LEMMA StoresStep ==
  ASSUME TypeOK, Routes, Touches, Keeps, Stores, [Next]_vars
  PROVE  Stores'
<1> DEFINE SameCalls == \A i \in Ids : calls'[i] # None =>
           /\ calls[i] # None /\ calls'[i].kind = calls[i].kind
           /\ calls'[i].page = calls[i].page /\ calls'[i].record = calls[i].record
           /\ calls'[i].values = calls[i].values /\ calls'[i].only = calls[i].only
           /\ calls[i].late \subseteq calls'[i].late /\ (calls'[i].state = "done" => calls[i].state = "done")
           SavesLeft == \A i \in Ids : calls[i] # None /\ calls[i].kind = "save" /\ calls[i].state = "done" =>
             calls'[i] # None /\ calls'[i].state = "done"
<1>1. \A i \in Ids : calls[i] # None /\ calls[i].kind = "publish" => calls[i].record \in Record
  BY DEF Routes, CallRoutes
<1>2. ASSUME SameCalls, SavesLeft, ~unsure' => ~unsure, UNCHANGED <<store, page, baseline, saving, foreign>>
      PROVE  Stores'
  BY <1>1, <1>2, StoresKept
<1>3. ASSUME NEW F \in SUBSET Field, calls' = Later(F), UNCHANGED <<store, page, baseline, saving, foreign, unsure>>
      PROVE  Stores'
  <2>1. SameCalls
    BY <1>3, Aged
  <2>2. SavesLeft
    BY <1>3, Aged
  <2> QED
    BY <1>2, <1>3, <2>1, <2>2
<1>4. ASSUME NEW f \in Field, NEW v \in Values, setField(f, v) PROVE Stores'
  <2> DEFINE F == {f}
  <2>1. F \in SUBSET Field /\ calls' = Later(F) /\ UNCHANGED <<store, page, baseline, saving, foreign, unsure>>
    BY <1>4 DEF setField
  <2> HIDE DEF F
  <2> QED
    BY <1>3, <2>1
<1>5. CASE onApply
  <2>1. draft.ticked \in SUBSET Field
    BY <1>5 DEF onApply, TypeOK, Drafts
  <2> QED
    BY <1>3, <1>5, <2>1 DEF onApply
<1>6. CASE Submit \/ Publish
  <2>1. UNCHANGED <<store, page, values, baseline, foreign>>
    BY <1>6, Clicked DEF Submit, Publish, form
  <2>2. ASSUME NEW stay \in BOOLEAN, save(stay) PROVE Stores'
    BY <2>1, <2>2, StoresSaveSent
  <2>3. ASSUME page \in Record, values = baseline, saving = FALSE, Free # {}, Send(Call("publish")),
               UNCHANGED <<saving, unsure>>
        PROVE  Stores'
    <3>1. PICK i \in Ids, c \in Calls :
            /\ calls[i] = None /\ calls' = [calls EXCEPT ![i] = c]
            /\ c.kind = "publish" /\ c.page = page /\ c.record = page /\ c.values = values
      BY <2>3, PublishSent
    <3> QED
      BY <2>1, <2>3, <3>1, StoresSent
  <2> QED
    BY <1>6, <2>2, <2>3, Clicked
<1>7. ASSUME NEW next \in SUBSET Industry, setIndustries(next) PROVE Stores'
  <2>1. UNCHANGED <<store, page, baseline, saving, foreign, unsure>>
    BY <1>7 DEF setIndustries, form
  <2>2. CASE page = New
    <3>1. UNCHANGED calls
      BY <1>7, <2>2 DEF setIndustries, KeepList
    <3> QED
      BY <1>2, <2>1, <3>1
  <2>3. CASE page # New
    <3>1. PICK i \in Ids, c \in Calls :
            calls[i] = None /\ calls' = [calls EXCEPT ![i] = c] /\ c.kind = "put"
      BY <1>7, <2>3, PutSent DEF setIndustries
    <3> QED
      BY <2>1, <3>1, StoresSent
  <2> QED
    BY <2>2, <2>3
<1>8. ASSUME NEW i \in Ids, Serve(i) PROVE Stores'
  BY <1>8, StoresServed
<1>9. ASSUME NEW i \in Ids, Refuse(i) PROVE Stores'
  <2>1. UNCHANGED <<store, page, baseline, saving, foreign, unsure>>
    BY <1>9 DEF Refuse, tab, form, history
  <2>2. PICK d \in Calls :
          /\ calls[i] # None /\ calls[i].state = "sent" /\ calls' = [calls EXCEPT ![i] = d]
          /\ d.kind = calls[i].kind /\ d.state = "failed" /\ d.page = calls[i].page
          /\ d.record = calls[i].record /\ d.values = calls[i].values /\ d.only = calls[i].only
          /\ d.late = calls[i].late
    BY <1>9, Refused
  <2>3. calls'[i] = d /\ \A j \in Ids \ {i} : calls'[j] = calls[j]
    BY <2>2, Replaced
  <2>4. SameCalls
    BY <2>2, <2>3
  <2>5. SavesLeft
    BY <2>2, <2>3
  <2> QED
    BY <1>2, <2>1, <2>4, <2>5
<1>10. ASSUME NEW i \in Ids, AnswerSave(i) PROVE Stores'
  BY <1>10, StoresAnswered
<1>11. ASSUME NEW i \in Ids, AnswerPublish(i) \/ AnswerChange(i) PROVE Stores'
  <2>1. /\ calls[i].kind # "save" /\ calls' = [calls EXCEPT ![i] = None] /\ (~unsure' => ~unsure)
        /\ UNCHANGED <<store, page, baseline, saving, foreign>>
    <3>1. CASE AnswerPublish(i)
      BY <3>1 DEF AnswerPublish, UnderWay, form, history
    <3>2. CASE AnswerChange(i)
      BY <3>2 DEF AnswerChange, UnderWay, form
    <3> QED
      BY <1>11, <3>1, <3>2
  <2>2. calls'[i] = None /\ \A j \in Ids \ {i} : calls'[j] = calls[j]
    BY <2>1, Replaced
  <2>3. SameCalls
    BY <2>2
  <2>4. SavesLeft
    BY <2>1, <2>2
  <2> QED
    BY <1>2, <2>1, <2>3, <2>4
<1>12. CASE Open
  <2>1. /\ nav # None /\ page' = nav /\ baseline' = store[nav].fields
        /\ UNCHANGED <<store, calls, foreign, unsure>>
    BY <1>12 DEF Open, history
  <2> SUFFICES ASSUME ~unsure' PROVE FormStored' /\ CallsStored' /\ Agreed'
    BY StoresParts
  <2>2. CallsStored /\ Agreed
    BY <2>1, StoresParts
  <2>3. FormStored'
    BY <2>1 DEF FormStored
  <2>4. ASSUME NEW i \in Ids, calls'[i] # None PROVE CallStores(calls[i])'
    <3>1. CallStores(calls[i]) /\ calls[i].page # nav
      BY <2>1, <2>2, <2>4 DEF CallsStored, Routes, CallRoutes
    <3> QED
      BY <2>1, <3>1 DEF CallStores, Saves
  <2>5. ASSUME NEW i \in Ids, NEW j \in Ids, i # j, calls'[i] # None, calls'[j] # None
        PROVE  CallsAgree(calls'[i], calls'[j])
    BY <2>1, <2>2, <2>5 DEF Agreed
  <2> QED
    BY <2>3, <2>4, <2>5 DEF CallsStored, Agreed
<1>13. CASE \/ fetchDraft \/ ReadReload \/ Reload \/ UNCHANGED vars
            \/ (\E fetch \in fetching : Offer(fetch)) \/ \E f \in Field : Tick(f)
  <2>1. UNCHANGED <<store, page, baseline, saving, foreign, unsure, calls>>
    BY <1>13 DEF fetchDraft, Offer, ReadReload, Reload, vars, Tick, tab, form, history
  <2> QED
    BY <1>2, <2>1
<1>14. ASSUME NEW r \in Record, OtherEdit(r) PROVE Stores'
  <2>1. UNCHANGED <<page, baseline, saving, calls, unsure>> /\ foreign \subseteq foreign'
    BY <1>14, Edited DEF tab, form
  <2>2. PICK s \in Startups : /\ store' = [store EXCEPT ![r] = s]
                              /\ \A f \in Field \ foreign' : s.fields[f] = store[r].fields[f]
    BY <1>14, Edited
  <2>3. \A q \in Record, f \in Field \ foreign' : store'[q].fields[f] = store[q].fields[f]
    BY <2>2 DEF TypeOK
  <2> QED
    BY <1>1, <2>1, <2>3, StoresKept
<1>15. CASE ChangeLink
  <2>1. UNCHANGED <<store, page, baseline, saving, foreign, unsure>>
    BY <1>15, LinkSent DEF form, history
  <2> QED
    BY <1>15, <2>1, LinkSent, StoresSent
<1> QED
  BY <1>4, <1>5, <1>6, <1>7, <1>8, <1>9, <1>10, <1>11, <1>12, <1>13, <1>14, <1>15, Choosing
  DEF Next, Admin, Page

(***************************************************************************)
(* Lists.                                                                  *)
(***************************************************************************)

\* No list is put, and the page stays.
LEMMA AloneKept ==
  ASSUME Alone, UNCHANGED page, ~hasty' => ~hasty,
         \A i \in Ids : calls'[i] # None /\ calls'[i].kind = "put" =>
           calls[i] # None /\ calls[i].kind = "put" /\ calls'[i].page = calls[i].page
  PROVE  Alone'
<1> SUFFICES ASSUME ~hasty', NEW i \in Ids, NEW j \in Ids, i # j, calls'[i] # None, calls'[j] # None,
                    Puts(calls[i])', Puts(calls[j])'
             PROVE  FALSE
  BY DEF Alone
<1>1. Puts(calls[i]) /\ Puts(calls[j]) /\ calls[i] # None /\ calls[j] # None
  BY DEF Puts
<1> QED
  BY <1>1 DEF Alone

LEMMA AloneStep ==
  ASSUME TypeOK, Routes, Alone, [Next]_vars
  PROVE  Alone'
<1> DEFINE SamePuts == \A i \in Ids : calls'[i] # None /\ calls'[i].kind = "put" =>
             calls[i] # None /\ calls[i].kind = "put" /\ calls'[i].page = calls[i].page
<1>1. ASSUME NEW F \in SUBSET Field, calls' = Later(F), UNCHANGED <<page, hasty>> PROVE Alone'
  <2>1. SamePuts
    BY <1>1, Aged
  <2> QED
    BY <1>1, <2>1, AloneKept
<1>2. ASSUME NEW f \in Field, NEW v \in Values, setField(f, v) PROVE Alone'
  <2> DEFINE F == {f}
  <2>1. F \in SUBSET Field /\ calls' = Later(F) /\ UNCHANGED <<page, hasty>>
    BY <1>2 DEF setField
  <2> HIDE DEF F
  <2> QED
    BY <1>1, <2>1
<1>3. CASE onApply
  <2>1. draft.ticked \in SUBSET Field
    BY <1>3 DEF onApply, TypeOK, Drafts
  <2> QED
    BY <1>1, <1>3, <2>1 DEF onApply
<1>4. ASSUME NEW i \in Ids, NEW d \in Calls \cup {None}, calls' = [calls EXCEPT ![i] = d],
             UNCHANGED <<page, hasty>>,
             \/ d = None \/ d.kind # "put"
             \/ calls[i] # None /\ d.kind = calls[i].kind /\ d.page = calls[i].page
      PROVE  Alone'
  <2>1. calls'[i] = d /\ \A j \in Ids \ {i} : calls'[j] = calls[j]
    BY <1>4, Replaced
  <2>2. SamePuts
    BY <1>4, <2>1
  <2> QED
    BY <1>4, <2>2, AloneKept
<1>5. CASE Submit \/ Publish
  <2>1. UNCHANGED <<page, hasty>>
    BY <1>5, Clicked
  <2>2. ASSUME NEW stay \in BOOLEAN, save(stay) PROVE Alone'
    <3>1. PICK i \in Ids, c \in Calls : calls' = [calls EXCEPT ![i] = c] /\ c.kind = "save"
      BY <2>2, SaveSent
    <3> QED
      BY <1>4, <2>1, <3>1
  <2>3. ASSUME Free # {}, Send(Call("publish")) PROVE Alone'
    <3>1. PICK i \in Ids, c \in Calls : calls' = [calls EXCEPT ![i] = c] /\ c.kind = "publish"
      BY <2>3, PublishSent
    <3> QED
      BY <1>4, <2>1, <3>1
  <2> QED
    BY <1>5, <2>2, <2>3, Clicked
<1>6. ASSUME NEW next \in SUBSET Industry, setIndustries(next) PROVE Alone'
  <2>1. CASE page = New
    <3>1. KeepList(next) /\ UNCHANGED page
      BY <1>6, <2>1 DEF setIndustries
    <3> QED
      BY <3>1, AloneKept DEF KeepList
  <2>2. CASE page # New
    <3>1. PutList(next) /\ UNCHANGED page
      BY <1>6, <2>2 DEF setIndustries
    <3>2. PICK i \in Ids, c \in Calls : calls[i] = None /\ calls' = [calls EXCEPT ![i] = c]
      BY <3>1, PutSent
    <3>3. \A j \in Ids \ {i} : calls'[j] = calls[j]
      BY <3>2, Replaced
    <3>4. ~hasty' => \A j \in Ids : calls[j] # None => calls[j].kind # "put"
      BY <3>1 DEF PutList, UnderWay, Free
    <3> QED
      BY <3>1, <3>3, <3>4 DEF Alone, Puts
  <2> QED
    BY <2>1, <2>2
<1>7. CASE ChangeLink
  <2>1. UNCHANGED <<page, hasty>>
    BY <1>7, LinkSent DEF history
  <2>2. PICK i \in Ids, c \in Calls : calls' = [calls EXCEPT ![i] = c] /\ c.kind = "link"
    BY <1>7, LinkSent
  <2> QED
    BY <1>4, <2>1, <2>2
<1>8. ASSUME NEW i \in Ids, Serve(i) PROVE Alone'
  <2>1. PICK r \in Record, s \in Startups, d \in Calls : ServedAs(i, r, s, d)
    BY <1>8, Served
  <2>2. UNCHANGED <<page, hasty>>
    BY <1>8 DEF Serve, tab
  <2> QED
    BY <1>4, <2>1, <2>2 DEF ServedAs
<1>9. ASSUME NEW i \in Ids, Refuse(i) PROVE Alone'
  <2>1. UNCHANGED <<page, hasty>>
    BY <1>9 DEF Refuse, tab, history
  <2>2. PICK d \in Calls :
          /\ calls[i] # None /\ calls' = [calls EXCEPT ![i] = d]
          /\ d.kind = calls[i].kind /\ d.page = calls[i].page
    BY <1>9, Refused
  <2> QED
    BY <1>4, <2>1, <2>2
<1>10. ASSUME NEW i \in Ids, AnswerSave(i) PROVE Alone'
  <2>1. calls[i] # None /\ UNCHANGED <<page, hasty>>
    BY <1>10 DEF AnswerSave, UnderWay, Free, history
  <2>2. PICK d \in Calls \cup {None} : calls' = [calls EXCEPT ![i] = d] /\ (d = None \/ d.kind # "put")
    <3>1. CASE calls' = [calls EXCEPT ![i] = None]
      BY <3>1
    <3>2. CASE calls' = [calls EXCEPT ![i] = [calls[i] EXCEPT !.kind = "publish", !.state = "sent"]]
      BY <2>1, <3>2, Continued
    <3> QED
      BY <1>10, <3>1, <3>2 DEF AnswerSave
  <2> QED
    BY <1>4, <2>1, <2>2
<1>11. ASSUME NEW i \in Ids, AnswerPublish(i) \/ AnswerChange(i) PROVE Alone'
  <2>1. calls' = [calls EXCEPT ![i] = None] /\ UNCHANGED <<page, hasty>>
    BY <1>11 DEF AnswerPublish, AnswerChange, history
  <2> QED
    BY <1>4, <2>1
<1>12. CASE Open
  <2>1. nav # None /\ page' = nav /\ UNCHANGED calls
    BY <1>12 DEF Open
  <2>2. ASSUME NEW i \in Ids, calls'[i] # None PROVE ~Puts(calls[i])'
    BY <2>1, <2>2 DEF Routes, CallRoutes, Puts
  <2> QED
    BY <2>2 DEF Alone
<1>13. CASE \/ fetchDraft \/ ReadReload \/ Reload \/ UNCHANGED vars
            \/ \E fetch \in fetching : Offer(fetch)
            \/ (\E f \in Field : Tick(f)) \/ \E r \in Record : OtherEdit(r)
  <2>1. UNCHANGED <<page, hasty, calls>>
    BY <1>13 DEF fetchDraft, Offer, ReadReload, Reload, vars, Tick, OtherEdit, tab, history
  <2> QED
    BY <2>1, AloneKept
<1> QED
  BY <1>2, <1>3, <1>5, <1>6, <1>7, <1>8, <1>9, <1>10, <1>11, <1>12, <1>13, Choosing
  DEF Next, Admin, Page

\* What is wanted after a change of a list that is what was wanted is the new list.
LEMMA WantedNext ==
  ASSUME TypeOK, NEW next \in SUBSET Industry, Wanted(shown.industries), UNCHANGED foreign,
         want' = [i \in Industry |-> IF (i \in next) = (i \in shown.industries) THEN want[i]
                                     ELSE IF i \in next THEN "in" ELSE "out"]
  PROVE  Wanted(next)'
BY DEF Wanted

\* No list is put, answered or loaded.
LEMMA ListedKept ==
  ASSUME TypeOK, Listed, ~unsure' => ~unsure, UNCHANGED <<page, want>>, ~hasty' => ~hasty,
         foreign \subseteq foreign',
         page \in Record => \A i \in Industry \ foreign' :
           i \in store'[page].industries <=> i \in store[page].industries,
         reload' = None => reload = None /\ UNCHANGED shown,
         reload' # None /\ reload'.read => UNCHANGED reload,
         \A i \in Ids : calls[i] # None /\ calls[i].kind = "put" =>
           calls'[i] # None /\ calls'[i].kind = "put" /\ calls'[i].page = calls[i].page,
         \A i \in Ids : calls'[i] # None /\ calls'[i].kind = "put" /\ calls'[i].state # "failed" =>
           /\ calls[i] # None /\ calls[i].kind = "put" /\ calls'[i].page = calls[i].page
           /\ calls'[i].state = calls[i].state /\ calls'[i].list = calls[i].list,
         \A i \in Ids : calls[i] # None /\ calls[i].kind = "put" => calls[i].page \in Record
  PROVE  Listed'
<1> SUFFICES ASSUME ~unsure', ~hasty'
             PROVE  /\ ~Putting' /\ page' \in Record => Wanted(store[page].industries)'
                    /\ ~Putting' /\ reload' = None => Wanted(shown.industries)'
                    /\ ~Putting' /\ reload' # None /\ reload'.read => Wanted(reload.industries)'
                    /\ \A i \in Ids : calls'[i] # None => CallLists(calls[i])'
  BY DEF Listed
<1>1. ~unsure /\ ~hasty /\ (~Putting' => ~Putting)
  BY DEF Putting, Puts
<1>2. ~Putting' /\ page' \in Record => Wanted(store[page].industries)'
  BY <1>1 DEF Listed, Wanted
<1>3. ~Putting' /\ reload' = None => Wanted(shown.industries)'
  BY <1>1 DEF Listed, Wanted
<1>4. ~Putting' /\ reload' # None /\ reload'.read => Wanted(reload.industries)'
  BY <1>1 DEF Listed, Wanted
<1>5. ASSUME NEW i \in Ids, calls'[i] # None PROVE CallLists(calls[i])'
  <2> SUFFICES ASSUME Puts(calls[i])', calls'[i].state # "failed"
               PROVE  Wanted(calls[i].list)' /\ (calls'[i].state = "done" => Wanted(store[page].industries)')
    BY DEF CallLists
  <2>1. /\ calls[i] # None /\ Puts(calls[i]) /\ calls'[i].list = calls[i].list
        /\ calls'[i].state = calls[i].state /\ page \in Record
    BY <1>5 DEF Puts
  <2>2. Wanted(calls[i].list) /\ (calls[i].state = "done" => Wanted(store[page].industries))
    BY <1>1, <2>1 DEF Listed, CallLists
  <2> QED
    BY <2>1, <2>2 DEF Wanted
<1> QED
  BY <1>2, <1>3, <1>4, <1>5

LEMMA ListedPut ==
  ASSUME TypeOK, Routes, Alone, Listed, NEW next \in SUBSET Industry, setIndustries(next)
  PROVE  Listed'
<1> SUFFICES ASSUME ~unsure', ~hasty'
             PROVE  /\ ~Putting' /\ page' \in Record => Wanted(store[page].industries)'
                    /\ ~Putting' /\ reload' = None => Wanted(shown.industries)'
                    /\ ~Putting' /\ reload' # None /\ reload'.read => Wanted(reload.industries)'
                    /\ \A i \in Ids : calls'[i] # None => CallLists(calls[i])'
  BY DEF Listed
<1>1. /\ UNCHANGED <<store, page, reload, foreign, unsure>>
      /\ want' = [i \in Industry |-> IF (i \in next) = (i \in shown.industries) THEN want[i]
                                     ELSE IF i \in next THEN "in" ELSE "out"]
  BY DEF setIndustries
<1>2. CASE page = New
  <2>1. /\ shown' = [shown EXCEPT !.industries = next] /\ UNCHANGED calls /\ ~hasty
        /\ reload = None
    BY <1>2 DEF setIndustries, KeepList, Routes, PageRoutes
  <2>2. shown'.industries = next
    BY <2>1 DEF TypeOK, Lists
  <2>3. ~Putting' => Wanted(shown.industries)'
    <3> SUFFICES ASSUME ~Putting PROVE Wanted(shown.industries)'
      BY <1>1, <2>1 DEF Putting, Puts
    <3>1. Wanted(shown.industries)
      BY <1>1, <2>1 DEF Listed
    <3>2. Wanted(next)'
      BY <1>1, <3>1, WantedNext
    <3> QED
      BY <2>2, <3>2 DEF Wanted
  <2>4. ASSUME NEW i \in Ids, calls'[i] # None PROVE ~Puts(calls[i])'
    BY <1>1, <1>2, <2>1, <2>4, Nulls DEF Puts, Routes, CallRoutes
  <2> QED
    BY <1>1, <1>2, <2>1, <2>3, <2>4, Nulls DEF CallLists
<1>3. CASE page # New
  <2>1. PutList(next)
    BY <1>3 DEF setIndustries
  <2>2. ~Putting /\ ~hasty /\ reload = None
    BY <2>1 DEF PutList, Putting, Puts, UnderWay, Free
  <2>3. Wanted(next)'
    BY <1>1, <2>2, WantedNext DEF Listed
  <2>4. PICK i \in Ids, c \in Calls :
          /\ calls[i] = None /\ calls' = [calls EXCEPT ![i] = c]
          /\ c.kind = "put" /\ c.page = page /\ c.list = next /\ c.state = "sent"
    BY <2>1, PutSent
  <2>5. calls'[i] = c /\ \A j \in Ids \ {i} : calls'[j] = calls[j]
    BY <2>4, Replaced
  <2>6. ASSUME NEW j \in Ids, calls'[j] # None PROVE CallLists(calls[j])'
    <3>1. CASE j = i
      BY <2>3, <2>4, <2>5, <3>1 DEF CallLists, Wanted
    <3>2. CASE j # i
      <4>1. ~Puts(calls[j])'
        BY <1>1, <2>2, <2>5, <2>6, <3>2 DEF Putting, Puts
      <4> QED
        BY <4>1 DEF CallLists
    <3> QED
      BY <3>1, <3>2
  <2>7. Putting'
    BY <1>1, <2>4, <2>5, Nulls DEF Putting, Puts
  <2> QED
    BY <2>6, <2>7
<1> QED
  BY <1>2, <1>3

LEMMA ListedServed ==
  ASSUME TypeOK, Routes, Alone, Listed, NEW i \in Ids, Serve(i)
  PROVE  Listed'
<1> SUFFICES ASSUME ~unsure', ~hasty'
             PROVE  /\ ~Putting' /\ page' \in Record => Wanted(store[page].industries)'
                    /\ ~Putting' /\ reload' = None => Wanted(shown.industries)'
                    /\ ~Putting' /\ reload' # None /\ reload'.read => Wanted(reload.industries)'
                    /\ \A j \in Ids : calls'[j] # None => CallLists(calls[j])'
  BY DEF Listed
<1>1. PICK r \in Record, s \in Startups, d \in Calls : ServedAs(i, r, s, d)
  BY Served
<1>2. calls'[i] = d /\ \A j \in Ids \ {i} : calls'[j] = calls[j]
  BY <1>1, Replaced DEF ServedAs
<1>3. UNCHANGED <<page, shown, reload, foreign, want, hasty>>
  BY DEF Serve, tab
<1>4. store'[r] = s /\ \A q \in Record \ {r} : store'[q] = store[q]
  BY <1>1 DEF ServedAs, TypeOK
<1>5. /\ calls[i] # None /\ CallRoutes(calls[i]) /\ ~unsure /\ ~hasty
      /\ d.kind = calls[i].kind /\ d.page = calls[i].page /\ d.list = calls[i].list
      /\ d.record = r /\ d.state = "done" /\ calls[i].state = "sent"
  BY <1>1, <1>3 DEF ServedAs, Routes
<1>6. /\ ~Putting /\ page \in Record => Wanted(store[page].industries)
      /\ ~Putting /\ reload = None => Wanted(shown.industries)
      /\ ~Putting /\ reload # None /\ reload.read => Wanted(reload.industries)
      /\ \A j \in Ids : calls[j] # None => CallLists(calls[j])
  BY <1>5 DEF Listed
<1>7. page \in Record /\ ~Puts(calls[i]) => store'[page].industries = store[page].industries
  <2> SUFFICES ASSUME page \in Record, ~Puts(calls[i]), r = page
               PROVE  s.industries = store[r].industries
    BY <1>4
  <2>1. store[r] # None
    BY DEF Routes, PageRoutes
  <2>2. calls[i].record # New /\ r = calls[i].record
    BY <1>1, <2>1 DEF ServedAs
  <2>3. d.kind # "put"
    BY <1>5, <2>2 DEF Puts, CallRoutes
  <2> QED
    BY <1>1, <2>2, <2>3 DEF ServedAs
<1>a. ~Putting' => ~Putting /\ ~Puts(calls[i])
  <2>1. \A j \in Ids : calls[j] # None /\ Puts(calls[j]) => calls'[j] # None /\ Puts(calls[j])'
    BY <1>2, <1>3, <1>5, Nulls DEF Puts
  <2> QED
    BY <1>5, <2>1 DEF Putting
<1>8. ~Putting' /\ page' \in Record => Wanted(store[page].industries)'
  BY <1>3, <1>6, <1>7, <1>a DEF Wanted
<1>9. ASSUME NEW j \in Ids, calls'[j] # None PROVE CallLists(calls[j])'
  <2> SUFFICES ASSUME Puts(calls[j])', calls'[j].state # "failed"
               PROVE  Wanted(calls[j].list)' /\ (calls'[j].state = "done" => Wanted(store[page].industries)')
    BY DEF CallLists
  <2>1. CASE j = i
    <3>1. Puts(calls[i])
      BY <1>2, <1>3, <1>5, <2>1 DEF Puts
    <3>2. Wanted(d.list)
      BY <1>5, <1>6, <3>1 DEF CallLists
    <3>3. page \in Record /\ calls[i].record = page
      BY <1>5, <3>1 DEF Puts, CallRoutes
    <3>4. r = page /\ s.industries = d.list
      BY <1>1, <1>5, <3>1, <3>3, Nulls DEF ServedAs, Puts
    <3> QED
      BY <1>2, <1>3, <1>4, <2>1, <3>2, <3>3, <3>4 DEF Wanted
  <2>2. CASE j # i
    <3>1. calls'[j] = calls[j] /\ calls[j] # None /\ Puts(calls[j]) /\ CallRoutes(calls[j])
      BY <1>2, <1>3, <1>9, <2>2 DEF Puts, Routes
    <3>2. ~Puts(calls[i]) /\ page \in Record
      BY <1>5, <2>2, <3>1 DEF Alone, Puts, CallRoutes
    <3>3. Wanted(calls[j].list) /\ (calls[j].state = "done" => Wanted(store[page].industries))
      BY <1>6, <1>9, <3>1 DEF CallLists
    <3> QED
      BY <1>3, <1>7, <3>1, <3>2, <3>3 DEF Wanted
  <2> QED
    BY <2>1, <2>2
<1> QED
  BY <1>3, <1>6, <1>8, <1>9, <1>a DEF Wanted

\* A put that is answered is stored; one that fails leaves the editor unsure.
LEMMA ListedAnswered ==
  ASSUME TypeOK, Routes, Alone, Listed, NEW i \in Ids, AnswerChange(i), calls[i].kind = "put"
  PROVE  Listed'
<1> SUFFICES ASSUME ~unsure', ~hasty'
             PROVE  /\ ~Putting' /\ page' \in Record => Wanted(store[page].industries)'
                    /\ ~Putting' /\ reload' = None => Wanted(shown.industries)'
                    /\ ~Putting' /\ reload' # None /\ reload'.read => Wanted(reload.industries)'
                    /\ \A j \in Ids : calls'[j] # None => CallLists(calls[j])'
  BY DEF Listed
<1>1. /\ calls[i] # None /\ calls[i].kind = "put" /\ calls[i].state = "done" /\ ~unsure /\ ~hasty
      /\ calls' = [calls EXCEPT ![i] = None]
      /\ reload' = [shown EXCEPT !.read = FALSE]
      /\ UNCHANGED <<store, page, foreign, want>>
  BY DEF AnswerChange, UnderWay, Free
<1>2. calls'[i] = None /\ \A j \in Ids \ {i} : calls'[j] = calls[j]
  BY <1>1, Replaced
<1>3. reload' # None /\ ~reload'.read
  <2>1. reload' \in Lists /\ reload'.read = FALSE
    BY <1>1 DEF TypeOK, Lists
  <2> QED
    BY <2>1, Nulls
<1>4. ~Putting' /\ page' \in Record => Wanted(store[page].industries)'
  <2>1. CASE calls[i].page = page
    <3>1. Wanted(store[page].industries)
      BY <1>1, <2>1 DEF Listed, CallLists, Puts
    <3> QED
      BY <1>1, <3>1 DEF Wanted
  <2>2. CASE calls[i].page # page
    <3>1. ~Putting' => ~Putting
      BY <1>1, <1>2, <2>2 DEF Putting, Puts
    <3> QED
      BY <1>1, <3>1 DEF Listed, Wanted
  <2> QED
    BY <2>1, <2>2
<1>5. ASSUME NEW j \in Ids, calls'[j] # None PROVE CallLists(calls[j])'
  <2>1. calls'[j] = calls[j] /\ CallLists(calls[j])
    BY <1>1, <1>2, <1>5 DEF Listed
  <2> QED
    BY <1>1, <2>1 DEF CallLists, Puts, Wanted
<1> QED
  BY <1>3, <1>4, <1>5

LEMMA ListedStep ==
  ASSUME TypeOK, Routes, Keeps, Alone, Listed, [Next]_vars
  PROVE  Listed'
<1> DEFINE SamePuts ==
      /\ \A i \in Ids : calls'[i] # None /\ calls'[i].kind = "put" /\ calls'[i].state # "failed" =>
           /\ calls[i] # None /\ calls[i].kind = "put" /\ calls'[i].page = calls[i].page
           /\ calls'[i].state = calls[i].state /\ calls'[i].list = calls[i].list
      /\ \A i \in Ids : calls[i] # None /\ calls[i].kind = "put" =>
           calls'[i] # None /\ calls'[i].kind = "put" /\ calls'[i].page = calls[i].page
<1>1. \A i \in Ids : calls[i] # None /\ calls[i].kind = "put" => calls[i].page \in Record
  BY DEF Routes, CallRoutes
<1>2. ASSUME SamePuts, ~unsure' => ~unsure,
             UNCHANGED <<store, page, shown, reload, foreign, want, hasty>>
      PROVE  Listed'
  BY <1>1, <1>2, ListedKept
<1>3. ASSUME NEW F \in SUBSET Field, calls' = Later(F), UNCHANGED unsure,
             UNCHANGED <<store, page, shown, reload, foreign, want, hasty>>
      PROVE  Listed'
  <2>1. SamePuts
    BY <1>3, Aged
  <2> QED
    BY <1>2, <1>3, <2>1
<1>4. ASSUME NEW f \in Field, NEW v \in Values, setField(f, v) PROVE Listed'
  <2> DEFINE F == {f}
  <2>1. /\ F \in SUBSET Field /\ calls' = Later(F) /\ UNCHANGED unsure
        /\ UNCHANGED <<store, page, shown, reload, foreign, want, hasty>>
    BY <1>4 DEF setField
  <2> HIDE DEF F
  <2> QED
    BY <1>3, <2>1
<1>5. CASE onApply
  <2>1. draft.ticked \in SUBSET Field
    BY <1>5 DEF onApply, TypeOK, Drafts
  <2> QED
    BY <1>3, <1>5, <2>1 DEF onApply
<1>6. CASE Submit \/ Publish
  <2>1. UNCHANGED <<store, page, shown, reload, foreign, want, hasty>>
    BY <1>6, Clicked
  <2>2. ASSUME NEW stay \in BOOLEAN, save(stay) PROVE Listed'
    <3>1. PICK i \in Ids, c \in Calls :
            calls[i] = None /\ calls' = [calls EXCEPT ![i] = c] /\ c.kind = "save"
      BY <2>2, SaveSent
    <3>2. SamePuts
      BY <3>1, Replaced
    <3>3. ~unsure' => ~unsure
      BY <2>2 DEF save
    <3> QED
      BY <1>2, <2>1, <3>2, <3>3
  <2>3. ASSUME Free # {}, Send(Call("publish")), UNCHANGED unsure PROVE Listed'
    <3>1. PICK i \in Ids, c \in Calls :
            calls[i] = None /\ calls' = [calls EXCEPT ![i] = c] /\ c.kind = "publish"
      BY <2>3, PublishSent
    <3>2. SamePuts
      BY <3>1, Replaced
    <3> QED
      BY <1>2, <2>1, <2>3, <3>2
  <2> QED
    BY <1>6, <2>2, <2>3, Clicked
<1>7. ASSUME NEW next \in SUBSET Industry, setIndustries(next) PROVE Listed'
  BY <1>7, ListedPut
<1>8. ASSUME NEW i \in Ids, Serve(i) PROVE Listed'
  BY <1>8, ListedServed
<1>9. ASSUME NEW i \in Ids, Refuse(i) PROVE Listed'
  <2>1. UNCHANGED <<store, page, shown, reload, foreign, want, hasty, unsure>>
    BY <1>9 DEF Refuse, tab, history
  <2>2. PICK d \in Calls :
          /\ calls' = [calls EXCEPT ![i] = d] /\ d.state = "failed"
          /\ d.kind = calls[i].kind /\ d.page = calls[i].page
    BY <1>9, Refused
  <2>3. SamePuts
    BY <2>2, Replaced, Nulls
  <2> QED
    BY <1>2, <2>1, <2>3
<1>10. ASSUME UNCHANGED reload \/ reload' = [shown EXCEPT !.read = FALSE], SamePuts,
              UNCHANGED <<store, page, shown, foreign, want, hasty, unsure>>
       PROVE  Listed'
  <2>2. LET l == [shown EXCEPT !.read = FALSE] IN l # None /\ ~l.read
    <3>1. LET l == [shown EXCEPT !.read = FALSE] IN l \in Lists /\ ~l.read
      BY DEF TypeOK, Lists
    <3> QED
      BY <3>1, Nulls
  <2>3. /\ reload' = None => reload = None /\ UNCHANGED shown
        /\ reload' # None /\ reload'.read => UNCHANGED reload
    BY <1>10, <2>2
  <2> QED
    BY <1>1, <1>10, <2>3, ListedKept
<1>11. ASSUME NEW i \in Ids, AnswerSave(i) PROVE Listed'
  <2>1. /\ calls[i] # None /\ calls[i].kind = "save"
        /\ UNCHANGED <<store, page, shown, foreign, want, hasty, unsure>>
    BY <1>11 DEF AnswerSave, UnderWay, Free, history
  <2>2. SamePuts
    <3>1. CASE calls' = [calls EXCEPT ![i] = None]
      BY <2>1, <3>1, Replaced
    <3>2. CASE calls' = [calls EXCEPT ![i] = [calls[i] EXCEPT !.kind = "publish", !.state = "sent"]]
      <4>1. PICK d \in Calls : calls' = [calls EXCEPT ![i] = d] /\ d.kind = "publish"
        BY <2>1, <3>2, Continued
      <4> QED
        BY <2>1, <4>1, Replaced
    <3> QED
      BY <1>11, <3>1, <3>2 DEF AnswerSave
  <2>3. UNCHANGED reload \/ reload' = [shown EXCEPT !.read = FALSE]
    BY <1>11 DEF AnswerSave, Follow
  <2> QED
    BY <1>10, <2>1, <2>2, <2>3
<1>12. ASSUME NEW i \in Ids, AnswerPublish(i) PROVE Listed'
  <2>1. /\ calls[i] # None /\ calls[i].kind = "publish" /\ calls' = [calls EXCEPT ![i] = None]
        /\ UNCHANGED <<store, page, shown, foreign, want, hasty, unsure>>
        /\ UNCHANGED reload \/ reload' = [shown EXCEPT !.read = FALSE]
    BY <1>12 DEF AnswerPublish, Follow, UnderWay, Free, history
  <2>2. SamePuts
    BY <2>1, Replaced
  <2> QED
    BY <1>10, <2>1, <2>2
<1>13. ASSUME NEW i \in Ids, AnswerChange(i) PROVE Listed'
  <2>1. calls[i] # None /\ calls[i].kind \in {"put", "link"} /\ calls' = [calls EXCEPT ![i] = None]
    BY <1>13 DEF AnswerChange, UnderWay, Free
  <2>2. CASE calls[i].kind = "put"
    BY <1>13, <2>2, ListedAnswered
  <2>3. CASE calls[i].kind = "link"
    <3>a. unsure' = unsure
      BY <1>13, <2>3 DEF AnswerChange, TypeOK
    <3>1. UNCHANGED <<store, page, shown, foreign, want, hasty, unsure>>
      BY <1>13, <3>a DEF AnswerChange
    <3>2. SamePuts
      BY <2>1, <2>3, Replaced
    <3>3. UNCHANGED reload \/ reload' = [shown EXCEPT !.read = FALSE]
      BY <1>13 DEF AnswerChange
    <3> QED
      BY <1>10, <2>1, <3>1, <3>2, <3>3
  <2> QED
    BY <2>1, <2>2, <2>3
<1>14. CASE ReadReload \/ Reload \/ Open
  <2> SUFFICES ASSUME ~unsure, ~hasty
               PROVE  /\ ~Putting' /\ page' \in Record => Wanted(store[page].industries)'
                      /\ ~Putting' /\ reload' = None => Wanted(shown.industries)'
                      /\ ~Putting' /\ reload' # None /\ reload'.read => Wanted(reload.industries)'
                      /\ \A i \in Ids : calls'[i] # None => CallLists(calls[i])'
    BY <1>14 DEF Listed, ReadReload, Reload, Open, history
  <2>1. UNCHANGED <<store, calls, foreign, want>>
    BY <1>14 DEF ReadReload, Reload, Open, history
  <2>2. CASE ReadReload
    <3>1. page \in Record /\ store[page] # None
      BY <2>2 DEF ReadReload, Routes, PageRoutes, TypeOK
    <3>2. /\ reload' = Loaded(page) /\ reload' # None /\ reload'.industries = store[page].industries
          /\ UNCHANGED page
      BY <2>2, <3>1, LoadedType, Nulls DEF ReadReload
    <3>3. ASSUME NEW i \in Ids, calls'[i] # None PROVE CallLists(calls[i])'
      BY <2>1, <3>2, <3>3 DEF Listed, CallLists, Puts, Wanted
    <3> QED
      BY <2>1, <3>1, <3>2, <3>3 DEF Listed, Wanted, Putting, Puts
  <2>3. CASE Reload
    <3>1. reload # None /\ reload.read /\ shown' = reload /\ reload' = None /\ UNCHANGED page
      BY <2>3 DEF Reload
    <3>2. ASSUME NEW i \in Ids, calls'[i] # None PROVE CallLists(calls[i])'
      BY <2>1, <3>1, <3>2 DEF Listed, CallLists, Puts, Wanted
    <3> QED
      BY <2>1, <3>1, <3>2 DEF Listed, Wanted, Putting, Puts
  <2>4. CASE Open
    <3>1. /\ nav # None /\ nav \in Record /\ page' = nav /\ shown' = Loaded(nav) /\ reload' = None
      BY <2>4 DEF Open, TypeOK
    <3>2. Wanted(store[nav].industries) /\ Loaded(nav).industries = store[nav].industries
      BY <3>1, LoadedType DEF Keeps, Routes, PageRoutes
    <3>3. ASSUME NEW i \in Ids, calls'[i] # None PROVE CallLists(calls[i])'
      BY <2>1, <3>1, <3>3 DEF Routes, CallRoutes, CallLists, Puts
    <3> QED
      BY <2>1, <3>1, <3>2, <3>3 DEF Wanted
  <2> QED
    BY <1>14, <2>2, <2>3, <2>4
<1>15. CASE \/ fetchDraft \/ UNCHANGED vars
            \/ (\E fetch \in fetching : Offer(fetch)) \/ \E f \in Field : Tick(f)
  <2>1. UNCHANGED <<store, page, shown, reload, foreign, want, hasty, unsure, calls>>
    BY <1>15 DEF fetchDraft, Offer, vars, Tick, tab, history
  <2> QED
    BY <1>2, <2>1
<1>16. ASSUME NEW r \in Record, OtherEdit(r) PROVE Listed'
  <2>1. /\ UNCHANGED <<page, shown, reload, want, hasty, unsure, calls>>
        /\ foreign \subseteq foreign'
    BY <1>16, Edited DEF tab
  <2>2. PICK s \in Startups : /\ store' = [store EXCEPT ![r] = s]
                              /\ \A i \in Industry \ foreign' :
                                   i \in s.industries <=> i \in store[r].industries
    BY <1>16, Edited
  <2>3. page \in Record => \A i \in Industry \ foreign' :
          i \in store'[page].industries <=> i \in store[page].industries
    BY <2>2 DEF TypeOK
  <2> QED
    BY <1>1, <2>1, <2>3, ListedKept
<1>17. CASE ChangeLink
  <2>1. UNCHANGED <<store, page, shown, reload, foreign, want, hasty, unsure>>
    BY <1>17, LinkSent DEF history
  <2>2. PICK i \in Ids, c \in Calls :
          calls[i] = None /\ calls' = [calls EXCEPT ![i] = c] /\ c.kind = "link"
    BY <1>17, LinkSent
  <2>3. SamePuts
    BY <2>2, Replaced
  <2> QED
    BY <1>2, <2>1, <2>3
<1> QED
  BY <1>4, <1>5, <1>6, <1>7, <1>8, <1>9, <1>11, <1>12, <1>13, <1>14, <1>15, <1>16, <1>17, Choosing
  DEF Next, Admin, Page

(***************************************************************************)
(* The invariant, and what follows from it.                                *)
(***************************************************************************)
LEMMA InitIInv == Init => IInv
<1> SUFFICES ASSUME Init PROVE IInv
  OBVIOUS
<1>1. /\ page \in Existing \cup {New} /\ nav = None /\ reload = None
      /\ fetching = {} /\ draft = None
      /\ values = Blanks /\ baseline = Blanks /\ unsure = FALSE /\ hasty = FALSE
      /\ shown = [industries |-> {}, status |-> "draft", read |-> TRUE]
      /\ saving = FALSE /\ pending = FALSE /\ moves = 0 /\ others = 0
      /\ typed = {} /\ raced = {} /\ foreign = {}
      /\ mine = [f \in Field |-> None] /\ want = [i \in Industry |-> None]
      /\ calls = [i \in Ids |-> None]
  BY DEF Init
<1>2. Blanks \in [Field -> Values]
  BY DEF Blanks, Values
<1>3. [fields |-> Blanks, industries |-> {}, status |-> "draft"] \in Startups
  BY <1>2 DEF Startups, Status
<1>4. /\ store \in [Record -> Startups \cup {None}]
      /\ \A r \in Existing : store[r] # None /\ store[r].fields = Blanks /\ store[r].industries = {}
  BY <1>3, Nulls DEF Init
<1>5. TypeOK
  <2>1. shown \in Lists
    BY <1>1 DEF Lists, Status
  <2>2. /\ mine \in [Field -> Values \cup {None}] /\ want \in [Industry -> {"in", "out", None}]
        /\ calls \in [1 .. MaxCalls -> Calls \cup {None}] /\ moves \in Nat /\ others \in Nat
    BY <1>1 DEF Ids
  <2> QED
    BY <1>1, <1>2, <1>4, <2>1, <2>2, Nulls DEF TypeOK
<1>6. \A i \in Ids : calls[i] = None
  BY <1>1
<1>7. page \in Record => page \in Existing
  BY <1>1, Nulls
<1>8. Routes
  BY <1>1, <1>4, <1>6, <1>7 DEF Routes, PageRoutes
<1>9. Touches
  BY <1>1, <1>6 DEF Touches
<1>10. Keeps
  BY <1>1, <1>6 DEF Keeps, Drafted, TypedIsKept, Wanted
<1>11. Stores
  BY <1>1, <1>4, <1>6, <1>7 DEF Stores
<1>12. Alone
  BY <1>1, <1>6 DEF Alone
<1>13. Listed
  BY <1>1, <1>6 DEF Listed, Wanted
<1> QED
  BY <1>5, <1>8, <1>9, <1>10, <1>11, <1>12, <1>13 DEF IInv

LEMMA NextIInv == IInv /\ [Next]_vars => IInv'
<1> SUFFICES ASSUME TypeOK, Routes, Touches, Keeps, Stores, Alone, Listed, [Next]_vars PROVE IInv'
  BY DEF IInv
<1>1. TypeOK' /\ Routes'
  BY TypeStep, RoutesStep
<1>2. Touches' /\ Keeps'
  BY TouchesStep, KeepsStep
<1>3. Stores' /\ Alone' /\ Listed'
  BY StoresStep, AloneStep, ListedStep
<1> QED
  BY <1>1, <1>2, <1>3 DEF IInv

LEMMA Invariance == Spec => []IInv
  BY InitIInv, NextIInv, PTL DEF Spec

\* The startups, the form, the calls under way and the drafts are always what the types say: the
\* page that is opened, loaded again or drafted for is always that of a startup that is there.
THEOREM TypeCorrect == Spec => []TypeOK
<1>1. IInv => TypeOK
  BY DEF IInv
<1> QED
  BY <1>1, Invariance, PTL

\* For any number of fields, calls and other admins' edits: a form that is not dirty, with no save
\* under way, shows what is stored of what was typed (useEditorForm and SaveBar: an answered save
\* becomes the baseline, not what is in the form by then).
THEOREM QuietFormsAreStored == Spec => []QuietMeansStored
<1>1. IInv => QuietMeansStored
  <2> SUFFICES ASSUME IInv, page \in Record, ~dirty, UnderWay("save") = {}, ~unsure,
                      NEW f \in typed \ foreign
               PROVE  store[page].fields[f] = values[f]
    BY DEF QuietMeansStored
  <2>1. TypeOK /\ FormStored
    BY StoresParts DEF IInv
  <2>2. \A i \in Ids : calls[i] # None => ~Saves(calls[i])
    BY DEF UnderWay, Free, Saves
  <2>3. f \in Field \ foreign /\ values = baseline
    BY <2>1 DEF TypeOK, dirty
  <2> QED
    BY <2>1, <2>2, <2>3 DEF FormStored
<1> QED
  BY <1>1, Invariance, PTL

\* What the admin typed, and the industries they put in or took out, are never lost to a reload, a
\* failed save, a draft or the page of the startup they created.
THEOREM EntriesStay == Spec => []EntriesKept
<1>1. IInv => EntriesKept
  <2> SUFFICES ASSUME IInv PROVE TypedIsKept /\ IndustriesKept
    BY DEF EntriesKept
  <2>1. TypedIsKept
    BY DEF IInv, Keeps
  <2>2. IndustriesKept
    <3> SUFFICES ASSUME page \in Record, calls = [i \in Ids |-> None], ~unsure, ~hasty
                 PROVE  Wanted(store[page].industries)
      BY DEF IndustriesKept, Wanted
    <3>1. ~Putting
      BY DEF Putting
    <3> QED
      BY <3>1 DEF IInv, Listed
  <2> QED
    BY <2>1, <2>2
<1> QED
  BY <1>1, Invariance, PTL

\* No save rewrites a field its admin never touched, whatever other admins stored meanwhile, and a
\* startup is published with what its form had when Publish was clicked.
THEOREM SavesAreWhatWasSeen == Spec => SavesWhatWasSeen
<1>1. ASSUME IInv, [Next]_vars, NEW i \in Ids, Serve(i), NEW r \in Record, NEW f \in Field \ typed,
             store[r] # None
      PROVE  store'[r].fields[f] = store[r].fields[f]
  <2>1. PICK q \in Record, s \in Startups, d \in Calls : ServedAs(i, q, s, d)
    BY <1>1, Served DEF IInv
  <2>2. store'[q] = s /\ \A p \in Record \ {q} : store'[p] = store[p]
    BY <1>1, <2>1 DEF ServedAs, IInv, TypeOK
  <2>3. /\ calls[i] # None /\ CallTouches(calls[i]) /\ CallRoutes(calls[i])
        /\ calls[i].page \in Record \cup {New}
    BY <1>1, <2>1 DEF ServedAs, IInv, Touches, Routes, TypeOK, Ids, Calls
  <2>4. CASE r # q
    BY <2>2, <2>4
  <2>5. CASE r = q
    <3>1. calls[i].record # New
      BY <1>1, <2>1, <2>5 DEF ServedAs
    <3>2. s.fields[f] = IF d.kind = "save" /\ f \in d.only THEN d.values[f] ELSE store[q].fields[f]
      BY <2>1, <3>1 DEF ServedAs
    <3>3. ~(d.kind = "save" /\ f \in d.only)
      BY <1>1, <2>1, <2>3, <3>1 DEF ServedAs, CallTouches
    <3> QED
      BY <2>2, <2>5, <3>2, <3>3
  <2> QED
    BY <2>4, <2>5
<1>2. ASSUME IInv, [Next]_vars, NEW i \in Ids, Serve(i), calls[i].kind = "publish", ~unsure,
             NEW f \in typed \ (foreign \cup calls[i].late)
      PROVE  store[calls[i].record].fields[f] = calls[i].values[f]
  <2>1. calls[i] # None /\ f \in Field /\ CallStores(calls[i])
    BY <1>2 DEF Serve, IInv, TypeOK, Stores
  <2> QED
    BY <1>2, <2>1 DEF CallStores
<1>3. IInv /\ [Next]_vars =>
        [\A i \in Ids : Serve(i) => \A r \in Record, f \in Field \ typed :
           store[r] # None => store'[r].fields[f] = store[r].fields[f]]_vars
  BY <1>1
<1>4. IInv /\ [Next]_vars =>
        [\A i \in Ids : Serve(i) /\ calls[i].kind = "publish" /\ ~unsure =>
           \A f \in typed \ (foreign \cup calls[i].late) :
             store[calls[i].record].fields[f] = calls[i].values[f]]_vars
  BY <1>2
<1>5. Spec => UntouchedStays
  BY <1>3, Invariance, PTL DEF Spec, UntouchedStays
<1>6. Spec => PublishedAsSeen
  BY <1>4, Invariance, PTL DEF Spec, PublishedAsSeen
<1> QED
  BY <1>5, <1>6 DEF SavesWhatWasSeen

-----------------------------------------------------------------------------
(* Links.                                                                  *)

(* The state, and what is there to stay. *)

\* A record that is there stays, under its name; so do links that name it.
IsThere(i) == i \in RecordIds /\ records[i] # None
LinkOK(l) ==
  /\ l \in Links!Link /\ (l.to = Round \/ IsThere(l.to))
  /\ \A i \in l.with : IsThere(i)
  /\ l.to # Round /\ records[l.to].name # Round => l.with = {}
StoredLink(l) == LinkOK(l) /\ l.to # Round

Boxes == [text : Name \cup {None}, open : BOOLEAN, seen : Name \cup {None}, options : SUBSET RecordIds,
          load : (SUBSET RecordIds) \cup {None}, loading : BOOLEAN]

\* Whom some links are to, and who takes part in the rounds among them.
Of(list) == UNION {{l.to} \cup l.with : l \in list}

CallOK(c) ==
  /\ c \in Links!Calls
  /\ c.kind = "draft" =>
       /\ c.name \in Name /\ c.place \in Links!Place \cup {"orphan"}
       /\ c.state = "done" => StoredLink(c.link) /\ c.link.with = {} /\ records[c.link.to].name = c.name
  /\ c.kind # "draft" => c.name = None /\ c.place = None
  /\ c.kind \in {"link", "unlink"} => c.page = "saved" /\ StoredLink(c.link) /\ c.link.with = {}
  /\ c.kind = "unlink" => records[c.link.to].name # Round
  /\ c.kind = "round" => c.page = "saved" /\ LinkOK(c.link) /\ c.link.to = Round
  /\ c.kind = "create" => c.page = "new" /\ \A k \in DOMAIN c.body : LinkOK(c.body[k])
  /\ \A l \in c.read : StoredLink(l)
  /\ c.kind = "drafts" =>
       /\ c.todo # {} /\ \A i \in c.todo : IsThere(i)
       /\ ~c.failed => \A i \in Of(c.read) : i \in c.todo \/ records[i].status # "draft"
       /\ c.state = "done" => records[CHOOSE d \in c.todo : TRUE].status # "draft"

RecordsOK ==
  /\ records \in [RecordIds -> Links!Entity \cup {None}]
  /\ links \subseteq Links!Link /\ \A l \in links : StoredLink(l)
  /\ startup \in {"draft", "published", None}

TabOK ==
  /\ saved \in BOOLEAN /\ waiting \in BOOLEAN
  /\ local \in Seq(Links!Link) /\ \A k \in DOMAIN local : LinkOK(local[k])
  /\ listed \subseteq Links!Link /\ \A l \in listed : StoredLink(l)
  /\ unwant \subseteq RecordIds /\ \A i \in unwant : IsThere(i)
  /\ crossed \in BOOLEAN

BoxOK(b) ==
  /\ b \in Boxes
  /\ \A i \in b.options : IsThere(i)
  /\ b.load # None => \A i \in b.load : IsThere(i)
  /\ b.open => b.text # None

FormsOK ==
  /\ box \in [Links!Place -> Boxes] /\ \A p \in Links!Place : BoxOK(box[p])
  /\ stint # None => IsThere(stint)
  /\ dialog \in [Links!Place -> Name \cup {None}] /\ dialog["founder"] = None
  /\ round \in [open : BOOLEAN, with : SUBSET RecordIds, busy : BOOLEAN] /\ \A i \in round.with : IsThere(i)

NetOK ==
  /\ sent \in [Links!Slots -> Links!Calls \cup {None}]
  /\ \A i \in Links!Slots : sent[i] # None => CallOK(sent[i])
  /\ leaving \in BOOLEAN /\ refresh \in BOOLEAN

Types == RecordsOK /\ TabOK /\ FormsOK /\ NetOK

-----------------------------------------------------------------------------
(* Pages: a new startup is created once, and its page then replaced. *)

Chain == {"create", "publish", "read", "drafts"}
Is(i, kinds) == sent[i] # None /\ sent[i].kind \in kinds

Created(i) == Is(i, Chain) /\ (sent[i].kind = "create" => sent[i].state = "done")

Pages ==
  /\ leaving => ~saved
  /\ ~saved =>
       /\ \A i, j \in Links!Slots : Is(i, Chain) /\ Is(j, Chain) => i = j
       /\ leaving => \A i \in Links!Slots : ~Is(i, Chain)
       /\ startup # None <=> leaving \/ \E i \in Links!Slots : Created(i)
       /\ \A i \in Links!Slots : sent[i] # None => sent[i].page = "new"
       /\ unwant = {}
  /\ saved => \A i \in Links!Slots : Is(i, Chain) => sent[i].kind # "create" /\ sent[i].page = "saved"

-----------------------------------------------------------------------------
(* Drafts on their way, each awaited by a dialog of its own. *)

Awaited(i) ==
  /\ Is(i, {"draft"}) /\ sent[i].place \in {"investor", "batch"} /\ Links!Here(sent[i])

DialogsWait ==
  ~crossed =>
    \A i, j \in Links!Slots : Awaited(i) /\ Awaited(j) /\ sent[i].place = sent[j].place => i = j

-----------------------------------------------------------------------------
(* Wishes: what the admin counts on is stored, or on its way. *)

Says(l, w) == w = Links!Wish(Links!NameOf(l.to), l.with)
Changes(i, to) == Is(i, {"link", "unlink"}) /\ sent[i].link.to = to
Removing(to) == \E i \in Links!Slots : Is(i, {"unlink"}) /\ sent[i].link.to = to /\ sent[i].state = "sent"

InLinks(w) == \E l \in links : Says(l, w) /\ ~Removing(l.to)
OnItsWay(w) == \E i \in Links!Slots : Is(i, {"link", "round"}) /\ Says(sent[i].link, w) /\ sent[i].state # "done"
Described(w) ==
  \E i \in Links!Slots :
    Awaited(i) /\ dialog[sent[i].place] # None /\ w = Links!Wish(sent[i].name, {})
InBody(body, w) == \E k \in DOMAIN body : Says(body[k], w)

OneChange == \A i, j \in Links!Slots : \A to \in RecordIds : Changes(i, to) /\ Changes(j, to) => i = j

Promise(w) == Described(w) \/ IF saved THEN InLinks(w) \/ OnItsWay(w) ELSE InBody(local, w)

\* What a create takes along.
Along(w) ==
  ~saved =>
    /\ startup # None => InLinks(w)
    /\ \A i \in Links!Slots : Is(i, {"create"}) => InBody(sent[i].body, w)

Dropped(to) ==
  /\ \A i \in Links!Slots : ~(Is(i, {"link"}) /\ sent[i].link.to = to)
  /\ \A l \in links : l.to = to =>
       \E i \in Links!Slots : Is(i, {"unlink"}) /\ sent[i].link.to = to /\ sent[i].state # "done"

Wishes ==
  ~crossed =>
    /\ OneChange
    /\ \A w \in wished : Promise(w) /\ Along(w)
    /\ \A to \in unwant : Dropped(to)

LinksInv == Types /\ Pages /\ DialogsWait /\ Wishes

-----------------------------------------------------------------------------
(* Values and calls *)

LEMMA Distinct ==
  /\ None \notin Name /\ None \notin RecordIds /\ None \notin Links!Place /\ None # "orphan"
  /\ None \notin Links!Link /\ None \notin Links!Entity /\ None \notin Links!Calls
  /\ \A S \in SUBSET RecordIds : None # S
  /\ Round \notin Name /\ Round \notin RecordIds /\ 1 \in RecordIds /\ First \in Name
  BY LinksAssumption DEF Links!LinksAssumption

Kinds == {"draft", "link", "unlink", "put", "round", "create", "publish", "read", "drafts"}

LEMMA CallFields ==
  ASSUME NEW c \in Links!Calls
  PROVE  /\ c.kind \in Kinds /\ c.page \in {"new", "saved"} /\ c.name \in Name \cup {None}
         /\ c.place \in Links!Place \cup {"orphan", None} /\ c.link \in Links!Link \cup {None}
         /\ c.body \in Seq(Links!Link) /\ c.stay \in BOOLEAN /\ c.read \in SUBSET Links!Link
         /\ c.todo \in SUBSET RecordIds /\ c.failed \in BOOLEAN /\ c.state \in {"sent", "done", "failed"}
  BY DEF Links!Calls, Kinds

LEMMA LinkFields ==
  ASSUME NEW l \in Links!Link
  PROVE  l.to \in RecordIds \cup {Round} /\ l.with \in SUBSET RecordIds
  BY DEF Links!Link

LEMMA LinkTos ==
  ASSUME NEW i \in RecordIds
  PROVE  Links!LinkTo(i) \in Links!Link /\ Links!LinkTo(i).to = i /\ Links!LinkTo(i).with = {}
  BY DEF Links!LinkTo, Links!Link

LEMMA NewCall ==
  ASSUME NEW kind \in Kinds
  PROVE  LET c == Links!Call(kind)
         IN  /\ c \in Links!Calls /\ c.kind = kind /\ c.page = Links!Page /\ c.name = None /\ c.place = None
             /\ c.link = None /\ c.body = <<>> /\ c.read = {} /\ c.todo = {} /\ ~c.failed
             /\ c.state = "sent"
<1>1. Links!Page \in {"new", "saved"} /\ <<>> \in Seq(Links!Link)
  BY DEF Links!Page
<1> QED
  BY <1>1 DEF Links!Call, Links!Calls, Kinds

LEMMA DraftCall ==
  ASSUME NEW n \in Name, NEW p \in Links!Place
  PROVE  LET c == [Links!Call("draft") EXCEPT !.name = n, !.place = p]
         IN  CallOK(c) /\ c.kind = "draft" /\ c.name = n /\ c.place = p /\ c.page = Links!Page
             /\ c.state = "sent"
<1> DEFINE d == Links!Call("draft")
<1>1. /\ d \in Links!Calls /\ d.kind = "draft" /\ d.page = Links!Page /\ d.read = {} /\ d.state = "sent"
  BY NewCall DEF Kinds
<1> HIDE DEF d
<1> DEFINE c == [d EXCEPT !.name = n, !.place = p]
<1>2. /\ c \in Links!Calls /\ c.kind = "draft" /\ c.name = n /\ c.place = p /\ c.page = Links!Page
      /\ c.read = {} /\ c.state = "sent"
  BY <1>1 DEF Links!Calls
<1> HIDE DEF c
<1>3. CallOK(c)
  BY <1>2, Distinct DEF CallOK
<1> QED
  BY <1>2, <1>3 DEF c, d

LEMMA LinkCall ==
  ASSUME NEW l \in Links!Link, StoredLink(l), l.with = {}
  PROVE  LET c == [Links!Call("link") EXCEPT !.page = "saved", !.link = l]
         IN  /\ CallOK(c) /\ c.kind = "link" /\ c.link = l /\ c.state = "sent" /\ c.page = "saved"
<1> DEFINE d == Links!Call("link")
<1>1. /\ d \in Links!Calls /\ d.kind = "link" /\ d.read = {} /\ d.state = "sent" /\ d.name = None
      /\ d.place = None
  BY NewCall DEF Kinds
<1> HIDE DEF d
<1> DEFINE c == [d EXCEPT !.page = "saved", !.link = l]
<1>2. /\ c \in Links!Calls /\ c.kind = "link" /\ c.link = l /\ c.page = "saved" /\ c.name = None
      /\ c.place = None /\ c.read = {} /\ c.state = "sent"
  BY <1>1 DEF Links!Calls
<1> HIDE DEF c
<1>3. CallOK(c)
  BY <1>2, Distinct DEF CallOK
<1> QED
  BY <1>2, <1>3 DEF c, d

LEMMA UnlinkCall ==
  ASSUME NEW l \in Links!Link, StoredLink(l), records[l.to].name # Round, saved
  PROVE  LET c == [Links!Call("unlink") EXCEPT !.link = l]
         IN  /\ CallOK(c) /\ c.kind = "unlink" /\ c.link = l /\ c.state = "sent" /\ c.page = "saved"
<1>0. l.with = {}
  BY DEF StoredLink, LinkOK
<1> DEFINE d == Links!Call("unlink")
<1>1. /\ d \in Links!Calls /\ d.kind = "unlink" /\ d.read = {} /\ d.state = "sent" /\ d.name = None
      /\ d.place = None /\ d.page = "saved"
  BY NewCall DEF Kinds, Links!Page
<1> HIDE DEF d
<1> DEFINE c == [d EXCEPT !.link = l]
<1>2. /\ c \in Links!Calls /\ c.kind = "unlink" /\ c.link = l /\ c.page = "saved" /\ c.name = None
      /\ c.place = None /\ c.read = {} /\ c.state = "sent"
  BY <1>1 DEF Links!Calls
<1> HIDE DEF c
<1>3. CallOK(c)
  BY <1>0, <1>2, Distinct DEF CallOK
<1> QED
  BY <1>2, <1>3 DEF c, d

LEMMA RoundCall ==
  ASSUME NEW l \in Links!Link, LinkOK(l), l.to = Round, saved
  PROVE  LET c == [Links!Call("round") EXCEPT !.link = l]
         IN  /\ CallOK(c) /\ c.kind = "round" /\ c.link = l /\ c.state = "sent" /\ c.page = "saved"
<1> DEFINE d == Links!Call("round")
<1>1. /\ d \in Links!Calls /\ d.kind = "round" /\ d.read = {} /\ d.state = "sent" /\ d.name = None
      /\ d.place = None /\ d.page = "saved"
  BY NewCall DEF Kinds, Links!Page
<1> HIDE DEF d
<1> DEFINE c == [d EXCEPT !.link = l]
<1>2. /\ c \in Links!Calls /\ c.kind = "round" /\ c.link = l /\ c.page = "saved" /\ c.name = None
      /\ c.place = None /\ c.read = {} /\ c.state = "sent"
  BY <1>1 DEF Links!Calls
<1> HIDE DEF c
<1>3. CallOK(c)
  BY <1>2, Distinct DEF CallOK
<1> QED
  BY <1>2, <1>3 DEF c, d

LEMMA CreateCall ==
  ASSUME NEW body \in Seq(Links!Link), \A k \in DOMAIN body : LinkOK(body[k]),
         NEW stay \in BOOLEAN, ~saved
  PROVE  LET c == [Links!Call("create") EXCEPT !.body = body, !.stay = stay]
         IN  /\ CallOK(c) /\ c.kind = "create" /\ c.body = body /\ c.state = "sent"
<1> DEFINE d == Links!Call("create")
<1>1. /\ d \in Links!Calls /\ d.kind = "create" /\ d.read = {} /\ d.state = "sent" /\ d.name = None
      /\ d.place = None /\ d.page = "new"
  BY NewCall DEF Kinds, Links!Page
<1> HIDE DEF d
<1> DEFINE c == [d EXCEPT !.body = body, !.stay = stay]
<1>2. /\ c \in Links!Calls /\ c.kind = "create" /\ c.body = body /\ c.page = "new" /\ c.name = None
      /\ c.place = None /\ c.read = {} /\ c.state = "sent"
  BY <1>1 DEF Links!Calls
<1> HIDE DEF c
<1>3. CallOK(c)
  BY <1>2, Distinct DEF CallOK
<1> QED
  BY <1>2, <1>3 DEF c, d

LEMMA NextCall ==
  ASSUME NEW kind \in {"publish", "read"}, NEW at \in {"new", "saved"}
  PROVE  LET c == [Links!Call(kind) EXCEPT !.page = at]
         IN  /\ CallOK(c) /\ c.kind = kind /\ c.page = at /\ c.state = "sent"
<1> DEFINE d == Links!Call(kind)
<1>1. /\ d \in Links!Calls /\ d.kind = kind /\ d.read = {} /\ d.state = "sent" /\ d.name = None
      /\ d.place = None
  BY NewCall DEF Kinds
<1> HIDE DEF d
<1> DEFINE c == [d EXCEPT !.page = at]
<1>2. /\ c \in Links!Calls /\ c.kind = kind /\ c.page = at /\ c.name = None
      /\ c.place = None /\ c.read = {} /\ c.state = "sent"
  BY <1>1 DEF Links!Calls
<1> HIDE DEF c
<1>3. CallOK(c)
  BY <1>2, Distinct DEF CallOK
<1> QED
  BY <1>2, <1>3 DEF c, d

LEMMA PublishCall ==
  LET c == Links!Call("publish")
  IN  CallOK(c) /\ c.kind = "publish" /\ c.page = Links!Page /\ c.state = "sent"
  BY NewCall, Distinct DEF Kinds, CallOK

LEMMA PutCall ==
  LET c == Links!Call("put")
  IN  CallOK(c) /\ c.kind = "put" /\ c.page = Links!Page /\ c.state = "sent"
  BY NewCall, Distinct DEF Kinds, CallOK

-----------------------------------------------------------------------------
(* Records only come, and are only published. *)

Grow ==
  \A i \in RecordIds : records[i] # None =>
    /\ records'[i] # None /\ records'[i].name = records[i].name
    /\ records[i].status # "draft" => records'[i].status # "draft"

LEMMA SameRecords ==
  ASSUME UNCHANGED records
  PROVE  Grow
  BY DEF Grow

LEMMA LinkStays ==
  ASSUME Grow, NEW l
  PROVE  /\ LinkOK(l) => LinkOK(l)'
         /\ StoredLink(l) => StoredLink(l)'
  BY Distinct DEF Grow, LinkOK, StoredLink, IsThere

LEMMA ReadThere ==
  ASSUME NEW c, CallOK(c), NEW i \in Of(c.read)
  PROVE  IsThere(i)
<1>1. PICK l \in c.read : i \in {l.to} \cup l.with
  BY DEF Of
<1>2. LinkOK(l) /\ l.to # Round
  BY DEF CallOK, StoredLink
<1> QED
  BY <1>1, <1>2 DEF LinkOK

LEMMA CallStays ==
  ASSUME Grow, NEW c, CallOK(c)
  PROVE  CallOK(c)'
<1>1. \A i : IsThere(i) => IsThere(i)'
  BY DEF Grow, IsThere
<1>2. c.kind = "draft" /\ c.state = "done" =>
        StoredLink(c.link)' /\ records'[c.link.to].name = c.name
  BY LinkStays DEF CallOK, Grow, StoredLink, LinkOK, IsThere
<1>3. c.kind \in {"link", "unlink"} => StoredLink(c.link)'
  BY LinkStays DEF CallOK
<1>8. c.kind = "unlink" => records'[c.link.to].name # Round
  BY DEF CallOK, Grow, StoredLink, LinkOK, IsThere
<1>4. c.kind = "round" => LinkOK(c.link)'
  BY LinkStays DEF CallOK
<1>5. c.kind = "create" => \A k \in DOMAIN c.body : LinkOK(c.body[k])'
  BY LinkStays DEF CallOK
<1>6. \A l \in c.read : StoredLink(l)'
  BY LinkStays DEF CallOK
<1>7. c.kind = "drafts" =>
        /\ \A i \in c.todo : IsThere(i)'
        /\ ~c.failed => \A i \in Of(c.read) : i \in c.todo \/ records'[i].status # "draft"
        /\ c.state = "done" => records'[CHOOSE d \in c.todo : TRUE].status # "draft"
  <2> SUFFICES ASSUME c.kind = "drafts"
               PROVE  /\ \A i \in c.todo : IsThere(i)'
                      /\ ~c.failed => \A i \in Of(c.read) : i \in c.todo \/ records'[i].status # "draft"
                      /\ c.state = "done" => records'[CHOOSE d \in c.todo : TRUE].status # "draft"
    OBVIOUS
  <2>1. \A i \in c.todo : IsThere(i)
    BY DEF CallOK
  <2>2. \A i \in Of(c.read) : i \in RecordIds /\ records[i] # None
    BY ReadThere DEF IsThere
  <2>3. (CHOOSE d \in c.todo : TRUE) \in c.todo
    BY DEF CallOK
  <2> QED
    BY <1>1, <2>1, <2>2, <2>3 DEF CallOK, Grow, IsThere
<1> QED
  BY <1>2, <1>3, <1>4, <1>5, <1>6, <1>7, <1>8 DEF CallOK

LEMMA SaysStays ==
  ASSUME Grow, NEW l, LinkOK(l), NEW w
  PROVE  Says(l, w)' <=> Says(l, w)
<1>1. l.to = Round \/ (l.to \in RecordIds /\ records[l.to] # None)
  BY DEF LinkOK, IsThere
<1>2. Links!NameOf(l.to)' = Links!NameOf(l.to)
  BY <1>1 DEF Links!NameOf, Grow
<1>3. \A i \in l.with : Links!NameOf(i)' = Links!NameOf(i)
  BY DEF LinkOK, IsThere, Links!NameOf, Grow
<1>4. {Links!NameOf(i)' : i \in l.with} = {Links!NameOf(i) : i \in l.with}
  BY <1>3
<1> QED
  BY <1>2, <1>4 DEF Says, Links!Wish
-----------------------------------------------------------------------------
(* What a step leaves as it is. *)

\* The parts of the types, one by one.
LEMMA RecordsSame ==
  ASSUME RecordsOK, UNCHANGED Links!db
  PROVE  RecordsOK' /\ Grow
  BY DEF RecordsOK, Links!db, StoredLink, LinkOK, IsThere, Grow

LEMMA TabSame ==
  ASSUME TabOK, Grow, UNCHANGED <<Links!tab, unwant, crossed>>
  PROVE  TabOK'
<1>1. \A i : IsThere(i) => IsThere(i)'
  BY DEF Grow, IsThere
<1> QED
  BY <1>1, LinkStays DEF TabOK, Links!tab

LEMMA BoxFields ==
  ASSUME NEW b \in Boxes
  PROVE  /\ b.text \in Name \cup {None} /\ b.open \in BOOLEAN /\ b.seen \in Name \cup {None}
         /\ b.options \in SUBSET RecordIds /\ b.load \in (SUBSET RecordIds) \cup {None} /\ b.loading \in BOOLEAN
  BY DEF Boxes

LEMMA BoxStays ==
  ASSUME Grow, NEW b, BoxOK(b)
  PROVE  BoxOK(b)'
<1>1. \A i : IsThere(i) => IsThere(i)'
  BY DEF Grow, IsThere
<1> QED
  BY <1>1 DEF BoxOK

LEMMA EmptyBox ==
  /\ BoxOK(Links!Empty) /\ ~Links!Empty.open
<1>1. Links!Empty \in Boxes
  BY DEF Links!Empty, Boxes
<1> QED
  BY <1>1 DEF BoxOK, Links!Empty

LEMMA FormsSame ==
  ASSUME FormsOK, Grow, UNCHANGED Links!forms
  PROVE  FormsOK'
<1>1. \A i : IsThere(i) => IsThere(i)'
  BY DEF Grow, IsThere
<1> QED
  BY <1>1, BoxStays DEF FormsOK, Links!forms

\* The boxes and one of the rest.
LEMMA FormsStep ==
  ASSUME FormsOK, Grow, box' \in [Links!Place -> Boxes], \A p \in Links!Place : BoxOK(box[p])',
         stint' # None => IsThere(stint)',
         dialog' \in [Links!Place -> Name \cup {None}], dialog'["founder"] = None,
         round' \in [open : BOOLEAN, with : SUBSET RecordIds, busy : BOOLEAN],
         \A i \in round'.with : IsThere(i)'
  PROVE  FormsOK'
  BY DEF FormsOK

LEMMA NetSame ==
  ASSUME NetOK, Grow, UNCHANGED Links!net
  PROVE  NetOK'
  BY CallStays DEF NetOK, Links!net

LEMMA NetCalls ==
  ASSUME NetOK, Grow, UNCHANGED sent, leaving' \in BOOLEAN, refresh' \in BOOLEAN
  PROVE  NetOK'
  BY CallStays DEF NetOK

LEMMA NetSet ==
  ASSUME NetOK, Grow, NEW i \in Links!Slots, NEW c, CallOK(c)', sent' = [sent EXCEPT ![i] = c],
         leaving' \in BOOLEAN, refresh' \in BOOLEAN
  PROVE  NetOK'
<1>1. c \in Links!Calls
  BY DEF CallOK
<1>2. \A k \in Links!Slots : sent'[k] = IF k = i THEN c ELSE sent[k]
  BY DEF NetOK
<1>3. \A k \in Links!Slots : (sent[k] # None => CallOK(sent[k]))'
  BY <1>2, CallStays DEF NetOK
<1> QED
  BY <1>1, <1>3 DEF NetOK

LEMMA NetClear ==
  ASSUME NetOK, Grow, NEW i \in Links!Slots, sent' = Links!Without(i), leaving' \in BOOLEAN,
         refresh' \in BOOLEAN
  PROVE  NetOK'
<1>2. \A k \in Links!Slots : sent'[k] = IF k = i THEN None ELSE sent[k]
  BY DEF NetOK, Links!Without
<1>3. \A k \in Links!Slots : (sent[k] # None => CallOK(sent[k]))'
  BY <1>2, CallStays DEF NetOK
<1> QED
  BY <1>3 DEF NetOK, Links!Without

\* A slot for a call.
LEMMA FreeSlot ==
  ASSUME NEW cs, \E i \in Links!Slots : cs[i] = None
  PROVE  \E j \in Links!Slots : cs[j] = None /\ \A c : Links!With(cs, c) = [cs EXCEPT ![j] = c]
<1> DEFINE j == CHOOSE i \in Links!Slots : cs[i] = None
<1>1. j \in Links!Slots /\ cs[j] = None
  OBVIOUS
<1>2. \A c : Links!With(cs, c) = [cs EXCEPT ![j] = c]
  BY DEF Links!With
<1> HIDE DEF j
<1> QED
  BY <1>1, <1>2

\* The calls of some kinds stay as they are.
Same(kinds) == \A i \in Links!Slots : Is(i, kinds) \/ Is(i, kinds)' => sent'[i] = sent[i]

LEMMA SameIs ==
  ASSUME NEW kinds, Same(kinds), NEW i \in Links!Slots
  PROVE  /\ Is(i, kinds)' <=> Is(i, kinds)
         /\ Is(i, kinds) => sent'[i] = sent[i]
  BY DEF Same, Is

LEMMA PagesSame ==
  ASSUME Pages, UNCHANGED <<saved, leaving, startup, sent>>, ~saved => unwant' = {}
  PROVE  Pages'
  BY DEF Pages, Is, Created, Chain

LEMMA PagesStep ==
  ASSUME Pages, Same(Chain), UNCHANGED <<saved, leaving>>, startup' # None <=> startup # None,
         ~saved => unwant' = {}, ~saved => \A i \in Links!Slots : sent'[i] # None => sent'[i].page = "new"
  PROVE  Pages'
<1>1. \A i \in Links!Slots : Is(i, Chain)' <=> Is(i, Chain)
  BY SameIs
<1>2. \A i \in Links!Slots : Is(i, Chain) => sent'[i] = sent[i]
  BY SameIs
<1>3. \A i \in Links!Slots : Created(i)' <=> Created(i)
  BY <1>1, <1>2 DEF Created
<1> QED
  BY <1>1, <1>2, <1>3 DEF Pages

\* Drafts stay under way; a participant's may become an orphan.
DraftsStay ==
  \A i \in Links!Slots :
    /\ Is(i, {"draft"})' <=> Is(i, {"draft"})
    /\ Is(i, {"draft"}) =>
         /\ sent'[i].name = sent[i].name /\ sent'[i].page = sent[i].page
         /\ sent'[i].state # "done" => sent[i].state # "done"
         /\ \/ sent'[i].place = sent[i].place
            \/ sent[i].place = "participant" /\ sent'[i].place = "orphan"

LEMMA SameDrafts ==
  ASSUME Same({"draft"})
  PROVE  DraftsStay /\ \A i \in Links!Slots : Is(i, {"draft"}) => sent'[i].place = sent[i].place
<1>1. \A i \in Links!Slots : (Is(i, {"draft"})' <=> Is(i, {"draft"})) /\ (Is(i, {"draft"}) => sent'[i] = sent[i])
  BY SameIs
<1> QED
  BY <1>1 DEF DraftsStay

LEMMA AwaitedStep ==
  ASSUME DraftsStay, UNCHANGED saved, NEW i \in Links!Slots
  PROVE  /\ Awaited(i)' => Awaited(i) /\ sent'[i].place = sent[i].place
         /\ Awaited(i) => Awaited(i)' /\ sent'[i].place = sent[i].place /\ sent'[i].name = sent[i].name
<1>1. Is(i, {"draft"}) /\ sent'[i].page = sent[i].page => (Links!Here(sent[i])' <=> Links!Here(sent[i]))
  BY DEF Links!Here, Links!Page
<1> QED
  BY <1>1 DEF Awaited, DraftsStay

LEMMA DialogsWaitStep ==
  ASSUME DialogsWait, DraftsStay, UNCHANGED saved, crossed => crossed'
  PROVE  DialogsWait'
  BY AwaitedStep DEF DialogsWait

-----------------------------------------------------------------------------
(* Wishes, as calls and records change. *)

LEMMA BareWish ==
  ASSUME NEW n
  PROVE  Links!Wish(n, {}) = [name |-> n, with |-> {}] /\ Links!Wish(n, {})' = [name |-> n, with |-> {}]
<1>1. {Links!NameOf(i) : i \in {}} = {} /\ {Links!NameOf(i)' : i \in {}} = {}
  OBVIOUS
<1> QED
  BY <1>1 DEF Links!Wish

LEMMA BareSays ==
  ASSUME NEW l, l.with = {}, NEW w
  PROVE  Says(l, w) <=> w = Links!Wish(Links!NameOf(l.to), {})
  BY DEF Says

\* Changes of links stay under way, but may fail.
ChangesStay ==
  \A i \in Links!Slots : \A kind \in {"link", "unlink", "round"} :
    /\ Is(i, {kind})' <=> Is(i, {kind})
    /\ Is(i, {kind}) =>
         /\ sent'[i].link = sent[i].link
         /\ sent'[i].state = sent[i].state \/ (sent[i].state = "sent" /\ sent'[i].state = "failed")

LEMMA SameChanges ==
  ASSUME Same({"link", "unlink", "round"})
  PROVE  ChangesStay
<1>1. \A i \in Links!Slots : /\ Is(i, {"link", "unlink", "round"})' <=> Is(i, {"link", "unlink", "round"})
                             /\ Is(i, {"link", "unlink", "round"}) => sent'[i] = sent[i]
  BY SameIs
<1> QED
  BY <1>1 DEF ChangesStay, Is

LEMMA StaysDescribed ==
  ASSUME UNCHANGED saved, NEW w, Described(w),
         \A i \in Links!Slots : Awaited(i) /\ w = Links!Wish(sent[i].name, {}) =>
           sent'[i] = sent[i] /\ dialog'[sent[i].place] = dialog[sent[i].place]
  PROVE  Described(w)'
<1>1. PICK i \in Links!Slots : Awaited(i) /\ dialog[sent[i].place] # None /\ w = Links!Wish(sent[i].name, {})
  BY DEF Described
<1>2. sent'[i] = sent[i] /\ Awaited(i)'
  BY <1>1 DEF Awaited, Is, Links!Here, Links!Page
<1>3. w = Links!Wish(sent[i].name, {})'
  BY <1>1, <1>2, BareWish
<1> QED
  BY <1>1, <1>2, <1>3 DEF Described

LEMMA DescribedStep ==
  ASSUME DraftsStay, UNCHANGED saved, NEW w, Described(w),
         \A i \in Links!Slots : Awaited(i) /\ w = Links!Wish(sent[i].name, {}) =>
           dialog'[sent[i].place] = dialog[sent[i].place]
  PROVE  Described(w)'
<1>1. PICK i \in Links!Slots : Awaited(i) /\ dialog[sent[i].place] # None /\ w = Links!Wish(sent[i].name, {})
  BY DEF Described
<1>2. Awaited(i)' /\ sent'[i].name = sent[i].name /\ sent'[i].place = sent[i].place
  BY <1>1, AwaitedStep
<1>3. w = Links!Wish(sent[i].name, {})'
  BY <1>1, <1>2, BareWish
<1> QED
  BY <1>1, <1>2, <1>3 DEF Described

LEMMA InBodyStep ==
  ASSUME Grow, NEW body, \A k \in DOMAIN body : LinkOK(body[k]), NEW w, InBody(body, w)
  PROVE  InBody(body, w)'
  BY SaysStays DEF InBody

LEMMA InLinksStep ==
  ASSUME RecordsOK, Grow, NEW w, InLinks(w),
         \A l \in links : Says(l, w) /\ ~Removing(l.to) => l \in links' /\ ~Removing(l.to)'
  PROVE  InLinks(w)'
<1>1. PICK l \in links : Says(l, w) /\ ~Removing(l.to)
  BY DEF InLinks
<1>2. LinkOK(l)
  BY DEF RecordsOK, StoredLink
<1>3. Says(l, w)'
  BY <1>1, <1>2, SaysStays
<1> QED
  BY <1>1, <1>3 DEF InLinks

LEMMA RemovingStep ==
  ASSUME ChangesStay, NEW to
  PROVE  Removing(to)' => Removing(to)
  BY DEF Removing, ChangesStay

LEMMA SentStep ==
  ASSUME NetOK, Grow, NEW w, NEW i \in Links!Slots, Is(i, {"link", "round"}), Says(sent[i].link, w),
         Is(i, {"link", "round"})', sent'[i].link = sent[i].link, sent'[i].state # "done"
  PROVE  OnItsWay(w)'
<1>1. LinkOK(sent[i].link)
  BY DEF NetOK, Is, CallOK, StoredLink
<1>2. Says(sent[i].link, w)'
  BY <1>1, SaysStays
<1> QED
  BY <1>2 DEF OnItsWay

LEMMA SentStays ==
  ASSUME NetOK, Grow, ChangesStay, NEW w, OnItsWay(w)
  PROVE  OnItsWay(w)'
<1>1. PICK i \in Links!Slots : Is(i, {"link", "round"}) /\ Says(sent[i].link, w) /\ sent[i].state # "done"
  BY DEF OnItsWay
<1>2. \/ Is(i, {"link"}) /\ Is(i, {"link"})'
      \/ Is(i, {"round"}) /\ Is(i, {"round"})'
  BY <1>1 DEF Is, ChangesStay
<1>3. sent'[i].link = sent[i].link /\ sent'[i].state # "done" /\ Is(i, {"link", "round"})'
  BY <1>1, <1>2 DEF ChangesStay, Is
<1> QED
  BY <1>1, <1>3, SentStep

LEMMA DroppedStep ==
  ASSUME ChangesStay, links' \subseteq links, NEW to, Dropped(to)
  PROVE  Dropped(to)'
<1>1. \A i \in Links!Slots : ~(Is(i, {"link"}) /\ sent[i].link.to = to)'
  BY DEF Dropped, ChangesStay
<1>2. \A i \in Links!Slots : Is(i, {"unlink"}) /\ sent[i].link.to = to /\ sent[i].state # "done" =>
        (Is(i, {"unlink"}) /\ sent[i].link.to = to /\ sent[i].state # "done")'
  BY DEF ChangesStay
<1> QED
  BY <1>1, <1>2 DEF Dropped

LEMMA ChangesStep ==
  ASSUME ChangesStay, NEW i \in Links!Slots, NEW to
  PROVE  Changes(i, to)' <=> Changes(i, to)
<1>1. Is(i, {"link"})' <=> Is(i, {"link"})
  BY DEF ChangesStay
<1>2. Is(i, {"unlink"})' <=> Is(i, {"unlink"})
  BY DEF ChangesStay
<1>3. Is(i, {"link"}) \/ Is(i, {"unlink"}) => sent'[i].link = sent[i].link
  BY DEF ChangesStay
<1> QED
  BY <1>1, <1>2, <1>3 DEF Changes, Is

\* What was counted on still is.
LEMMA PromiseStays ==
  ASSUME Types, Grow, ChangesStay, UNCHANGED <<links, saved>>,
         NEW w, Promise(w), Described(w) => Described(w)',
         ~saved => (InBody(local, w) => InBody(local, w)')
  PROVE  Promise(w)'
<1>1. InLinks(w) => InLinks(w)'
  BY RemovingStep, InLinksStep DEF Types
<1>2. OnItsWay(w) => OnItsWay(w)'
  BY SentStays DEF Types
<1> QED
  BY <1>1, <1>2 DEF Promise

LEMMA AlongStays ==
  ASSUME Types, Grow, ChangesStay, UNCHANGED <<links, saved>>,
         ~saved /\ startup' # None => startup # None,
         \A i \in Links!Slots : Is(i, {"create"})' => Is(i, {"create"}) /\ sent'[i].body = sent[i].body,
         NEW w, Along(w)
  PROVE  Along(w)'
<1>1. InLinks(w) => InLinks(w)'
  BY RemovingStep, InLinksStep DEF Types
<1>4. ASSUME NEW i \in Links!Slots, ~saved, Is(i, {"create"})'
      PROVE  InBody(sent[i].body, w)'
  <2>1. Is(i, {"create"}) /\ sent'[i].body = sent[i].body
    BY <1>4
  <2>2. \A k \in DOMAIN sent[i].body : LinkOK(sent[i].body[k])
    BY <2>1 DEF Is, Types, NetOK, CallOK
  <2>3. InBody(sent[i].body, w)
    BY <1>4, <2>1 DEF Along
  <2>4. \A b : (\A k \in DOMAIN b : LinkOK(b[k])) /\ InBody(b, w) => InBody(b, w)'
    BY InBodyStep
  <2> QED
    BY <2>1, <2>2, <2>3, <2>4 DEF InBody
<1> QED
  BY <1>1, <1>4 DEF Along

LEMMA SameLocal ==
  ASSUME TabOK, Grow, UNCHANGED local, NEW w, InBody(local, w)
  PROVE  InBody(local, w)'
<1>1. \A b : (\A k \in DOMAIN b : LinkOK(b[k])) /\ InBody(b, w) => InBody(b, w)'
  BY InBodyStep
<1>2. \A k \in DOMAIN local : LinkOK(local[k])
  BY DEF TabOK
<1> QED
  BY <1>1, <1>2 DEF InBody

\* Nothing is added to it.
LEMMA WishesStep ==
  ASSUME Types, Wishes, Grow, ChangesStay, UNCHANGED <<links, saved, local>>,
         ~saved /\ startup' # None => startup # None,
         \A i \in Links!Slots : Is(i, {"create"})' => Is(i, {"create"}) /\ sent'[i].body = sent[i].body,
         crossed => crossed', wished' \subseteq wished, unwant' \subseteq unwant,
         ~crossed' => \A w \in wished' : Described(w) => Described(w)'
  PROVE  Wishes'
<1> SUFFICES ASSUME ~crossed'
             PROVE  OneChange' /\ (\A w \in wished' : Promise(w)' /\ Along(w)') /\ \A to \in unwant' : Dropped(to)'
  BY DEF Wishes
<1>1. OneChange /\ (\A w \in wished : Promise(w) /\ Along(w)) /\ \A to \in unwant : Dropped(to)
  BY DEF Wishes
<1>2. OneChange'
  BY <1>1, ChangesStep DEF OneChange
<1>3. \A to \in unwant' : Dropped(to)'
  BY <1>1, DroppedStep
<1>4. ASSUME NEW w \in wished'
      PROVE  Promise(w)' /\ Along(w)'
  BY <1>1, <1>4, SameLocal, PromiseStays, AlongStays DEF Types
<1> QED
  BY <1>2, <1>3, <1>4

-----------------------------------------------------------------------------
(* Steps of the forms alone. *)

LEMMA SameCalls ==
  ASSUME UNCHANGED sent
  PROVE  /\ DraftsStay /\ ChangesStay
         /\ \A i \in Links!Slots : sent'[i] = sent[i]
         /\ \A i \in Links!Slots : Is(i, {"create"})' => Is(i, {"create"}) /\ sent'[i].body = sent[i].body
  BY DEF DraftsStay, ChangesStay, Is

LEMMA OnlyForms ==
  ASSUME LinksInv, UNCHANGED <<Links!db, Links!tab, Links!net, unwant, crossed>>
  PROVE  Grow /\ RecordsOK' /\ TabOK' /\ NetOK' /\ Pages'
<1>1. Grow /\ RecordsOK'
  BY RecordsSame DEF LinksInv, Types
<1>2. TabOK' /\ NetOK'
  BY <1>1, TabSame, NetSame DEF LinksInv, Types
<1>3. Pages'
  BY PagesSame DEF LinksInv, Links!db, Links!tab, Links!net, Pages
<1> QED
  BY <1>1, <1>2, <1>3

LEMMA OnlyFormsWishes ==
  ASSUME LinksInv, UNCHANGED <<Links!db, Links!tab, Links!net, unwant, crossed>>,
         wished' \subseteq wished,
         \A w \in wished', i \in Links!Slots : Awaited(i) /\ w = Links!Wish(sent[i].name, {}) =>
           dialog'[sent[i].place] = dialog[sent[i].place]
  PROVE  Wishes'
<1>1. Grow
  BY OnlyForms
<1>2. \A w \in wished' : Described(w) => Described(w)'
  BY SameCalls, DescribedStep DEF Links!net, Links!tab
<1> QED
  BY <1>1, <1>2, SameCalls, WishesStep DEF LinksInv, Links!db, Links!tab, Links!net

LEMMA TypingStep ==
  ASSUME LinksInv, NEW p \in Links!Place, NEW n \in Name, Links!Type(p, n)
  PROVE  LinksInv'
<1> USE DEF Links!Type, Links!history
<1>1. Grow /\ RecordsOK' /\ TabOK' /\ NetOK' /\ Pages'
  BY OnlyForms
<1>2. Wishes'
  BY OnlyFormsWishes
<1>3. /\ box' = [q \in Links!Place |-> box'[q]]
      /\ \A q \in Links!Place : box'[q] = IF q = p THEN [box[q] EXCEPT !.text = n, !.open = TRUE, !.load = None, !.loading = TRUE]
                                          ELSE [box[q] EXCEPT !.open = FALSE, !.load = None]
  BY DEF Links!Focused
<1>4. \A q \in Links!Place : BoxOK(box[q]) /\ box[q] \in Boxes
  BY DEF LinksInv, Types, FormsOK
<1>5. \A q \in Links!Place :
        /\ box'[q] \in Boxes /\ box'[q].options = box[q].options /\ box'[q].load = None
        /\ box'[q].open <=> q = p
        /\ q = p => box'[q].text = n /\ box'[q].loading
  <2> SUFFICES ASSUME NEW q \in Links!Place
               PROVE  /\ box'[q] \in Boxes /\ box'[q].options = box[q].options /\ box'[q].load = None
                      /\ box'[q].open <=> q = p
                      /\ q = p => box'[q].text = n /\ box'[q].loading
    OBVIOUS
  <2>1. box[q] \in Boxes
    BY <1>4
  <2>2. CASE q = p
    <3>1. box'[q] = [box[q] EXCEPT !.text = n, !.open = TRUE, !.load = None, !.loading = TRUE]
      BY <1>3, <2>2
    <3> QED
      BY <2>1, <2>2, <3>1 DEF Boxes
  <2>3. CASE q # p
    <3>1. box'[q] = [box[q] EXCEPT !.open = FALSE, !.load = None]
      BY <1>3, <2>3
    <3> QED
      BY <2>1, <2>3, <3>1 DEF Boxes
  <2> QED
    BY <2>2, <2>3
<1>6. \A q \in Links!Place : BoxOK(box[q])'
  BY <1>1, <1>4, <1>5, Distinct DEF BoxOK, Grow, IsThere
<1>7. FormsOK'
  <2>1. box' \in [Links!Place -> Boxes]
    BY <1>3, <1>5
  <2>2. \A i : IsThere(i) => IsThere(i)'
    BY <1>1 DEF Grow, IsThere
  <2> QED
    BY <1>6, <2>1, <2>2 DEF FormsOK, LinksInv, Types
<1>10. DialogsWait'
  BY SameCalls, DialogsWaitStep DEF LinksInv, Links!net, Links!tab
<1> QED
  BY <1>1, <1>2, <1>7, <1>10 DEF LinksInv, Types

LEMMA OneBox ==
  ASSUME FormsOK, Grow, NEW p \in Links!Place, NEW b, BoxOK(b), box' = [box EXCEPT ![p] = b]
  PROVE  /\ \A q \in Links!Place : box'[q] = IF q = p THEN b ELSE box[q]
         /\ box' \in [Links!Place -> Boxes] /\ \A q \in Links!Place : BoxOK(box[q])'
<1>1. \A q \in Links!Place : box'[q] = IF q = p THEN b ELSE box[q]
  BY DEF FormsOK
<1>2. b \in Boxes
  BY DEF BoxOK
<1>3. box' \in [Links!Place -> Boxes]
  BY <1>2 DEF FormsOK
<1>4. \A q \in Links!Place : BoxOK(box[q])'
  BY <1>1, BoxStays DEF FormsOK
<1> QED
  BY <1>1, <1>3, <1>4

LEMMA BoxForms ==
  ASSUME FormsOK, Grow, NEW p \in Links!Place, NEW b, BoxOK(b), box' = [box EXCEPT ![p] = b],
         UNCHANGED <<stint, dialog, round>>
  PROVE  FormsOK' /\ \A q \in Links!Place : box'[q] = IF q = p THEN b ELSE box[q]
<1>1. \A i : IsThere(i) => IsThere(i)'
  BY DEF Grow, IsThere
<1> QED
  BY <1>1, OneBox, FormsStep DEF FormsOK

LEMMA LoaderStep ==
  ASSUME LinksInv, NEW p \in Links!Place, Links!recordLoader(p)
  PROVE  LinksInv'
<1> USE DEF Links!recordLoader, Links!history
<1>1. Grow /\ RecordsOK' /\ TabOK' /\ NetOK' /\ Pages'
  BY OnlyForms
<1>2. Wishes'
  BY OnlyFormsWishes
<1>3. PICK found \in SUBSET {i \in RecordIds : records[i] # None /\ records[i].name = box[p].text
                                              /\ records[i].status # "archived"} :
        box' = [box EXCEPT ![p].load = found]
  OBVIOUS
<1> DEFINE b == [box[p] EXCEPT !.load = found]
<1>4. BoxOK(box[p]) /\ box[p] \in Boxes /\ box[p].open /\ box[p].loading
  BY DEF LinksInv, Types, FormsOK
<1>5. /\ b \in Boxes /\ b.load = found /\ b.open /\ b.loading
      /\ b.text = box[p].text /\ b.options = box[p].options
  BY <1>4 DEF Boxes
<1>6. box' = [box EXCEPT ![p] = b]
  BY <1>3 DEF LinksInv, Types, FormsOK
<1> HIDE DEF b
<1>7. BoxOK(b)
  BY <1>4, <1>5 DEF BoxOK, IsThere
<1>9. UNCHANGED <<stint, dialog, round>>
  OBVIOUS
<1>10. DialogsWait'
  BY SameCalls, DialogsWaitStep DEF LinksInv, Links!net, Links!tab
<1> HIDE DEF Links!recordLoader
<1>11. FormsOK
  BY DEF LinksInv, Types
<1>12. \A x : BoxOK(x) /\ box' = [box EXCEPT ![p] = x] => FormsOK'
  BY <1>1, <1>9, <1>11, BoxForms
<1>8. FormsOK'
  BY <1>6, <1>7, <1>12
<1> QED
  BY <1>1, <1>2, <1>8, <1>10 DEF LinksInv, Types

LEMMA LoadedStep ==
  ASSUME LinksInv, NEW p \in Links!Place, Links!Loaded(p)
  PROVE  LinksInv'
<1> USE DEF Links!Loaded, Links!history
<1>1. Grow /\ RecordsOK' /\ TabOK' /\ NetOK' /\ Pages'
  BY OnlyForms
<1>2. Wishes'
  BY OnlyFormsWishes
<1> DEFINE b == [box[p] EXCEPT !.seen = box[p].text, !.options = box[p].load, !.load = None,
                               !.loading = FALSE]
<1>4. BoxOK(box[p]) /\ box[p] \in Boxes /\ box[p].load # None
  BY DEF LinksInv, Types, FormsOK
<1>5. /\ b \in Boxes /\ b.load = None /\ b.open = box[p].open /\ ~b.loading /\ b.seen = b.text
      /\ b.text = box[p].text /\ b.options = box[p].load
  BY <1>4 DEF Boxes
<1>6. box' = [box EXCEPT ![p] = b]
  OBVIOUS
<1> HIDE DEF b
<1>7. BoxOK(b)
  BY <1>4, <1>5 DEF BoxOK, IsThere
<1>8. FormsOK' /\ \A q \in Links!Place : box'[q] = IF q = p THEN b ELSE box[q]
  BY <1>1, <1>6, <1>7, BoxForms DEF LinksInv, Types
<1>10. DialogsWait'
  BY SameCalls, DialogsWaitStep DEF LinksInv, Links!net, Links!tab
<1> QED
  BY <1>1, <1>2, <1>8, <1>10 DEF LinksInv, Types

LEMMA SameBoxes ==
  ASSUME FormsOK, Grow, UNCHANGED box
  PROVE  box' \in [Links!Place -> Boxes] /\ \A q \in Links!Place : BoxOK(box[q])'
  BY BoxStays DEF FormsOK

LEMMA CancelDraftStep ==
  ASSUME LinksInv, NEW p \in Links!Place, Links!CancelDraft(p)
  PROVE  LinksInv'
<1> USE DEF Links!CancelDraft
<1>1. Grow /\ RecordsOK' /\ TabOK' /\ NetOK' /\ Pages'
  BY OnlyForms
<1>2. dialog' \in [Links!Place -> Name \cup {None}] /\ \A q \in Links!Place : dialog'[q] = IF q = p THEN None ELSE dialog[q]
  BY DEF LinksInv, Types, FormsOK
<1>3. Wishes'
  <2>1. ASSUME NEW w \in wished', NEW i \in Links!Slots, Awaited(i), w = Links!Wish(sent[i].name, {})
        PROVE  dialog'[sent[i].place] = dialog[sent[i].place]
    <3>1. i \notin Links!Coming(p)
      BY <2>1
    <3>2. sent[i].place \in Links!Place /\ sent[i].place # p
      BY <2>1, <3>1 DEF Awaited, Is, Links!Coming, Links!Free, Links!Here, Links!Place
    <3> QED
      BY <1>2, <3>2
  <2>2. wished' \subseteq wished
    OBVIOUS
  <2> QED
    BY <2>1, <2>2, OnlyFormsWishes
<1>4. FormsOK'
  <2>1. box' \in [Links!Place -> Boxes] /\ \A q \in Links!Place : BoxOK(box[q])'
    BY <1>1, SameBoxes DEF LinksInv, Types
  <2>2. \A i : IsThere(i) => IsThere(i)'
    BY <1>1 DEF Grow, IsThere
  <2> QED
    BY <1>1, <1>2, <2>1, <2>2, FormsStep DEF LinksInv, Types, FormsOK
<1>6. DialogsWait'
  BY SameCalls, DialogsWaitStep DEF LinksInv, Links!net, Links!tab
<1> QED
  BY <1>1, <1>3, <1>4, <1>6 DEF LinksInv, Types

LEMMA CancelStintStep ==
  ASSUME LinksInv, Links!CancelStint
  PROVE  LinksInv'
<1> USE DEF Links!CancelStint, Links!history
<1>1. Grow /\ RecordsOK' /\ TabOK' /\ NetOK' /\ Pages'
  BY OnlyForms
<1>3. Wishes'
  BY OnlyFormsWishes
<1>4. FormsOK'
  <2>1. box' \in [Links!Place -> Boxes] /\ \A q \in Links!Place : BoxOK(box[q])'
    BY <1>1, SameBoxes DEF LinksInv, Types
  <2>2. \A i : IsThere(i) => IsThere(i)'
    BY <1>1 DEF Grow, IsThere
  <2> QED
    BY <1>1, <2>1, <2>2, FormsStep DEF LinksInv, Types, FormsOK
<1>6. DialogsWait'
  BY SameCalls, DialogsWaitStep DEF LinksInv, Links!net, Links!tab
<1> QED
  BY <1>1, <1>3, <1>4, <1>6 DEF LinksInv, Types

LEMMA OpenRoundStep ==
  ASSUME LinksInv, Links!OpenRound
  PROVE  LinksInv'
<1> USE DEF Links!OpenRound, Links!history
<1>1. Grow /\ RecordsOK' /\ TabOK' /\ NetOK' /\ Pages'
  BY OnlyForms
<1>3. Wishes'
  BY OnlyFormsWishes
<1>4. FormsOK'
  <2>1. box' \in [Links!Place -> Boxes] /\ \A q \in Links!Place : BoxOK(box[q])'
    BY <1>1, SameBoxes DEF LinksInv, Types
  <2>2. \A i : IsThere(i) => IsThere(i)'
    BY <1>1 DEF Grow, IsThere
  <2>3. round' \in [open : BOOLEAN, with : SUBSET RecordIds, busy : BOOLEAN] /\ round'.with = round.with
    BY DEF LinksInv, Types, FormsOK
  <2> QED
    BY <1>1, <2>1, <2>2, <2>3, FormsStep DEF LinksInv, Types, FormsOK
<1>6. DialogsWait'
  BY SameCalls, DialogsWaitStep DEF LinksInv, Links!net, Links!tab
<1> QED
  BY <1>1, <1>3, <1>4, <1>6 DEF LinksInv, Types

-----------------------------------------------------------------------------
(* Steps that send a call. *)

LEMMA Sending ==
  ASSUME NetOK, NEW c, Links!Send(c)
  PROVE  \E j \in Links!Slots : /\ sent[j] = None /\ sent' = [sent EXCEPT ![j] = c]
                                /\ \A k \in Links!Slots : sent'[k] = IF k = j THEN c ELSE sent[k]
<1>1. PICK j \in Links!Slots : sent[j] = None /\ \A d : Links!With(sent, d) = [sent EXCEPT ![j] = d]
  BY FreeSlot DEF Links!Send, Links!Free
<1>2. sent' = [sent EXCEPT ![j] = c]
  BY <1>1 DEF Links!Send
<1> QED
  BY <1>1, <1>2 DEF NetOK

LEMMA Fresh ==
  ASSUME NEW j \in Links!Slots, sent[j] = None, NEW c,
         \A k \in Links!Slots : sent'[k] = IF k = j THEN c ELSE sent[k],
         NEW kinds, c.kind \notin kinds
  PROVE  Same(kinds)
  BY DEF Same, Is

LEMMA CreateStep ==
  ASSUME LinksInv, NEW p \in Links!Place, Links!Create(p)
  PROVE  LinksInv'
<1>1. Grow /\ RecordsOK' /\ TabOK'
  BY RecordsSame, TabSame DEF LinksInv, Types, Links!Create, Links!history
<1>2. /\ box[p].open /\ Links!offerCreate(p) /\ \A q \in Links!Place : dialog[q] = None
  BY DEF Links!Create, Links!Reachable
<1> DEFINE n == box[p].text
           b == [box[p] EXCEPT !.text = None, !.open = FALSE, !.load = None]
<1>3. BoxOK(box[p]) /\ box[p] \in Boxes /\ n \in Name
  BY <1>2 DEF LinksInv, Types, FormsOK, BoxOK, Links!offerCreate, Boxes
<1>4. /\ b \in Boxes /\ b.load = None /\ ~b.open /\ b.options = box[p].options
  BY <1>3 DEF Boxes
<1>5. box' = [box EXCEPT ![p] = b]
  BY DEF Links!Create, Links!Chosen
<1> HIDE DEF b
<1>6. BoxOK(b)
  BY <1>3, <1>4 DEF BoxOK
<1>7. /\ \A q \in Links!Place : box'[q] = IF q = p THEN b ELSE box[q]
      /\ box' \in [Links!Place -> Boxes] /\ \A q \in Links!Place : BoxOK(box[q])'
  BY <1>1, <1>5, <1>6, OneBox DEF LinksInv, Types
<1>10. CASE p = "founder"
  <2> DEFINE c == [Links!Call("draft") EXCEPT !.name = n, !.place = p]
  <2>1. Links!Send(c) /\ UNCHANGED <<dialog, stint, round, saved, local, leaving, refresh, Links!db, Links!history>>
    BY <1>10 DEF Links!Create, Links!tab
  <2>0. CallOK(c) /\ c.kind = "draft" /\ c.name = n /\ c.place = p /\ c.page = Links!Page /\ c.state = "sent"
    BY <1>3, DraftCall, ZenonT(60)
  <2>2. CallOK(c) /\ c.kind = "draft" /\ c.name = n /\ c.place = "founder" /\ c.page = Links!Page /\ c.state = "sent"
    BY <1>10, <2>0
  <2> HIDE DEF c
  <2>3. PICK j \in Links!Slots : /\ sent[j] = None /\ sent' = [sent EXCEPT ![j] = c]
                                 /\ \A k \in Links!Slots : sent'[k] = IF k = j THEN c ELSE sent[k]
    BY <2>1, Sending DEF LinksInv, Types
  <2>4. NetOK'
    BY <1>1, <2>1, <2>2, <2>3, CallStays, NetSet DEF LinksInv, Types, NetOK
  <2>5. FormsOK'
    <3>1. \A i : IsThere(i) => IsThere(i)'
      BY <1>1 DEF Grow, IsThere
    <3> QED
      BY <1>1, <1>7, <2>1, <3>1, FormsStep DEF LinksInv, Types, FormsOK
  <2>6. Same(Chain) /\ Same({"link", "unlink", "round"})
    BY <2>2, <2>3, Fresh DEF Chain
  <2>7. Pages'
    <3>1. ~saved => \A i \in Links!Slots : sent'[i] # None => sent'[i].page = "new"
      BY <2>2, <2>3 DEF LinksInv, Pages, Links!Page
    <3> QED
      BY <2>1, <2>6, <3>1, PagesStep DEF LinksInv, Pages, Links!db, Links!history
  <2>9. \A i \in Links!Slots : Is(i, {"draft"})' => i = j \/ (Is(i, {"draft"}) /\ sent'[i] = sent[i])
    BY <2>3 DEF Is
  <2>10. DialogsWait'
    BY <2>1, <2>2, <2>3, <2>9 DEF DialogsWait, LinksInv, Awaited, Links!Here, Links!Page,
       Links!history
  <2>12. Wishes'
    <3>1. \A i \in Links!Slots : Is(i, {"create"})' => Is(i, {"create"}) /\ sent'[i].body = sent[i].body
      BY <2>2, <2>3 DEF Is
    <3>2. ASSUME NEW w, Described(w)
          PROVE  Described(w)'
      BY <1>2, <3>2 DEF Described, Awaited, Links!Place
    <3> QED
      BY <1>1, <2>1, <2>6, <3>1, <3>2, SameChanges, WishesStep DEF LinksInv, Links!db, Links!history
  <2> QED
    BY <1>1, <2>4, <2>5, <2>7, <2>10, <2>12 DEF LinksInv, Types
<1>11. CASE p # "founder"
  <2>1. dialog' = [dialog EXCEPT ![p] = n] /\ UNCHANGED <<Links!db, Links!tab, Links!net, stint, round, Links!history>>
    BY <1>11 DEF Links!Create, Links!net
  <2>2. dialog' \in [Links!Place -> Name \cup {None}] /\ \A q \in Links!Place : dialog'[q] = IF q = p THEN n ELSE dialog[q]
    BY <1>3, <2>1 DEF LinksInv, Types, FormsOK
  <2>3. NetOK' /\ Pages'
    BY <2>1, OnlyForms DEF Links!history
  <2>5. FormsOK'
    <3>1. \A i : IsThere(i) => IsThere(i)'
      BY <1>1 DEF Grow, IsThere
    <3>2. dialog'["founder"] = None
      BY <1>2, <1>11, <2>2 DEF Links!Place
    <3> QED
      BY <1>1, <1>7, <2>1, <2>2, <3>1, <3>2, FormsStep DEF LinksInv, Types, FormsOK
  <2>7. DialogsWait'
    BY <2>1, SameCalls, DialogsWaitStep DEF LinksInv, Links!net, Links!tab, Links!history
  <2>9. Wishes'
    <3>1. \A w : ~Described(w)
      BY <1>2 DEF Described, Awaited, Links!Place
    <3> QED
      BY <1>1, <2>1, <3>1, SameCalls, WishesStep DEF LinksInv, Links!db, Links!tab, Links!net,
         Links!history
  <2> QED
    BY <1>1, <2>3, <2>5, <2>7, <2>9 DEF LinksInv, Types
<1> QED
  BY <1>10, <1>11

\* No page is on its way: nothing of the startup is stored, or being stored, before it is there.
LEMMA NotReplacing ==
  ASSUME LinksInv, ~saved, ~Links!Replacing
  PROVE  startup = None /\ \A i \in Links!Slots : ~Is(i, Chain)
  BY DEF Links!Replacing, LinksInv, Pages, Created, Is, Chain

LEMMA AlongNow ==
  ASSUME ~saved => startup' = None /\ \A i \in Links!Slots : ~Is(i, {"create"})', UNCHANGED saved,
         NEW w
  PROVE  Along(w)'
  BY DEF Along

LEMMA SubmitDraftStep ==
  ASSUME LinksInv, NEW p \in Links!Place, Links!SubmitDraft(p)
  PROVE  LinksInv'
<1>1. /\ dialog[p] # None
      /\ UNCHANGED <<Links!db, Links!tab, Links!forms, leaving, refresh, unwant>>
  BY DEF Links!SubmitDraft
<1>2. PICK n \in Name :
        /\ Links!Send([Links!Call("draft") EXCEPT !.name = n, !.place = p])
        /\ IF p = "participant" THEN UNCHANGED <<wished, crossed>>
           ELSE /\ wished' = wished \cup {Links!Wish(n, {})}
                /\ crossed' = (crossed \/ Links!Replacing \/ Links!Coming(p) # {})
  BY DEF Links!SubmitDraft
<1> DEFINE c == [Links!Call("draft") EXCEPT !.name = n, !.place = p]
<1>20. p # "founder"
  BY <1>1 DEF LinksInv, Types, FormsOK
<1>3. CallOK(c) /\ c.kind = "draft" /\ c.name = n /\ c.place = p /\ c.page = Links!Page /\ c.state = "sent"
  BY DraftCall, ZenonT(60)
<1>21. Links!Send(c)
  BY <1>2
<1> HIDE DEF c
<1>4. PICK j \in Links!Slots : /\ sent[j] = None /\ sent' = [sent EXCEPT ![j] = c]
                               /\ \A k \in Links!Slots : sent'[k] = IF k = j THEN c ELSE sent[k]
  BY <1>21, Sending DEF LinksInv, Types
<1>5. Grow /\ RecordsOK'
  BY <1>1, RecordsSame DEF LinksInv, Types
<1>6. /\ unwant' = unwant /\ (crossed => crossed') /\ crossed' \in BOOLEAN /\ wished \subseteq wished'
      /\ wished' \subseteq wished \cup {Links!Wish(n, {})}
      /\ p = "participant" => wished' = wished
      /\ p # "participant" /\ ~crossed' => ~Links!Replacing /\ Links!Coming(p) = {}
  BY <1>1, <1>2 DEF LinksInv, Types, TabOK
<1>7. TabOK'
  <2>1. \A i : IsThere(i) => IsThere(i)'
    BY <1>5 DEF Grow, IsThere
  <2> QED
    BY <1>1, <1>5, <1>6, <2>1, LinkStays DEF LinksInv, Types, TabOK, Links!tab
<1>8. NetOK'
  BY <1>1, <1>3, <1>4, <1>5, CallStays, NetSet DEF LinksInv, Types, NetOK
<1>9. FormsOK'
  BY <1>1, <1>5, FormsSame DEF LinksInv, Types
<1>10. Same(Chain) /\ Same({"link", "unlink", "round"})
  BY <1>3, <1>4, Fresh DEF Chain
<1>11. Pages'
  <2>1. ~saved => \A i \in Links!Slots : sent'[i] # None => sent'[i].page = "new"
    BY <1>3, <1>4 DEF LinksInv, Pages, Links!Page
  <2> QED
    BY <1>1, <1>6, <1>10, <2>1, PagesStep DEF LinksInv, Pages, Links!db, Links!tab
<1>13. \A i \in Links!Slots : Is(i, {"draft"})' => i = j \/ (Is(i, {"draft"}) /\ sent'[i] = sent[i])
  BY <1>4 DEF Is
<1>14. \A i \in Links!Slots : Links!Here(sent[i])' /\ sent'[i] = sent[i] => Links!Here(sent[i])
  BY <1>1 DEF Links!Here, Links!Page, Links!tab
<1>16. DialogsWait'
  <2>1. ASSUME NEW i \in Links!Slots, Awaited(i)'
        PROVE  \/ i = j /\ sent'[i].place = p /\ p # "participant"
               \/ Awaited(i) /\ sent'[i] = sent[i]
    BY <1>3, <1>4, <1>13, <1>14, <2>1 DEF Awaited
  <2>2. ASSUME NEW i \in Links!Slots, Awaited(i), sent[i].place = p, p # "participant"
        PROVE  crossed'
    <3>1. i \in Links!Coming(p)
      BY <2>2 DEF Awaited, Is, Links!Coming, Links!Free, Links!Here
    <3> QED
      BY <1>6, <2>2, <3>1
  <2> QED
    BY <1>6, <2>1, <2>2 DEF DialogsWait, LinksInv
<1>19. Wishes'
  <2>1. \A i \in Links!Slots : Is(i, {"create"})' => Is(i, {"create"}) /\ sent'[i].body = sent[i].body
    BY <1>3, <1>4 DEF Is
  <2>2. UNCHANGED <<links, saved, local, startup, dialog>>
    BY <1>1 DEF Links!db, Links!tab, Links!forms
  <2> SUFFICES ASSUME ~crossed'
               PROVE  OneChange' /\ (\A w \in wished' : Promise(w)' /\ Along(w)') /\ \A to \in unwant' : Dropped(to)'
    BY DEF Wishes
  <2>3. OneChange /\ (\A w \in wished : Promise(w) /\ Along(w)) /\ \A to \in unwant : Dropped(to)
    BY <1>6 DEF LinksInv, Wishes
  <2>4. ChangesStay
    BY <1>10, SameChanges
  <2>5. OneChange' /\ \A to \in unwant' : Dropped(to)'
    BY <1>6, <2>2, <2>3, <2>4, ChangesStep, DroppedStep DEF OneChange
  <2>6. ASSUME NEW w, Described(w)
        PROVE  Described(w)'
    <3>1. ASSUME NEW i \in Links!Slots, Awaited(i)
          PROVE  sent'[i] = sent[i] /\ dialog'[sent[i].place] = dialog[sent[i].place]
      BY <1>4, <2>2, <3>1 DEF Awaited, Is
    <3> QED
      BY <2>2, <2>6, <3>1, StaysDescribed
  <2>7. p # "participant" => Described(Links!Wish(n, {}))'
    <3>1. p # "participant" => p \in {"investor", "batch"}
      BY <1>20 DEF Links!Place
    <3>2. c # None
      BY <1>3, Distinct DEF CallOK
    <3>3. p # "participant" => Awaited(j)'
      BY <1>1, <1>3, <1>4, <3>1, <3>2 DEF Awaited, Is, Links!Here, Links!Page, Links!tab
    <3>4. /\ Links!Wish(sent[j].name, {})' = Links!Wish(n, {})
          /\ (Links!Wish(n, {}))' = Links!Wish(n, {}) /\ dialog' = dialog /\ sent'[j].place = p
      BY <1>3, <1>4, <2>2, BareWish
    <3> QED
      BY <1>1, <3>3, <3>4 DEF Described
  <2>8. ASSUME NEW w \in wished
        PROVE  Promise(w)' /\ Along(w)'
    BY <1>5, <2>1, <2>2, <2>3, <2>4, <2>6, <2>8, SameLocal, PromiseStays, AlongStays
       DEF LinksInv, Types
  <2>9. p # "participant" => Along(Links!Wish(n, {}))'
    <3>1. p # "participant" /\ ~saved => startup' = None /\ \A i \in Links!Slots : ~Is(i, {"create"})'
      BY <1>6, <2>1, <2>2, NotReplacing DEF Is, Chain
    <3>2. p # "participant" => \A w : Along(w)'
      BY <2>2, <3>1, AlongNow
    <3>3. (Links!Wish(n, {}))' = Links!Wish(n, {})
      BY <2>2, BareWish
    <3> QED
      BY <2>2, <3>2, <3>3 DEF Along
  <2>10. ASSUME NEW w \in wished', w \notin wished
         PROVE  Promise(w)' /\ Along(w)'
    <3>1. p # "participant" /\ w = Links!Wish(n, {}) /\ w = (Links!Wish(n, {}))'
      BY <1>6, <2>2, <2>10, BareWish
    <3> QED
      BY <2>7, <2>9, <3>1 DEF Promise
  <2> QED
    BY <2>5, <2>8, <2>10
<1> QED
  BY <1>5, <1>7, <1>8, <1>9, <1>11, <1>16, <1>19 DEF LinksInv, Types

-----------------------------------------------------------------------------
(* Steps that add or remove a link. *)

\* A link is added beside the calls cs, which are those under way, or these without a draft.
LEMMA AddStep ==
  ASSUME LinksInv, NEW cs, cs \in [Links!Slots -> Links!Calls \cup {None}],
         \A k \in Links!Slots : cs[k] = sent[k] \/ (Is(k, {"draft"}) /\ cs[k] = None),
         \E k \in Links!Slots : cs[k] = None,
         NEW at \in {"new", "saved"}, at = "saved" => saved,
         NEW l \in Links!Link, StoredLink(l), l.with = {},
         Links!Add(cs, at, l), UNCHANGED <<Links!db, saved, listed, leaving, refresh>>,
         unwant' = unwant \ {l.to}, crossed' \in BOOLEAN, ~crossed' => ~crossed /\ ~Links!Crossed(l.to),
         wished' \subseteq wished \cup {Links!Wish(Links!NameOf(l.to), {})},
         Links!Wish(Links!NameOf(l.to), {}) \in wished' \ wished /\ ~crossed' => at = Links!Page /\ ~Links!Replacing,
         ~crossed' => \A w \in wished : Described(w) => Described(w)' \/ (w = Links!Wish(Links!NameOf(l.to), {}) /\ at = Links!Page)
  PROVE  /\ Grow /\ RecordsOK' /\ TabOK' /\ NetOK' /\ Pages' /\ Wishes'
         /\ \A k \in Links!Slots : cs[k] # None => sent'[k] = cs[k]
         /\ \A k \in Links!Slots : Is(k, {"draft"})' => cs[k] # None /\ sent'[k] = cs[k]
<1> DEFINE W0 == Links!Wish(Links!NameOf(l.to), {})
<1>1. Grow /\ RecordsOK'
  BY RecordsSame DEF LinksInv, Types
<1>2. \A i : IsThere(i) => IsThere(i)'
  BY <1>1 DEF Grow, IsThere
<1>3. Says(l, W0)' /\ LinkOK(l) /\ LinkOK(l)' /\ StoredLink(l)'
  <2>1. Says(l, W0) /\ LinkOK(l)
    BY DEF Says, StoredLink
  <2>2. \A w : Says(l, w) => Says(l, w)'
    BY <1>1, <2>1, SaysStays
  <2>3. W0' = W0
    BY <1>1, BareWish DEF Links!db, Links!NameOf
  <2>4. LinkOK(l)' /\ StoredLink(l)'
    BY <1>1, <2>1, LinkStays
  <2> QED
    BY <2>1, <2>2, <2>3, <2>4 DEF Says
<1>4. local' \in Seq(Links!Link) /\ \A k \in DOMAIN local' : LinkOK(local[k])'
  <2>1. local \in Seq(Links!Link) /\ \A k \in DOMAIN local : LinkOK(local[k])
    BY DEF LinksInv, Types, TabOK
  <2>4. \A x : LinkOK(x) => LinkOK(x)'
    BY <1>1, LinkStays
  <2>2. CASE local' = local
    BY <2>1, <2>2, <2>4
  <2>3. CASE local' = Append(local, l)
    <3>1. /\ local' \in Seq(Links!Link) /\ DOMAIN local' = 1 .. (Len(local) + 1)
          /\ \A k \in 1 .. (Len(local) + 1) : local'[k] = IF k <= Len(local) THEN local[k] ELSE l
      BY <2>1, <2>3
    <3>2. \A k \in 1 .. (Len(local) + 1) : k <= Len(local) => k \in DOMAIN local
      BY <2>1
    <3> QED
      BY <1>3, <2>1, <2>4, <3>1, <3>2
  <2> QED
    BY <2>2, <2>3 DEF Links!Add
<1>5. TabOK'
  <2>1. waiting' \in BOOLEAN
    BY DEF Links!Add, LinksInv, Types, TabOK
  <2> QED
    BY <1>1, <1>2, <1>4, <2>1, LinkStays DEF LinksInv, Types, TabOK
<1>6. ~saved => InBody(local, W0)'
  <2> SUFFICES ASSUME ~saved
               PROVE  InBody(local, W0)'
    OBVIOUS
  <2>1. local \in Seq(Links!Link)
    BY DEF LinksInv, Types, TabOK
  <2>2. CASE local' = Append(local, l)
    <3>1. Len(local) + 1 \in DOMAIN local' /\ local'[Len(local) + 1] = l
      BY <2>1, <2>2
    <3> QED
      BY <1>3, <3>1 DEF InBody
  <2>3. CASE local' = local /\ l \in Links!Range(local)
    BY <1>3, <2>3 DEF InBody, Links!Range
  <2> QED
    BY <2>2, <2>3 DEF Links!Add
\* The calls afterwards.
<1>7. \E j \in Links!Slots :
        /\ cs[j] = None
        /\ \A k \in Links!Slots : k # j => sent'[k] = cs[k]
        /\ IF at = "new" THEN sent'[j] = None
           ELSE CallOK(sent[j])' /\ sent'[j] # None /\ sent'[j].kind = "link" /\ sent'[j].link = l
                  /\ sent'[j].page = "saved" /\ sent'[j].state = "sent"
        /\ sent' \in [Links!Slots -> Links!Calls \cup {None}]
  <2>1. CASE at = "new"
    BY <2>1 DEF Links!Add
  <2>2. CASE at = "saved"
    <3> DEFINE c == [Links!Call("link") EXCEPT !.page = "saved", !.link = l]
    <3>1. sent' = Links!With(cs, c)
      BY <2>2 DEF Links!Add
    <3>2. CallOK(c) /\ c.kind = "link" /\ c.link = l /\ c.state = "sent" /\ c.page = "saved"
      BY LinkCall, Zenon
    <3> HIDE DEF c
    <3>3. PICK j \in Links!Slots : cs[j] = None /\ \A d : Links!With(cs, d) = [cs EXCEPT ![j] = d]
      BY FreeSlot
    <3>4. sent' = [cs EXCEPT ![j] = c]
      BY <3>1, <3>3
    <3>5. c \in Links!Calls /\ c # None /\ \A x : CallOK(x) => CallOK(x)'
      BY <1>1, <3>2, CallStays, Distinct DEF CallOK
    <3>6. sent'[j] = c /\ \A k \in Links!Slots : k # j => sent'[k] = cs[k]
      BY <3>4
    <3>7. sent' \in [Links!Slots -> Links!Calls \cup {None}]
      BY <3>4, <3>5
    <3>8. CallOK(sent[j])'
      BY <3>2, <3>5, <3>6
    <3> QED
      BY <2>2, <3>2, <3>3, <3>5, <3>6, <3>7, <3>8
  <2> QED
    BY <2>1, <2>2
<1>8. PICK j \in Links!Slots :
        /\ cs[j] = None
        /\ \A k \in Links!Slots : k # j => sent'[k] = cs[k]
        /\ IF at = "new" THEN sent'[j] = None
           ELSE CallOK(sent[j])' /\ sent'[j] # None /\ sent'[j].kind = "link" /\ sent'[j].link = l
                  /\ sent'[j].page = "saved" /\ sent'[j].state = "sent"
        /\ sent' \in [Links!Slots -> Links!Calls \cup {None}]
  BY <1>7
<1>9. \A k \in Links!Slots : Is(k, {"draft"})' => cs[k] # None /\ sent'[k] = cs[k]
  BY <1>8 DEF Is
<1>10. \A k \in Links!Slots : k # j => sent'[k] = sent[k] \/ (Is(k, {"draft"}) /\ sent'[k] = None)
  BY <1>8
<1>11. sent[j] = None \/ Is(j, {"draft"})
  BY <1>8
<1>12. NetOK'
  <2>1. \A k \in Links!Slots : (sent[k] # None => CallOK(sent[k]))'
    BY <1>1, <1>8, <1>10, CallStays DEF LinksInv, Types, NetOK
  <2> QED
    BY <1>8, <2>1 DEF LinksInv, Types, NetOK
<1>13. Same(Chain) /\ \A i \in Links!Slots : Is(i, {"create"})' => Is(i, {"create"}) /\ sent'[i].body = sent[i].body
  BY <1>8, <1>10, <1>11 DEF Same, Is, Chain
<1>14. Pages'
  <2>1. ~saved => \A i \in Links!Slots : sent'[i] # None => sent'[i].page = "new"
    BY <1>8, <1>10 DEF LinksInv, Pages
  <2> QED
    BY <1>13, <2>1, PagesStep DEF LinksInv, Pages, Links!db
<1>15. Wishes'
  <2> SUFFICES ASSUME ~crossed'
               PROVE  OneChange' /\ (\A w \in wished' : Promise(w)' /\ Along(w)') /\ \A to \in unwant' : Dropped(to)'
    BY DEF Wishes
  <2>1. OneChange /\ (\A w \in wished : Promise(w) /\ Along(w)) /\ \A to \in unwant : Dropped(to)
    BY DEF LinksInv, Wishes
  <2>2. \A k \in Links!Slots : k # j => \A kind \in {"link", "unlink", "round"} :
          /\ Is(k, {kind})' <=> Is(k, {kind})
          /\ Is(k, {kind}) => sent'[k] = sent[k]
    BY <1>10 DEF Is
  <2>3. \A kind \in {"unlink", "round"} : ~Is(j, {kind})' /\ ~Is(j, {kind})
    BY <1>8, <1>11 DEF Is
  <2>4. ~Is(j, {"link"})
    BY <1>11 DEF Is
  <2>5. Is(j, {"link"})' => sent'[j].link = l
    BY <1>8 DEF Is
  <2>6. \A k \in Links!Slots : \A to : Changes(k, to)' => Changes(k, to) \/ (k = j /\ to = l.to)
    <3> SUFFICES ASSUME NEW k \in Links!Slots, NEW to, Changes(k, to)'
                 PROVE  Changes(k, to) \/ (k = j /\ to = l.to)
      OBVIOUS
    <3>1. CASE k = j
      BY <1>8, <2>3, <2>5, <3>1 DEF Changes, Is
    <3>2. CASE k # j
      BY <1>10, <3>2 DEF Changes, Is
    <3> QED
      BY <3>1, <3>2
  <2>7. \A k \in Links!Slots : ~Changes(k, l.to)
    BY DEF Links!Crossed, Changes, Is, Links!Free
  <2>8. OneChange'
    BY <2>1, <2>6, <2>7 DEF OneChange
  <2>9. \A to \in unwant' : Dropped(to)'
    <3> SUFFICES ASSUME NEW to \in unwant'
                 PROVE  Dropped(to)'
      OBVIOUS
    <3>1. Dropped(to) /\ to # l.to
      BY <2>1
    <3>2. \A i \in Links!Slots : ~(Is(i, {"link"}) /\ sent[i].link.to = to)'
      BY <2>2, <2>5, <3>1 DEF Dropped
    <3>3. \A i \in Links!Slots : Is(i, {"unlink"}) => Is(i, {"unlink"})' /\ sent'[i] = sent[i]
      BY <2>2, <2>3
    <3> QED
      BY <3>1, <3>2, <3>3 DEF Dropped, Links!db
  <2>10. \A to : Removing(to)' => Removing(to)
    <3>1. \A i \in Links!Slots : Is(i, {"unlink"})' => Is(i, {"unlink"}) /\ sent'[i] = sent[i]
      BY <2>2, <2>3
    <3> QED
      BY <3>1 DEF Removing
  <2>11. ASSUME NEW w, InLinks(w)
         PROVE  InLinks(w)'
    BY <1>1, <2>10, <2>11, InLinksStep DEF LinksInv, Types, Links!db
  <2>12. ASSUME NEW w, OnItsWay(w)
         PROVE  OnItsWay(w)'
    <3>1. PICK i \in Links!Slots : Is(i, {"link", "round"}) /\ Says(sent[i].link, w) /\ sent[i].state # "done"
      BY <2>12 DEF OnItsWay
    <3>2. sent'[i] = sent[i] /\ Is(i, {"link", "round"})'
      BY <1>10, <1>11, <3>1 DEF Is
    <3> QED
      BY <1>1, <3>1, <3>2, SentStep DEF LinksInv, Types
  <2>13. at = "saved" => OnItsWay(W0)'
    <3>1. at = "saved" => Is(j, {"link", "round"})' /\ sent'[j].link = l /\ sent'[j].state # "done"
      BY <1>8 DEF Is
    <3> QED
      BY <1>3, <3>1 DEF OnItsWay, Says
  <2>14. at = Links!Page => Promise(W0)'
    BY <1>6, <2>13 DEF Promise, Links!Page
  <2>15. ASSUME NEW w \in wished
         PROVE  Promise(w)'
    <3>1. Promise(w)
      BY <2>1
    <3>2. Described(w) => Described(w)' \/ (w = W0 /\ at = Links!Page)
      OBVIOUS
    <3>3. InBody(local, w) /\ ~saved => InBody(local, w)'
      <4>1. CASE local' = local
        BY <1>1, <4>1, SameLocal DEF LinksInv, Types
      <4>2. CASE local' = Append(local, l)
        <5> SUFFICES ASSUME NEW k \in DOMAIN local, Says(local[k], w)
                     PROVE  InBody(local, w)'
          BY DEF InBody
        <5>1. local \in Seq(Links!Link) /\ LinkOK(local[k])
          BY DEF LinksInv, Types, TabOK
        <5>2. Says(local[k], w)' /\ local'[k] = local[k] /\ k \in DOMAIN local'
          BY <1>1, <4>2, <5>1, SaysStays
        <5> QED
          BY <5>2 DEF InBody
      <4> QED
        BY <4>1, <4>2 DEF Links!Add
    <3>4. w = W0 /\ at = Links!Page => Promise(w)'
      <4>1. W0' = W0
        BY <1>1, BareWish DEF Links!db, Links!NameOf
      <4> QED
        BY <2>14, <4>1 DEF Promise
    <3> QED
      BY <2>11, <2>12, <3>1, <3>2, <3>3, <3>4 DEF Promise
  <2>16. ASSUME NEW w \in wished
         PROVE  Along(w)'
    <3>1. Along(w)
      BY <2>1
    <3>2. ASSUME NEW i \in Links!Slots, ~saved, Is(i, {"create"})'
          PROVE  InBody(sent[i].body, w)'
      <4>1. Is(i, {"create"}) /\ sent'[i].body = sent[i].body
        BY <1>13, <3>2
      <4>2. \A k \in DOMAIN sent[i].body : LinkOK(sent[i].body[k])
        BY <4>1 DEF Is, LinksInv, Types, NetOK, CallOK
      <4>3. InBody(sent[i].body, w)
        BY <3>1, <3>2, <4>1 DEF Along
      <4>4. \A b : (\A k \in DOMAIN b : LinkOK(b[k])) /\ InBody(b, w) => InBody(b, w)'
        BY <1>1, InBodyStep
      <4> QED
        BY <4>1, <4>2, <4>3, <4>4 DEF InBody
    <3> QED
      BY <2>11, <3>1, <3>2 DEF Along, Links!db
  <2>17. ASSUME NEW w \in wished', w \notin wished
         PROVE  Promise(w)' /\ Along(w)'
    <3>1. w = W0 /\ at = Links!Page /\ ~Links!Replacing
      BY <2>17
    <3>2. ~saved => startup' = None /\ \A i \in Links!Slots : ~Is(i, {"create"})'
      BY <1>13, <3>1, NotReplacing DEF Is, Chain, Links!db
    <3>3. Along(w)'
      BY <3>2, AlongNow
    <3>4. W0' = W0
      BY <1>1, BareWish DEF Links!db, Links!NameOf
    <3> QED
      BY <2>14, <3>1, <3>3, <3>4 DEF Promise
  <2> QED
    BY <2>8, <2>9, <2>15, <2>16, <2>17
<1> QED
  BY <1>1, <1>5, <1>8, <1>9, <1>12, <1>14, <1>15

\* The admin adds a link to i themselves.
LEMMA AddNow ==
  ASSUME LinksInv, NEW i \in RecordIds, IsThere(i), Links!Free # {},
         Links!Add(sent, Links!Page, Links!LinkTo(i)),
         Links!Wanted(Links!Wish(Links!NameOf(i), {}), i), UNCHANGED <<Links!db, saved, listed, dialog, leaving, refresh>>
  PROVE  /\ Grow /\ RecordsOK' /\ TabOK' /\ NetOK' /\ Pages' /\ Wishes'
         /\ Same({"draft"})
<1>1. Links!LinkTo(i) \in Links!Link /\ Links!LinkTo(i).to = i /\ Links!LinkTo(i).with = {}
  BY LinkTos
<1>2. StoredLink(Links!LinkTo(i))
  BY <1>1, Distinct DEF StoredLink, LinkOK
<1>3. sent \in [Links!Slots -> Links!Calls \cup {None}] /\ crossed \in BOOLEAN
  BY DEF LinksInv, Types, NetOK, TabOK
<1>4. Links!Page \in {"new", "saved"} /\ (Links!Page = "saved" => saved)
  BY DEF Links!Page
<1>5. /\ unwant' = unwant \ {i} /\ crossed' \in BOOLEAN /\ (~crossed' => ~crossed /\ ~Links!Crossed(i) /\ ~Links!Replacing)
      /\ wished' = wished \cup {Links!Wish(Links!NameOf(i), {})}
  BY DEF Links!Wanted
<1>6. \E k \in Links!Slots : sent[k] = None
  BY DEF Links!Free
<1> DEFINE l == Links!LinkTo(i)
<1> HIDE DEF l
<1>7. l \in Links!Link /\ l.to = i /\ l.with = {} /\ StoredLink(l) /\ Links!Add(sent, Links!Page, l)
  BY <1>1, <1>2 DEF l
<1>8. ASSUME NEW w \in wished, Described(w)
      PROVE  Described(w)' \/ (w = Links!Wish(Links!NameOf(l.to), {}) /\ Links!Page = Links!Page)
  <2>1. ASSUME NEW k \in Links!Slots, sent[k] # None
        PROVE  sent'[k] = sent[k]
    <3>1. CASE Links!Page = "new"
      BY <1>7, <3>1 DEF Links!Add
    <3>2. CASE Links!Page = "saved"
      <4>1. PICK j \in Links!Slots : sent[j] = None /\ \A d : Links!With(sent, d) = [sent EXCEPT ![j] = d]
        BY <1>6, FreeSlot
      <4>2. j # k
        BY <2>1, <4>1
      <4> QED
        BY <1>3, <1>7, <3>2, <4>1, <4>2 DEF Links!Add
    <3> QED
      BY <1>4, <3>1, <3>2
  <2> QED
    BY <1>8, <2>1, StaysDescribed DEF Awaited, Is
<1>9. /\ Grow /\ RecordsOK' /\ TabOK' /\ NetOK' /\ Pages' /\ Wishes'
      /\ \A k \in Links!Slots : sent[k] # None => sent'[k] = sent[k]
      /\ \A k \in Links!Slots : Is(k, {"draft"})' => sent[k] # None /\ sent'[k] = sent[k]
  BY <1>3, <1>4, <1>5, <1>6, <1>7, <1>8, AddStep
<1>10. Same({"draft"})
  BY <1>9 DEF Same, Is
<1> QED
  BY <1>5, <1>9, <1>10

LEMMA SubmitStintStep ==
  ASSUME LinksInv, Links!SubmitStint
  PROVE  LinksInv'
<1> USE DEF Links!SubmitStint
<1>1. stint \in RecordIds /\ IsThere(stint)
  BY DEF LinksInv, Types, FormsOK, IsThere
<1>2. /\ Grow /\ RecordsOK' /\ TabOK' /\ NetOK' /\ Pages' /\ Wishes'
      /\ Same({"draft"})
  BY <1>1, AddNow
<1>3. FormsOK'
  <2>1. box' \in [Links!Place -> Boxes] /\ \A q \in Links!Place : BoxOK(box[q])'
    BY <1>2, SameBoxes DEF LinksInv, Types
  <2>2. \A i : IsThere(i) => IsThere(i)'
    BY <1>2 DEF Grow, IsThere
  <2>3. stint' # None => IsThere(stint)'
    BY <1>1, <2>2
  <2> QED
    BY <1>2, <2>1, <2>2, <2>3, FormsStep DEF LinksInv, Types, FormsOK
<1>5. DraftsStay /\ \A i \in Links!Slots : Is(i, {"draft"}) => sent'[i].place = sent[i].place
  BY <1>2, SameDrafts
<1>6. DialogsWait'
  BY <1>5, DialogsWaitStep DEF LinksInv, Links!Wanted
<1> QED
  BY <1>2, <1>3, <1>6 DEF LinksInv, Types

LEMMA ChooseStep ==
  ASSUME LinksInv, NEW p \in Links!Place, Links!Choose(p)
  PROVE  LinksInv'
<1>1. PICK i \in Links!options(p) :
       CASE p = "participant" ->
              Links!Participate(i) /\ UNCHANGED <<stint, Links!tab, sent, Links!history>>
         [] p = "founder" ->
              stint' = i /\ UNCHANGED <<round, Links!tab, sent, Links!history>>
         [] OTHER ->
              /\ Links!Free # {}
              /\ Links!Add(sent, Links!Page, Links!LinkTo(i)) /\ Links!Wanted(Links!Wish(Links!NameOf(i), {}), i)
              /\ UNCHANGED <<stint, round, saved, listed>>
  BY DEF Links!Choose
<1>2. /\ box' = (IF p = "founder" THEN [box EXCEPT ![p] = Links!Empty] ELSE Links!Chosen(p))
      /\ UNCHANGED <<Links!db, dialog, leaving, refresh>> /\ box[p].open
      /\ \A q \in Links!Place : dialog[q] = None
  BY DEF Links!Choose, Links!Reachable
<1>3. BoxOK(box[p]) /\ box[p] \in Boxes
  BY DEF LinksInv, Types, FormsOK
<1>4. i \in RecordIds /\ IsThere(i)
  BY <1>1, <1>3 DEF BoxOK, Links!options, IsThere
<1>5. Grow /\ RecordsOK' /\ \A k : IsThere(k) => IsThere(k)'
  BY <1>2, RecordsSame DEF LinksInv, Types, Grow, IsThere
<1>6. /\ box' \in [Links!Place -> Boxes] /\ \A q \in Links!Place : BoxOK(box[q])'
  <2>1. \E b : BoxOK(b) /\ ~b.open /\ box' = [box EXCEPT ![p] = b]
    <3>1. CASE p = "founder"
      BY <1>2, <3>1, EmptyBox
    <3>2. CASE p # "founder"
      <4> DEFINE b == [box[p] EXCEPT !.text = None, !.open = FALSE, !.load = None]
      <4>1. /\ b \in Boxes /\ b.load = None /\ ~b.open /\ b.options = box[p].options
        BY <1>3 DEF Boxes
      <4>2. box' = [box EXCEPT ![p] = b]
        BY <1>2, <3>2 DEF Links!Chosen
      <4> HIDE DEF b
      <4>3. BoxOK(b)
        BY <1>3, <4>1 DEF BoxOK
      <4> QED
        BY <4>1, <4>2, <4>3
    <3> QED
      BY <3>1, <3>2
  <2>2. PICK b : BoxOK(b) /\ ~b.open /\ box' = [box EXCEPT ![p] = b]
    BY <2>1
  <2>3. /\ \A q \in Links!Place : box'[q] = IF q = p THEN b ELSE box[q]
        /\ box' \in [Links!Place -> Boxes] /\ \A q \in Links!Place : BoxOK(box[q])'
    BY <1>5, <2>2, OneBox DEF LinksInv, Types
  <2> QED
    BY <1>2, <2>2, <2>3
<1>9. CASE p \in {"participant", "founder"}
  <2>1. UNCHANGED <<Links!tab, Links!net, Links!history>>
    BY <1>1, <1>2, <1>9 DEF Links!net
  <2>2. TabOK' /\ NetOK' /\ Pages'
    BY <1>2, <2>1, OnlyForms DEF Links!history
  <2>3. Wishes'
    BY <1>2, <2>1, OnlyFormsWishes DEF Links!history
  <2>4. FormsOK'
    <3>1. p = "participant" => UNCHANGED stint /\ round' = [round EXCEPT !.with = @ \cup {i}]
      BY <1>1, <1>9 DEF Links!Participate
    <3>2. p = "founder" => stint' = i /\ UNCHANGED round
      BY <1>1, <1>9
    <3>3. /\ round' \in [open : BOOLEAN, with : SUBSET RecordIds, busy : BOOLEAN]
          /\ round'.with \subseteq round.with \cup {i}
      BY <1>4, <1>9, <3>1, <3>2 DEF LinksInv, Types, FormsOK
    <3>4. \A k \in round'.with : IsThere(k)'
      BY <1>4, <1>5, <3>3 DEF LinksInv, Types, FormsOK
    <3>5. stint' # None => IsThere(stint)'
      BY <1>4, <1>5, <1>9, <3>1, <3>2 DEF LinksInv, Types, FormsOK
    <3> QED
      BY <1>2, <1>5, <1>6, <3>3, <3>4, <3>5, FormsStep DEF LinksInv, Types, FormsOK
  <2>5. DialogsWait'
    BY <1>2, <2>1, SameCalls, DialogsWaitStep DEF LinksInv, Links!net, Links!tab, Links!history
  <2> QED
    BY <1>5, <2>2, <2>3, <2>4, <2>5 DEF LinksInv, Types
<1>10. CASE p \notin {"participant", "founder"}
  <2>1. /\ Links!Free # {} /\ Links!Add(sent, Links!Page, Links!LinkTo(i)) /\ Links!Wanted(Links!Wish(Links!NameOf(i), {}), i)
        /\ UNCHANGED <<stint, round, saved, listed>>
    BY <1>1, <1>10
  <2>2. /\ Grow /\ RecordsOK' /\ TabOK' /\ NetOK' /\ Pages' /\ Wishes'
        /\ Same({"draft"})
    BY <1>2, <1>4, <2>1, AddNow
  <2>3. FormsOK'
    BY <1>2, <1>5, <1>6, <2>1, FormsStep DEF LinksInv, Types, FormsOK
  <2>4. DraftsStay
    BY <2>2, SameDrafts
  <2>5. DialogsWait'
    BY <1>2, <2>1, <2>4, DialogsWaitStep DEF LinksInv, Links!Wanted
  <2> QED
    BY <2>2, <2>3, <2>5 DEF LinksInv, Types
<1> QED
  BY <1>9, <1>10

LEMMA Removed ==
  ASSUME NEW S, NEW s \in Seq(S), NEW k \in DOMAIN s
  PROVE  /\ Links!RemoveAt(s, k) \in Seq(S)
         /\ \A x \in DOMAIN Links!RemoveAt(s, k) : \E m \in DOMAIN s : Links!RemoveAt(s, k)[x] = s[m]
         /\ \A m \in DOMAIN s : m # k => \E x \in DOMAIN Links!RemoveAt(s, k) : Links!RemoveAt(s, k)[x] = s[m]
<1>1. k \in 1 .. Len(s) /\ Len(s) \in Nat /\ DOMAIN s = 1 .. Len(s)
  OBVIOUS
<1> DEFINE a == SubSeq(s, 1, k - 1)
           b == SubSeq(s, k + 1, Len(s))
<1>2. /\ a \in Seq(S) /\ Len(a) = k - 1 /\ \A x \in 1 .. (k - 1) : a[x] = s[x]
  BY <1>1
<1>3. /\ b \in Seq(S) /\ Len(b) = Len(s) - k /\ \A x \in 1 .. (Len(s) - k) : b[x] = s[k + x]
  BY <1>1
<1> HIDE DEF a, b
<1> DEFINE r == a \o b
<1>4. /\ r \in Seq(S) /\ DOMAIN r = 1 .. (Len(s) - 1)
      /\ \A x \in 1 .. (Len(s) - 1) : r[x] = IF x <= k - 1 THEN a[x] ELSE b[x - (k - 1)]
  <2>1. /\ r \in Seq(S) /\ Len(r) = Len(a) + Len(b)
        /\ \A x \in 1 .. (Len(a) + Len(b)) : r[x] = IF x <= Len(a) THEN a[x] ELSE b[x - Len(a)]
    BY <1>2, <1>3, ConcatProperties
  <2>2. Len(a) + Len(b) = Len(s) - 1
    BY <1>1, <1>2, <1>3
  <2> QED
    BY <1>2, <2>1, <2>2
<1>5. \A x \in 1 .. (Len(s) - 1) : r[x] = IF x <= k - 1 THEN s[x] ELSE s[x + 1]
  <2> SUFFICES ASSUME NEW x \in 1 .. (Len(s) - 1)
               PROVE  r[x] = IF x <= k - 1 THEN s[x] ELSE s[x + 1]
    OBVIOUS
  <2>1. CASE x <= k - 1
    <3>1. x \in 1 .. (k - 1)
      BY <1>1, <2>1
    <3> QED
      BY <1>2, <1>4, <2>1, <3>1
  <2>2. CASE ~(x <= k - 1)
    <3>1. x - (k - 1) \in 1 .. (Len(s) - k) /\ k + (x - (k - 1)) = x + 1
      BY <1>1, <2>2
    <3> QED
      BY <1>3, <1>4, <2>2, <3>1
  <2> QED
    BY <2>1, <2>2
<1>6. Links!RemoveAt(s, k) = r
  BY DEF Links!RemoveAt, a, b
<1> HIDE DEF r
<1>7. \A x \in DOMAIN r : \E m \in DOMAIN s : r[x] = s[m]
  BY <1>1, <1>4, <1>5
<1>8. \A m \in DOMAIN s : m # k => \E x \in DOMAIN r : r[x] = s[m]
  <2> SUFFICES ASSUME NEW m \in DOMAIN s, m # k
               PROVE  \E x \in DOMAIN r : r[x] = s[m]
    OBVIOUS
  <2>1. CASE m < k
    BY <1>1, <1>4, <1>5, <2>1
  <2>2. CASE m > k
    <3>1. m - 1 \in 1 .. (Len(s) - 1) /\ ~(m - 1 <= k - 1) /\ (m - 1) + 1 = m
      BY <1>1, <2>2
    <3> QED
      BY <1>4, <1>5, <3>1
  <2> QED
    BY <1>1, <2>1, <2>2
<1> QED
  BY <1>4, <1>6, <1>7, <1>8

LEMMA UnlinkStep ==
  ASSUME LinksInv, saved, NEW l \in listed, records[l.to].name # Round,
         Links!Send([Links!Call("unlink") EXCEPT !.link = l]), wished' = wished \ {Links!Wish(Links!NameOf(l.to), l.with)},
         unwant' = unwant \cup {l.to}, crossed' = (crossed \/ Links!Replacing \/ Links!Crossed(l.to)),
         waiting' = TRUE, UNCHANGED <<local, Links!db, saved, listed, Links!forms, leaving, refresh>>
  PROVE  LinksInv'
<1> DEFINE c == [Links!Call("unlink") EXCEPT !.link = l]
<1>1. Grow /\ RecordsOK' /\ \A i : IsThere(i) => IsThere(i)'
  BY RecordsSame DEF LinksInv, Types, Grow, IsThere
<1>2. l \in Links!Link /\ StoredLink(l) /\ LinkOK(l) /\ l.with = {} /\ l.to \in RecordIds /\ IsThere(l.to)
  BY DEF LinksInv, Types, TabOK, StoredLink, LinkOK, IsThere
<1>3. CallOK(c) /\ c.kind = "unlink" /\ c.link = l /\ c.state = "sent" /\ c.page = "saved"
  BY <1>2, UnlinkCall, Zenon
<1> HIDE DEF c
<1>4. PICK j \in Links!Slots : /\ sent[j] = None /\ sent' = [sent EXCEPT ![j] = c]
                               /\ \A k \in Links!Slots : sent'[k] = IF k = j THEN c ELSE sent[k]
  BY Sending DEF LinksInv, Types, c
<1>5. NetOK'
  BY <1>1, <1>3, <1>4, CallStays, NetSet DEF LinksInv, Types, NetOK
<1>6. TabOK'
  <2>1. unwant' \subseteq RecordIds /\ \A i \in unwant' : IsThere(i)'
    BY <1>1, <1>2 DEF LinksInv, Types, TabOK
  <2> QED
    BY <1>1, <2>1, LinkStays DEF LinksInv, Types, TabOK
<1>7. FormsOK'
  BY <1>1, FormsSame DEF LinksInv, Types
<1>8. Same(Chain) /\ Same({"draft"})
  BY <1>3, <1>4, Fresh DEF Chain
<1>9. Pages'
  BY <1>8, PagesStep DEF LinksInv, Pages, Links!db
<1>11. DraftsStay /\ \A i \in Links!Slots : Is(i, {"draft"}) => sent'[i].place = sent[i].place
  BY <1>8, SameDrafts
<1>12. DialogsWait'
  BY <1>11, DialogsWaitStep DEF LinksInv, Links!forms
<1>14. Wishes'
  <2> SUFFICES ASSUME ~crossed'
               PROVE  OneChange' /\ (\A w \in wished' : Promise(w)' /\ Along(w)') /\ \A to \in unwant' : Dropped(to)'
    BY DEF Wishes
  <2>1. OneChange /\ (\A w \in wished : Promise(w) /\ Along(w)) /\ \A to \in unwant : Dropped(to)
    BY DEF LinksInv, Wishes
  <2>2. \A k \in Links!Slots : k # j => \A kind \in {"link", "unlink", "round"} :
          /\ Is(k, {kind})' <=> Is(k, {kind})
          /\ Is(k, {kind}) => sent'[k] = sent[k]
    BY <1>4 DEF Is
  <2>3. ~Is(j, {"link", "unlink", "round"}) /\ ~Is(j, {"link"}) /\ ~Is(j, {"unlink"})
    BY <1>4 DEF Is
  <2>4. Is(j, {"unlink"})' /\ sent'[j].link = l /\ sent'[j].state = "sent" /\ ~Is(j, {"link"})'
        /\ ~Is(j, {"link", "round"})'
    BY <1>3, <1>4, Distinct DEF Is, CallOK
  <2>5. \A k \in Links!Slots : \A to : Changes(k, to)' => Changes(k, to) \/ (k = j /\ to = l.to)
    BY <1>4, <2>4 DEF Changes, Is
  <2>6. \A k \in Links!Slots : ~Changes(k, l.to)
    BY DEF Links!Crossed, Changes, Is, Links!Free
  <2>7. OneChange'
    BY <2>1, <2>5, <2>6 DEF OneChange
  <2>8. ASSUME NEW to \in unwant'
        PROVE  Dropped(to)'
    <3>1. \A i \in Links!Slots : ~(Is(i, {"link"}) /\ sent[i].link.to = to)
      BY <2>1, <2>6, <2>8 DEF Dropped, Changes, Is
    <3>2. \A i \in Links!Slots : ~(Is(i, {"link"}) /\ sent[i].link.to = to)'
      BY <2>2, <2>4, <3>1
    <3>3. to = l.to => (Is(j, {"unlink"}) /\ sent[j].link.to = to /\ sent[j].state # "done")'
      BY <2>4
    <3>4. to # l.to => to \in unwant /\ Dropped(to)
      BY <2>1, <2>8
    <3>5. \A i \in Links!Slots : Is(i, {"unlink"}) => Is(i, {"unlink"})' /\ sent'[i] = sent[i]
      BY <2>2, <2>3
    <3> QED
      BY <3>2, <3>3, <3>4, <3>5 DEF Dropped, Links!db
  <2>9. \A to : Removing(to)' => Removing(to) \/ to = l.to
    <3>1. \A i \in Links!Slots : Is(i, {"unlink"})' => i = j \/ (Is(i, {"unlink"}) /\ sent'[i] = sent[i])
      BY <2>2
    <3> QED
      BY <2>4, <3>1 DEF Removing
  <2>10. ASSUME NEW w \in wished', InLinks(w)
         PROVE  InLinks(w)'
    <3>1. ASSUME NEW m \in links, Says(m, w), m.to = l.to
          PROVE  FALSE
      <4>1. m.with = {}
        BY <3>1 DEF LinksInv, Types, RecordsOK, StoredLink, LinkOK
      <4>2. w = Links!Wish(Links!NameOf(l.to), {})
        BY <3>1, <4>1 DEF Says
      <4> QED
        BY <1>2, <2>10, <4>2
    <3> QED
      BY <1>1, <2>9, <2>10, <3>1, InLinksStep DEF LinksInv, Types, Links!db
  <2>11. ASSUME NEW w, OnItsWay(w)
         PROVE  OnItsWay(w)'
    <3>1. PICK i \in Links!Slots : Is(i, {"link", "round"}) /\ Says(sent[i].link, w) /\ sent[i].state # "done"
      BY <2>11 DEF OnItsWay
    <3>2. sent'[i] = sent[i] /\ Is(i, {"link", "round"})'
      BY <1>4, <3>1 DEF Is
    <3> QED
      BY <1>1, <3>1, <3>2, SentStep DEF LinksInv, Types
  <2>12. ASSUME NEW w, Described(w)
         PROVE  Described(w)'
    BY <1>11, <2>12, DescribedStep DEF Links!forms
  <2> QED
    BY <2>1, <2>7, <2>8, <2>10, <2>11, <2>12 DEF Promise, Along
<1> QED
  BY <1>1, <1>5, <1>6, <1>7, <1>9, <1>12, <1>14 DEF LinksInv, Types

LEMMA TakeOutStep ==
  ASSUME LinksInv, ~saved, NEW k \in DOMAIN local, local' = Links!RemoveAt(local, k),
         wished' = (IF local[k] \in Links!Range(Links!RemoveAt(local, k)) THEN wished
                    ELSE wished \ {Links!Wish(Links!NameOf(local[k].to), local[k].with)}),
         unwant' = unwant, crossed' = (crossed \/ Links!Replacing),
         UNCHANGED <<sent, waiting, Links!db, saved, listed, Links!forms, leaving, refresh>>
  PROVE  LinksInv'
<1>1. Grow /\ RecordsOK' /\ \A i : IsThere(i) => IsThere(i)'
  BY RecordsSame DEF LinksInv, Types, Grow, IsThere
<1>2. local \in Seq(Links!Link) /\ \A m \in DOMAIN local : LinkOK(local[m])
  BY DEF LinksInv, Types, TabOK
<1>3. /\ local' \in Seq(Links!Link)
      /\ \A x \in DOMAIN local' : \E m \in DOMAIN local : local'[x] = local[m]
      /\ \A m \in DOMAIN local : m # k => \E x \in DOMAIN local' : local'[x] = local[m]
  BY <1>2, Removed
<1>4. TabOK'
  <2>1. \A x \in DOMAIN local' : LinkOK(local[x])'
    BY <1>1, <1>2, <1>3, LinkStays
  <2> QED
    BY <1>1, <1>3, <2>1, LinkStays DEF LinksInv, Types, TabOK
<1>5. NetOK' /\ FormsOK'
  BY <1>1, NetSame, FormsSame DEF LinksInv, Types, Links!net
<1>6. Pages'
  BY PagesSame DEF LinksInv, Pages, Links!db
<1>8. DialogsWait'
  BY SameCalls, DialogsWaitStep DEF LinksInv, Links!forms
<1>10. Wishes'
  <2> SUFFICES ASSUME ~crossed'
               PROVE  OneChange' /\ (\A w \in wished' : Promise(w)' /\ Along(w)') /\ \A to \in unwant' : Dropped(to)'
    BY DEF Wishes
  <2>1. OneChange /\ (\A w \in wished : Promise(w) /\ Along(w)) /\ \A to \in unwant : Dropped(to)
    BY DEF LinksInv, Wishes
  <2>2. OneChange' /\ \A to \in unwant' : Dropped(to)'
    BY <2>1, SameCalls, ChangesStep, DroppedStep DEF OneChange, Links!db
  <2>3. \A w : Along(w)'
    <3>1. startup' = None /\ \A i \in Links!Slots : ~Is(i, {"create"})'
      BY NotReplacing DEF Is, Chain, Links!db
    <3> QED
      BY <3>1, AlongNow
  <2>4. ASSUME NEW w \in wished'
        PROVE  Promise(w)'
    <3>1. Promise(w)
      BY <2>1, <2>4
    <3>2. Described(w) => Described(w)'
      BY SameCalls, DescribedStep DEF Links!forms
    <3>3. InBody(local, w) => InBody(local, w)'
      <4> SUFFICES ASSUME NEW m \in DOMAIN local, Says(local[m], w)
                   PROVE  InBody(local, w)'
        BY DEF InBody
      <4>1. \E x \in DOMAIN local' : local'[x] = local[m]
        <5>1. CASE m # k
          BY <1>3, <5>1
        <5>2. CASE m = k
          BY <2>4, <5>2 DEF Says, Links!Range
        <5> QED
          BY <5>1, <5>2
      <4>2. \A y : LinkOK(y) /\ Says(y, w) => Says(y, w)'
        BY <1>1, SaysStays
      <4> QED
        BY <1>2, <4>1, <4>2 DEF InBody
    <3> QED
      BY <1>1, <3>1, <3>2, <3>3, SameCalls, PromiseStays DEF LinksInv, Links!db
  <2> QED
    BY <2>2, <2>3, <2>4
<1> QED
  BY <1>1, <1>4, <1>5, <1>6, <1>8, <1>10 DEF LinksInv, Types

LEMMA RemoveLinkStep ==
  ASSUME LinksInv, Links!RemoveLink
  PROVE  LinksInv'
<1>1. CASE saved
  <2>1. PICK l \in listed :
          /\ records[l.to].name # Round
          /\ Links!Send([Links!Call("unlink") EXCEPT !.link = l])
          /\ wished' = wished \ {Links!Wish(Links!NameOf(l.to), l.with)}
          /\ unwant' = unwant \cup {l.to}
          /\ crossed' = (crossed \/ Links!Replacing \/ Links!Crossed(l.to))
    BY <1>1 DEF Links!RemoveLink
  <2> QED
    BY <1>1, <2>1, UnlinkStep DEF Links!RemoveLink
<1>2. CASE ~saved
  <2>1. PICK k \in DOMAIN local :
          /\ local' = Links!RemoveAt(local, k)
          /\ wished' = IF local[k] \in Links!Range(Links!RemoveAt(local, k)) THEN wished
                       ELSE wished \ {Links!Wish(Links!NameOf(local[k].to), local[k].with)}
          /\ unwant' = unwant
          /\ crossed' = (crossed \/ Links!Replacing)
    BY <1>2 DEF Links!RemoveLink
  <2> QED
    BY <1>2, <2>1, TakeOutStep DEF Links!RemoveLink
<1> QED
  BY <1>1, <1>2

-----------------------------------------------------------------------------
(* The round dialog. *)

LEMMA Orphans ==
  ASSUME NetOK
  PROVE  /\ Links!Orphaned \in [Links!Slots -> Links!Calls \cup {None}]
         /\ \A k \in Links!Slots :
              /\ Links!Orphaned[k] = None <=> sent[k] = None
              /\ sent[k] # None => CallOK(Links!Orphaned[k])
              /\ sent[k] # None /\ sent[k].kind # "draft" => Links!Orphaned[k] = sent[k]
              /\ sent[k] # None =>
                   /\ Links!Orphaned[k].kind = sent[k].kind /\ Links!Orphaned[k].name = sent[k].name
                   /\ Links!Orphaned[k].page = sent[k].page /\ Links!Orphaned[k].state = sent[k].state
                   /\ Links!Orphaned[k].place # "participant"
                   /\ \/ Links!Orphaned[k].place = sent[k].place
                      \/ sent[k].place = "participant" /\ Links!Orphaned[k].place = "orphan"
<1>1. ASSUME NEW k \in Links!Slots, sent[k] # None, sent[k].place = "participant"
      PROVE  LET c == Links!Orphaned[k]
             IN  /\ c \in Links!Calls /\ c # None /\ CallOK(c) /\ sent[k].kind = "draft"
                 /\ c.kind = sent[k].kind /\ c.name = sent[k].name /\ c.page = sent[k].page
                 /\ c.state = sent[k].state /\ c.place = "orphan"
  <2> DEFINE c == [sent[k] EXCEPT !.place = "orphan"]
  <2>1. Links!Orphaned[k] = c
    BY <1>1 DEF Links!Orphaned
  <2>2. CallOK(sent[k]) /\ sent[k] \in Links!Calls
    BY <1>1 DEF NetOK, CallOK
  <2>3. sent[k].kind = "draft"
    BY <1>1, <2>2, Distinct DEF CallOK, Links!Place
  <2>4. /\ c \in Links!Calls /\ c.kind = sent[k].kind /\ c.name = sent[k].name /\ c.page = sent[k].page
        /\ c.state = sent[k].state /\ c.place = "orphan" /\ c.link = sent[k].link /\ c.read = sent[k].read
    BY <2>2 DEF Links!Calls
  <2> HIDE DEF c
  <2>5. CallOK(c)
    BY <2>2, <2>3, <2>4 DEF CallOK
  <2> QED
    BY <2>1, <2>3, <2>4, <2>5, Distinct
<1>2. \A k \in Links!Slots : sent[k] = None \/ sent[k].place # "participant" => Links!Orphaned[k] = sent[k]
  BY DEF Links!Orphaned
<1>3. \A k \in Links!Slots : sent[k] # None => CallOK(sent[k]) /\ sent[k] \in Links!Calls
  BY DEF NetOK, CallOK
<1>4. \A k \in Links!Slots : Links!Orphaned[k] \in Links!Calls \cup {None}
  BY <1>1, <1>2, <1>3
<1>5. Links!Orphaned \in [Links!Slots -> Links!Calls \cup {None}]
  <2>1. Links!Orphaned = [k \in Links!Slots |-> Links!Orphaned[k]]
    BY DEF Links!Orphaned
  <2> QED
    BY <1>4, <2>1
<1> QED
  BY <1>1, <1>2, <1>3, <1>5

LEMMA OrphansStay ==
  ASSUME NetOK, Grow, sent' = Links!Orphaned
  PROVE  /\ DraftsStay /\ Same({"link", "unlink", "round"}) /\ Same(Chain)
         /\ \A i \in Links!Slots : Is(i, {"draft"}) => sent'[i].place # "participant"
         /\ \A i \in Links!Slots : Is(i, {"create"})' => Is(i, {"create"}) /\ sent'[i].body = sent[i].body
         /\ \A i \in Links!Slots : sent'[i] # None => sent[i] # None /\ sent'[i].page = sent[i].page
         /\ leaving' \in BOOLEAN /\ refresh' \in BOOLEAN => NetOK'
<1>1. sent' \in [Links!Slots -> Links!Calls \cup {None}]
  BY Orphans
<1>2. \A k \in Links!Slots : (sent[k] # None => CallOK(sent[k]))'
  BY CallStays, Orphans
<1>3. DraftsStay
  BY Orphans DEF DraftsStay, Is
<1>4. Same({"link", "unlink", "round"}) /\ Same(Chain)
  BY Orphans DEF Same, Is, Chain
<1>5. \A i \in Links!Slots : Is(i, {"create"})' => Is(i, {"create"}) /\ sent'[i].body = sent[i].body
  BY Orphans DEF Is
<1> QED
  BY <1>1, <1>2, <1>3, <1>4, <1>5, Orphans DEF NetOK, Is

LEMMA ClosedForms ==
  ASSUME FormsOK, Grow, NEW still \in BOOLEAN, Links!closed(still), UNCHANGED stint
  PROVE  /\ FormsOK'
         /\ \A q \in Links!Place : /\ box'[q] = IF q = "participant" THEN Links!Empty ELSE box[q]
                                   /\ dialog'[q] = IF q = "participant" THEN None ELSE dialog[q]
<1>1. \A i : IsThere(i) => IsThere(i)'
  BY DEF Grow, IsThere
<1>2. "participant" \in Links!Place
  BY DEF Links!Place
<1>3. /\ \A q \in Links!Place : box'[q] = IF q = "participant" THEN Links!Empty ELSE box[q]
      /\ box' \in [Links!Place -> Boxes] /\ \A q \in Links!Place : BoxOK(box[q])'
  BY <1>2, EmptyBox, OneBox DEF Links!closed
<1>4. /\ dialog' \in [Links!Place -> Name \cup {None}]
      /\ \A q \in Links!Place : dialog'[q] = IF q = "participant" THEN None ELSE dialog[q]
      /\ dialog'["founder"] = None
  BY <1>2, Distinct DEF Links!closed, Links!Place, FormsOK
<1>5. round' \in [open : BOOLEAN, with : SUBSET RecordIds, busy : BOOLEAN] /\ round'.with = {}
  BY DEF Links!closed
<1>6. stint' # None => IsThere(stint)'
  BY <1>1 DEF FormsOK
<1> QED
  BY <1>3, <1>4, <1>5, <1>6, FormsStep

LEMMA CloseRoundStep ==
  ASSUME LinksInv, Links!CloseRound
  PROVE  LinksInv'
<1> USE DEF Links!CloseRound
<1>1. Grow /\ RecordsOK' /\ TabOK'
  BY RecordsSame, TabSame DEF LinksInv, Types
<1>2. round.busy \in BOOLEAN
  BY DEF LinksInv, Types, FormsOK
<1>3. /\ DraftsStay /\ Same({"link", "unlink", "round"}) /\ Same(Chain)
      /\ \A i \in Links!Slots : Is(i, {"draft"}) => sent'[i].place # "participant"
      /\ \A i \in Links!Slots : Is(i, {"create"})' => Is(i, {"create"}) /\ sent'[i].body = sent[i].body
      /\ \A i \in Links!Slots : sent'[i] # None => sent[i] # None /\ sent'[i].page = sent[i].page
      /\ leaving' \in BOOLEAN /\ refresh' \in BOOLEAN => NetOK'
  BY <1>1, OrphansStay DEF LinksInv, Types
<1>4. NetOK'
  BY <1>3 DEF LinksInv, Types, NetOK
<1>5. /\ FormsOK'
      /\ \A q \in Links!Place : dialog'[q] = IF q = "participant" THEN None ELSE dialog[q]
  BY <1>1, <1>2, ClosedForms DEF LinksInv, Types
<1>6. Pages'
  BY <1>3, PagesStep DEF LinksInv, Pages, Links!db, Links!tab
<1>7. DialogsWait'
  BY <1>3, DialogsWaitStep DEF LinksInv, Links!tab
<1>8. Wishes'
  <2>1. wished' \subseteq wished
    OBVIOUS
  <2>2. ASSUME NEW w, Described(w)
        PROVE  Described(w)'
    BY <1>3, <1>5, <2>2, DescribedStep DEF Links!tab, Links!Place, Awaited
  <2> QED
    BY <1>1, <1>3, <2>1, <2>2, SameChanges, WishesStep DEF LinksInv, Links!db, Links!tab
<1> QED
  BY <1>1, <1>4, <1>5, <1>6, <1>7, <1>8 DEF LinksInv, Types

LEMMA SubmitStep ==
  ASSUME LinksInv, Links!submit
  PROVE  LinksInv'
<1> DEFINE entry == [to |-> Round, with |-> round.with]
           W0 == Links!Wish(Round, round.with)
<1>1. /\ round.open /\ dialog["participant"] = None /\ Links!Wanted(W0, None)
      /\ UNCHANGED <<Links!db, saved, listed, stint, leaving, refresh>>
      /\ IF saved
         THEN /\ Links!Send([Links!Call("round") EXCEPT !.link = entry])
              /\ round' = [round EXCEPT !.busy = TRUE] /\ waiting' = TRUE
              /\ UNCHANGED <<local, box, dialog>>
         ELSE /\ local' = Append(local, entry)
              /\ Links!closed(round.busy)
              /\ sent' = Links!Orphaned /\ UNCHANGED waiting
  BY DEF Links!submit
<1>2. Grow /\ RecordsOK' /\ (\A i : IsThere(i) => IsThere(i)')
  BY <1>1, RecordsSame DEF LinksInv, Types, Grow, IsThere
<1>3. /\ round \in [open : BOOLEAN, with : SUBSET RecordIds, busy : BOOLEAN]
      /\ \A i \in round.with : IsThere(i)
  BY DEF LinksInv, Types, FormsOK
<1>4. /\ unwant' = unwant /\ crossed' \in BOOLEAN /\ (crossed => crossed') /\ (~crossed' => ~crossed /\ ~Links!Replacing)
      /\ wished' = wished \cup {W0}
  BY <1>1, Distinct DEF Links!Wanted, LinksInv, Types, TabOK
<1>5. entry \in Links!Link /\ entry.to = Round /\ entry.with = round.with
  BY <1>3 DEF Links!Link
<1>6. LinkOK(entry)
  BY <1>3, <1>5 DEF LinkOK
<1>7. Says(entry, W0) /\ W0 = [name |-> Round, with |-> {Links!NameOf(i) : i \in round.with}]
  BY <1>5 DEF Says, Links!NameOf, Links!Wish
<1>8. (Says(entry, W0) => \A x : x = entry => \A w : w = W0 => Says(x, w)')
  <2>1. \A x, w : LinkOK(x) /\ Says(x, w) => Says(x, w)'
    BY <1>2, SaysStays
  <2> QED
    BY <1>6, <2>1
<1> HIDE DEF entry, W0
<1>9. \A x, w : x = entry /\ w = W0 => Says(x, w)'
  BY <1>7, <1>8
<1>10. ASSUME ~crossed'
       PROVE  OneChange /\ (\A w \in wished : Promise(w) /\ Along(w)) /\ \A to \in unwant : Dropped(to)
  BY <1>4, <1>10 DEF LinksInv, Wishes
<1>11. ~crossed' /\ ~saved => startup = None /\ \A i \in Links!Slots : ~Is(i, Chain)
  BY <1>4, NotReplacing
<1>12. CASE saved
  <2> DEFINE c == [Links!Call("round") EXCEPT !.link = entry]
  <2>1. CallOK(c) /\ c.kind = "round" /\ c.link = entry /\ c.state = "sent" /\ c.page = "saved"
    BY <1>5, <1>6, <1>12, RoundCall, Zenon
  <2>2. Links!Send(c) /\ round' = [round EXCEPT !.busy = TRUE] /\ waiting' = TRUE
        /\ UNCHANGED <<local, box, dialog>>
    BY <1>1, <1>12
  <2> HIDE DEF c
  <2>3. PICK j \in Links!Slots : /\ sent[j] = None /\ sent' = [sent EXCEPT ![j] = c]
                                 /\ \A k \in Links!Slots : sent'[k] = IF k = j THEN c ELSE sent[k]
    BY <2>2, Sending DEF LinksInv, Types
  <2>4. NetOK'
    BY <1>1, <1>2, <2>1, <2>3, CallStays, NetSet DEF LinksInv, Types, NetOK
  <2>5. TabOK'
    BY <1>1, <1>2, <1>4, <2>2, LinkStays DEF LinksInv, Types, TabOK
  <2>6. FormsOK'
    <3>1. round' \in [open : BOOLEAN, with : SUBSET RecordIds, busy : BOOLEAN] /\ round'.with = round.with
      BY <1>3, <2>2
    <3> QED
      BY <1>1, <1>2, <1>3, <2>2, <3>1, SameBoxes, FormsStep DEF LinksInv, Types, FormsOK
  <2>7. Same(Chain) /\ Same({"draft"})
    BY <2>1, <2>3, Fresh DEF Chain
  <2>8. Pages'
    BY <1>1, <1>12, <2>7, PagesStep DEF LinksInv, Pages, Links!db
  <2>10. DraftsStay /\ \A i \in Links!Slots : Is(i, {"draft"}) => sent'[i].place = sent[i].place
    BY <2>7, SameDrafts
  <2>11. DialogsWait'
    BY <1>1, <1>4, <2>10, DialogsWaitStep DEF LinksInv
  <2>13. Wishes'
    <3> SUFFICES ASSUME ~crossed'
                 PROVE  OneChange' /\ (\A w \in wished' : Promise(w)' /\ Along(w)') /\ \A to \in unwant' : Dropped(to)'
      BY DEF Wishes
    <3>1. OneChange /\ (\A w \in wished : Promise(w) /\ Along(w)) /\ \A to \in unwant : Dropped(to)
      BY <1>10
    <3>2. \A k \in Links!Slots : k # j => sent'[k] = sent[k]
      BY <2>3
    <3>3. Is(j, {"round"})' /\ sent'[j].link = entry /\ sent'[j].state = "sent"
          /\ ~Is(j, {"link"})' /\ ~Is(j, {"unlink"})' /\ ~Is(j, {"link", "unlink"})' /\ Is(j, {"link", "round"})'
      BY <2>1, <2>3, Distinct DEF Is, CallOK
    <3>4. ~Is(j, {"link"}) /\ ~Is(j, {"unlink"}) /\ ~Is(j, {"link", "unlink"}) /\ ~Is(j, {"link", "round"})
      BY <2>3 DEF Is
    <3>5. OneChange'
      <4>1. \A k \in Links!Slots : \A to : Changes(k, to)' => Changes(k, to)
        BY <3>2, <3>3 DEF Changes, Is
      <4> QED
        BY <3>1, <4>1 DEF OneChange
    <3>6. \A i \in Links!Slots : Is(i, {"unlink"})' = Is(i, {"unlink"}) /\ (Is(i, {"unlink"}) => sent'[i] = sent[i])
      BY <3>2, <3>3, <3>4 DEF Is
    <3>7. \A to \in unwant' : Dropped(to)'
      <4>1. \A i \in Links!Slots : Is(i, {"link"})' => Is(i, {"link"}) /\ sent'[i] = sent[i]
        BY <3>2, <3>3 DEF Is
      <4> QED
        BY <1>1, <1>4, <3>1, <3>6, <4>1 DEF Dropped, Links!db
    <3>8. ASSUME NEW w, InLinks(w)
          PROVE  InLinks(w)'
      <4>1. \A to : Removing(to)' => Removing(to)
        BY <3>6 DEF Removing
      <4> QED
        BY <1>1, <1>2, <3>8, <4>1, InLinksStep DEF LinksInv, Types, Links!db
    <3>9. ASSUME NEW w, OnItsWay(w)
          PROVE  OnItsWay(w)'
      <4>1. PICK i \in Links!Slots : Is(i, {"link", "round"}) /\ Says(sent[i].link, w) /\ sent[i].state # "done"
        BY <3>9 DEF OnItsWay
      <4>2. sent'[i] = sent[i] /\ Is(i, {"link", "round"})'
        BY <3>2, <3>4, <4>1 DEF Is
      <4> QED
        BY <1>2, <4>1, <4>2, SentStep DEF LinksInv, Types
    <3>10. ASSUME NEW w, Described(w)
           PROVE  Described(w)'
      BY <1>1, <2>2, <2>10, <3>10, DescribedStep
    <3>11. \A w : w = W0 => OnItsWay(w)'
      BY <1>9, <3>3 DEF OnItsWay
    <3> QED
      BY <1>1, <1>4, <1>12, <3>1, <3>5, <3>7, <3>8, <3>9, <3>10, <3>11 DEF Promise, Along
  <2> QED
    BY <1>2, <2>4, <2>5, <2>6, <2>8, <2>11, <2>13 DEF LinksInv, Types
<1>13. CASE ~saved
  <2>1. local' = Append(local, entry) /\ Links!closed(round.busy) /\ sent' = Links!Orphaned /\ UNCHANGED waiting
    BY <1>1, <1>13
  <2>2. round.busy \in BOOLEAN
    BY <1>3
  <2>3. /\ DraftsStay /\ Same({"link", "unlink", "round"}) /\ Same(Chain)
        /\ \A i \in Links!Slots : Is(i, {"draft"}) => sent'[i].place # "participant"
        /\ \A i \in Links!Slots : Is(i, {"create"})' => Is(i, {"create"}) /\ sent'[i].body = sent[i].body
        /\ \A i \in Links!Slots : sent'[i] # None => sent[i] # None /\ sent'[i].page = sent[i].page
        /\ leaving' \in BOOLEAN /\ refresh' \in BOOLEAN => NetOK'
    BY <1>2, <2>1, OrphansStay DEF LinksInv, Types
  <2>4. NetOK'
    BY <1>1, <2>3 DEF LinksInv, Types, NetOK
  <2>5. /\ FormsOK'
        /\ \A q \in Links!Place : dialog'[q] = IF q = "participant" THEN None ELSE dialog[q]
    BY <1>1, <1>2, <2>1, <2>2, ClosedForms DEF LinksInv, Types
  <2>6. Pages'
    BY <1>1, <1>4, <2>3, PagesStep DEF LinksInv, Pages, Links!db
  <2>7. DialogsWait'
    BY <1>1, <1>4, <2>3, DialogsWaitStep DEF LinksInv
  <2>8. local \in Seq(Links!Link) /\ \A k \in DOMAIN local : LinkOK(local[k])
    BY DEF LinksInv, Types, TabOK
  <2>9. /\ local' \in Seq(Links!Link) /\ DOMAIN local' = 1 .. (Len(local) + 1) /\ DOMAIN local = 1 .. Len(local)
        /\ Len(local) \in Nat
        /\ \A k \in 1 .. (Len(local) + 1) : local'[k] = IF k <= Len(local) THEN local[k] ELSE entry
    BY <1>5, <2>1, <2>8
  <2>10. local'[Len(local) + 1] = entry /\ Len(local) + 1 \in DOMAIN local'
         /\ \A k \in DOMAIN local : k \in DOMAIN local' /\ local'[k] = local[k]
    BY <2>9
  <2>11. TabOK'
    <3>1. \A x : LinkOK(x) => LinkOK(x)'
      BY <1>2, LinkStays
    <3>2. \A k \in DOMAIN local' : LinkOK(local'[k])
      BY <1>6, <2>8, <2>9
    <3>3. \A k \in DOMAIN local' : LinkOK(local[k])'
      BY <3>1, <3>2
    <3> QED
      BY <1>1, <1>2, <1>4, <2>1, <2>9, <3>3, LinkStays DEF LinksInv, Types, TabOK
  <2>12. Wishes'
    <3> SUFFICES ASSUME ~crossed'
                 PROVE  OneChange' /\ (\A w \in wished' : Promise(w)' /\ Along(w)') /\ \A to \in unwant' : Dropped(to)'
      BY DEF Wishes
    <3>1. OneChange /\ (\A w \in wished : Promise(w) /\ Along(w)) /\ \A to \in unwant : Dropped(to)
      BY <1>10
    <3>2. ChangesStay
      BY <2>3, SameChanges
    <3>3. OneChange' /\ \A to \in unwant' : Dropped(to)'
      BY <1>1, <1>4, <3>1, <3>2, ChangesStep, DroppedStep DEF OneChange, Links!db
    <3>4. \A w : Along(w)'
      <4>1. startup' = None /\ \A i \in Links!Slots : ~Is(i, {"create"})'
        BY <1>1, <1>11, <1>13, <2>3 DEF Is, Chain, Links!db
      <4> QED
        BY <1>1, <4>1, AlongNow
    <3>5. ASSUME NEW w \in wished
          PROVE  Promise(w)'
      <4>1. Promise(w)
        BY <3>1
      <4>2. Described(w) => Described(w)'
        BY <1>1, <2>3, <2>5, DescribedStep DEF Links!Place, Awaited
      <4>3. InBody(local, w) => InBody(local, w)'
        <5>1. \A y : LinkOK(y) /\ Says(y, w) => Says(y, w)'
          BY <1>2, SaysStays
        <5> QED
          BY <2>8, <2>10, <5>1 DEF InBody
      <4> QED
        BY <1>1, <1>2, <3>2, <4>1, <4>2, <4>3, PromiseStays DEF LinksInv, Links!db
    <3>6. \A w : w = W0 => Promise(w)'
      BY <1>1, <1>9, <1>13, <2>10 DEF Promise, InBody
    <3> QED
      BY <1>4, <3>3, <3>4, <3>5, <3>6
  <2> QED
    BY <1>2, <2>4, <2>5, <2>6, <2>7, <2>11, <2>12 DEF LinksInv, Types
<1> QED
  BY <1>12, <1>13

-----------------------------------------------------------------------------
(* Saving and publishing. *)

\* A call of the chain is sent or goes on; drafts, links and wishes stay.
LEMMA ChainKeeps ==
  ASSUME LinksInv, Grow, RecordsOK', NetOK', Pages', Same({"draft"}),
         Same({"link", "unlink", "round"}),
         UNCHANGED <<links, saved, local, Links!forms, Links!history>>, TabOK',
         ~saved /\ startup' # None => startup # None,
         ~crossed => \A i \in Links!Slots : Is(i, {"create"})' =>
           \/ Is(i, {"create"}) /\ sent'[i].body = sent[i].body
           \/ sent'[i].body = local /\ \A w \in wished : InBody(local, w)
  PROVE  LinksInv'
<1>1. FormsOK'
  BY FormsSame DEF LinksInv, Types, Links!history
<1>3. DraftsStay /\ \A i \in Links!Slots : Is(i, {"draft"}) => sent'[i].place = sent[i].place
  BY SameDrafts
<1>4. ChangesStay
  BY SameChanges
<1>5. DialogsWait'
  BY <1>3, DialogsWaitStep DEF LinksInv, Links!history
<1>7. Wishes'
  <2> SUFFICES ASSUME ~crossed'
               PROVE  OneChange' /\ (\A w \in wished' : Promise(w)' /\ Along(w)') /\ \A to \in unwant' : Dropped(to)'
    BY DEF Wishes
  <2>1. /\ OneChange /\ (\A w \in wished : Promise(w) /\ Along(w)) /\ (\A to \in unwant : Dropped(to))
        /\ UNCHANGED <<saved, local, wished, unwant, dialog>>
    BY DEF LinksInv, Wishes, Links!history, Links!forms
  <2>2. OneChange' /\ \A to \in unwant' : Dropped(to)'
    BY <1>4, <2>1, ChangesStep, DroppedStep DEF OneChange
  <2>3. ASSUME NEW w \in wished
        PROVE  Promise(w)'
    <3>1. Described(w) => Described(w)'
      BY <1>3, <2>1, DescribedStep
    <3> QED
      BY <1>4, <2>1, <3>1, SameLocal, PromiseStays DEF LinksInv, Types
  <2>4. ASSUME NEW w \in wished
        PROVE  Along(w)'
    <3>1. Along(w)
      BY <2>1
    <3>2. InLinks(w) => InLinks(w)'
      BY <1>4, RemovingStep, InLinksStep DEF LinksInv, Types
    <3>3. ASSUME NEW i \in Links!Slots, ~saved, Is(i, {"create"})'
          PROVE  InBody(sent[i].body, w)'
      <4>1. \A b : (\A k \in DOMAIN b : LinkOK(b[k])) /\ InBody(b, w) => InBody(b, w)'
        BY InBodyStep
      <4>2. CASE Is(i, {"create"}) /\ sent'[i].body = sent[i].body
        <5>1. \A k \in DOMAIN sent[i].body : LinkOK(sent[i].body[k])
          BY <4>2 DEF Is, LinksInv, Types, NetOK, CallOK
        <5>2. InBody(sent[i].body, w)
          BY <3>1, <3>3, <4>2 DEF Along
        <5> QED
          BY <4>1, <4>2, <5>1, <5>2 DEF InBody
      <4>3. CASE sent'[i].body = local /\ InBody(local, w)
        <5>1. \A k \in DOMAIN local : LinkOK(local[k])
          BY DEF LinksInv, Types, TabOK
        <5> QED
          BY <4>1, <4>3, <5>1 DEF InBody
      <4> QED
        BY <2>1, <2>4, <3>3, <4>2, <4>3 DEF Links!history
    <3> QED
      BY <2>1, <3>1, <3>2, <3>3 DEF Along
  <2> QED
    BY <2>1, <2>2, <2>3, <2>4
<1> QED
  BY <1>1, <1>5, <1>7 DEF LinksInv, Types

LEMMA ChainStep ==
  ASSUME LinksInv, Grow, RecordsOK', NetOK', Pages', Same({"draft"}),
         Same({"link", "unlink", "round"}),
         UNCHANGED <<links, Links!tab, Links!forms, Links!history>>,
         ~saved /\ startup' # None => startup # None,
         ~crossed => \A i \in Links!Slots : Is(i, {"create"})' =>
           \/ Is(i, {"create"}) /\ sent'[i].body = sent[i].body
           \/ sent'[i].body = local /\ \A w \in wished : InBody(local, w)
  PROVE  LinksInv'
<1>1. TabOK' /\ UNCHANGED <<saved, local>>
  BY TabSame DEF LinksInv, Types, Links!history, Links!tab
<1> QED
  BY <1>1, ChainKeeps

LEMMA SaveStep ==
  ASSUME LinksInv, NEW stay \in BOOLEAN, Links!Save(stay)
  PROVE  LinksInv'
<1> DEFINE c == [Links!Call("create") EXCEPT !.body = local, !.stay = stay]
<1>1. /\ ~Links!Modal /\ ~Links!saving /\ ~Links!busy /\ ~saved /\ ~leaving /\ Links!Send(c)
      /\ UNCHANGED <<Links!db, Links!tab, Links!forms, leaving, refresh, Links!history>>
  BY DEF Links!Save
<1>2. local \in Seq(Links!Link) /\ \A k \in DOMAIN local : LinkOK(local[k])
  BY DEF LinksInv, Types, TabOK
<1>3. CallOK(c) /\ c.kind = "create" /\ c.body = local /\ c.state = "sent"
  BY <1>1, <1>2, CreateCall, ZenonT(60)
<1> HIDE DEF c
<1>4. PICK j \in Links!Slots : /\ sent[j] = None /\ sent' = [sent EXCEPT ![j] = c]
                               /\ \A k \in Links!Slots : sent'[k] = IF k = j THEN c ELSE sent[k]
  BY <1>1, Sending DEF LinksInv, Types
<1>5. Grow /\ RecordsOK'
  BY <1>1, RecordsSame DEF LinksInv, Types
<1>6. NetOK'
  BY <1>1, <1>3, <1>4, <1>5, CallStays, NetSet DEF LinksInv, Types, NetOK
<1>7. \A i \in Links!Slots : ~Is(i, Chain)
  BY <1>1 DEF Links!saving, Links!busy, Links!UnderWay, Links!Free, Is, Chain, LinksInv, Pages,
     Links!Page
<1>8. startup = None
  BY <1>1, <1>7 DEF LinksInv, Pages, Created
<1>9. Pages'
  <2>1. \A i \in Links!Slots : Is(i, Chain)' <=> i = j
    BY <1>3, <1>4, <1>7, Distinct DEF Is, Chain, CallOK
  <2>2. \A i \in Links!Slots : ~Created(i)'
    BY <1>3, <1>4, <2>1 DEF Created
  <2>3. c.page = "new"
    BY <1>3 DEF CallOK
  <2> QED
    BY <1>1, <1>4, <1>8, <2>1, <2>2, <2>3 DEF LinksInv, Pages, Links!db, Links!tab, Links!history
<1>10. Same({"draft"}) /\ Same({"link", "unlink", "round"})
  BY <1>3, <1>4, Fresh
<1>11. ~crossed => \A w \in wished : InBody(local, w)
  <2>1. \A w : ~Described(w)
    BY <1>1 DEF Described, Awaited, Links!Modal, Links!Place
  <2> QED
    BY <1>1, <2>1 DEF LinksInv, Wishes, Promise
<1>12. \A i \in Links!Slots : Is(i, {"create"})' => sent'[i].body = local
  BY <1>3, <1>4, <1>7 DEF Is, Chain
<1> QED
  BY <1>1, <1>5, <1>6, <1>9, <1>10, <1>11, <1>12, ChainStep DEF Links!db

LEMMA PublishStep ==
  ASSUME LinksInv, Links!Publish
  PROVE  LinksInv'
<1> DEFINE c == Links!Call("publish")
<1>1. saved /\ Links!Send(c) /\ UNCHANGED <<Links!db, Links!tab, Links!forms, leaving, refresh, Links!history>>
  BY DEF Links!Publish
<1>3. CallOK(c) /\ c.kind = "publish" /\ c.page = "saved" /\ c.state = "sent"
  BY <1>1, PublishCall DEF Links!Page
<1> HIDE DEF c
<1>4. PICK j \in Links!Slots : /\ sent[j] = None /\ sent' = [sent EXCEPT ![j] = c]
                               /\ \A k \in Links!Slots : sent'[k] = IF k = j THEN c ELSE sent[k]
  BY <1>1, Sending DEF LinksInv, Types
<1>5. Grow /\ RecordsOK'
  BY <1>1, RecordsSame DEF LinksInv, Types
<1>6. NetOK'
  BY <1>1, <1>3, <1>4, <1>5, CallStays, NetSet DEF LinksInv, Types, NetOK
<1>9. Pages'
  BY <1>1, <1>3, <1>4 DEF LinksInv, Pages, Is, Links!tab
<1>10. Same({"draft"}) /\ Same({"link", "unlink", "round"}) /\ Same({"create"})
  BY <1>3, <1>4, Fresh
<1>12. \A i \in Links!Slots : Is(i, {"create"})' => Is(i, {"create"}) /\ sent'[i].body = sent[i].body
  BY <1>10, SameIs
<1> QED
  BY <1>1, <1>5, <1>6, <1>9, <1>10, <1>12, ChainStep DEF Links!db

LEMMA PutIndustriesStep ==
  ASSUME LinksInv, Links!PutIndustries
  PROVE  LinksInv'
<1> DEFINE c == Links!Call("put")
<1>1. saved /\ Links!Send(c) /\ waiting' = TRUE
      /\ UNCHANGED <<Links!db, saved, local, listed, Links!forms, leaving, refresh, Links!history>>
  BY DEF Links!PutIndustries
<1>3. CallOK(c) /\ c.kind = "put" /\ c.page = "saved" /\ c.state = "sent"
  BY <1>1, PutCall DEF Links!Page
<1> HIDE DEF c
<1>4. PICK j \in Links!Slots : /\ sent[j] = None /\ sent' = [sent EXCEPT ![j] = c]
                               /\ \A k \in Links!Slots : sent'[k] = IF k = j THEN c ELSE sent[k]
  BY <1>1, Sending DEF LinksInv, Types
<1>5. Grow /\ RecordsOK'
  BY <1>1, RecordsSame DEF LinksInv, Types
<1>7. TabOK'
  BY <1>1, <1>5, LinkStays DEF LinksInv, Types, TabOK, Grow, IsThere, Links!history
<1>6. NetOK'
  BY <1>1, <1>3, <1>4, <1>5, CallStays, NetSet DEF LinksInv, Types, NetOK
<1>9. Pages'
  BY <1>1, <1>3, <1>4 DEF LinksInv, Pages, Is, Links!history
<1>10. Same({"draft"}) /\ Same({"link", "unlink", "round"}) /\ Same({"create"})
  BY <1>3, <1>4, Fresh
<1>12. \A i \in Links!Slots : Is(i, {"create"})' => Is(i, {"create"}) /\ sent'[i].body = sent[i].body
  BY <1>10, SameIs
<1> QED
  BY <1>1, <1>5, <1>6, <1>7, <1>9, <1>10, <1>12, ChainKeeps DEF Links!db

-----------------------------------------------------------------------------
(* The server. *)

LEMMA NewIdIs ==
  ASSUME NEW rows, Links!Room(rows)
  PROVE  /\ Links!NewId(rows) \in [rows -> {k \in RecordIds : records[k] = None}]
         /\ Links!IsInjective(Links!NewId(rows))
<1> DEFINE f == Links!NewId(rows)
<1>1. f \in Links!NewIds(rows)
  BY DEF Links!Room, Links!NewId
<1> HIDE DEF f
<1>2. f \in [rows -> {k \in RecordIds : records[k] = None}] /\ Links!IsInjective(f)
  BY <1>1 DEF Links!NewIds
<1> QED
  BY <1>2 DEF f

LEMMA NextIdIs ==
  ASSUME Links!Room(Links!One)
  PROVE  Links!NextId \in RecordIds /\ records[Links!NextId] = None
  BY NewIdIs DEF Links!NextId, Links!One

LEMMA ServeFacts ==
  ASSUME LinksInv, NEW i \in Links!Slots, Links!Serve(i)
  PROVE  /\ sent[i] # None /\ sent[i].state = "sent" /\ Links!Apply(sent[i])
         /\ CallOK(sent[i]) /\ sent[i] \in Links!Calls
         /\ UNCHANGED <<Links!tab, Links!forms, leaving, refresh, steps, wished, unwant, crossed>>
         /\ \E d \in Links!Calls :
              /\ sent' = [sent EXCEPT ![i] = d]
              /\ \A k \in Links!Slots : sent'[k] = IF k = i THEN d ELSE sent[k]
              /\ d.kind = sent[i].kind /\ d.page = sent[i].page /\ d.name = sent[i].name
              /\ d.place = sent[i].place /\ d.body = sent[i].body /\ d.todo = sent[i].todo
              /\ d.failed = sent[i].failed
              /\ d.state \in {"done", "failed"} /\ (d.kind = "create" => d.state = "done")
              /\ d.link = IF d.kind = "draft" THEN Links!LinkTo(Links!NextId) ELSE sent[i].link
              /\ d.read = IF d.kind = "read" /\ d.state = "done" THEN links ELSE sent[i].read
<1> DEFINE c == sent[i]
<1>1. /\ c # None /\ c.state = "sent" /\ Links!Apply(c)
      /\ UNCHANGED <<Links!tab, Links!forms, leaving, refresh, steps, wished, unwant, crossed>>
  BY DEF Links!Serve, Links!history
<1>2. CallOK(c) /\ c \in Links!Calls /\ sent \in [Links!Slots -> Links!Calls \cup {None}]
  BY <1>1 DEF LinksInv, Types, NetOK, CallOK
<1>3. PICK arrives \in {TRUE, c.kind = "create"} :
       /\ sent' = [sent EXCEPT
            ![i].state = IF arrives THEN "done" ELSE "failed",
            ![i].link = IF c.kind = "draft" THEN Links!LinkTo(Links!NextId) ELSE c.link,
            ![i].read = IF c.kind = "read" /\ arrives THEN links ELSE c.read]
  BY DEF Links!Serve
<1> DEFINE st == IF arrives THEN "done" ELSE "failed"
           li == IF c.kind = "draft" THEN Links!LinkTo(Links!NextId) ELSE c.link
           re == IF c.kind = "read" /\ arrives THEN links ELSE c.read
           d == [c EXCEPT !.state = st, !.link = li, !.read = re]
<1>4. sent' = [sent EXCEPT ![i] = d]
  BY <1>2, <1>3
<1>5. li \in Links!Link \cup {None}
  BY <1>1, <1>2, NextIdIs, LinkTos DEF Links!Apply, Links!Calls
<1>6. re \in SUBSET Links!Link
  BY <1>2 DEF Links!Calls, LinksInv, Types, RecordsOK
<1>7. st \in {"done", "failed"} /\ (c.kind = "create" => st = "done") /\ (arrives <=> st = "done")
  BY <1>3
<1> HIDE DEF st, li, re
<1>8. /\ d \in Links!Calls /\ d.kind = c.kind /\ d.page = c.page /\ d.name = c.name
      /\ d.place = c.place /\ d.body = c.body /\ d.todo = c.todo
      /\ d.failed = c.failed /\ d.state = st /\ d.link = li /\ d.read = re
  BY <1>2, <1>5, <1>6, <1>7 DEF Links!Calls
<1> HIDE DEF d
<1>9. \A k \in Links!Slots : sent'[k] = IF k = i THEN d ELSE sent[k]
  BY <1>2, <1>4
<1>10. /\ li = IF d.kind = "draft" THEN Links!LinkTo(Links!NextId) ELSE c.link
       /\ re = IF d.kind = "read" /\ d.state = "done" THEN links ELSE c.read
  BY <1>7, <1>8 DEF li, re
<1> QED
  BY <1>1, <1>2, <1>4, <1>7, <1>8, <1>9, <1>10

\* Another record, which is a draft.
LEMMA NewRecord ==
  ASSUME RecordsOK, NEW i \in RecordIds, records[i] = None, NEW n \in Name \cup {Round},
         records' = [records EXCEPT ![i] = Links!Draft(n)]
  PROVE  /\ records' \in [RecordIds -> Links!Entity \cup {None}] /\ Grow
         /\ \A k \in RecordIds : records'[k] = IF k = i THEN Links!Draft(n) ELSE records[k]
         /\ records'[i] # None /\ records'[i].name = n /\ IsThere(i)'
<1>1. Links!Draft(n) \in Links!Entity /\ Links!Draft(n).name = n
  BY DEF Links!Draft, Links!Entity
<1>2. \A k \in RecordIds : records'[k] = IF k = i THEN Links!Draft(n) ELSE records[k]
  BY DEF RecordsOK
<1>3. Links!Draft(n) # None
  BY <1>1, Distinct
<1>4. records' \in [RecordIds -> Links!Entity \cup {None}]
  BY <1>1 DEF RecordsOK
<1>5. Grow
  BY <1>2 DEF Grow
<1> QED
  BY <1>1, <1>2, <1>3, <1>4, <1>5 DEF IsThere

LEMMA ServeDraft ==
  ASSUME LinksInv, NEW i \in Links!Slots, Links!Serve(i), sent[i].kind = "draft"
  PROVE  LinksInv'
<1> DEFINE n == sent[i].name
<1>1. /\ sent[i] # None /\ sent[i].state = "sent" /\ Links!Apply(sent[i])
      /\ CallOK(sent[i]) /\ sent[i] \in Links!Calls
      /\ UNCHANGED <<Links!tab, Links!forms, leaving, refresh, wished, unwant, crossed>>
  BY ServeFacts
<1>2. PICK d \in Links!Calls :
        /\ sent' = [sent EXCEPT ![i] = d]
        /\ \A k \in Links!Slots : sent'[k] = IF k = i THEN d ELSE sent[k]
        /\ d.kind = "draft" /\ d.page = sent[i].page /\ d.name = n
        /\ d.place = sent[i].place /\ d.state \in {"done", "failed"} /\ d.link = Links!LinkTo(Links!NextId)
        /\ d.read = sent[i].read
  BY ServeFacts
<1>3. /\ Links!Room(Links!One) /\ records' = [records EXCEPT ![Links!NextId] = Links!Draft(n)]
      /\ UNCHANGED <<links, startup>>
  BY <1>1 DEF Links!Apply
<1>4. PICK x \in RecordIds : x = Links!NextId /\ records[x] = None
  BY <1>3, NextIdIs
<1>5. n \in Name
  BY <1>1 DEF CallOK
<1>6. /\ records' \in [RecordIds -> Links!Entity \cup {None}] /\ Grow
      /\ \A k \in RecordIds : records'[k] = IF k = x THEN Links!Draft(n) ELSE records[k]
      /\ records'[x] # None /\ records'[x].name = n /\ IsThere(x)'
  BY <1>3, <1>4, <1>5, NewRecord, ZenonT(60) DEF LinksInv, Types
<1>7. RecordsOK'
  BY <1>3, <1>6, LinkStays DEF LinksInv, Types, RecordsOK
<1>8. TabOK' /\ FormsOK'
  BY <1>1, <1>6, TabSame, FormsSame DEF LinksInv, Types
<1>9. NetOK'
  <2>1. Links!LinkTo(x) \in Links!Link /\ Links!LinkTo(x).to = x /\ Links!LinkTo(x).with = {}
    BY LinkTos
  <2>2. \A l : l = Links!LinkTo(x) => StoredLink(l)'
    BY <1>6, <2>1, Distinct DEF StoredLink, LinkOK
  <2>3. \A l \in sent[i].read : StoredLink(l)
    BY <1>1 DEF CallOK
  <2>4. \A l : StoredLink(l) => StoredLink(l)'
    BY <1>6, LinkStays
  <2>5. \A l \in d.read : StoredLink(l)'
    BY <1>2, <2>3, <2>4
  <2>6. d.kind = "draft" /\ d.name \in Name /\ d.place \in Links!Place \cup {"orphan"}
    BY <1>1, <1>2, <1>5 DEF CallOK
  <2>7. StoredLink(d.link)' /\ d.link.with = {} /\ records'[d.link.to].name = d.name
    BY <1>2, <1>4, <1>6, <2>1, <2>2
  <2>8. CallOK(d)'
    BY <2>5, <2>6, <2>7 DEF CallOK
  <2> QED
    BY <1>1, <1>2, <1>6, <2>8, NetSet DEF LinksInv, Types, NetOK
<1>10. Same(Chain) /\ Same({"link", "unlink", "round"})
  BY <1>1, <1>2, Distinct DEF Same, Is, Chain, CallOK
<1>11. Pages'
  <2>1. ~saved => \A k \in Links!Slots : sent'[k] # None => sent'[k].page = "new"
    BY <1>1, <1>2 DEF LinksInv, Pages
  <2> QED
    BY <1>1, <1>3, <1>10, <2>1, PagesStep DEF LinksInv, Pages, Links!tab
<1>13. d # None
  BY Distinct
<1>14. DraftsStay /\ \A k \in Links!Slots : Is(k, {"draft"}) => sent'[k].place = sent[k].place
  BY <1>1, <1>2, <1>13 DEF DraftsStay, Is
<1>15. DialogsWait'
  BY <1>1, <1>14, DialogsWaitStep DEF LinksInv, Links!tab
<1>16. Wishes'
  <2>1. \A w \in wished' : Described(w) => Described(w)'
    BY <1>1, <1>14, DescribedStep DEF Links!tab, Links!forms
  <2>2. \A k \in Links!Slots : Is(k, {"create"})' => Is(k, {"create"}) /\ sent'[k].body = sent[k].body
    BY <1>2 DEF Is
  <2> QED
    BY <1>1, <1>3, <1>6, <1>10, <2>1, <2>2, SameChanges, WishesStep DEF LinksInv, Links!tab
<1> QED
  BY <1>7, <1>8, <1>9, <1>11, <1>15, <1>16 DEF LinksInv, Types

LEMMA ServeLink ==
  ASSUME LinksInv, NEW i \in Links!Slots, Links!Serve(i), sent[i].kind = "link"
  PROVE  LinksInv'
<1> DEFINE l == sent[i].link
<1>1. /\ sent[i] # None /\ sent[i].state = "sent" /\ Links!Apply(sent[i])
      /\ CallOK(sent[i]) /\ sent[i] \in Links!Calls
      /\ UNCHANGED <<Links!tab, Links!forms, leaving, refresh, wished, unwant, crossed>>
  BY ServeFacts
<1>2. PICK d \in Links!Calls :
        /\ sent' = [sent EXCEPT ![i] = d]
        /\ \A k \in Links!Slots : sent'[k] = IF k = i THEN d ELSE sent[k]
        /\ d.kind = "link" /\ d.page = sent[i].page /\ d.name = sent[i].name
        /\ d.place = sent[i].place /\ d.state \in {"done", "failed"} /\ d.link = l
        /\ d.read = sent[i].read
  BY ServeFacts
<1>3. links' = links \cup {l} /\ UNCHANGED <<records, startup>>
  BY <1>1 DEF Links!Apply
<1>4. Grow /\ StoredLink(l) /\ LinkOK(l) /\ l \in Links!Link /\ l.with = {} /\ l.to \in RecordIds /\ saved
  BY <1>1, <1>3, SameRecords, Distinct DEF CallOK, StoredLink, LinkOK, IsThere, LinksInv, Pages
<1>5. RecordsOK'
  BY <1>3, <1>4, LinkStays DEF LinksInv, Types, RecordsOK
<1>6. TabOK' /\ FormsOK'
  BY <1>1, <1>4, TabSame, FormsSame DEF LinksInv, Types
<1>7. CallOK(d)
  BY <1>1, <1>2 DEF CallOK
<1>8. NetOK'
  BY <1>1, <1>2, <1>4, <1>7, CallStays, NetSet DEF LinksInv, Types, NetOK
<1>9. d # None
  BY Distinct
<1>10. Same(Chain) /\ Same({"draft"})
  BY <1>1, <1>2, <1>9 DEF Same, Is, Chain
<1>11. Pages'
  BY <1>1, <1>3, <1>4, <1>10, PagesStep DEF LinksInv, Pages, Links!tab
<1>13. DraftsStay /\ \A k \in Links!Slots : Is(k, {"draft"}) => sent'[k].place = sent[k].place
  BY <1>10, SameDrafts
<1>14. DialogsWait'
  BY <1>1, <1>13, DialogsWaitStep DEF LinksInv, Links!tab, Links!forms
<1>16. Wishes'
  <2> SUFFICES ASSUME ~crossed'
               PROVE  OneChange' /\ (\A w \in wished' : Promise(w)' /\ Along(w)') /\ \A to \in unwant' : Dropped(to)'
    BY DEF Wishes
  <2>1. /\ OneChange /\ (\A w \in wished : Promise(w) /\ Along(w)) /\ (\A to \in unwant : Dropped(to))
        /\ UNCHANGED <<saved, wished, unwant, dialog>>
    BY <1>1 DEF LinksInv, Wishes, Links!tab, Links!forms
  <2>2. \A k \in Links!Slots : \A kinds : Is(k, kinds)' <=> Is(k, kinds)
    BY <1>1, <1>2, <1>9 DEF Is
  <2>3. \A k \in Links!Slots : sent'[k].link = sent[k].link
    BY <1>2
  <2>4. OneChange'
    BY <2>1, <2>2, <2>3 DEF OneChange, Changes
  <2>5. \A k \in Links!Slots : Is(k, {"unlink"}) => sent'[k] = sent[k]
    BY <1>1, <1>2 DEF Is
  <2>6. \A to : Removing(to)' <=> Removing(to)
    BY <2>2, <2>5 DEF Removing
  <2>7. Is(i, {"link"}) /\ Is(i, {"link", "round"}) /\ Changes(i, l.to)
    BY <1>1 DEF Is, Changes
  <2>8. ~Removing(l.to)
    BY <1>1, <1>4, <2>1, <2>7 DEF OneChange, Removing, Changes, Is
  <2>9. ASSUME NEW to \in unwant'
        PROVE  Dropped(to)'
    <3>1. Dropped(to) /\ to # l.to
      BY <2>1, <2>7 DEF Dropped
    <3> QED
      BY <1>3, <2>2, <2>3, <2>5, <3>1 DEF Dropped
  <2>10. ASSUME NEW w, InLinks(w)
         PROVE  InLinks(w)'
    BY <1>3, <1>4, <2>6, <2>10, InLinksStep DEF LinksInv, Types
  <2>11. ASSUME NEW w, OnItsWay(w)
         PROVE  OnItsWay(w)' \/ InLinks(w)'
    <3>1. PICK k \in Links!Slots : Is(k, {"link", "round"}) /\ Says(sent[k].link, w) /\ sent[k].state # "done"
      BY <2>11 DEF OnItsWay
    <3>2. CASE k # i
      <4>1. Is(k, {"link", "round"})' /\ sent'[k].link = sent[k].link /\ sent'[k].state # "done"
        BY <1>2, <2>2, <3>1, <3>2
      <4> QED
        BY <1>4, <3>1, <4>1, SentStep DEF LinksInv, Types
    <3>3. CASE k = i
      <4>1. Says(l, w)
        BY <3>1, <3>3
      <4>2. \A y : LinkOK(y) /\ Says(y, w) => Says(y, w)'
        BY <1>4, SaysStays
      <4>3. \A y : y = l => Says(y, w)' /\ ~Removing(y.to)'
        BY <1>4, <2>6, <2>8, <4>1, <4>2
      <4>4. l \in links'
        BY <1>3
      <4> QED
        BY <4>3, <4>4 DEF InLinks
    <3> QED
      BY <3>2, <3>3
  <2>12. ASSUME NEW w, Described(w)
         PROVE  Described(w)'
    BY <1>13, <2>1, <2>12, DescribedStep
  <2> QED
    BY <1>4, <2>1, <2>4, <2>9, <2>10, <2>11, <2>12 DEF Promise, Along
<1> QED
  BY <1>5, <1>6, <1>8, <1>11, <1>14, <1>16 DEF LinksInv, Types

LEMMA ServeUnlink ==
  ASSUME LinksInv, NEW i \in Links!Slots, Links!Serve(i), sent[i].kind = "unlink"
  PROVE  LinksInv'
<1> DEFINE l == sent[i].link
<1>1. /\ sent[i] # None /\ sent[i].state = "sent" /\ Links!Apply(sent[i])
      /\ CallOK(sent[i]) /\ sent[i] \in Links!Calls
      /\ UNCHANGED <<Links!tab, Links!forms, leaving, refresh, wished, unwant, crossed>>
  BY ServeFacts
<1>2. PICK d \in Links!Calls :
        /\ sent' = [sent EXCEPT ![i] = d]
        /\ \A k \in Links!Slots : sent'[k] = IF k = i THEN d ELSE sent[k]
        /\ d.kind = "unlink" /\ d.page = sent[i].page /\ d.name = sent[i].name
        /\ d.place = sent[i].place /\ d.state \in {"done", "failed"} /\ d.link = l
        /\ d.read = sent[i].read
  BY ServeFacts
<1>3. links' = links \ {l} /\ UNCHANGED <<records, startup>>
  BY <1>1 DEF Links!Apply
<1>4. Grow /\ StoredLink(l) /\ LinkOK(l) /\ l \in Links!Link /\ l.with = {} /\ l.to \in RecordIds /\ saved
      /\ records[l.to].name # Round
  BY <1>1, <1>3, SameRecords, Distinct DEF CallOK, StoredLink, LinkOK, IsThere, LinksInv, Pages
<1>5. RecordsOK'
  BY <1>3, <1>4, LinkStays DEF LinksInv, Types, RecordsOK
<1>6. TabOK' /\ FormsOK'
  BY <1>1, <1>4, TabSame, FormsSame DEF LinksInv, Types
<1>7. CallOK(d)
  BY <1>1, <1>2 DEF CallOK
<1>8. NetOK'
  BY <1>1, <1>2, <1>4, <1>7, CallStays, NetSet DEF LinksInv, Types, NetOK
<1>9. d # None
  BY Distinct
<1>10. Same(Chain) /\ Same({"draft"})
  BY <1>1, <1>2, <1>9 DEF Same, Is, Chain
<1>11. Pages'
  BY <1>1, <1>3, <1>4, <1>10, PagesStep DEF LinksInv, Pages, Links!tab
<1>13. DraftsStay /\ \A k \in Links!Slots : Is(k, {"draft"}) => sent'[k].place = sent[k].place
  BY <1>10, SameDrafts
<1>14. DialogsWait'
  BY <1>1, <1>13, DialogsWaitStep DEF LinksInv, Links!tab, Links!forms
<1>16. Wishes'
  <2> SUFFICES ASSUME ~crossed'
               PROVE  OneChange' /\ (\A w \in wished' : Promise(w)' /\ Along(w)') /\ \A to \in unwant' : Dropped(to)'
    BY DEF Wishes
  <2>1. /\ OneChange /\ (\A w \in wished : Promise(w) /\ Along(w)) /\ (\A to \in unwant : Dropped(to))
        /\ UNCHANGED <<saved, wished, unwant, dialog>>
    BY <1>1 DEF LinksInv, Wishes, Links!tab, Links!forms
  <2>2. \A k \in Links!Slots : \A kinds : Is(k, kinds)' <=> Is(k, kinds)
    BY <1>1, <1>2, <1>9 DEF Is
  <2>3. \A k \in Links!Slots : sent'[k].link = sent[k].link
    BY <1>2
  <2>4. OneChange'
    BY <2>1, <2>2, <2>3 DEF OneChange, Changes
  <2>5. \A k \in Links!Slots : Is(k, {"link", "round"}) => sent'[k] = sent[k]
    BY <1>1, <1>2 DEF Is
  <2>6. \A to : Removing(to)' => Removing(to)
    BY <1>1, <1>2, <2>2 DEF Removing
  <2>7. Removing(l.to)
    BY <1>1 DEF Is, Removing
\* No other link names the record.
  <2>8. \A m \in links : m.to = l.to => m = l
    <3>1. \A m \in links : m.to = l.to => m \in Links!Link /\ m.with = {}
      BY <1>4 DEF LinksInv, Types, RecordsOK, StoredLink, LinkOK
    <3>2. \A m \in Links!Link : m = [to |-> m.to, with |-> m.with]
      BY DEF Links!Link
    <3>3. l = [to |-> l.to, with |-> l.with]
      BY <1>4, <3>2
    <3> QED
      BY <1>4, <3>1, <3>2, <3>3
  <2>9. ASSUME NEW to \in unwant'
        PROVE  Dropped(to)'
    <3>1. Dropped(to) /\ \A m \in links' : m \in links /\ m.to # l.to
      BY <1>3, <2>1, <2>8
    <3>2. \A k \in Links!Slots : k # i => sent'[k] = sent[k]
      BY <1>2
    <3>3. \A k \in Links!Slots : ~(Is(k, {"link"}) /\ sent[k].link.to = to)'
      BY <2>2, <2>3, <3>1 DEF Dropped
    <3>4. \A m \in links' : m.to = to => \E k \in Links!Slots :
            Is(k, {"unlink"}) /\ sent[k].link.to = to /\ sent[k].state # "done" /\ k # i
      BY <3>1 DEF Dropped
    <3>5. \A m \in links' : m.to = to => \E k \in Links!Slots :
            Is(k, {"unlink"})' /\ sent'[k].link.to = to /\ sent'[k].state # "done"
      BY <2>2, <3>2, <3>4
    <3> QED
      BY <3>3, <3>5 DEF Dropped
  <2>10. ASSUME NEW w, InLinks(w)
         PROVE  InLinks(w)'
    BY <1>3, <1>4, <2>6, <2>7, <2>10, InLinksStep DEF LinksInv, Types
  <2>11. ASSUME NEW w, OnItsWay(w)
         PROVE  OnItsWay(w)'
    <3>1. PICK k \in Links!Slots : Is(k, {"link", "round"}) /\ Says(sent[k].link, w) /\ sent[k].state # "done"
      BY <2>11 DEF OnItsWay
    <3> QED
      BY <1>4, <2>2, <2>5, <3>1, SentStep DEF LinksInv, Types
  <2>12. ASSUME NEW w, Described(w)
         PROVE  Described(w)'
    BY <1>13, <2>1, <2>12, DescribedStep
  <2> QED
    BY <1>4, <2>1, <2>4, <2>9, <2>10, <2>11, <2>12 DEF Promise, Along
<1> QED
  BY <1>5, <1>6, <1>8, <1>11, <1>14, <1>16 DEF LinksInv, Types

LEMMA ServeRound ==
  ASSUME LinksInv, NEW i \in Links!Slots, Links!Serve(i), sent[i].kind = "round"
  PROVE  LinksInv'
<1> DEFINE l == sent[i].link
<1>1. /\ sent[i] # None /\ sent[i].state = "sent" /\ Links!Apply(sent[i])
      /\ CallOK(sent[i]) /\ sent[i] \in Links!Calls
      /\ UNCHANGED <<Links!tab, Links!forms, leaving, refresh, wished, unwant, crossed>>
  BY ServeFacts
<1>2. PICK d \in Links!Calls :
        /\ sent' = [sent EXCEPT ![i] = d]
        /\ \A k \in Links!Slots : sent'[k] = IF k = i THEN d ELSE sent[k]
        /\ d.kind = "round" /\ d.page = sent[i].page /\ d.name = sent[i].name
        /\ d.place = sent[i].place /\ d.state \in {"done", "failed"} /\ d.link = l
        /\ d.read = sent[i].read
  BY ServeFacts
<1>3. /\ Links!Room(Links!One) /\ records' = [records EXCEPT ![Links!NextId] = Links!Draft(Round)]
      /\ links' = links \cup {[l EXCEPT !.to = Links!NextId]} /\ UNCHANGED startup
  BY <1>1 DEF Links!Apply
<1>4. PICK x \in RecordIds : x = Links!NextId /\ records[x] = None
  BY <1>3, NextIdIs
<1>5. /\ records' \in [RecordIds -> Links!Entity \cup {None}] /\ Grow
      /\ \A k \in RecordIds : records'[k] = IF k = x THEN Links!Draft(Round) ELSE records[k]
      /\ records'[x] # None /\ records'[x].name = Round /\ IsThere(x)'
  BY <1>3, <1>4, NewRecord DEF LinksInv, Types
<1>6. LinkOK(l) /\ l \in Links!Link /\ l.to = Round /\ saved
  BY <1>1 DEF CallOK, LinkOK, LinksInv, Pages
<1> DEFINE m == [l EXCEPT !.to = x]
<1>7. m \in Links!Link /\ m.to = x /\ m.with = l.with
  BY <1>6 DEF Links!Link
<1>8. links' = links \cup {m}
  BY <1>3, <1>4
<1> HIDE DEF m
<1>9. PICK y : y = m
  OBVIOUS
<1>10. StoredLink(y)'
  BY <1>5, <1>6, <1>7, <1>9, Distinct DEF StoredLink, LinkOK, IsThere, Grow
<1>11. RecordsOK'
  <2>1. \A z \in links : StoredLink(z)'
    BY <1>5, LinkStays DEF LinksInv, Types, RecordsOK
  <2>2. links' = links \cup {y} /\ y \in Links!Link
    BY <1>7, <1>8, <1>9
  <2>3. \A z \in links' : StoredLink(z)'
    BY <1>10, <2>1, <2>2
  <2> QED
    BY <1>3, <1>5, <2>2, <2>3 DEF LinksInv, Types, RecordsOK
<1>12. TabOK' /\ FormsOK'
  BY <1>1, <1>5, TabSame, FormsSame DEF LinksInv, Types
<1>13. CallOK(d)
  BY <1>1, <1>2 DEF CallOK
<1>14. NetOK'
  BY <1>1, <1>2, <1>5, <1>13, CallStays, NetSet DEF LinksInv, Types, NetOK
<1>15. d # None
  BY Distinct
<1>16. Same(Chain) /\ Same({"draft"})
  BY <1>1, <1>2, <1>15 DEF Same, Is, Chain
<1>17. Pages'
  BY <1>1, <1>3, <1>6, <1>16, PagesStep DEF LinksInv, Pages, Links!tab
<1>19. DraftsStay /\ \A k \in Links!Slots : Is(k, {"draft"}) => sent'[k].place = sent[k].place
  BY <1>16, SameDrafts
<1>20. DialogsWait'
  BY <1>1, <1>19, DialogsWaitStep DEF LinksInv, Links!tab, Links!forms
<1>22. Wishes'
  <2> SUFFICES ASSUME ~crossed'
               PROVE  OneChange' /\ (\A w \in wished' : Promise(w)' /\ Along(w)') /\ \A to \in unwant' : Dropped(to)'
    BY DEF Wishes
  <2>1. /\ OneChange /\ (\A w \in wished : Promise(w) /\ Along(w)) /\ (\A to \in unwant : Dropped(to) /\ IsThere(to))
        /\ UNCHANGED <<saved, wished, unwant, dialog>>
    BY <1>1 DEF LinksInv, Types, TabOK, Wishes, Links!tab, Links!forms
  <2>2. \A k \in Links!Slots : \A kinds : Is(k, kinds)' <=> Is(k, kinds)
    BY <1>1, <1>2, <1>15 DEF Is
  <2>3. \A k \in Links!Slots : sent'[k].link = sent[k].link
    BY <1>2
  <2>4. OneChange'
    BY <2>1, <2>2, <2>3 DEF OneChange, Changes
  <2>5. \A k \in Links!Slots : Is(k, {"unlink"}) => sent'[k] = sent[k]
    BY <1>1, <1>2 DEF Is
  <2>6. \A to : Removing(to)' <=> Removing(to)
    BY <2>2, <2>5 DEF Removing
  <2>7. ~Removing(x)
    BY <1>4 DEF Removing, Is, LinksInv, Types, NetOK, CallOK, StoredLink, LinkOK, IsThere
  <2>8. ASSUME NEW to \in unwant'
        PROVE  Dropped(to)'
    <3>1. Dropped(to) /\ to # x
      BY <1>4, <2>1 DEF IsThere
    <3> QED
      BY <1>7, <1>8, <2>2, <2>3, <2>5, <3>1 DEF Dropped
  <2>9. ASSUME NEW w, InLinks(w)
        PROVE  InLinks(w)'
    BY <1>5, <1>8, <2>6, <2>9, InLinksStep DEF LinksInv, Types
  <2>10. ASSUME NEW w, OnItsWay(w)
         PROVE  OnItsWay(w)' \/ InLinks(w)'
    <3>1. PICK k \in Links!Slots : Is(k, {"link", "round"}) /\ Says(sent[k].link, w) /\ sent[k].state # "done"
      BY <2>10 DEF OnItsWay
    <3>2. CASE k # i
      <4>1. Is(k, {"link", "round"})' /\ sent'[k].link = sent[k].link /\ sent'[k].state # "done"
        BY <1>2, <2>2, <3>1, <3>2
      <4> QED
        BY <1>5, <3>1, <4>1, SentStep DEF LinksInv, Types
    <3>3. CASE k = i
      <4>1. Says(l, w)
        BY <3>1, <3>3
      <4>2. \A z : LinkOK(z) /\ Says(z, w) => Says(z, w)'
        BY <1>5, SaysStays
      <4>3. \A z : z = l => Says(z, w)'
        BY <1>6, <4>1, <4>2
      <4>4. PICK z : z = l
        OBVIOUS
      <4>5. Says(z, w)' /\ z.to = Round /\ z.with = y.with /\ y.to = x
        BY <1>6, <1>7, <1>9, <4>3, <4>4
      <4>6. Says(y, w)'
        <5>1. Links!NameOf(y.to)' = Round /\ Links!NameOf(z.to)' = Round
          BY <1>5, <4>5, Distinct DEF Links!NameOf
        <5> QED
          BY <4>5, <5>1 DEF Says
      <4>7. y \in links' /\ ~Removing(y.to)'
        BY <1>8, <1>9, <2>6, <2>7, <4>5
      <4> QED
        BY <4>6, <4>7 DEF InLinks
    <3> QED
      BY <3>2, <3>3
  <2>11. ASSUME NEW w, Described(w)
         PROVE  Described(w)'
    BY <1>19, <2>1, <2>11, DescribedStep
  <2> QED
    BY <1>6, <2>1, <2>4, <2>8, <2>9, <2>10, <2>11 DEF Promise, Along
<1> QED
  BY <1>11, <1>12, <1>14, <1>17, <1>20, <1>22 DEF LinksInv, Types

LEMMA ServeCreate ==
  ASSUME LinksInv, NEW i \in Links!Slots, Links!Serve(i), sent[i].kind = "create"
  PROVE  LinksInv'
<1> DEFINE body == sent[i].body
           R == Links!Rounds(body)
<1>1. /\ sent[i] # None /\ sent[i].state = "sent" /\ Links!Apply(sent[i])
      /\ CallOK(sent[i]) /\ sent[i] \in Links!Calls
      /\ UNCHANGED <<Links!tab, Links!forms, leaving, refresh, wished, unwant, crossed>>
  BY ServeFacts
<1>2. PICK d \in Links!Calls :
        /\ sent' = [sent EXCEPT ![i] = d]
        /\ \A k \in Links!Slots : sent'[k] = IF k = i THEN d ELSE sent[k]
        /\ d.kind = "create" /\ d.page = sent[i].page /\ d.name = sent[i].name
        /\ d.place = sent[i].place /\ d.state = "done" /\ d.body = body
        /\ d.read = sent[i].read
  BY ServeFacts
<1>3. /\ Links!Room(R) /\ links' = Links!Stored(body) /\ startup' = "draft"
      /\ records' = [k \in RecordIds |->
              IF records[k] = None /\ \E l \in Links!Stored(body) : l.to = k THEN Links!Draft(Round)
              ELSE records[k]]
  BY <1>1 DEF Links!Apply
<1>4. /\ ~saved /\ body \in Seq(Links!Link) /\ \A k \in DOMAIN body : LinkOK(body[k]) /\ body[k] \in Links!Link
  BY <1>1 DEF CallOK, CallFields, Links!Calls, LinksInv, Pages, Is, Chain, LinkOK
<1>5. PICK f : f = Links!NewId(R)
  OBVIOUS
<1>6. f \in [R -> {k \in RecordIds : records[k] = None}]
  BY <1>3, <1>5, NewIdIs
<1>7. \A k \in R : k \in DOMAIN body /\ body[k].to = Round /\ f[k] \in RecordIds /\ records[f[k]] = None
  BY <1>6 DEF Links!Rounds
<1>8. Links!Stored(body) = {l \in Links!Range(body) : l.to # Round} \cup {[to |-> f[k], with |-> body[k].with] : k \in R}
  BY <1>5 DEF Links!Stored
<1> HIDE DEF R
<1>9. \A k \in RecordIds : records'[k] =
        IF records[k] = None /\ \E l \in Links!Stored(body) : l.to = k THEN Links!Draft(Round) ELSE records[k]
  BY <1>3
<1>10. Links!Draft(Round) \in Links!Entity /\ Links!Draft(Round) # None /\ Links!Draft(Round).name = Round
  BY Distinct DEF Links!Draft, Links!Entity
<1>11. records' \in [RecordIds -> Links!Entity \cup {None}]
  BY <1>3, <1>10 DEF LinksInv, Types, RecordsOK
<1>12. Grow
  BY <1>9 DEF Grow
<1>14. \A l \in Links!Stored(body) : \/ \E k \in DOMAIN body : l = body[k] /\ l.to # Round
                                     \/ \E k \in R : l = [to |-> f[k], with |-> body[k].with]
  BY <1>8 DEF Links!Range
<1>15. \A k \in R : /\ [to |-> f[k], with |-> body[k].with] \in Links!Stored(body)
                    /\ records'[f[k]] = Links!Draft(Round)
  <2>1. \A k \in R : [to |-> f[k], with |-> body[k].with] \in Links!Stored(body)
    BY <1>8
  <2>2. \A k \in R : \E l \in Links!Stored(body) : l.to = f[k]
    BY <2>1
  <2> QED
    BY <1>7, <1>9, <2>1, <2>2
<1>16. \A l \in Links!Stored(body) : l \in Links!Link /\ StoredLink(l)'
  <2> SUFFICES ASSUME NEW l \in Links!Stored(body)
               PROVE  l \in Links!Link /\ StoredLink(l)'
    OBVIOUS
  <2>1. CASE \E k \in DOMAIN body : l = body[k] /\ l.to # Round
    BY <1>4, <1>12, <2>1, LinkStays DEF StoredLink
  <2>2. CASE \E k \in R : l = [to |-> f[k], with |-> body[k].with]
    <3>1. PICK k \in R : l = [to |-> f[k], with |-> body[k].with]
      BY <2>2
    <3>2. LinkOK(body[k]) /\ body[k] \in Links!Link
      BY <1>4, <1>7
    <3>3. l \in Links!Link /\ l.to = f[k] /\ l.with = body[k].with
      BY <1>7, <3>1, <3>2 DEF Links!Link
    <3>6. f[k] \in RecordIds /\ records'[f[k]] = Links!Draft(Round)
      BY <1>7, <1>15
    <3>4. records'[l.to] # None /\ records'[l.to].name = Round /\ l.to \in RecordIds
      BY <1>10, <3>3, <3>6
    <3>5. \A j \in l.with : IsThere(j)'
      BY <1>12, <3>2, <3>3 DEF LinkOK, IsThere, Grow
    <3> QED
      BY <3>3, <3>4, <3>5, Distinct DEF StoredLink, LinkOK, IsThere
  <2> QED
    BY <1>14, <2>1, <2>2
<1>17. RecordsOK'
  BY <1>3, <1>11, <1>16 DEF RecordsOK
<1>18. TabOK' /\ FormsOK'
  BY <1>1, <1>12, TabSame, FormsSame DEF LinksInv, Types
<1>19. CallOK(d)
  BY <1>1, <1>2 DEF CallOK
<1>20. NetOK'
  BY <1>1, <1>2, <1>12, <1>19, CallStays, NetSet DEF LinksInv, Types, NetOK
<1>21. d # None
  BY Distinct
<1>22. \A k \in Links!Slots : \A kinds : Is(k, kinds)' <=> Is(k, kinds)
  BY <1>1, <1>2, <1>21 DEF Is
<1>23. Pages'
  <2>1. Created(i)'
    BY <1>2, <1>21 DEF Created, Is, Chain
  <2>2. startup' # None
    BY <1>3, LinksAssumption DEF Links!LinksAssumption
  <2>3. \A k \in Links!Slots : sent'[k] # None => sent'[k].page = "new"
    BY <1>1, <1>2, <1>4 DEF LinksInv, Pages
  <2> QED
    BY <1>1, <1>4, <1>22, <2>1, <2>2, <2>3 DEF LinksInv, Pages, Links!tab
<1>25. Same({"draft"})
  BY <1>1, <1>2, <1>21 DEF Same, Is
<1>26. DraftsStay /\ \A k \in Links!Slots : Is(k, {"draft"}) => sent'[k].place = sent[k].place
  BY <1>25, SameDrafts
<1>27. DialogsWait'
  BY <1>1, <1>26, DialogsWaitStep DEF LinksInv, Links!tab, Links!forms
<1>29. Wishes'
  <2> SUFFICES ASSUME ~crossed'
               PROVE  OneChange' /\ (\A w \in wished' : Promise(w)' /\ Along(w)') /\ \A to \in unwant' : Dropped(to)'
    BY DEF Wishes
  <2>1. /\ OneChange /\ (\A w \in wished : Promise(w) /\ Along(w)) /\ unwant' = {}
        /\ UNCHANGED <<saved, local, wished, unwant, dialog>>
    BY <1>1, <1>4 DEF LinksInv, Wishes, Pages, Links!tab, Links!forms
  <2>2. \A k \in Links!Slots : ~Is(k, {"unlink"}) /\ ~Is(k, {"link"}) /\ ~Is(k, {"link", "unlink"})
    BY <1>4 DEF LinksInv, Pages, Types, NetOK, CallOK, Is
  <2>3. OneChange' /\ \A to : ~Removing(to)'
    BY <1>22, <2>2 DEF OneChange, Changes, Removing
  <2>4. ASSUME NEW w \in wished
        PROVE  InLinks(w)'
    <3>1. InBody(body, w)
      BY <1>1, <1>4, <2>1, <2>4 DEF Along, Is
    <3>2. PICK k \in DOMAIN body : Says(body[k], w)
      BY <3>1 DEF InBody
    <3>3. PICK z : z = body[k]
      OBVIOUS
    <3>4. Says(z, w)' /\ z \in Links!Link
      <4>1. \A x : LinkOK(x) /\ Says(x, w) => Says(x, w)'
        BY <1>12, SaysStays
      <4> QED
        BY <1>4, <3>2, <3>3, <4>1
    <3>5. \E y \in links' : Says(y, w)'
      <4>1. CASE z.to # Round
        BY <1>3, <1>8, <3>3, <3>4, <4>1 DEF Links!Range
      <4>2. CASE z.to = Round
        <5>1. k \in R
          BY <3>3, <4>2 DEF R, Links!Rounds
        <5>2. PICK y : y = [to |-> f[k], with |-> z.with]
          OBVIOUS
        <5>3. y \in links' /\ y.to = f[k] /\ y.with = z.with
          BY <1>3, <1>15, <3>3, <5>1, <5>2
        <5>4. Links!NameOf(y.to)' = Round /\ Links!NameOf(z.to)' = Round
          BY <1>10, <1>15, <4>2, <5>1, <5>3 DEF Links!NameOf
        <5>5. Says(y, w)'
          BY <3>4, <5>3, <5>4 DEF Says
        <5> QED
          BY <5>3, <5>5
      <4> QED
        BY <4>1, <4>2
    <3> QED
      BY <2>3, <3>5 DEF InLinks
  <2>5. ASSUME NEW w \in wished
        PROVE  Promise(w)'
    <3>1. Promise(w)
      BY <2>1
    <3>2. Described(w) => Described(w)'
      BY <1>26, <2>1, DescribedStep
    <3>3. InBody(local, w) => InBody(local, w)'
      BY <1>12, <2>1, SameLocal DEF LinksInv, Types
    <3> QED
      BY <1>4, <2>1, <3>1, <3>2, <3>3 DEF Promise
  <2>6. ASSUME NEW w \in wished
        PROVE  Along(w)'
    <3>1. Along(w)
      BY <2>1
    <3>2. ASSUME NEW k \in Links!Slots, Is(k, {"create"})'
          PROVE  InBody(sent[k].body, w)'
      <4>1. Is(k, {"create"}) /\ sent'[k].body = sent[k].body
        BY <1>2, <1>22, <3>2
      <4>2. \A j \in DOMAIN sent[k].body : LinkOK(sent[k].body[j])
        BY <4>1 DEF Is, LinksInv, Types, NetOK, CallOK
      <4>3. InBody(sent[k].body, w)
        BY <1>4, <3>1, <4>1 DEF Along
      <4>4. \A b : (\A j \in DOMAIN b : LinkOK(b[j])) /\ InBody(b, w) => InBody(b, w)'
        BY <1>12, InBodyStep
      <4> QED
        BY <4>1, <4>2, <4>3, <4>4 DEF InBody
    <3> QED
      BY <2>4, <3>2 DEF Along
  <2> QED
    BY <2>1, <2>3, <2>5, <2>6
<1> QED
  BY <1>17, <1>18, <1>20, <1>23, <1>27, <1>29 DEF LinksInv, Types

AfterCreate == {"publish", "read", "drafts"}

\* What follows a create goes on.
LEMMA ChainGoesOn ==
  ASSUME LinksInv, NEW i \in Links!Slots, sent[i] # None, sent[i].kind \in AfterCreate,
         NEW d \in Links!Calls, \A k \in Links!Slots : sent'[k] = IF k = i THEN d ELSE sent[k],
         d.kind \in AfterCreate, d.page = sent[i].page, UNCHANGED <<saved, leaving, unwant>>,
         startup' # None \/ startup' = startup
  PROVE  /\ Pages' /\ (~saved /\ startup' # None => startup # None)
         /\ Same({"draft"}) /\ Same({"link", "unlink", "round"})
         /\ \A k \in Links!Slots : Is(k, {"create"})' => Is(k, {"create"}) /\ sent'[k].body = sent[k].body
<1>1. d # None
  BY Distinct
<1>2. \A k \in Links!Slots : Is(k, Chain)' <=> Is(k, Chain)
  BY <1>1 DEF Is, Chain, AfterCreate
<1>3. Created(i) /\ Created(i)'
  BY <1>1 DEF Created, Is, Chain, AfterCreate
<1>4. ~saved => startup # None /\ startup' # None
  BY <1>3 DEF LinksInv, Pages
<1>5. Pages'
  <2>1. ~saved => unwant' = {} /\ \A k \in Links!Slots : sent'[k] # None => sent'[k].page = "new"
    BY DEF LinksInv, Pages
  <2>2. saved => \A k \in Links!Slots : Is(k, Chain)' => sent'[k].kind # "create" /\ sent'[k].page = "saved"
    BY DEF LinksInv, Pages, Is, Chain, AfterCreate
  <2> QED
    BY <1>2, <1>3, <1>4, <2>1, <2>2 DEF LinksInv, Pages
<1> QED
  BY <1>1, <1>4, <1>5 DEF Same, Is, AfterCreate

LEMMA ServePublish ==
  ASSUME LinksInv, NEW i \in Links!Slots, Links!Serve(i), sent[i].kind = "publish"
  PROVE  LinksInv'
<1>1. /\ sent[i] # None /\ Links!Apply(sent[i]) /\ CallOK(sent[i]) /\ sent[i] \in Links!Calls
      /\ UNCHANGED <<Links!tab, Links!forms, leaving, refresh, wished, unwant, crossed>>
  BY ServeFacts
<1>2. PICK d \in Links!Calls :
        /\ sent' = [sent EXCEPT ![i] = d]
        /\ \A k \in Links!Slots : sent'[k] = IF k = i THEN d ELSE sent[k]
        /\ d.kind = "publish" /\ d.page = sent[i].page /\ d.name = sent[i].name
        /\ d.place = sent[i].place /\ d.read = sent[i].read
  BY ServeFacts
<1>3. startup' = "published" /\ UNCHANGED <<records, links>>
  BY <1>1 DEF Links!Apply
<1>4. Grow /\ RecordsOK'
  BY <1>3, SameRecords DEF LinksInv, Types, RecordsOK, StoredLink, LinkOK, IsThere
<1>5. CallOK(d)
  BY <1>1, <1>2 DEF CallOK
<1>6. NetOK'
  BY <1>1, <1>2, <1>4, <1>5, CallStays, NetSet DEF LinksInv, Types, NetOK
<1>7. /\ Pages' /\ (~saved /\ startup' # None => startup # None)
      /\ Same({"draft"}) /\ Same({"link", "unlink", "round"})
      /\ \A k \in Links!Slots : Is(k, {"create"})' => Is(k, {"create"}) /\ sent'[k].body = sent[k].body
  BY <1>1, <1>2, <1>3, LinksAssumption, ChainGoesOn DEF AfterCreate, Links!tab, Links!LinksAssumption
<1> QED
  BY <1>1, <1>3, <1>4, <1>6, <1>7, ChainStep DEF Links!history

LEMMA ServeRead ==
  ASSUME LinksInv, NEW i \in Links!Slots, Links!Serve(i), sent[i].kind = "read"
  PROVE  LinksInv'
<1>1. /\ sent[i] # None /\ Links!Apply(sent[i]) /\ CallOK(sent[i]) /\ sent[i] \in Links!Calls
      /\ UNCHANGED <<Links!tab, Links!forms, leaving, refresh, wished, unwant, crossed>>
  BY ServeFacts
<1>2. PICK d \in Links!Calls :
        /\ sent' = [sent EXCEPT ![i] = d]
        /\ \A k \in Links!Slots : sent'[k] = IF k = i THEN d ELSE sent[k]
        /\ d.kind = "read" /\ d.page = sent[i].page /\ d.name = sent[i].name
        /\ d.place = sent[i].place /\ d.read \in {links, sent[i].read}
  BY ServeFacts
<1>3. UNCHANGED Links!db
  BY <1>1 DEF Links!Apply
<1>4. Grow /\ RecordsOK'
  BY <1>3, RecordsSame DEF LinksInv, Types
<1>5. CallOK(d)
  BY <1>1, <1>2 DEF CallOK, LinksInv, Types, RecordsOK
<1>6. NetOK'
  BY <1>1, <1>2, <1>4, <1>5, CallStays, NetSet DEF LinksInv, Types, NetOK
<1>7. /\ Pages' /\ (~saved /\ startup' # None => startup # None)
      /\ Same({"draft"}) /\ Same({"link", "unlink", "round"})
      /\ \A k \in Links!Slots : Is(k, {"create"})' => Is(k, {"create"}) /\ sent'[k].body = sent[k].body
  BY <1>1, <1>2, <1>3, ChainGoesOn DEF AfterCreate, Links!tab, Links!db
<1> QED
  BY <1>1, <1>3, <1>4, <1>6, <1>7, ChainStep DEF Links!history, Links!db

LEMMA ServeDrafts ==
  ASSUME LinksInv, NEW i \in Links!Slots, Links!Serve(i), sent[i].kind = "drafts"
  PROVE  LinksInv'
<1>1. /\ sent[i] # None /\ Links!Apply(sent[i]) /\ CallOK(sent[i]) /\ sent[i] \in Links!Calls
      /\ UNCHANGED <<Links!tab, Links!forms, leaving, refresh, wished, unwant, crossed>>
  BY ServeFacts
<1>2. PICK d \in Links!Calls :
        /\ sent' = [sent EXCEPT ![i] = d]
        /\ \A k \in Links!Slots : sent'[k] = IF k = i THEN d ELSE sent[k]
        /\ d.kind = "drafts" /\ d.page = sent[i].page /\ d.name = sent[i].name
        /\ d.place = sent[i].place /\ d.read = sent[i].read /\ d.todo = sent[i].todo
        /\ d.failed = sent[i].failed
  BY ServeFacts
<1>3. PICK m : m = CHOOSE x \in sent[i].todo : TRUE
  OBVIOUS
<1>4. /\ records' = [records EXCEPT ![m].status = "published"]
      /\ UNCHANGED <<links, startup>>
  BY <1>1, <1>3 DEF Links!Apply
<1>5. m \in sent[i].todo /\ IsThere(m)
  BY <1>1, <1>3 DEF CallOK
<1>6. PICK r : r = [records[m] EXCEPT !.status = "published"]
  OBVIOUS
<1>7. records' = [records EXCEPT ![m] = r]
  BY <1>4, <1>6
<1>8. records[m] \in Links!Entity /\ m \in RecordIds
  BY <1>5 DEF LinksInv, Types, RecordsOK, IsThere
<1>9. r \in Links!Entity /\ r.name = records[m].name /\ r.status = "published" /\ r # None
  BY <1>6, <1>8, Distinct DEF Links!Entity
<1>10. /\ records' \in [RecordIds -> Links!Entity \cup {None}]
       /\ \A k \in RecordIds : records'[k] = IF k = m THEN r ELSE records[k]
  BY <1>7, <1>8, <1>9 DEF LinksInv, Types, RecordsOK
<1>11. Grow
  BY <1>9, <1>10 DEF Grow
<1>12. RecordsOK'
  <2>1. \A l \in links' : StoredLink(l)'
    BY <1>4, <1>11, LinkStays DEF LinksInv, Types, RecordsOK
  <2> QED
    BY <1>4, <1>10, <2>1 DEF LinksInv, Types, RecordsOK
<1>13. CallOK(d)'
  <2>1. CallOK(sent[i]) => \A l \in sent[i].read : StoredLink(l)'
    BY <1>11, LinkStays DEF CallOK
  <2>2. \A j \in d.todo : IsThere(j)'
    BY <1>1, <1>2, <1>11 DEF CallOK, IsThere, Grow
  <2>3. ~d.failed => \A k \in Of(d.read) : k \in d.todo \/ records'[k].status # "draft"
    <3>1. \A k \in Of(sent[i].read) : k \in RecordIds /\ records[k] # None
      BY <1>1, ReadThere DEF IsThere
    <3> QED
      BY <1>1, <1>2, <1>11, <3>1 DEF CallOK, Grow
  <2>4. records'[CHOOSE x \in d.todo : TRUE].status # "draft"
    BY <1>2, <1>3, <1>8, <1>9, <1>10
  <2> QED
    BY <1>1, <1>2, <2>1, <2>2, <2>3, <2>4 DEF CallOK
<1>14. NetOK'
  BY <1>1, <1>2, <1>11, <1>13, NetSet DEF LinksInv, Types, NetOK
<1>15. /\ Pages' /\ (~saved /\ startup' # None => startup # None)
       /\ Same({"draft"}) /\ Same({"link", "unlink", "round"})
       /\ \A k \in Links!Slots : Is(k, {"create"})' => Is(k, {"create"}) /\ sent'[k].body = sent[k].body
  BY <1>1, <1>2, <1>4, ChainGoesOn DEF AfterCreate, Links!tab
<1> QED
  BY <1>1, <1>4, <1>11, <1>12, <1>14, <1>15, ChainStep DEF Links!history

LEMMA ServePut ==
  ASSUME LinksInv, NEW i \in Links!Slots, Links!Serve(i), sent[i].kind = "put"
  PROVE  LinksInv'
<1>1. /\ sent[i] # None /\ Links!Apply(sent[i]) /\ CallOK(sent[i]) /\ sent[i] \in Links!Calls
      /\ UNCHANGED <<Links!tab, Links!forms, leaving, refresh, wished, unwant, crossed>>
  BY ServeFacts
<1>2. PICK d \in Links!Calls :
        /\ sent' = [sent EXCEPT ![i] = d]
        /\ \A k \in Links!Slots : sent'[k] = IF k = i THEN d ELSE sent[k]
        /\ d.kind = "put" /\ d.page = sent[i].page /\ d.name = sent[i].name
        /\ d.place = sent[i].place /\ d.read = sent[i].read
  BY ServeFacts
<1>3. UNCHANGED Links!db
  BY <1>1 DEF Links!Apply
<1>4. Grow /\ RecordsOK'
  BY <1>3, RecordsSame DEF LinksInv, Types
<1>5. CallOK(d)
  BY <1>1, <1>2 DEF CallOK
<1>6. NetOK'
  BY <1>1, <1>2, <1>4, <1>5, CallStays, NetSet DEF LinksInv, Types, NetOK
<1>7. Same(Chain) /\ Same({"draft"}) /\ Same({"link", "unlink", "round"}) /\ Same({"create"})
  BY <1>2, Distinct DEF Same, Is, Chain
<1>8. Pages'
  <2>1. ~saved => \A k \in Links!Slots : sent'[k] # None => sent'[k].page = "new"
    BY <1>1, <1>2 DEF LinksInv, Pages
  <2> QED
    BY <1>1, <1>3, <1>7, <2>1, PagesStep DEF LinksInv, Pages, Links!tab, Links!db
<1>9. \A k \in Links!Slots : Is(k, {"create"})' => Is(k, {"create"}) /\ sent'[k].body = sent[k].body
  BY <1>7, SameIs
<1> QED
  BY <1>1, <1>3, <1>4, <1>6, <1>7, <1>8, <1>9, ChainStep DEF Links!history, Links!db

LEMMA ServeStep ==
  ASSUME LinksInv, NEW i \in Links!Slots, Links!Serve(i)
  PROVE  LinksInv'
<1>1. sent[i].kind \in Kinds
  BY ServeFacts, CallFields
<1> QED
  BY <1>1, ServeDraft, ServeLink, ServeUnlink, ServeRound, ServeCreate, ServePublish, ServeRead,
     ServePut,
     ServeDrafts
     DEF Kinds

LEMMA RefuseStep ==
  ASSUME LinksInv, NEW i \in Links!Slots, Links!Refuse(i)
  PROVE  LinksInv'
<1>1. /\ sent[i] # None /\ sent[i].state = "sent" /\ CallOK(sent[i]) /\ sent[i] \in Links!Calls
      /\ UNCHANGED <<Links!db, Links!tab, Links!forms, leaving, refresh, Links!history>>
  BY DEF Links!Refuse, LinksInv, Types, NetOK, CallOK
<1>2. PICK c : c = sent[i]
  OBVIOUS
<1>3. PICK d : d = [c EXCEPT !.state = "failed"]
  OBVIOUS
<1>4. /\ d \in Links!Calls /\ d.kind = c.kind /\ d.page = c.page /\ d.name = c.name /\ d.place = c.place
      /\ d.link = c.link /\ d.body = c.body /\ d.read = c.read /\ d.todo = c.todo /\ d.failed = c.failed
      /\ d.state = "failed" /\ d # None
  BY <1>1, <1>2, <1>3, Distinct DEF Links!Calls
<1>5. sent' = [sent EXCEPT ![i] = d] /\ sent \in [Links!Slots -> Links!Calls \cup {None}]
  BY <1>2, <1>3 DEF Links!Refuse, LinksInv, Types, NetOK
<1>6. \A k \in Links!Slots : sent'[k] = IF k = i THEN d ELSE sent[k]
  BY <1>5
<1>7. Grow /\ RecordsOK' /\ TabOK' /\ FormsOK'
  BY <1>1, RecordsSame, TabSame, FormsSame DEF LinksInv, Types, Links!history
<1>8. CallOK(d)
  BY <1>1, <1>2, <1>4 DEF CallOK
<1>9. NetOK'
  BY <1>1, <1>5, <1>7, <1>8, CallStays, NetSet DEF LinksInv, Types, NetOK
<1>10. \A k \in Links!Slots : \A kinds : Is(k, kinds)' <=> Is(k, kinds)
  BY <1>1, <1>2, <1>4, <1>6 DEF Is
<1>11. \A k \in Links!Slots : Created(k)' <=> Created(k)
  BY <1>1, <1>2, <1>4, <1>6, <1>10 DEF Created, Is
<1>12. \A k \in Links!Slots : sent'[k] # None => sent[k] # None /\ sent'[k].page = sent[k].page /\ sent'[k].kind = sent[k].kind
  BY <1>1, <1>2, <1>4, <1>6
<1>13. Pages'
  <2>1. UNCHANGED <<saved, leaving, startup, unwant>>
    BY <1>1 DEF Links!tab, Links!db, Links!history
  <2>2. saved => \A k \in Links!Slots : Is(k, Chain)' => sent'[k].kind # "create" /\ sent'[k].page = "saved"
    BY <1>10, <1>12 DEF LinksInv, Pages, Is
  <2>3. ~saved => \A k \in Links!Slots : sent'[k] # None => sent'[k].page = "new"
    BY <1>12 DEF LinksInv, Pages
  <2> QED
    BY <1>10, <1>11, <2>1, <2>2, <2>3 DEF LinksInv, Pages
<1>14. DraftsStay /\ \A k \in Links!Slots : Is(k, {"draft"}) => sent'[k].place = sent[k].place
  BY <1>1, <1>2, <1>4, <1>6, <1>10 DEF DraftsStay
<1>15. ChangesStay
  BY <1>1, <1>2, <1>4, <1>6, <1>10 DEF ChangesStay
<1>16. DialogsWait'
  BY <1>1, <1>14, DialogsWaitStep DEF LinksInv, Links!tab, Links!history
<1>18. Wishes'
  <2>1. UNCHANGED <<links, startup, saved, local, wished, unwant, crossed, dialog>>
    BY <1>1 DEF Links!db, Links!tab, Links!forms, Links!history
  <2>2. \A k \in Links!Slots : Is(k, {"create"})' => Is(k, {"create"}) /\ sent'[k].body = sent[k].body
    BY <1>2, <1>4, <1>6, <1>10
  <2>3. \A w \in wished' : Described(w) => Described(w)'
    BY <1>14, <2>1, DescribedStep
  <2> QED
    BY <1>7, <1>15, <2>1, <2>2, <2>3, WishesStep DEF LinksInv
<1> QED
  BY <1>7, <1>9, <1>13, <1>16, <1>18 DEF LinksInv, Types

-----------------------------------------------------------------------------
(* Answers *)

\* A draft that is answered is no longer under way.
LEMMA DraftGone ==
  ASSUME DialogsWait, NEW i \in Links!Slots, UNCHANGED saved, crossed => crossed',
         \A k \in Links!Slots : Is(k, {"draft"})' <=> k # i /\ Is(k, {"draft"}),
         \A k \in Links!Slots : k # i /\ Is(k, {"draft"}) => sent'[k] = sent[k]
  PROVE  DialogsWait'
<1>1. \A k \in Links!Slots : Awaited(k)' => Awaited(k) /\ sent'[k] = sent[k]
  BY DEF Awaited, Links!Here, Links!Page
<1> QED
  BY <1>1 DEF DialogsWait

\* No other dialog is closed by it.
LEMMA StillDescribed ==
  ASSUME LinksInv, NEW i \in Links!Slots, Is(i, {"draft"}), ~crossed, UNCHANGED saved,
         \A p \in Links!Place : dialog'[p] = dialog[p] \/ (p = sent[i].place /\ Links!Here(sent[i])),
         \A k \in Links!Slots : k # i /\ Is(k, {"draft"}) => sent'[k] = sent[k],
         NEW w, Described(w), Awaited(i) => w # Links!Wish(sent[i].name, {})
  PROVE  Described(w)'
<1>1. PICK k \in Links!Slots : Awaited(k) /\ dialog[sent[k].place] # None /\ w = Links!Wish(sent[k].name, {})
  BY DEF Described
<1>2. k # i
  BY <1>1
<1>3. sent'[k] = sent[k] /\ Awaited(k)'
  BY <1>1, <1>2 DEF Awaited, Is, Links!Here, Links!Page
<1>4. sent[k].place \in Links!Place /\ ~(sent[k].place = sent[i].place /\ Links!Here(sent[i]))
  BY <1>1, <1>2 DEF LinksInv, DialogsWait, Awaited, Links!Place
<1>5. dialog'[sent[k].place] = dialog[sent[k].place]
  BY <1>4
<1>6. w = Links!Wish(sent[k].name, {})'
  BY <1>1, <1>3, BareWish
<1> QED
  BY <1>1, <1>3, <1>5, <1>6 DEF Described

LEMMA WithoutIs ==
  ASSUME NEW i \in Links!Slots, sent \in [Links!Slots -> Links!Calls \cup {None}]
  PROVE  /\ Links!Without(i) \in [Links!Slots -> Links!Calls \cup {None}]
         /\ \A k \in Links!Slots : Links!Without(i)[k] = IF k = i THEN None ELSE sent[k]
  BY DEF Links!Without

LEMMA AnswerDraftFacts ==
  ASSUME LinksInv, NEW i \in Links!Slots, Links!AnswerDraft(i)
  PROVE  /\ sent[i] # None /\ CallOK(sent[i]) /\ sent[i] \in Links!Calls /\ Is(i, {"draft"})
         /\ sent[i].kind = "draft" /\ sent[i].place \in Links!Place \cup {"orphan"}
         /\ sent[i].state \in {"done", "failed"}
         /\ sent[i].state = "done" =>
              /\ StoredLink(sent[i].link) /\ sent[i].link \in Links!Link /\ sent[i].link.with = {}
              /\ sent[i].link.to \in RecordIds /\ IsThere(sent[i].link.to)
              /\ records[sent[i].link.to].name = sent[i].name
         /\ sent \in [Links!Slots -> Links!Calls \cup {None}]
         /\ UNCHANGED <<Links!db, saved, listed, leaving, refresh>>
         /\ dialog' \in [Links!Place -> Name \cup {None}]
         /\ \A p \in Links!Place : \/ dialog'[p] = dialog[p]
                                   \/ dialog'[p] = None /\ p = sent[i].place /\ Links!Here(sent[i])
                                      /\ sent[i].state = "done"
         /\ dialog'["founder"] = None
<1>1. sent[i] # None /\ sent[i].kind = "draft" /\ sent[i].state # "sent"
  BY DEF Links!AnswerDraft, Links!Answered
<1>2. CallOK(sent[i]) /\ sent[i] \in Links!Calls /\ sent \in [Links!Slots -> Links!Calls \cup {None}]
  BY <1>1 DEF LinksInv, Types, NetOK, CallOK
<1>3. sent[i].place \in Links!Place \cup {"orphan"} /\ sent[i].state \in {"done", "failed"}
  BY <1>1, <1>2, CallFields DEF CallOK
<1>4. sent[i].state = "done" =>
             /\ StoredLink(sent[i].link) /\ sent[i].link \in Links!Link /\ sent[i].link.with = {}
             /\ sent[i].link.to \in RecordIds /\ IsThere(sent[i].link.to)
             /\ records[sent[i].link.to].name = sent[i].name
  BY <1>1, <1>2 DEF CallOK, StoredLink, LinkOK, IsThere
<1>5. UNCHANGED <<Links!db, saved, listed, leaving, refresh>>
  BY DEF Links!AnswerDraft, Links!Told, Links!history
<1>6. dialog \in [Links!Place -> Name \cup {None}]
  BY DEF LinksInv, Types, FormsOK
<1>8. /\ dialog' \in [Links!Place -> Name \cup {None}]
      /\ \A p \in Links!Place : \/ dialog'[p] = dialog[p]
                                \/ dialog'[p] = None /\ p = sent[i].place /\ Links!Here(sent[i])
                                   /\ sent[i].state = "done"
  <2>1. CASE sent[i].state = "done"
    <3>1. dialog' = IF Links!Here(sent[i]) /\ sent[i].place \in Links!Place THEN [dialog EXCEPT ![sent[i].place] = None] ELSE dialog
      BY <2>1 DEF Links!AnswerDraft
    <3>2. CASE Links!Here(sent[i]) /\ sent[i].place \in Links!Place
      BY <1>6, <2>1, <3>1, <3>2
    <3>3. CASE ~(Links!Here(sent[i]) /\ sent[i].place \in Links!Place)
      BY <1>6, <2>1, <3>1, <3>3
    <3> QED
      BY <3>2, <3>3
  <2>2. CASE sent[i].state # "done"
    BY <1>6, <2>2 DEF Links!AnswerDraft
  <2> QED
    BY <2>1, <2>2
<1>9. dialog'["founder"] = None
  BY <1>8 DEF LinksInv, Types, FormsOK, Links!Place
<1> QED
  BY <1>1, <1>2, <1>3, <1>4, <1>5, <1>8, <1>9 DEF Is

\* An answer that clears its call, and sends none.
LEMMA AnswerDraftClears ==
  ASSUME LinksInv, NEW i \in Links!Slots, Links!AnswerDraft(i), sent' = Links!Without(i),
         UNCHANGED <<local, waiting, unwant, crossed>>,
         wished' = wished \/ wished' = wished \ {Links!Wish(sent[i].name, {})},
         sent[i].place \in {"investor", "batch"} => wished' = wished \ {Links!Wish(sent[i].name, {})},
         stint' = stint \/ (stint' # None => IsThere(stint')),
         box' = box \/ box' = [box EXCEPT !["founder"] = Links!Empty],
         round' = round \/ \E k : IsThere(k) /\ Links!Participate(k)
  PROVE  LinksInv'
<1>1. /\ sent[i] # None /\ CallOK(sent[i]) /\ Is(i, {"draft"})
      /\ sent[i].kind = "draft" /\ sent[i].place \in Links!Place \cup {"orphan"}
      /\ sent \in [Links!Slots -> Links!Calls \cup {None}]
      /\ UNCHANGED <<Links!db, saved, listed, leaving, refresh>>
      /\ dialog' \in [Links!Place -> Name \cup {None}]
      /\ dialog'["founder"] = None
      /\ \A p \in Links!Place : \/ dialog'[p] = dialog[p]
                                \/ dialog'[p] = None /\ p = sent[i].place /\ Links!Here(sent[i])
                                   /\ sent[i].state = "done"
  BY AnswerDraftFacts
<1>2. \A k \in Links!Slots : sent'[k] = IF k = i THEN None ELSE sent[k]
  BY <1>1, WithoutIs
<1>3. Grow /\ RecordsOK' /\ TabOK'
  BY <1>1, RecordsSame, TabSame DEF LinksInv, Types, Links!tab
<1>4. NetOK'
  BY <1>1, <1>3, NetClear DEF LinksInv, Types, NetOK
<1>5. \A k : IsThere(k) => IsThere(k)'
  BY <1>3 DEF IsThere, Grow
<1>6. /\ box' \in [Links!Place -> Boxes] /\ \A p \in Links!Place : BoxOK(box[p])'
  <2>1. CASE box' = box
    BY <1>3, <2>1, SameBoxes DEF LinksInv, Types
  <2>2. CASE box' = [box EXCEPT !["founder"] = Links!Empty]
    <3>1. \A q \in Links!Place : box'[q] = IF q = "founder" THEN Links!Empty ELSE box[q]
      BY <1>3, <2>2, EmptyBox, OneBox DEF LinksInv, Types, Links!Place
    <3> QED
      BY <1>3, <2>2, <3>1, EmptyBox, OneBox DEF LinksInv, Types, Links!Place
  <2> QED
    BY <2>1, <2>2
<1>7. /\ round' \in [open : BOOLEAN, with : SUBSET RecordIds, busy : BOOLEAN]
      /\ \A k \in round'.with : IsThere(k)'
  <2>1. round \in [open : BOOLEAN, with : SUBSET RecordIds, busy : BOOLEAN] /\ \A k \in round.with : IsThere(k)
    BY DEF LinksInv, Types, FormsOK
  <2>2. CASE round' = round
    BY <1>5, <2>1, <2>2
  <2>3. CASE \E k : IsThere(k) /\ Links!Participate(k)
    <3>1. PICK k : IsThere(k) /\ Links!Participate(k)
      BY <2>3
    <3>2. k \in RecordIds /\ round' = [round EXCEPT !.with = @ \cup {k}]
      BY <3>1 DEF IsThere, Links!Participate
    <3>3. round' \in [open : BOOLEAN, with : SUBSET RecordIds, busy : BOOLEAN] /\ round'.with = round.with \cup {k}
      BY <2>1, <3>2
    <3> QED
      BY <1>5, <2>1, <3>1, <3>3
  <2> QED
    BY <2>2, <2>3
<1>8. FormsOK'
  <2>1. stint' # None => IsThere(stint)'
    BY <1>5 DEF LinksInv, Types, FormsOK
  <2> QED
    BY <1>1, <1>3, <1>6, <1>7, <2>1, FormsStep DEF LinksInv, Types
<1>9. Same(Chain) /\ Same({"link", "unlink", "round"})
  BY <1>1, <1>2 DEF Same, Is, Chain
<1>10. Pages'
  <2>1. \A k \in Links!Slots : sent'[k] # None => sent[k] # None /\ sent'[k].page = sent[k].page
    BY <1>2
  <2>2. ~saved => unwant' = {}
    BY DEF LinksInv, Pages
  <2>3. ~saved => \A k \in Links!Slots : sent'[k] # None => sent'[k].page = "new"
    BY <2>1 DEF LinksInv, Pages
  <2>4. UNCHANGED <<saved, leaving, startup>>
    BY <1>1 DEF Links!db
  <2> QED
    BY <1>9, <2>2, <2>3, <2>4, PagesStep DEF LinksInv
<1>11. /\ \A k \in Links!Slots : Is(k, {"draft"})' <=> k # i /\ Is(k, {"draft"})
       /\ \A k \in Links!Slots : k # i /\ Is(k, {"draft"}) => sent'[k] = sent[k]
  BY <1>2 DEF Is
<1>12. DialogsWait'
  BY <1>1, <1>11, DraftGone DEF LinksInv
<1>13. Wishes'
  <2>1. UNCHANGED <<links, startup, saved, local>> /\ ChangesStay
    BY <1>1, <1>9, SameChanges DEF Links!db
  <2>2. \A k \in Links!Slots : Is(k, {"create"})' => Is(k, {"create"}) /\ sent'[k].body = sent[k].body
    BY <1>2 DEF Is
  <2>3. ASSUME ~crossed', NEW w \in wished', Described(w)
        PROVE  Described(w)'
    <3>1. ~crossed /\ (Awaited(i) => w # Links!Wish(sent[i].name, {}))
      BY <2>3 DEF Awaited
    <3> QED
      BY <1>1, <1>11, <2>3, <3>1, StillDescribed
  <2> QED
    BY <1>3, <2>1, <2>2, <2>3, WishesStep DEF LinksInv
<1> QED
  BY <1>3, <1>4, <1>8, <1>10, <1>12, <1>13 DEF LinksInv, Types

\* A described draft is linked.
LEMMA AnswerDraftAdds ==
  ASSUME LinksInv, NEW i \in Links!Slots, Links!AnswerDraft(i), sent[i].state = "done",
         sent[i].place \in {"investor", "batch"}
  PROVE  LinksInv'
<1>1. /\ sent[i] # None /\ CallOK(sent[i]) /\ sent[i] \in Links!Calls /\ Is(i, {"draft"})
      /\ sent[i].kind = "draft"
      /\ StoredLink(sent[i].link) /\ sent[i].link \in Links!Link /\ sent[i].link.with = {}
      /\ sent[i].link.to \in RecordIds /\ records[sent[i].link.to].name = sent[i].name
      /\ sent \in [Links!Slots -> Links!Calls \cup {None}]
      /\ UNCHANGED <<Links!db, saved, listed, leaving, refresh>>
      /\ dialog' \in [Links!Place -> Name \cup {None}]
      /\ dialog'["founder"] = None
      /\ \A p \in Links!Place : \/ dialog'[p] = dialog[p]
                                \/ dialog'[p] = None /\ p = sent[i].place /\ Links!Here(sent[i])
                                   /\ sent[i].state = "done"
  BY AnswerDraftFacts
<1>2. /\ Links!Add(Links!Without(i), sent[i].page, sent[i].link) /\ UNCHANGED <<box, stint, round>>
      /\ unwant' = unwant \ {sent[i].link.to}
      /\ crossed' = (crossed \/ Links!Crossed(sent[i].link.to))
      /\ wished' = wished
  BY DEF Links!AnswerDraft
<1>3. PICK cs : cs = Links!Without(i)
  OBVIOUS
<1>4. /\ cs \in [Links!Slots -> Links!Calls \cup {None}]
      /\ \A k \in Links!Slots : cs[k] = IF k = i THEN None ELSE sent[k]
  BY <1>1, <1>3, WithoutIs
<1>5. PICK l : l = sent[i].link
  OBVIOUS
<1>6. PICK at : at = sent[i].page
  OBVIOUS
<1>7. at \in {"new", "saved"} /\ (at = "saved" => saved)
  BY <1>1, <1>6, CallFields DEF LinksInv, Pages, Types, TabOK
<1>8. Links!NameOf(l.to) = sent[i].name
  BY <1>1, <1>5, Distinct DEF Links!NameOf
<1>9. \A k \in Links!Slots : k # i /\ Is(k, {"draft"}) => sent'[k] = sent[k]
  <2> SUFFICES ASSUME NEW k \in Links!Slots, k # i, Is(k, {"draft"})
               PROVE  sent'[k] = sent[k]
    OBVIOUS
  <2>1. k # i /\ Is(k, {"draft"})
    OBVIOUS
  <2>2. sent'[k] = sent[k]
    <3>1. cs[k] = sent[k] /\ cs[k] # None
      BY <1>4, <2>1 DEF Is
    <3>2. \A c, j : cs[j] = None => ([cs EXCEPT ![j] = c])[k] = cs[k]
      BY <1>4, <3>1
    <3>3. CASE at = "new"
      BY <1>2, <1>3, <1>6, <3>1, <3>3 DEF Links!Add
    <3>4. CASE at = "saved"
      <4> DEFINE c == [Links!Call("link") EXCEPT !.page = "saved", !.link = l]
      <4>1. sent' = Links!With(cs, c)
        BY <1>2, <1>3, <1>5, <1>6, <3>4 DEF Links!Add
      <4> HIDE DEF c
      <4>2. cs[i] = None
        BY <1>4
      <4>3. PICK j \in Links!Slots : cs[j] = None /\ \A d : Links!With(cs, d) = [cs EXCEPT ![j] = d]
        BY <4>2, FreeSlot
      <4>4. sent' = [cs EXCEPT ![j] = c]
        BY <4>1, <4>3
      <4> QED
        BY <3>1, <3>2, <4>3, <4>4
    <3> QED
      BY <1>7, <3>3, <3>4
  <2> QED
    BY <2>2
<1>13. ~crossed' => \A w \in wished : Described(w) => Described(w)' \/ (w = Links!Wish(Links!NameOf(l.to), {}) /\ at = Links!Page)
  <2> SUFFICES ASSUME ~crossed', NEW w \in wished, Described(w), ~(w = Links!Wish(Links!NameOf(l.to), {}) /\ at = Links!Page)
               PROVE  Described(w)'
    OBVIOUS
  <2>1. ~crossed /\ (Awaited(i) => w # Links!Wish(sent[i].name, {}))
    BY <1>2, <1>6, <1>8 DEF Awaited, Links!Here
  <2> QED
    BY <1>1, <1>9, <2>1, StillDescribed
<1>10. /\ Grow /\ RecordsOK' /\ TabOK' /\ NetOK' /\ Pages' /\ Wishes'
       /\ \A k \in Links!Slots : cs[k] # None => sent'[k] = cs[k]
       /\ \A k \in Links!Slots : Is(k, {"draft"})' => cs[k] # None /\ sent'[k] = cs[k]
  <2>1. \A k \in Links!Slots : cs[k] = sent[k] \/ (Is(k, {"draft"}) /\ cs[k] = None)
    BY <1>1, <1>4
  <2>2. \E k \in Links!Slots : cs[k] = None
    BY <1>4
  <2>3. l \in Links!Link /\ StoredLink(l) /\ l.with = {}
    BY <1>1, <1>5
  <2>4. Links!Add(cs, at, l)
    BY <1>2, <1>3, <1>5, <1>6
  <2>5. UNCHANGED <<Links!db, saved, listed, leaving, refresh>>
    BY <1>1
  <2>6. /\ unwant' = unwant \ {l.to} /\ crossed' \in BOOLEAN /\ (~crossed' => ~crossed /\ ~Links!Crossed(l.to))
        /\ wished' \subseteq wished \cup {Links!Wish(Links!NameOf(l.to), {})}
        /\ (Links!Wish(Links!NameOf(l.to), {}) \in wished' \ wished /\ ~crossed' => at = Links!Page /\ ~Links!Replacing)
    BY <1>2, <1>5 DEF Links!Crossed
  <2> QED
    BY <1>4, <1>7, <1>13, <2>1, <2>2, <2>3, <2>4, <2>5, <2>6, AddStep
<1>11. FormsOK'
  <2>1. box' \in [Links!Place -> Boxes] /\ \A q \in Links!Place : BoxOK(box[q])'
    BY <1>2, <1>10, SameBoxes DEF LinksInv, Types
  <2>2. stint' # None => IsThere(stint)'
    BY <1>2, <1>10 DEF LinksInv, Types, FormsOK, IsThere, Grow
  <2>3. /\ round' \in [open : BOOLEAN, with : SUBSET RecordIds, busy : BOOLEAN]
        /\ \A k \in round'.with : IsThere(k)'
    BY <1>2, <1>10 DEF LinksInv, Types, FormsOK, IsThere, Grow
  <2> QED
    BY <1>1, <1>10, <2>1, <2>2, <2>3, FormsStep DEF LinksInv, Types
<1>12. DialogsWait'
  <2>1. \A k \in Links!Slots : Is(k, {"draft"})' <=> k # i /\ Is(k, {"draft"})
    BY <1>4, <1>9, <1>10 DEF Is
  <2> QED
    BY <1>1, <1>2, <1>9, <2>1, DraftGone DEF LinksInv
<1> QED
  BY <1>10, <1>11, <1>12 DEF LinksInv, Types

LEMMA AnswerDraftStep ==
  ASSUME LinksInv, NEW i \in Links!Slots, Links!AnswerDraft(i)
  PROVE  LinksInv'
<1>1. /\ sent[i].place \in Links!Place \cup {"orphan"} /\ sent[i].state \in {"done", "failed"}
      /\ sent[i].state = "done" => IsThere(sent[i].link.to)
  BY AnswerDraftFacts
<1>2. CASE sent[i].state # "done"
  <2>1. /\ sent' = Links!Without(i) /\ wished' = wished \ {Links!Wish(sent[i].name, {})}
        /\ UNCHANGED <<unwant, crossed, box, stint, round, local, waiting>>
    BY <1>2 DEF Links!AnswerDraft, Links!Told
  <2> QED
    BY <2>1, AnswerDraftClears
<1>3. CASE sent[i].state = "done" /\ sent[i].place \in {"participant", "orphan"}
  <2>1. /\ IF Links!Here(sent[i]) THEN Links!Participate(sent[i].link.to) ELSE UNCHANGED round
        /\ sent' = Links!Without(i) /\ UNCHANGED <<box, stint, local, waiting, Links!history>>
    BY <1>3 DEF Links!AnswerDraft
  <2>2. round' = round \/ \E k : IsThere(k) /\ Links!Participate(k)
    BY <1>1, <1>3, <2>1
  <2>3. UNCHANGED <<unwant, crossed, wished>>
    BY <2>1 DEF Links!history
  <2> QED
    BY <1>3, <2>1, <2>2, <2>3, AnswerDraftClears
<1>4. CASE sent[i].state = "done" /\ sent[i].place = "founder"
  <2>1. /\ IF Links!Here(sent[i]) THEN stint' = sent[i].link.to /\ box' = [box EXCEPT !["founder"] = Links!Empty]
           ELSE UNCHANGED <<stint, box>>
        /\ sent' = Links!Without(i) /\ UNCHANGED <<round, local, waiting, Links!history>>
    BY <1>4 DEF Links!AnswerDraft
  <2>2. UNCHANGED <<unwant, crossed, wished>>
    BY <2>1 DEF Links!history
  <2>3. stint' = stint \/ (stint' # None => IsThere(stint'))
    BY <1>1, <1>4, <2>1
  <2>4. box' = box \/ box' = [box EXCEPT !["founder"] = Links!Empty]
    BY <2>1
  <2> QED
    BY <1>4, <2>1, <2>2, <2>3, <2>4, AnswerDraftClears
<1>5. CASE sent[i].state = "done" /\ sent[i].place \in {"investor", "batch"}
  BY <1>5, AnswerDraftAdds
<1> QED
  BY <1>1, <1>2, <1>3, <1>4, <1>5 DEF Links!Place

\* A change that is answered is no longer under way.
LEMMA ChangeGone ==
  ASSUME LinksInv, saved, NEW i \in Links!Slots, UNCHANGED <<Links!db, saved, crossed>>,
         \A k \in Links!Slots, kind \in {"link", "unlink", "round"} :
           /\ Is(k, {kind})' <=> k # i /\ Is(k, {kind})
           /\ k # i /\ Is(k, {kind}) => sent'[k] = sent[k],
         wished' \subseteq wished, unwant' \subseteq unwant,
         Is(i, {"link", "round"}) /\ sent[i].state # "done" => \A w \in wished' : ~Says(sent[i].link, w),
         Is(i, {"unlink"}) /\ sent[i].state # "done" => sent[i].link.to \notin unwant',
         \A w \in wished' : Described(w) => Described(w)'
  PROVE  Wishes'
<1> SUFFICES ASSUME ~crossed'
             PROVE  OneChange' /\ (\A w \in wished' : Promise(w)' /\ Along(w)') /\ \A to \in unwant' : Dropped(to)'
  BY DEF Wishes
<1>1. OneChange /\ (\A w \in wished : Promise(w)) /\ \A to \in unwant : Dropped(to)
  BY DEF LinksInv, Wishes
<1>2. saved' /\ links' = links /\ Grow
  BY SameRecords DEF Links!db
<1>3. /\ \A k \in Links!Slots : Is(k, {"link", "unlink"})' => k # i /\ Is(k, {"link", "unlink"}) /\ sent'[k] = sent[k]
      /\ \A k \in Links!Slots : Is(k, {"link", "round"})' <=> k # i /\ Is(k, {"link", "round"})
      /\ \A k \in Links!Slots : k # i /\ Is(k, {"link", "round"}) => sent'[k] = sent[k]
  BY DEF Is
<1>4. OneChange'
  BY <1>1, <1>3 DEF OneChange, Changes
<1>5. \A to : Removing(to)' => Removing(to)
  BY DEF Removing
<1>6. ASSUME NEW w \in wished'
      PROVE  Promise(w)'
  <2>1. Described(w) \/ InLinks(w) \/ OnItsWay(w)
    BY <1>1 DEF Promise
  <2>2. CASE InLinks(w)
    <3>1. \A l \in links : Says(l, w) /\ ~Removing(l.to) => l \in links' /\ ~Removing(l.to)'
      BY <1>2, <1>5
    <3>2. InLinks(w)'
      BY <1>2, <2>2, <3>1, InLinksStep DEF LinksInv, Types
    <3> QED
      BY <1>2, <3>2 DEF Promise
  <2>3. CASE OnItsWay(w)
    <3>1. PICK k \in Links!Slots : Is(k, {"link", "round"}) /\ Says(sent[k].link, w) /\ sent[k].state # "done"
      BY <2>3 DEF OnItsWay
    <3>2. k # i
      BY <3>1
    <3>3. Is(k, {"link", "round"})' /\ sent'[k] = sent[k]
      BY <1>3, <3>1, <3>2
    <3>4. OnItsWay(w)'
      BY <1>2, <3>1, <3>3, SentStep DEF LinksInv, Types
    <3> QED
      BY <1>2, <3>4 DEF Promise
  <2> QED
    BY <2>1, <2>2, <2>3 DEF Promise
<1>7. \A w \in wished' : Along(w)'
  BY <1>2 DEF Along
<1>8. ASSUME NEW to \in unwant'
      PROVE  Dropped(to)'
  <2>1. Dropped(to)
    BY <1>1
  <2>2. \A k \in Links!Slots : ~(Is(k, {"link"})' /\ sent'[k].link.to = to)
    BY <2>1 DEF Dropped
  <2>3. ASSUME NEW l \in links, l.to = to
        PROVE  \E k \in Links!Slots : Is(k, {"unlink"})' /\ sent'[k].link.to = to /\ sent'[k].state # "done"
    <3>1. PICK k \in Links!Slots : Is(k, {"unlink"}) /\ sent[k].link.to = to /\ sent[k].state # "done"
      BY <2>1, <2>3 DEF Dropped
    <3>2. k # i
      BY <3>1
    <3> QED
      BY <3>1, <3>2
  <2> QED
    BY <1>2, <2>2, <2>3 DEF Dropped
<1> QED
  BY <1>4, <1>6, <1>7, <1>8

LEMMA callStep ==
  ASSUME LinksInv, NEW i \in Links!Slots, Links!call(i)
  PROVE  LinksInv'
<1>1. /\ Is(i, {"link", "unlink", "put"}) /\ sent[i] # None /\ sent[i].state # "sent"
      /\ sent[i].kind \in {"link", "unlink", "put"}
      /\ sent' = Links!Without(i) /\ UNCHANGED <<Links!db, saved, local, listed, box, dialog, round, leaving, crossed>>
  BY DEF Links!call, Links!Answered, Is
<1>2. CallOK(sent[i]) /\ sent \in [Links!Slots -> Links!Calls \cup {None}]
  BY <1>1 DEF LinksInv, Types, NetOK
<1>3. sent[i].kind # "put" => StoredLink(sent[i].link) /\ sent[i].link.with = {} /\ saved
  BY <1>1, <1>2 DEF CallOK, LinksInv, Pages
<1>4. \A k \in Links!Slots : sent'[k] = IF k = i THEN None ELSE sent[k]
  BY <1>1, <1>2, WithoutIs
<1>5. waiting' \in BOOLEAN /\ refresh' \in BOOLEAN /\ (stint' = stint \/ stint' = None)
  BY DEF Links!call, LinksInv, Types, TabOK, NetOK
<1>6. /\ wished' \subseteq wished /\ unwant' \subseteq unwant
      /\ sent[i].state # "done" /\ sent[i].kind = "link" => wished' = wished \ {Links!Wish(Links!NameOf(sent[i].link.to), {})}
      /\ sent[i].state # "done" /\ sent[i].kind = "unlink" => unwant' = unwant \ {sent[i].link.to}
  BY DEF Links!call
<1>7. Grow /\ RecordsOK'
  BY <1>1, RecordsSame DEF LinksInv, Types
<1>8. TabOK'
  BY <1>1, <1>5, <1>6, <1>7, LinkStays DEF LinksInv, Types, TabOK, IsThere, Grow
<1>9. NetOK'
  BY <1>1, <1>5, <1>7, NetClear DEF LinksInv, Types, NetOK
<1>10. FormsOK'
  <2>1. box' \in [Links!Place -> Boxes] /\ \A q \in Links!Place : BoxOK(box[q])'
    BY <1>1, <1>7, SameBoxes DEF LinksInv, Types
  <2>2. stint' # None => IsThere(stint)'
    BY <1>5, <1>7 DEF LinksInv, Types, FormsOK, IsThere, Grow
  <2>3. /\ round' \in [open : BOOLEAN, with : SUBSET RecordIds, busy : BOOLEAN]
        /\ \A k \in round'.with : IsThere(k)'
    BY <1>1, <1>7 DEF LinksInv, Types, FormsOK, IsThere, Grow
  <2>4. dialog' \in [Links!Place -> Name \cup {None}] /\ dialog'["founder"] = None
    BY <1>1 DEF LinksInv, Types, FormsOK
  <2> QED
    BY <1>7, <2>1, <2>2, <2>3, <2>4, FormsStep DEF LinksInv, Types
<1>11. Same(Chain) /\ Same({"draft"})
  BY <1>1, <1>4 DEF Same, Is, Chain
<1>12. Pages'
  <2>1. UNCHANGED <<saved, leaving, startup>>
    BY <1>1 DEF Links!db
  <2> QED
    BY <1>4, <1>6, <1>11, <2>1, PagesStep DEF LinksInv, Pages
<1>13. DraftsStay /\ \A k \in Links!Slots : Is(k, {"draft"}) => sent'[k].place = sent[k].place
  BY <1>11, SameDrafts
<1>14. DialogsWait'
  BY <1>1, <1>13, DialogsWaitStep DEF LinksInv
<1>16. Wishes'
  <2>1. \A k \in Links!Slots, kind \in {"link", "unlink", "round"} :
          /\ Is(k, {kind})' <=> k # i /\ Is(k, {kind})
          /\ k # i /\ Is(k, {kind}) => sent'[k] = sent[k]
    BY <1>4 DEF Is
  <2>2. Is(i, {"link", "round"}) /\ sent[i].state # "done" => \A w \in wished' : ~Says(sent[i].link, w)
    BY <1>1, <1>3, <1>6 DEF Says, Is
  <2>3. Is(i, {"unlink"}) /\ sent[i].state # "done" => sent[i].link.to \notin unwant'
    BY <1>1, <1>6 DEF Is
  <2>4. \A w \in wished' : Described(w) => Described(w)'
    BY <1>1, <1>13, DescribedStep
  <2>5. UNCHANGED <<Links!db, saved, local, crossed>>
    BY <1>1
  <2>6. CASE sent[i].kind # "put"
    BY <1>3, <1>6, <2>1, <2>2, <2>3, <2>4, <2>5, <2>6, ChangeGone
  <2>7. CASE sent[i].kind = "put"
    <3>1. ChangesStay
      BY <1>1, <2>1, <2>7 DEF ChangesStay, Is
    <3>2. \A k \in Links!Slots : Is(k, {"create"})' => Is(k, {"create"}) /\ sent'[k].body = sent[k].body
      BY <1>4 DEF Is
    <3> QED
      BY <1>6, <1>7, <2>4, <2>5, <3>1, <3>2, WishesStep DEF LinksInv, Links!db
  <2> QED
    BY <2>6, <2>7
<1> QED
  BY <1>7, <1>8, <1>9, <1>10, <1>12, <1>14, <1>16 DEF LinksInv, Types

LEMMA RoundFacts ==
  ASSUME LinksInv, NEW i \in Links!Slots, Links!AnswerRound(i)
  PROVE  /\ sent[i] # None /\ sent[i].kind = "round" /\ sent[i].state # "sent" /\ CallOK(sent[i])
         /\ Is(i, {"round"}) /\ saved /\ sent[i].link.to = Round
         /\ sent \in [Links!Slots -> Links!Calls \cup {None}]
         /\ waiting' = FALSE /\ UNCHANGED <<Links!db, saved, local, listed, stint, leaving>>
<1>1. /\ sent[i] # None /\ sent[i].kind = "round" /\ sent[i].state # "sent"
      /\ waiting' = FALSE /\ UNCHANGED <<Links!db, saved, local, listed, stint, leaving>>
  BY DEF Links!AnswerRound, Links!Answered
<1>2. CallOK(sent[i]) /\ sent \in [Links!Slots -> Links!Calls \cup {None}]
  BY <1>1 DEF LinksInv, Types, NetOK
<1> QED
  BY <1>1, <1>2 DEF CallOK, LinksInv, Pages, Is

LEMMA RoundDone ==
  ASSUME LinksInv, NEW i \in Links!Slots, Links!AnswerRound(i), sent[i].state = "done"
  PROVE  LinksInv'
<1>1. /\ sent[i] # None /\ sent[i].kind = "round" /\ saved
      /\ sent \in [Links!Slots -> Links!Calls \cup {None}]
      /\ waiting' = FALSE /\ UNCHANGED <<Links!db, saved, local, listed, stint, leaving>>
  BY RoundFacts
<1>2. /\ sent' = [Links!Orphaned EXCEPT ![i] = None]
      /\ Links!closed(FALSE) /\ refresh' = TRUE /\ UNCHANGED Links!history
  BY DEF Links!AnswerRound
<1>3. PICK f : f = Links!Orphaned
  OBVIOUS
<1>4. /\ f \in [Links!Slots -> Links!Calls \cup {None}]
      /\ \A k \in Links!Slots :
           /\ f[k] = None <=> sent[k] = None
           /\ sent[k] # None => CallOK(f[k])
           /\ sent[k] # None /\ sent[k].kind # "draft" => f[k] = sent[k]
           /\ sent[k] # None =>
                /\ f[k].kind = sent[k].kind /\ f[k].name = sent[k].name
                /\ f[k].page = sent[k].page /\ f[k].state = sent[k].state
                /\ f[k].place # "participant"
                /\ \/ f[k].place = sent[k].place
                   \/ sent[k].place = "participant" /\ f[k].place = "orphan"
  BY <1>3, Orphans DEF LinksInv, Types
<1>5. /\ sent' \in [Links!Slots -> Links!Calls \cup {None}]
      /\ \A k \in Links!Slots : sent'[k] = IF k = i THEN None ELSE f[k]
  BY <1>2, <1>3, <1>4
<1>6. Grow /\ RecordsOK' /\ TabOK'
  BY <1>1, <1>2, RecordsSame, LinkStays DEF LinksInv, Types, TabOK, IsThere, Grow, Links!history
<1>7. FormsOK'
  BY <1>1, <1>2, <1>6, ClosedForms DEF LinksInv, Types
<1>8. NetOK'
  <2>1. \A x : CallOK(x) => CallOK(x)'
    BY <1>6, CallStays
  <2>2. \A k \in Links!Slots : sent'[k] # None => CallOK(sent[k])'
    BY <1>4, <1>5, <2>1
  <2> QED
    BY <1>1, <1>2, <1>5, <2>2 DEF LinksInv, Types, NetOK
<1>9. \A k \in Links!Slots : \A kinds : Is(k, kinds)' <=> k # i /\ Is(k, kinds)
  BY <1>4, <1>5 DEF Is
<1>10. Same(Chain)
  BY <1>1, <1>4, <1>5, <1>9 DEF Same, Is, Chain
<1>11. Pages'
  <2>1. UNCHANGED <<saved, leaving, startup>>
    BY <1>1 DEF Links!db
  <2> QED
    BY <1>1, <1>10, <2>1, PagesStep DEF LinksInv
<1>12. DraftsStay /\ \A k \in Links!Slots : Is(k, {"draft"}) => sent'[k].place # "participant"
  <2>1. \A k \in Links!Slots : Is(k, {"draft"}) => k # i /\ sent'[k] = f[k]
    BY <1>1, <1>5 DEF Is
  <2> QED
    <3>1. \A k \in Links!Slots : Is(k, {"draft"})' <=> Is(k, {"draft"})
      BY <1>9, <2>1
    <3>2. ASSUME NEW k \in Links!Slots, Is(k, {"draft"})
          PROVE  /\ sent'[k].name = sent[k].name /\ sent'[k].page = sent[k].page
                 /\ sent'[k].state = sent[k].state /\ sent'[k].place # "participant"
                 /\ \/ sent'[k].place = sent[k].place
                    \/ sent[k].place = "participant" /\ sent'[k].place = "orphan"
      <4>1. sent[k] # None /\ sent'[k] = f[k]
        BY <2>1, <3>2 DEF Is
      <4> QED
        BY <1>4, <4>1
    <3> QED
      BY <3>1, <3>2 DEF DraftsStay
<1>13. DialogsWait'
  BY <1>1, <1>2, <1>12, DialogsWaitStep DEF LinksInv, Links!history
<1>14. Wishes'
  <2>1. \A k \in Links!Slots, kind \in {"link", "unlink", "round"} :
          /\ Is(k, {kind})' <=> k # i /\ Is(k, {kind})
          /\ k # i /\ Is(k, {kind}) => sent'[k] = sent[k]
    BY <1>4, <1>5, <1>9 DEF Is
  <2>2. ~(Is(i, {"unlink"}) /\ sent[i].state # "done") /\ ~(Is(i, {"link", "round"}) /\ sent[i].state # "done")
    BY <1>1 DEF Is
  <2>3. \A p \in {"investor", "batch"} : dialog'[p] = dialog[p]
    <3>1. \A q \in Links!Place : dialog'[q] = IF q = "participant" THEN None ELSE dialog[q]
      BY <1>1, <1>2, <1>6, ClosedForms DEF LinksInv, Types
    <3> QED
      BY <3>1 DEF Links!Place
  <2>4. \A w \in wished' : Described(w) => Described(w)'
    BY <1>1, <1>12, <2>3, DescribedStep DEF Awaited
  <2>5. UNCHANGED <<Links!db, saved, crossed, wished, unwant>>
    BY <1>1, <1>2 DEF Links!history
  <2> QED
    BY <1>1, <2>1, <2>2, <2>4, <2>5, ChangeGone
<1> QED
  BY <1>6, <1>7, <1>8, <1>11, <1>13, <1>14 DEF LinksInv, Types

LEMMA RoundFailed ==
  ASSUME LinksInv, NEW i \in Links!Slots, Links!AnswerRound(i), sent[i].state # "done"
  PROVE  LinksInv'
<1>1. /\ sent[i] # None /\ sent[i].kind = "round" /\ saved /\ sent[i].link.to = Round
      /\ sent \in [Links!Slots -> Links!Calls \cup {None}]
      /\ waiting' = FALSE /\ UNCHANGED <<Links!db, saved, local, listed, stint, leaving>>
  BY RoundFacts
<1>2. /\ sent' = Links!Without(i) /\ round' = [round EXCEPT !.busy = FALSE]
      /\ wished' = wished \ {Links!Wish(Round, sent[i].link.with)}
      /\ UNCHANGED <<unwant, crossed, box, dialog, refresh>>
  BY DEF Links!AnswerRound, Links!Told
<1>3. \A k \in Links!Slots : sent'[k] = IF k = i THEN None ELSE sent[k]
  BY <1>1, <1>2, WithoutIs
<1>4. Grow /\ RecordsOK' /\ TabOK'
  BY <1>1, <1>2, RecordsSame, LinkStays DEF LinksInv, Types, TabOK, IsThere, Grow
<1>5. NetOK'
  BY <1>1, <1>2, <1>4, NetClear DEF LinksInv, Types, NetOK
<1>6. FormsOK'
  <2>1. box' \in [Links!Place -> Boxes] /\ \A q \in Links!Place : BoxOK(box[q])'
    BY <1>2, <1>4, SameBoxes DEF LinksInv, Types
  <2>2. stint' # None => IsThere(stint)'
    BY <1>1, <1>4 DEF LinksInv, Types, FormsOK, IsThere, Grow
  <2>3. round' \in [open : BOOLEAN, with : SUBSET RecordIds, busy : BOOLEAN] /\ round'.with = round.with
    BY <1>2 DEF LinksInv, Types, FormsOK
  <2>4. \A k \in round'.with : IsThere(k)'
    BY <1>4, <2>3 DEF LinksInv, Types, FormsOK, IsThere, Grow
  <2>5. dialog' \in [Links!Place -> Name \cup {None}] /\ dialog'["founder"] = None
    BY <1>2 DEF LinksInv, Types, FormsOK
  <2> QED
    BY <1>4, <2>1, <2>2, <2>3, <2>4, <2>5, FormsStep DEF LinksInv, Types
<1>7. Same(Chain) /\ Same({"draft"})
  BY <1>1, <1>3 DEF Same, Is, Chain
<1>8. Pages'
  <2>1. UNCHANGED <<saved, leaving, startup>>
    BY <1>1 DEF Links!db
  <2> QED
    BY <1>1, <1>7, <2>1, PagesStep DEF LinksInv
<1>9. DraftsStay /\ \A k \in Links!Slots : Is(k, {"draft"}) => sent'[k].place = sent[k].place
  BY <1>7, SameDrafts
<1>10. DialogsWait'
  BY <1>1, <1>2, <1>9, DialogsWaitStep DEF LinksInv
<1>12. Wishes'
  <2>1. \A k \in Links!Slots, kind \in {"link", "unlink", "round"} :
          /\ Is(k, {kind})' <=> k # i /\ Is(k, {kind})
          /\ k # i /\ Is(k, {kind}) => sent'[k] = sent[k]
    BY <1>3 DEF Is
  <2>2. \A w \in wished' : ~Says(sent[i].link, w)
    BY <1>1, <1>2 DEF Says, Links!NameOf
  <2>3. ~Is(i, {"unlink"})
    BY <1>1 DEF Is
  <2>4. \A w \in wished' : Described(w) => Described(w)'
    BY <1>1, <1>2, <1>9, DescribedStep
  <2>5. UNCHANGED <<Links!db, saved, crossed>> /\ wished' \subseteq wished /\ unwant' \subseteq unwant
    BY <1>1, <1>2
  <2> QED
    BY <1>1, <2>1, <2>2, <2>3, <2>4, <2>5, ChangeGone
<1> QED
  BY <1>4, <1>5, <1>6, <1>8, <1>10, <1>12 DEF LinksInv, Types

LEMMA AnswerRoundStep ==
  ASSUME LinksInv, NEW i \in Links!Slots, Links!AnswerRound(i)
  PROVE  LinksInv'
  BY RoundDone, RoundFailed

\* What saving and publishing leave alone.
LEMMA ChainFrame ==
  ASSUME LinksInv, UNCHANGED <<Links!db, Links!tab, Links!forms, Links!history>>, NetOK', Pages',
         Same({"draft"}), Same({"link", "unlink", "round"}),
         \A k \in Links!Slots : Is(k, {"create"})' => Is(k, {"create"}) /\ sent'[k].body = sent[k].body
  PROVE  LinksInv'
<1>1. Grow /\ RecordsOK'
  BY RecordsSame DEF LinksInv, Types
<1>2. UNCHANGED links /\ UNCHANGED startup
  BY DEF Links!db
<1> QED
  BY <1>1, <1>2, ChainStep

\* The next call of a save or a publish.
LEMMA ChainFollows ==
  ASSUME LinksInv, NEW i \in Links!Slots, Created(i), NEW d, CallOK(d), d.kind \in AfterCreate,
         d.page = sent[i].page, sent' = [sent EXCEPT ![i] = d],
         UNCHANGED <<Links!db, Links!tab, Links!forms, leaving, refresh, Links!history>>
  PROVE  LinksInv'
<1>1. sent \in [Links!Slots -> Links!Calls \cup {None}] /\ Is(i, Chain) /\ d # None
  BY Distinct DEF LinksInv, Types, NetOK, Created, CallOK
<1>2. \A k \in Links!Slots : sent'[k] = IF k = i THEN d ELSE sent[k]
  BY <1>1
<1>3. Grow
  BY SameRecords DEF Links!db
<1>4. NetOK'
  BY <1>3, CallStays, NetSet DEF LinksInv, Types, NetOK
<1>5. \A k \in Links!Slots : Is(k, Chain)' <=> Is(k, Chain)
  BY <1>1, <1>2 DEF Is, Chain, AfterCreate
<1>6. Created(i)'
  BY <1>1, <1>2 DEF Created, Is, Chain, AfterCreate
<1>7. Pages'
  <2>1. UNCHANGED <<saved, leaving, startup, unwant>>
    BY DEF Links!tab, Links!db, Links!history
  <2>2. saved => \A k \in Links!Slots : Is(k, Chain)' => sent'[k].kind # "create" /\ sent'[k].page = "saved"
    <3>1. saved => sent[i].page = "saved"
      BY <1>1 DEF LinksInv, Pages
    <3>2. d.kind # "create"
      BY DEF AfterCreate
    <3> QED
      BY <1>2, <1>5, <3>1, <3>2 DEF LinksInv, Pages
  <2>3. ~saved => \A k \in Links!Slots : sent'[k] # None => sent'[k].page = "new"
    BY <1>1, <1>2 DEF LinksInv, Pages, Is
  <2>4. ~saved => startup # None
    BY DEF LinksInv, Pages
  <2> QED
    BY <1>5, <1>6, <2>1, <2>2, <2>3, <2>4 DEF LinksInv, Pages
<1>8. /\ Same({"draft"}) /\ Same({"link", "unlink", "round"})
      /\ \A k \in Links!Slots : Is(k, {"create"})' => Is(k, {"create"}) /\ sent'[k].body = sent[k].body
  BY <1>1, <1>2 DEF Same, Is, Chain, AfterCreate
<1> QED
  BY <1>4, <1>7, <1>8, ChainFrame

\* Its last one: the page is replaced when the startup was created on it.
LEMMA ChainEnds ==
  ASSUME LinksInv, NEW i \in Links!Slots, Is(i, Chain), sent' = Links!Without(i),
         leaving' \in BOOLEAN, refresh' \in BOOLEAN,
         Created(i) /\ sent[i].page = "new" => leaving',
         leaving' => leaving \/ (Created(i) /\ sent[i].page = "new"),
         UNCHANGED <<Links!db, Links!tab, Links!forms, Links!history>>
  PROVE  LinksInv'
<1>1. sent \in [Links!Slots -> Links!Calls \cup {None}] /\ sent[i] # None
  BY DEF LinksInv, Types, NetOK, Is
<1>2. \A k \in Links!Slots : sent'[k] = IF k = i THEN None ELSE sent[k]
  BY <1>1, WithoutIs
<1>3. Grow
  BY SameRecords DEF Links!db
<1>4. NetOK'
  BY <1>3, NetClear DEF LinksInv, Types
<1>5. \A k \in Links!Slots : \A kinds : Is(k, kinds)' <=> k # i /\ Is(k, kinds)
  BY <1>2 DEF Is
<1>6. UNCHANGED <<saved, startup, unwant>>
  BY DEF Links!tab, Links!db, Links!history
<1>7. Pages'
  <2>1. CASE saved
    <3>1. ~leaving /\ sent[i].page = "saved"
      BY <2>1 DEF LinksInv, Pages
    <3>2. \A k \in Links!Slots : Is(k, Chain)' => sent'[k].kind # "create" /\ sent'[k].page = "saved"
      BY <1>2, <1>5, <2>1 DEF LinksInv, Pages
    <3> QED
      BY <1>6, <2>1, <3>1, <3>2 DEF Pages
  <2>2. CASE ~saved
    <3>1. ~leaving /\ sent[i].page = "new" /\ unwant = {} /\ (startup # None <=> Created(i))
      BY <1>1, <2>2 DEF LinksInv, Pages, Created
    <3>2. \A k \in Links!Slots : ~Is(k, Chain)'
      BY <1>5, <2>2 DEF LinksInv, Pages
    <3>3. \A k \in Links!Slots : ~Created(k)'
      BY <3>2 DEF Created
    <3>4. \A k \in Links!Slots : sent'[k] # None => sent'[k].page = "new"
      BY <1>2, <2>2 DEF LinksInv, Pages
    <3> QED
      BY <1>6, <2>2, <3>1, <3>2, <3>3, <3>4 DEF Pages
  <2> QED
    BY <2>1, <2>2
<1>8. /\ Same({"draft"}) /\ Same({"link", "unlink", "round"})
      /\ \A k \in Links!Slots : Is(k, {"create"})' => Is(k, {"create"}) /\ sent'[k].body = sent[k].body
  BY <1>2, <1>5 DEF Same, Is, Chain
<1> QED
  BY <1>4, <1>7, <1>8, ChainFrame

LEMMA FollowedUp ==
  ASSUME LinksInv, NEW i \in Links!Slots, Is(i, Chain), Links!Followed(sent[i])
  PROVE  /\ leaving' \in BOOLEAN /\ refresh' \in BOOLEAN
         /\ sent[i].page = "new" => leaving'
         /\ leaving' => leaving \/ sent[i].page = "new"
  BY DEF Links!Followed, LinksInv, Types, NetOK

LEMMA AnswerCreateStep ==
  ASSUME LinksInv, NEW i \in Links!Slots, Links!AnswerCreate(i)
  PROVE  LinksInv'
<1>1. /\ sent[i] # None /\ sent[i].kind = "create" /\ Is(i, Chain)
      /\ UNCHANGED <<Links!db, Links!tab, Links!forms, Links!history>>
  BY DEF Links!AnswerCreate, Links!Answered, Is, Chain
<1>2. sent[i].page \in {"new", "saved"}
  BY <1>1 DEF LinksInv, Types, NetOK, CallOK
<1>3. Created(i) <=> sent[i].state = "done"
  BY <1>1 DEF Created
<1>4. CASE sent[i].state = "done" /\ sent[i].stay
  <2>1. sent' = [sent EXCEPT ![i] = [Links!Call("publish") EXCEPT !.page = sent[i].page]] /\ UNCHANGED <<leaving, refresh>>
    BY <1>4 DEF Links!AnswerCreate
  <2>2. PICK at \in {"new", "saved"} : at = sent[i].page
    BY <1>2
  <2> DEFINE d == [Links!Call("publish") EXCEPT !.page = at]
  <2>3. CallOK(d) /\ d.kind = "publish" /\ d.page = at
    BY NextCall, Zenon
  <2>4. sent' = [sent EXCEPT ![i] = d]
    BY <2>1, <2>2
  <2> HIDE DEF d
  <2> QED
    BY <1>1, <1>3, <1>4, <2>1, <2>2, <2>3, <2>4, ChainFollows DEF AfterCreate
<1>5. CASE ~(sent[i].state = "done" /\ sent[i].stay)
  <2>1. sent' = Links!Without(i) /\ IF sent[i].state = "done" THEN Links!Followed(sent[i]) ELSE UNCHANGED <<leaving, refresh>>
    BY <1>5 DEF Links!AnswerCreate
  <2>2. /\ leaving' \in BOOLEAN /\ refresh' \in BOOLEAN
        /\ Created(i) /\ sent[i].page = "new" => leaving'
        /\ leaving' => leaving \/ (Created(i) /\ sent[i].page = "new")
    BY <1>1, <1>3, <2>1, FollowedUp DEF LinksInv, Types, NetOK
  <2> QED
    BY <1>1, <2>1, <2>2, ChainEnds
<1> QED
  BY <1>4, <1>5

LEMMA AnswerPublishStep ==
  ASSUME LinksInv, NEW i \in Links!Slots, Links!AnswerPublish(i)
  PROVE  LinksInv'
<1>1. /\ sent[i] # None /\ sent[i].kind = "publish" /\ Is(i, Chain) /\ Created(i)
      /\ UNCHANGED <<Links!db, Links!tab, Links!forms, Links!history>>
  BY DEF Links!AnswerPublish, Links!Answered, Is, Chain, Created
<1>2. sent[i].page \in {"new", "saved"}
  <2>1. CallOK(sent[i])
    BY <1>1 DEF LinksInv, Types, NetOK
  <2> QED
    BY <2>1, CallFields DEF CallOK
<1>3. CASE sent' = [sent EXCEPT ![i] = [Links!Call("read") EXCEPT !.page = sent[i].page]] /\ UNCHANGED <<leaving, refresh>>
  <2>2. PICK at \in {"new", "saved"} : at = sent[i].page
    BY <1>2
  <2> DEFINE d == [Links!Call("read") EXCEPT !.page = at]
  <2>3. CallOK(d) /\ d.kind = "read" /\ d.page = at
    BY NextCall, Zenon
  <2>4. sent' = [sent EXCEPT ![i] = d]
    BY <1>3, <2>2
  <2> HIDE DEF d
  <2> QED
    BY <1>1, <1>3, <2>2, <2>3, <2>4, ChainFollows DEF AfterCreate
<1>4. CASE /\ sent' = Links!Without(i)
           /\ IF sent[i].state = "done" \/ sent[i].page = "new" THEN Links!Followed(sent[i]) ELSE UNCHANGED <<leaving, refresh>>
  <2>2. /\ leaving' \in BOOLEAN /\ refresh' \in BOOLEAN
        /\ Created(i) /\ sent[i].page = "new" => leaving'
        /\ leaving' => leaving \/ (Created(i) /\ sent[i].page = "new")
    BY <1>1, <1>4, FollowedUp DEF LinksInv, Types, NetOK
  <2> QED
    BY <1>1, <1>4, <2>2, ChainEnds
<1> QED
  BY <1>3, <1>4 DEF Links!AnswerPublish

LEMMA AnswerReadStep ==
  ASSUME LinksInv, NEW i \in Links!Slots, Links!AnswerRead(i)
  PROVE  LinksInv'
<1>1. /\ sent[i] # None /\ sent[i].kind = "read" /\ Is(i, Chain) /\ Created(i)
      /\ UNCHANGED <<Links!db, Links!tab, Links!forms, Links!history>>
  BY DEF Links!AnswerRead, Links!Answered, Is, Chain, Created
<1>2. CallOK(sent[i]) /\ sent[i] \in Links!Calls
  BY <1>1 DEF LinksInv, Types, NetOK, CallOK
<1>3. CASE Links!linkedDrafts(sent[i].read) # {}
  <2>1. PICK c : c = sent[i]
    OBVIOUS
  <2>2. PICK todo : todo = Links!linkedDrafts(c.read)
    OBVIOUS
  <2>3. PICK d : d = [c EXCEPT !.kind = "drafts", !.todo = todo, !.state = "sent"]
    OBVIOUS
  <2>4. \A j \in Of(c.read) : j \in RecordIds /\ IsThere(j)
    BY <1>2, <2>1, ReadThere DEF IsThere
  <2>9. todo = {j \in Of(c.read) : records[j].status = "draft"}
    BY <2>2 DEF Links!linkedDrafts, Of
  <2>5. /\ todo \subseteq RecordIds /\ todo # {} /\ \A j \in todo : IsThere(j)
        /\ \A j \in Of(c.read) : j \in todo \/ records[j].status # "draft"
    BY <1>3, <2>1, <2>2, <2>4, <2>9
  <2>6. /\ d \in Links!Calls /\ d.kind = "drafts" /\ d.page = c.page /\ d.name = c.name /\ d.place = c.place
        /\ d.read = c.read /\ d.todo = todo /\ d.state = "sent"
    BY <1>2, <2>1, <2>3, <2>5 DEF Links!Calls
  <2>7. CallOK(d)
    BY <1>1, <1>2, <2>1, <2>5, <2>6 DEF CallOK
  <2>8. sent' = [sent EXCEPT ![i] = d] /\ UNCHANGED <<leaving, refresh>>
    BY <1>3, <2>1, <2>2, <2>3 DEF Links!AnswerRead
  <2> QED
    BY <1>1, <2>1, <2>6, <2>7, <2>8, ChainFollows DEF AfterCreate
<1>4. CASE Links!linkedDrafts(sent[i].read) = {}
  <2>1. sent' = Links!Without(i) /\ Links!Followed(sent[i])
    BY <1>4 DEF Links!AnswerRead
  <2>2. /\ leaving' \in BOOLEAN /\ refresh' \in BOOLEAN
        /\ Created(i) /\ sent[i].page = "new" => leaving'
        /\ leaving' => leaving \/ (Created(i) /\ sent[i].page = "new")
    BY <1>1, <2>1, FollowedUp
  <2> QED
    BY <1>1, <2>1, <2>2, ChainEnds
<1> QED
  BY <1>3, <1>4

LEMMA AnswerDraftsStep ==
  ASSUME LinksInv, NEW i \in Links!Slots, Links!AnswerDrafts(i)
  PROVE  LinksInv'
<1>1. /\ sent[i] # None /\ sent[i].kind = "drafts" /\ sent[i].state # "sent" /\ Is(i, Chain) /\ Created(i)
      /\ UNCHANGED <<Links!db, Links!tab, Links!forms, Links!history>>
  BY DEF Links!AnswerDrafts, Links!Answered, Is, Chain, Created
<1>2. CallOK(sent[i]) /\ sent[i] \in Links!Calls
  BY <1>1 DEF LinksInv, Types, NetOK, CallOK
<1>3. PICK c : c = sent[i]
  OBVIOUS
<1>4. PICK left : left = c.todo \ {CHOOSE d \in c.todo : TRUE}
  OBVIOUS
<1>5. CASE left # {}
  <2>1. PICK d : d = [c EXCEPT !.todo = left, !.state = "sent", !.failed = @ \/ c.state = "failed"]
    OBVIOUS
  <2>2. c.failed \in BOOLEAN /\ c.state \in {"done", "failed"} /\ c.todo \subseteq RecordIds
    BY <1>1, <1>2, <1>3, CallFields
  <2>3. (c.failed \/ c.state = "failed") \in BOOLEAN
    OBVIOUS
  <2>4. /\ d \in Links!Calls /\ d.kind = "drafts" /\ d.page = c.page /\ d.name = c.name /\ d.place = c.place
        /\ d.read = c.read /\ d.todo = left /\ d.state = "sent"
        /\ ~d.failed => ~c.failed /\ c.state = "done"
    BY <1>1, <1>2, <1>3, <1>4, <2>1, <2>2, <2>3 DEF Links!Calls
  <2>5. ~d.failed => \A j \in Of(c.read) : j \in left \/ records[j].status # "draft"
    <3>1. PICK m : m = CHOOSE x \in c.todo : TRUE
      OBVIOUS
    <3>2. /\ ~c.failed => \A j \in Of(c.read) : j \in c.todo \/ records[j].status # "draft"
          /\ c.state = "done" => records[m].status # "draft"
      BY <1>1, <1>2, <1>3, <3>1 DEF CallOK
    <3>3. left = c.todo \ {m}
      BY <1>4, <3>1
    <3> QED
      BY <2>4, <3>2, <3>3
  <2>6. CallOK(d)
    BY <1>1, <1>2, <1>3, <1>4, <1>5, <2>4, <2>5 DEF CallOK
  <2>7. sent' = [sent EXCEPT ![i] = d] /\ UNCHANGED <<leaving, refresh>>
    BY <1>3, <1>4, <1>5, <2>1 DEF Links!AnswerDrafts
  <2> QED
    BY <1>1, <1>3, <2>4, <2>6, <2>7, ChainFollows DEF AfterCreate
<1>6. CASE left = {}
  <2>1. sent' = Links!Without(i) /\ Links!Followed(sent[i])
    BY <1>3, <1>4, <1>6 DEF Links!AnswerDrafts
  <2>2. /\ leaving' \in BOOLEAN /\ refresh' \in BOOLEAN
        /\ Created(i) /\ sent[i].page = "new" => leaving'
        /\ leaving' => leaving \/ (Created(i) /\ sent[i].page = "new")
    BY <1>1, <2>1, FollowedUp
  <2> QED
    BY <1>1, <2>1, <2>2, ChainEnds
<1> QED
  BY <1>5, <1>6

LEMMA ReloadStep ==
  ASSUME LinksInv, Links!Reload
  PROVE  LinksInv'
<1>1. /\ saved /\ listed' = links /\ refresh' = FALSE
      /\ UNCHANGED <<Links!db, saved, local, waiting, Links!forms, sent, leaving, Links!history>>
  BY DEF Links!Reload
<1>2. Grow /\ RecordsOK'
  BY <1>1, RecordsSame DEF LinksInv, Types
<1>3. TabOK'
  BY <1>1, <1>2, LinkStays DEF LinksInv, Types, TabOK, RecordsOK, IsThere, Grow, Links!history
<1>4. FormsOK' /\ NetOK'
  BY <1>1, <1>2, FormsSame, NetCalls DEF LinksInv, Types, NetOK
<1>5. Pages'
  BY <1>1, PagesSame DEF LinksInv, Links!db
<1>6. DraftsStay /\ ChangesStay /\ \A k \in Links!Slots : Is(k, {"create"})' => Is(k, {"create"}) /\ sent'[k].body = sent[k].body
  BY <1>1, SameCalls
<1>7. DialogsWait'
  BY <1>1, <1>6, DialogsWaitStep DEF LinksInv, Links!history
<1>9. Wishes'
  <2>1. UNCHANGED <<links, startup, saved, local, wished, unwant, crossed, dialog>>
    BY <1>1 DEF Links!db, Links!forms, Links!history
  <2>2. \A w \in wished' : Described(w) => Described(w)'
    BY <1>6, <2>1, DescribedStep
  <2> QED
    BY <1>2, <1>6, <2>1, <2>2, WishesStep DEF LinksInv
<1> QED
  BY <1>2, <1>3, <1>4, <1>5, <1>7, <1>9 DEF LinksInv, Types

LEMMA EmptyForms ==
  /\ Links!NoForms.box \in [Links!Place -> Boxes] /\ \A p \in Links!Place : BoxOK(Links!NoForms.box[p]) /\ ~Links!NoForms.box[p].open
  /\ Links!NoForms.dialog \in [Links!Place -> Name \cup {None}] /\ \A p \in Links!Place : Links!NoForms.dialog[p] = None
  /\ Links!NoForms.round \in [open : BOOLEAN, with : SUBSET RecordIds, busy : BOOLEAN] /\ Links!NoForms.round.with = {}
<1>1. \A p \in Links!Place : Links!NoForms.box[p] = Links!Empty
  BY DEF Links!NoForms
<1>2. BoxOK(Links!Empty) /\ Links!Empty \in Boxes /\ ~Links!Empty.open
  BY EmptyBox DEF BoxOK
<1>3. Links!NoForms.box \in [Links!Place -> Boxes]
  BY <1>2 DEF Links!NoForms
<1> QED
  BY <1>1, <1>2, <1>3 DEF Links!NoForms

LEMMA OpenStep ==
  ASSUME LinksInv, Links!Open
  PROVE  LinksInv'
<1>1. /\ leaving /\ saved' = TRUE /\ listed' = links /\ local' = <<>> /\ leaving' = FALSE /\ waiting' = FALSE
      /\ box' = Links!NoForms.box /\ dialog' = Links!NoForms.dialog
      /\ round' = Links!NoForms.round /\ stint' = None
      /\ UNCHANGED <<Links!db, sent, refresh, Links!history>>
  BY DEF Links!Open
<1>2. Grow /\ RecordsOK'
  BY <1>1, RecordsSame DEF LinksInv, Types
<1>3. TabOK'
  <2>1. local' \in Seq(Links!Link) /\ \A k \in DOMAIN local' : LinkOK(local[k])'
    BY <1>1
  <2> QED
    BY <1>1, <1>2, <2>1, LinkStays DEF LinksInv, Types, TabOK, RecordsOK, IsThere, Grow,
       Links!history
<1>4. /\ box' \in [Links!Place -> Boxes] /\ \A p \in Links!Place : ~box'[p].open /\ dialog'[p] = None
      /\ dialog'["founder"] = None
  BY <1>1, EmptyForms DEF Links!Place
<1>5. FormsOK'
  <2>1. \A x : BoxOK(x) => BoxOK(x)'
    BY <1>2, BoxStays
  <2>2. \A p \in Links!Place : BoxOK(box'[p])
    BY <1>1, EmptyForms
  <2>3. \A p \in Links!Place : BoxOK(box[p])'
    BY <2>1, <2>2
  <2> QED
    BY <1>1, <1>2, <1>4, <2>3, EmptyForms, FormsStep DEF LinksInv, Types
<1>6. NetOK'
  BY <1>1, <1>2, NetCalls DEF LinksInv, Types, NetOK
<1>7. ~saved /\ startup # None /\ unwant = {} /\ \A k \in Links!Slots : ~Is(k, Chain) /\ (sent[k] # None => sent[k].page = "new")
  BY <1>1 DEF LinksInv, Pages
<1>8. Pages'
  BY <1>1, <1>7 DEF Pages, Is
<1>10. DialogsWait'
  <2>1. \A k \in Links!Slots : Is(k, {"draft"})' => ~Links!Here(sent[k])'
    BY <1>1, <1>7 DEF Links!Here, Links!Page, Is
  <2> QED
    BY <2>1 DEF DialogsWait, Awaited
<1>12. Wishes'
  <2> SUFFICES ASSUME ~crossed'
               PROVE  OneChange' /\ (\A w \in wished' : Promise(w)' /\ Along(w)') /\ \A to \in unwant' : Dropped(to)'
    BY DEF Wishes
  <2>1. OneChange /\ (\A w \in wished : Along(w)) /\ UNCHANGED <<wished, unwant, links>>
    BY <1>1 DEF LinksInv, Wishes, Links!history, Links!db
  <2>2. OneChange'
    BY <1>1, <2>1 DEF OneChange, Changes, Is
  <2>3. ASSUME NEW w \in wished
        PROVE  Promise(w)' /\ Along(w)'
    <3>1. InLinks(w)
      BY <1>7, <2>1 DEF Along
    <3>2. \A to : Removing(to)' => Removing(to)
      BY <1>1 DEF Removing, Is
    <3>3. InLinks(w)'
      BY <1>2, <2>1, <3>1, <3>2, InLinksStep DEF LinksInv, Types
    <3> QED
      BY <1>1, <3>3 DEF Promise, Along
  <2> QED
    BY <1>7, <2>1, <2>2, <2>3
<1> QED
  BY <1>2, <1>3, <1>5, <1>6, <1>8, <1>10, <1>12 DEF LinksInv, Types

-----------------------------------------------------------------------------
(* The invariant *)

LEMMA InitLinksInv ==
  ASSUME Links!Init
  PROVE  LinksInv
<1> USE DEF Links!Init
<1>2. PICK first : /\ \E status \in {"draft", "archived"} : first = [name |-> First, status |-> status]
                   /\ records = [i \in RecordIds |-> IF i = 1 THEN first ELSE None]
  OBVIOUS
<1>1. first \in Links!Entity /\ first # None /\ first.name = First
  BY <1>2, Distinct DEF Links!Entity
<1>3. /\ records \in [RecordIds -> Links!Entity \cup {None}] /\ IsThere(1) /\ records[1].name = First
      /\ \A i \in RecordIds : records[i] # None => i = 1
  BY <1>1, <1>2, Distinct DEF IsThere
<1>4. StoredLink(Links!LinkTo(1)) /\ Links!LinkTo(1) \in Links!Link
  <2>1. Links!LinkTo(1) \in Links!Link /\ Links!LinkTo(1).to = 1 /\ Links!LinkTo(1).with = {}
    BY LinkTos, Distinct
  <2> QED
    BY <1>3, <2>1, Distinct DEF StoredLink, LinkOK
<1>5. RecordsOK
  BY <1>3, <1>4 DEF RecordsOK
<1>6. TabOK
  <2>1. local \in Seq(Links!Link) /\ \A k \in DOMAIN local : LinkOK(local[k])
    OBVIOUS
  <2>2. listed \subseteq Links!Link /\ \A l \in listed : StoredLink(l)
    BY <1>5 DEF RecordsOK
  <2> QED
    BY <2>1, <2>2 DEF TabOK
<1>7. FormsOK
  BY EmptyForms DEF FormsOK, Links!Place
<1>8. \A i \in Links!Slots : sent[i] = None
  OBVIOUS
<1>9. NetOK
  BY <1>8 DEF NetOK
<1>10. \A i \in Links!Slots : \A kinds : ~Is(i, kinds)
  BY <1>8 DEF Is
<1>11. Pages
  <2>1. ~saved => startup = None
    OBVIOUS
  <2> QED
    BY <1>8, <1>10, <2>1 DEF Pages, Created
<1>13. DialogsWait
  BY <1>10 DEF DialogsWait, Awaited
<1>15. Wishes
  <2>1. OneChange
    BY <1>10 DEF OneChange, Changes
  <2> QED
    BY <2>1 DEF Wishes
<1> QED
  BY <1>5, <1>6, <1>7, <1>9, <1>11, <1>13, <1>15 DEF LinksInv, Types

LEMMA StutterLinksInv ==
  ASSUME LinksInv, UNCHANGED Links!vars
  PROVE  LinksInv'
<1>1. UNCHANGED <<Links!db, Links!tab, Links!forms, Links!net, Links!history>>
  BY DEF Links!vars
<1>2. Grow /\ RecordsOK' /\ TabOK' /\ NetOK' /\ Pages' /\ Wishes'
  BY <1>1, OnlyForms, OnlyFormsWishes DEF Links!forms, Links!history
<1>3. FormsOK'
  BY <1>1, <1>2, FormsSame DEF LinksInv, Types
<1>4. DialogsWait'
  BY <1>1, SameCalls, DialogsWaitStep DEF LinksInv, Links!history, Links!net, Links!tab
<1> QED
  BY <1>2, <1>3, <1>4 DEF LinksInv, Types

LEMMA NextLinksInv ==
  ASSUME LinksInv, [Links!Next]_(Links!vars)
  PROVE  LinksInv'
<1>1. CASE UNCHANGED Links!vars
  BY <1>1, StutterLinksInv
<1>2. ASSUME NEW p \in Links!Place,
             \/ \E n \in Name : Links!Type(p, n)
             \/ Links!Choose(p) \/ Links!Create(p) \/ Links!SubmitDraft(p) \/ Links!CancelDraft(p)
             \/ Links!recordLoader(p) \/ Links!Loaded(p)
      PROVE  LinksInv'
  BY <1>2, TypingStep, ChooseStep, CreateStep, SubmitDraftStep, CancelDraftStep, LoaderStep,
     LoadedStep
<1>3. CASE \/ Links!SubmitStint \/ Links!CancelStint \/ Links!RemoveLink \/ Links!PutIndustries
           \/ Links!OpenRound \/ Links!CloseRound \/ Links!submit
           \/ Links!Publish \/ \E stay \in BOOLEAN : Links!Save(stay)
  BY <1>3, SubmitStintStep, CancelStintStep, RemoveLinkStep, OpenRoundStep, CloseRoundStep,
     PutIndustriesStep, SubmitStep, PublishStep, SaveStep
<1>4. ASSUME NEW i \in Links!Slots,
             \/ Links!Serve(i) \/ Links!Refuse(i)
             \/ Links!AnswerDraft(i) \/ Links!call(i) \/ Links!AnswerRound(i)
             \/ Links!AnswerCreate(i) \/ Links!AnswerPublish(i) \/ Links!AnswerRead(i) \/ Links!AnswerDrafts(i)
      PROVE  LinksInv'
  BY <1>4, ServeStep, RefuseStep, AnswerDraftStep, callStep, AnswerRoundStep, AnswerCreateStep,
     AnswerPublishStep, AnswerReadStep, AnswerDraftsStep
<1>5. CASE Links!Reload \/ Links!Open
  BY <1>5, ReloadStep, OpenStep
<1> QED
  BY <1>1, <1>2, <1>3, <1>4, <1>5 DEF Links!Next, Links!Admin, Links!Browser

\* For any names, ids and calls: every record, link, form and call is of its type, and whatever the
\* links, the forms and the calls under way lead to is a record that is there (useStartupLinks).
THEOREM LinkTypesCorrect == Links!Spec => []Types
<1>1. Links!Init => LinksInv
  BY InitLinksInv
<1>2. LinksInv /\ [Links!Next]_(Links!vars) => LinksInv'
  BY NextLinksInv
<1>3. LinksInv => Types
  BY DEF LinksInv
<1> QED
  BY <1>1, <1>2, <1>3, PTL DEF Links!Spec

LEMMA ChosenKept ==
  ASSUME LinksInv
  PROVE  Links!LinksAsChosen
<1> SUFFICES ASSUME saved, ~refresh, Links!Free = Links!Slots, ~crossed
             PROVE  /\ \A w \in wished : \E l \in links : w = Links!Wish(Links!NameOf(l.to), l.with)
                    /\ \A l \in links : l.to \notin unwant
  BY DEF Links!LinksAsChosen
<1>1. \A i \in Links!Slots : sent[i] = None
  BY DEF Links!Free
<1>2. \A i \in Links!Slots : \A kinds : ~Is(i, kinds)
  BY <1>1 DEF Is
<1>3. ASSUME NEW w \in wished
      PROVE  \E l \in links : w = Links!Wish(Links!NameOf(l.to), l.with)
  <2>1. Promise(w)
    BY DEF LinksInv, Wishes
  <2>2. InLinks(w)
    BY <1>2, <2>1 DEF Promise, Described, Awaited, OnItsWay
  <2> QED
    BY <2>2 DEF InLinks, Says
<1>4. ASSUME NEW l \in links
      PROVE  l.to \notin unwant
  <2>1. \A to \in unwant : Dropped(to)
    BY DEF LinksInv, Wishes
  <2> QED
    BY <1>2, <1>4, <2>1 DEF Dropped
<1> QED
  BY <1>3, <1>4

\* For any number of names, link calls and changes: once all is answered and loaded, a stored startup
\* has every link its admin added and was not told had failed, and none of those they removed,
\* whichever way they went, in the form's create, in calls of their own or as drafts made on the
\* way.  The exceptions are the property's: changes that crossed one another or another page, and a
\* second draft submitted in a dialog whose first was coming.
THEOREM LinksAlwaysKept == Links!Spec => []LinksKept
<1>1. Links!Init => LinksInv
  BY InitLinksInv
<1>2. LinksInv /\ [Links!Next]_(Links!vars) => LinksInv'
  BY NextLinksInv
<1>3. LinksInv => LinksKept
  BY ChosenKept DEF LinksKept
<1> QED
  BY <1>1, <1>2, <1>3, PTL DEF Links!Spec

-----------------------------------------------------------------------------
(* Publishing *)

\* A call that is sent leaves the others alone.
LEMMA SendLeaves ==
  ASSUME NetOK, NEW c, Links!Send(c), NEW i \in Links!Slots, sent[i] # None
  PROVE  sent'[i] # None
  BY Sending

LEMMA AddLeaves ==
  ASSUME NEW cs, cs \in [Links!Slots -> Links!Calls \cup {None}],
         \E k \in Links!Slots : cs[k] = None,
         NEW at, NEW l, Links!Add(cs, at, l), NEW i \in Links!Slots, cs[i] # None
  PROVE  sent'[i] # None
<1>1. CASE at = "new"
  BY <1>1 DEF Links!Add
<1>2. CASE at # "new"
  <2> DEFINE c == [Links!Call("link") EXCEPT !.page = "saved", !.link = l]
  <2>1. sent' = Links!With(cs, c)
    BY <1>2 DEF Links!Add
  <2> HIDE DEF c
  <2>2. PICK j \in Links!Slots : cs[j] = None /\ \A d : Links!With(cs, d) = [cs EXCEPT ![j] = d]
    BY FreeSlot
  <2>3. sent' = [cs EXCEPT ![j] = c]
    BY <2>1, <2>2
  <2> QED
    BY <2>2, <2>3
<1> QED
  BY <1>1, <1>2

\* The last call of a publish is cleared by its own answer only.
LEMMA OnlyItsAnswer ==
  ASSUME LinksInv, Links!Next, NEW i \in Links!Slots, Is(i, {"read", "drafts"}), sent'[i] = None
  PROVE  Links!AnswerRead(i) \/ Links!AnswerDrafts(i)
<1>1. /\ sent[i] # None /\ sent \in [Links!Slots -> Links!Calls \cup {None}] /\ NetOK
      /\ sent[i].kind \in {"read", "drafts"}
  BY DEF LinksInv, Types, NetOK, Is
<1>2. sent' # sent
  BY <1>1
<1>3. \A k \in Links!Slots : sent' = Links!Without(k) => k = i
  BY <1>1, WithoutIs
<1>4. \A k \in Links!Slots : \A d : sent' = [sent EXCEPT ![k] = d] /\ d # None => FALSE
  BY <1>1
<1>5. \A k \in Links!Slots : (Links!Orphaned[k] = None <=> sent[k] = None)
  BY <1>1, Orphans
<1>6. Links!Orphaned \in [Links!Slots -> Links!Calls \cup {None}]
  BY <1>1, Orphans
<1>7. \A c : ~Links!Send(c)
  BY <1>1, SendLeaves
<1>8. \A at, l : Links!Free # {} => ~Links!Add(sent, at, l)
  BY <1>1, AddLeaves DEF Links!Free
<1>9. ASSUME NEW p \in Links!Place,
             \/ \E n \in Name : Links!Type(p, n)
             \/ Links!Choose(p) \/ Links!Create(p) \/ Links!SubmitDraft(p) \/ Links!CancelDraft(p)
             \/ Links!recordLoader(p) \/ Links!Loaded(p)
      PROVE  FALSE
  <2>1. ~(\E n \in Name : Links!Type(p, n)) /\ ~Links!CancelDraft(p) /\ ~Links!recordLoader(p) /\ ~Links!Loaded(p)
    BY <1>2 DEF Links!Type, Links!CancelDraft, Links!recordLoader, Links!Loaded, Links!net
  <2>2. ~Links!Create(p) /\ ~Links!SubmitDraft(p)
    BY <1>2, <1>7 DEF Links!Create, Links!SubmitDraft
  <2>3. ~Links!Choose(p)
    <3>1. SUFFICES ASSUME Links!Choose(p)
                   PROVE  FALSE
      OBVIOUS
    <3>2. CASE p = "participant"
      BY <1>2, <3>1, <3>2 DEF Links!Choose
    <3>3. CASE p = "founder"
      BY <1>2, <3>1, <3>3 DEF Links!Choose
    <3>4. CASE p \notin {"participant", "founder"}
      BY <1>8, <3>1, <3>4 DEF Links!Choose
    <3> QED
      BY <3>2, <3>3, <3>4
  <2> QED
    BY <1>9, <2>1, <2>2, <2>3
<1>10. ~Links!SubmitStint /\ ~Links!CancelStint /\ ~Links!OpenRound /\ ~Links!PutIndustries /\ ~Links!Publish /\ ~\E stay \in BOOLEAN : Links!Save(stay)
  BY <1>2, <1>7, <1>8 DEF Links!SubmitStint, Links!CancelStint, Links!OpenRound, Links!PutIndustries, Links!Publish,
     Links!Save, Links!net
<1>11. ~Links!RemoveLink
  BY <1>2, <1>7 DEF Links!RemoveLink
<1>12. ~Links!CloseRound /\ ~Links!submit
  <2>1. sent' # Links!Orphaned
    BY <1>1, <1>5
  <2> QED
    BY <2>1, <1>7 DEF Links!CloseRound, Links!submit
<1>13. ~Links!Reload /\ ~Links!Open
  BY <1>2 DEF Links!Reload, Links!Open
<1>14. ASSUME NEW k \in Links!Slots, Links!Serve(k) \/ Links!Refuse(k)
       PROVE  FALSE
  <2>1. CASE Links!Serve(k)
    <3>1. PICK d \in Links!Calls : sent' = [sent EXCEPT ![k] = d]
      BY <2>1, ServeFacts
    <3> QED
      BY <1>4, <3>1, Distinct
  <2>2. CASE Links!Refuse(k)
    <3>1. PICK c : c = sent[k]
      OBVIOUS
    <3>2. PICK d : d = [c EXCEPT !.state = "failed"]
      OBVIOUS
    <3>5. c \in Links!Calls
      BY <1>1, <2>2, <3>1 DEF Links!Refuse
    <3>3. d \in Links!Calls
      BY <3>2, <3>5 DEF Links!Calls
    <3>4. sent' = [sent EXCEPT ![k] = d]
      BY <2>2, <3>1, <3>2 DEF Links!Refuse
    <3> QED
      BY <1>4, <3>3, <3>4, Distinct
  <2> QED
    BY <1>14, <2>1, <2>2
<1>15. ASSUME NEW k \in Links!Slots, Links!AnswerDraft(k)
       PROVE  FALSE
  <2>1. k # i
    BY <1>1, <1>15 DEF Links!AnswerDraft, Links!Answered
  <2>2. sent' # Links!Without(k)
    BY <1>3, <2>1
  <2>3. PICK cs : cs = Links!Without(k)
    OBVIOUS
  <2>4. cs \in [Links!Slots -> Links!Calls \cup {None}] /\ cs[i] # None /\ cs[k] = None
    BY <1>1, <2>1, <2>3, WithoutIs
  <2>5. \A at, l : ~Links!Add(cs, at, l)
    BY <2>4, AddLeaves
  <2>6. sent[k].state = "done" /\ sent[k].place \notin {"participant", "orphan", "founder"}
    BY <1>15, <2>2 DEF Links!AnswerDraft
  <2> QED
    BY <1>15, <2>3, <2>5, <2>6 DEF Links!AnswerDraft
<1>16. ASSUME NEW k \in Links!Slots, Links!call(k) \/ Links!AnswerRound(k)
       PROVE  FALSE
  <2>1. k # i
    BY <1>1, <1>16 DEF Links!call, Links!AnswerRound, Links!Answered
  <2>2. sent' # Links!Without(k) /\ sent' # [Links!Orphaned EXCEPT ![k] = None]
    BY <1>1, <1>3, <1>5, <1>6, <2>1
  <2> QED
    BY <1>16, <2>2 DEF Links!call, Links!AnswerRound
<1>17. ASSUME NEW k \in Links!Slots, Links!AnswerCreate(k) \/ Links!AnswerPublish(k)
       PROVE  FALSE
  <2>1. k # i
    BY <1>1, <1>17 DEF Links!AnswerCreate, Links!AnswerPublish, Links!Answered
  <2>2. sent' # Links!Without(k) /\ \A d : sent' # [sent EXCEPT ![k] = d]
    BY <1>1, <1>3, <2>1
  <2> QED
    BY <1>17, <2>2 DEF Links!AnswerCreate, Links!AnswerPublish
<1>18. ASSUME NEW k \in Links!Slots, Links!AnswerRead(k) \/ Links!AnswerDrafts(k)
       PROVE  k = i
  <2>1. sent' = Links!Without(k) \/ \E d : sent' = [sent EXCEPT ![k] = d]
    BY <1>18 DEF Links!AnswerRead, Links!AnswerDrafts
  <2> QED
    BY <1>1, <1>3, <2>1
<1> QED
  BY <1>9, <1>10, <1>11, <1>12, <1>13, <1>14, <1>15, <1>16, <1>17, <1>18
     DEF Links!Next, Links!Admin, Links!Browser

LEMMA PublishedStep ==
  ASSUME LinksInv, Links!Next, NEW i \in Links!Slots,
         sent[i] # None, sent[i].kind \in {"read", "drafts"}, sent'[i] = None,
         ~sent[i].failed, sent[i].state = "done", NEW j \in Of(sent[i].read)
  PROVE  records[j].status # "draft"
<1>1. CallOK(sent[i])
  BY DEF LinksInv, Types, NetOK
<1>3. sent[i] # None /\ sent \in [Links!Slots -> Links!Calls \cup {None}]
  BY DEF LinksInv, Types, NetOK
<1>4. CASE Links!AnswerRead(i)
  <2>1. Links!linkedDrafts(sent[i].read) = {}
    <3>1. SUFFICES ASSUME Links!linkedDrafts(sent[i].read) # {}
                   PROVE  FALSE
      OBVIOUS
    <3>2. PICK c : c = sent[i]
      OBVIOUS
    <3>3. PICK todo : todo = Links!linkedDrafts(c.read)
      OBVIOUS
    <3>4. PICK d : d = [c EXCEPT !.kind = "drafts", !.todo = todo, !.state = "sent"]
      OBVIOUS
    <3>5. todo \subseteq RecordIds
      BY <1>1, <3>2, <3>3, ReadThere DEF Links!linkedDrafts, Of, IsThere
    <3>6. d \in Links!Calls
      BY <1>1, <3>2, <3>4, <3>5 DEF CallOK, Links!Calls
    <3>7. sent' = [sent EXCEPT ![i] = d]
      BY <1>4, <3>1, <3>2, <3>3, <3>4 DEF Links!AnswerRead
    <3> QED
      BY <1>3, <3>6, <3>7, Distinct
  <2> QED
    BY <2>1 DEF Links!linkedDrafts, Of
<1>5. CASE Links!AnswerDrafts(i)
  <2>1. PICK c : c = sent[i]
    OBVIOUS
  <2>2. PICK m : m = CHOOSE d \in c.todo : TRUE
    OBVIOUS
  <2>3. sent[i].kind = "drafts"
    BY <1>5 DEF Links!AnswerDrafts, Links!Answered
  <2>4. records[m].status # "draft" /\ (j \in c.todo \/ records[j].status # "draft")
    BY <1>1, <2>1, <2>2, <2>3 DEF CallOK
  <2>5. c.todo \ {m} = {}
    <3>1. SUFFICES ASSUME c.todo \ {m} # {}
                   PROVE  FALSE
      OBVIOUS
    <3>2. PICK left : left = c.todo \ {m}
      OBVIOUS
    <3>3. PICK d : d = [c EXCEPT !.todo = left, !.state = "sent", !.failed = @ \/ c.state = "failed"]
      OBVIOUS
    <3>4. c \in Links!Calls /\ left \subseteq RecordIds /\ c.failed \in BOOLEAN
      BY <1>1, <2>1, <3>2, CallFields DEF CallOK
    <3>5. (c.failed \/ c.state = "failed") \in BOOLEAN
      OBVIOUS
    <3>6. d \in Links!Calls
      BY <3>3, <3>4, <3>5, ZenonT(60) DEF Links!Calls
    <3>7. sent' = [sent EXCEPT ![i] = d]
      BY <1>5, <2>1, <2>2, <3>1, <3>2, <3>3 DEF Links!AnswerDrafts
    <3> QED
      BY <1>3, <3>6, <3>7, Distinct
  <2> QED
    BY <2>4, <2>5
<1> QED
  BY <1>4, <1>5, OnlyItsAnswer DEF Is

\* However other calls interleave with its own, a publish that ends without counting a failure
\* leaves no record a draft that the startup was linked to when its links were read, nor one that
\* took part in its rounds (publishLinkedDrafts).
THEOREM NoDraftsLeft == Links!Spec => PublishedTogether
<1>1. Links!Init => LinksInv
  BY InitLinksInv
<1>2. LinksInv /\ [Links!Next]_(Links!vars) => LinksInv'
  BY NextLinksInv
<1> DEFINE Together ==
      \A i \in Links!Slots :
        /\ sent[i] # None /\ sent[i].kind \in {"read", "drafts"} /\ sent'[i] = None
        /\ ~sent[i].failed /\ sent[i].state = "done"
        => \A l \in sent[i].read : \A j \in {l.to} \cup l.with : records[j].status # "draft"
<1>3. LinksInv /\ [Links!Next]_(Links!vars) => [Together]_(Links!vars)
  BY PublishedStep DEF Of
<1>4. Links!Spec => [][Together]_(Links!vars)
  BY <1>1, <1>2, <1>3, PTL DEF Links!Spec
<1> QED
  BY <1>4 DEF PublishedTogether, Links!PublishedTogether
=============================================================================
