------------------------- MODULE MediaPipelineProofs -------------------------
(***************************************************************************)
(* Safety of MediaPipeline for any number of records, assets, requests and *)
(* sweeps.  The claims are not inductive as they stand: that a deletion    *)
(* hits no image in use depends on what every request and sweep under way  *)
(* still holds, which the conjuncts below add.                             *)
(***************************************************************************)
EXTENDS MediaPipeline, TLAPS

Uploading(q) == pc[q] = "variants"
Committing(q) == pc[q] = "commit"
HoldsCard(q) == pc[q] \in {"variants", "commit"}
HoldsPrev(q) == pc[q] \in {"render", "commit", "tidy"} /\ prev[q] # NoAsset

\* A row is inserted only once its renditions are all there, and they stay while it does.
RowsComplete ==
    \A a \in Asset : row[a] # "none" =>
        purpose[a] # "unused" /\ blobs[a] = Renditions(purpose[a])

\* A column names only an attached row.
RefsAttached ==
    \A r \in Record, s \in Slot :
        ref[r][s] # NoAsset => row[ref[r][s]] = "attached"

\* Columns hold what they are for: share cards are only ever in `og`, and are of that record.
ColumnsMatch ==
    \A r \in Record, s \in Slot : ref[r][s] # NoAsset =>
        /\ Stored(r)
        /\ s = "og" => purpose[ref[r][s]] = "og" /\ subject[ref[r][s]] = r
        /\ s # "og" => purpose[ref[r][s]] # "og"

\* What a request has stored and not yet inserted belongs to it alone.
CardsHeld ==
    \A q \in Request : HoldsCard(q) =>
        /\ card[q] \in Asset
        /\ row[card[q]] = "none"
        /\ Uploading(q) => purpose[card[q]] \in UploadPurpose
        /\ Committing(q) => /\ purpose[card[q]] = "og"
                            /\ blobs[card[q]] = {OgWidth}
                            /\ subject[card[q]] = rec[q]
        /\ \A p \in Request : HoldsCard(p) /\ p # q => card[p] # card[q]
        /\ \A p \in Request : HoldsPrev(p) => prev[p] # card[q]
        /\ \A g \in Sweeper : card[q] \notin todo[g]

\* The card a refresh is about to replace is a card of the same record.
PrevHeldOK ==
    \A q \in Request :
        /\ pc[q] \in {"load", "render", "commit", "tidy"} => rec[q] \in Record
        /\ pc[q] = "tidy" => prev[q] # NoAsset /\ row[prev[q]] = "none"
        /\ HoldsPrev(q) => purpose[prev[q]] = "og" /\ subject[prev[q]] = rec[q]

\* What a sweep may still delete is in no column.
SweepsHeld ==
    \A g \in Sweeper :
        /\ gpc[g] # "sweep" => cands[g] = {}
        /\ \A a \in cands[g] : PastWindow(a) => ~Referenced(a)
        /\ \A a \in todo[g] : row[a] = "none" /\ purpose[a] # "unused"

IInv ==
    /\ TypeOK
    /\ RefsAttached
    /\ SoleOwner
    /\ RowsComplete
    /\ ColumnsMatch
    /\ CardsHeld
    /\ PrevHeldOK
    /\ SweepsHeld

-----------------------------------------------------------------------------
(* Saving a record: what attachMedia and the write do, column by column. *)

\* A column keeps an asset the record had, or takes a staging asset of its own purpose.
LEMMA WriteRefsColumns ==
    ASSUME TypeOK, NEW r \in Record, NEW new \in NewRefs(r), WriteRefs(r, new)
    PROVE  /\ ref' \in [Record -> [Slot -> Asset \cup {NoAsset}]]
           /\ row' \in [Asset -> {"none", "staging", "attached"}]
           /\ aged' \in [Asset -> BOOLEAN]
           /\ \A x \in Record, s \in Slot :
                 \/ ref'[x][s] = NoAsset
                 \/ \E t \in Slot : ref'[x][s] = ref[x][t] /\ (s = "og" <=> t = "og")
                 \/ /\ x = r /\ s # "og" /\ ref'[x][s] \in Asset
                    /\ row[ref'[x][s]] = "staging" /\ purpose[ref'[x][s]] = s
                    /\ row'[ref'[x][s]] = "attached" /\ ~aged'[ref'[x][s]]
           /\ \A a \in Asset :
                 \/ row'[a] = row[a] /\ aged'[a] = aged[a]
                 \/ row[a] = "staging" /\ row'[a] = "attached" /\ ~aged'[a]
<1> DEFINE attached == {new[s] : s \in Wanted(r, new)}
<1>1. /\ \A s \in Wanted(r, new) : row[new[s]] = "staging" /\ purpose[new[s]] = s
      /\ row' = [a \in Asset |-> IF a \in attached THEN "attached" ELSE row[a]]
      /\ aged' = [a \in Asset |-> aged[a] /\ a \notin attached]
      /\ ref' = [ref EXCEPT ![r] =
                   [s \in Slot |-> IF s \in SlotsOf[r] THEN new[s] ELSE @[s]]]
  BY DEF WriteRefs, Attachable
<1>2. /\ SlotsOf[r] \subseteq Slot /\ "og" \notin SlotsOf[r]
      /\ \A s \in SlotsOf[r] : new[s] \in Asset \cup {NoAsset}
  BY SlotsAssumption DEF NewRefs, Slot, UploadPurpose
<1>3. ref' \in [Record -> [Slot -> Asset \cup {NoAsset}]]
  BY <1>1, <1>2 DEF TypeOK
<1>4. \A x \in Record, s \in Slot :
         ref'[x][s] = IF x = r /\ s \in SlotsOf[r] THEN new[s] ELSE ref[x][s]
  BY <1>1 DEF TypeOK
<1>5. \A a \in Asset :
         \/ row'[a] = row[a] /\ aged'[a] = aged[a]
         \/ row[a] = "staging" /\ row'[a] = "attached" /\ ~aged'[a]
  <2> SUFFICES ASSUME NEW a \in Asset
               PROVE  \/ row'[a] = row[a] /\ aged'[a] = aged[a]
                      \/ row[a] = "staging" /\ row'[a] = "attached" /\ ~aged'[a]
    OBVIOUS
  <2>1. a \in attached => row[a] = "staging"
    BY <1>1
  <2>2. /\ row'[a] = IF a \in attached THEN "attached" ELSE row[a]
        /\ aged'[a] = (aged[a] /\ a \notin attached) /\ aged[a] \in BOOLEAN
    BY <1>1 DEF TypeOK
  <2> HIDE DEF attached
  <2> QED BY <2>1, <2>2
<1>6. ASSUME NEW s \in SlotsOf[r]
      PROVE  \/ new[s] = NoAsset
             \/ \E t \in SlotsOf[r] : new[s] = ref[r][t]
             \/ s \in Wanted(r, new)
  BY DEF Wanted
<1>7. ASSUME NEW s \in Wanted(r, new)
      PROVE  /\ new[s] \in Asset /\ row[new[s]] = "staging" /\ purpose[new[s]] = s
             /\ row'[new[s]] = "attached" /\ ~aged'[new[s]]
  BY <1>1, <1>2 DEF Wanted
<1>8. ASSUME NEW x \in Record, NEW s \in Slot
      PROVE  \/ ref'[x][s] = NoAsset
             \/ \E t \in Slot : ref'[x][s] = ref[x][t] /\ (s = "og" <=> t = "og")
             \/ /\ x = r /\ s # "og" /\ ref'[x][s] \in Asset
                /\ row[ref'[x][s]] = "staging" /\ purpose[ref'[x][s]] = s
                /\ row'[ref'[x][s]] = "attached" /\ ~aged'[ref'[x][s]]
  <2>1. CASE x = r /\ s \in SlotsOf[r]
    BY <1>2, <1>4, <1>6, <1>7, <2>1
  <2>2. CASE ~(x = r /\ s \in SlotsOf[r])
    BY <1>4, <2>2
  <2> QED BY <2>1, <2>2
<1>9. row' \in [Asset -> {"none", "staging", "attached"}] /\ aged' \in [Asset -> BOOLEAN]
  BY <1>1 DEF TypeOK
<1> QED BY <1>3, <1>5, <1>8, <1>9

\* So a save keeps every image attached to one record and out of every sweep's reach.
LEMMA WriteRefsInv ==
    ASSUME IInv, NEW r \in Record, NEW new \in NewRefs(r), WriteRefs(r, new),
           Stored(r)', \A x \in Record : Stored(x) => Stored(x)',
           UNCHANGED <<blobs, purpose, subject, gpc, cands, todo>>
    PROVE  RefsAttached' /\ SoleOwner' /\ RowsComplete' /\ ColumnsMatch' /\ SweepsHeld'
<1> USE DEF IInv
<1>1. /\ \A x \in Record, s \in Slot :
             \/ ref'[x][s] = NoAsset
             \/ \E t \in Slot : ref'[x][s] = ref[x][t] /\ (s = "og" <=> t = "og")
             \/ /\ x = r /\ s # "og" /\ ref'[x][s] \in Asset
                /\ row[ref'[x][s]] = "staging" /\ purpose[ref'[x][s]] = s
                /\ row'[ref'[x][s]] = "attached" /\ ~aged'[ref'[x][s]]
      /\ \A a \in Asset :
             \/ row'[a] = row[a] /\ aged'[a] = aged[a]
             \/ row[a] = "staging" /\ row'[a] = "attached" /\ ~aged'[a]
  BY WriteRefsColumns
<1>2. \A x \in Record, s \in Slot :
         ref[x][s] # NoAsset => ref[x][s] \in Asset /\ row[ref[x][s]] = "attached"
  BY DEF TypeOK, RefsAttached
<1>3. RefsAttached'
  BY <1>1, <1>2 DEF RefsAttached
<1>4. SoleOwner'
  <2> SUFFICES ASSUME NEW x \in Record, NEW y \in Record, NEW s \in Slot, NEW t \in Slot,
                      ref'[x][s] # NoAsset, ref'[x][s] = ref'[y][t]
               PROVE  x = y
    BY DEF SoleOwner
  <2> QED BY <1>1, <1>2 DEF SoleOwner
<1>5. RowsComplete'
  BY <1>1 DEF RowsComplete
<1>6. ColumnsMatch'
  <2> SUFFICES ASSUME NEW x \in Record, NEW s \in Slot, ref'[x][s] # NoAsset
               PROVE  /\ Stored(x)'
                      /\ s = "og" => purpose[ref'[x][s]] = "og" /\ subject[ref'[x][s]] = x
                      /\ s # "og" => purpose[ref'[x][s]] # "og"
    BY DEF ColumnsMatch
  <2> QED BY <1>1 DEF ColumnsMatch
<1>7. SweepsHeld'
  <2> SUFFICES ASSUME NEW g \in Sweeper
               PROVE  /\ gpc[g] # "sweep" => cands[g] = {}
                      /\ \A a \in cands[g] : PastWindow(a)' => ~Referenced(a)'
                      /\ \A a \in todo[g] : row'[a] = "none" /\ purpose[a] # "unused"
    BY DEF SweepsHeld
  <2>1. ASSUME NEW a \in cands[g], PastWindow(a)' PROVE ~Referenced(a)'
    <3>1. a \in Asset
      BY DEF TypeOK
    <3>2. PastWindow(a) /\ ~Referenced(a) /\ row'[a] = row[a] /\ aged'[a]
      BY <1>1, <2>1, <3>1 DEF SweepsHeld, PastWindow
    <3>3. ASSUME NEW x \in Record, NEW s \in Slot, ref'[x][s] = a PROVE FALSE
      BY <1>1, <3>1, <3>2, <3>3, NullAssumption DEF Referenced
    <3> QED BY <3>3 DEF Referenced
  <2>2. \A a \in todo[g] : a \in Asset /\ row[a] = "none" /\ purpose[a] # "unused"
    BY DEF TypeOK, SweepsHeld
  <2> QED BY <1>1, <2>1, <2>2 DEF SweepsHeld
<1> QED BY <1>3, <1>4, <1>5, <1>6, <1>7
-----------------------------------------------------------------------------
(* What a step leaves alone stays as it was. *)

LEMMA ColumnsFrame ==
    ASSUME IInv, UNCHANGED <<blobs, purpose, row, subject, status, ref>>
    PROVE  RefsAttached' /\ SoleOwner' /\ RowsComplete' /\ ColumnsMatch'
BY DEF IInv, RefsAttached, SoleOwner, RowsComplete, ColumnsMatch, Stored

LEMMA SweepsFrame ==
    ASSUME IInv, UNCHANGED <<purpose, row, aged, ref, sweep>>
    PROVE  SweepsHeld'
BY DEF IInv, SweepsHeld, PastWindow, Referenced, sweep

LEMMA RequestsFrame ==
    ASSUME IInv, UNCHANGED <<blobs, purpose, subject, request, sweep>>,
           \A a \in Asset : row[a] = "none" <=> row'[a] = "none"
    PROVE  CardsHeld' /\ PrevHeldOK'
BY DEF IInv, TypeOK, CardsHeld, PrevHeldOK, HoldsCard, HoldsPrev, Uploading, Committing, request, sweep

\* A request that ends gives up what it held, and nothing else.
LEMMA FinishFrame ==
    ASSUME IInv, NEW q \in Request, Finish(q),
           UNCHANGED <<purpose, subject, todo>>,
           \A a \in Asset : row'[a] # row[a] => a = card[q] /\ HoldsCard(q),
           \A a \in Asset : blobs'[a] # blobs[a] => a = prev[q] /\ pc[q] = "tidy"
    PROVE  CardsHeld' /\ PrevHeldOK'
<1>1. ASSUME NEW p \in Request
      PROVE  IF p = q THEN pc'[p] = "idle"
             ELSE /\ pc'[p] = pc[p] /\ rec'[p] = rec[p]
                  /\ prev'[p] = prev[p] /\ card'[p] = card[p]
  BY DEF Finish, IInv, TypeOK
<1>2. CardsHeld'
  BY <1>1, SMTT(60) DEF IInv, TypeOK, CardsHeld, PrevHeldOK, HoldsCard, HoldsPrev, Uploading, Committing
<1>3. PrevHeldOK'
  BY <1>1 DEF IInv, TypeOK, CardsHeld, PrevHeldOK, HoldsCard, HoldsPrev, Uploading, Committing
<1> QED BY <1>2, <1>3

LEMMA FinishType ==
    ASSUME TypeOK, NEW q \in Request, Finish(q)
    PROVE  /\ pc' \in [Request -> PC]
           /\ rec' \in [Request -> Record \cup {NoRecord}]
           /\ prev' \in [Request -> Asset \cup {NoAsset}]
           /\ card' \in [Request -> Asset \cup {NoAsset}]
           /\ seen' \in [Request -> 0..MaxTitle]
BY TitleAssumption DEF TypeOK, Finish, PC

-----------------------------------------------------------------------------
(* Uploads *)

LEMMA BeginUploadStep ==
    ASSUME IInv, NEW q \in Request, BeginUpload(q) PROVE IInv'
<1> USE DEF IInv, records, sweep
<1>0. PICK a \in Asset, p \in UploadPurpose :
        /\ purpose[a] = "unused"
        /\ purpose' = [purpose EXCEPT ![a] = p]
        /\ card' = [card EXCEPT ![q] = a]
        /\ pc[q] = "idle" /\ pc' = [pc EXCEPT ![q] = "variants"]
        /\ UNCHANGED <<blobs, row, aged, subject, shown, records, rec, prev, seen, sweep>>
  BY DEF BeginUpload
<1>a. p \in Slot /\ p # "unused" /\ p # "og" /\ "variants" \in PC
  BY DEF Slot, UploadPurpose, PC
<1>1. TypeOK'
  BY <1>0, <1>a DEF TypeOK
<1>b. row[a] = "none" /\ \A b \in Asset : b # a => purpose'[b] = purpose[b]
  BY <1>0 DEF TypeOK, RowsComplete
<1>c. \A x \in Request : /\ HoldsCard(x) => card[x] # a
                         /\ HoldsPrev(x) => prev[x] # a
  BY <1>0 DEF CardsHeld, PrevHeldOK, Uploading, Committing, HoldsCard, UploadPurpose
<1>d. \A g \in Sweeper : a \notin todo[g]
  BY <1>0 DEF SweepsHeld
<1>2. RefsAttached' /\ SoleOwner' /\ RowsComplete' /\ ColumnsMatch'
  BY <1>0, <1>b DEF TypeOK, RefsAttached, SoleOwner, RowsComplete, ColumnsMatch, Stored
<1>3. CardsHeld'
  <2>1. ASSUME NEW x \in Request, x # q
        PROVE  pc'[x] = pc[x] /\ card'[x] = card[x] /\ prev'[x] = prev[x] /\ rec'[x] = rec[x]
    BY <1>0, <2>1 DEF TypeOK
  <2>2. pc'[q] = "variants" /\ card'[q] = a /\ purpose'[a] = p
    BY <1>0 DEF TypeOK
  <2> SUFFICES ASSUME NEW x \in Request, HoldsCard(x)'
               PROVE  /\ card'[x] \in Asset
                      /\ row'[card'[x]] = "none"
                      /\ Uploading(x)' => purpose'[card'[x]] \in UploadPurpose
                      /\ Committing(x)' => /\ purpose'[card'[x]] = "og"
                                           /\ blobs'[card'[x]] = {OgWidth}
                                           /\ subject'[card'[x]] = rec'[x]
                      /\ \A y \in Request : HoldsCard(y)' /\ y # x => card'[y] # card'[x]
                      /\ \A y \in Request : HoldsPrev(y)' => prev'[y] # card'[x]
                      /\ \A g \in Sweeper : card'[x] \notin todo'[g]
    BY DEF CardsHeld
  <2>3. CASE x = q
    BY <1>0, <1>a, <1>b, <1>c, <1>d, <2>1, <2>2, <2>3
    DEF HoldsCard, HoldsPrev, Uploading, Committing
  <2>4. CASE x # q
    <3>1. HoldsCard(x) /\ card'[x] = card[x] /\ card[x] # a /\ card[x] \in Asset
      BY <1>c, <2>1, <2>4 DEF HoldsCard, CardsHeld
    <3>2. purpose'[card[x]] = purpose[card[x]]
      BY <1>b, <3>1
    <3> QED
      BY <1>0, <2>1, <2>2, <2>4, <3>1, <3>2
      DEF CardsHeld, HoldsCard, HoldsPrev, Uploading, Committing
  <2> QED BY <2>3, <2>4
<1>4. PrevHeldOK'
  BY <1>0, <1>b, <1>c DEF TypeOK, PrevHeldOK, HoldsPrev
<1>5. SweepsHeld'
  BY <1>0, <1>b, <1>d DEF TypeOK, SweepsHeld, PastWindow, Referenced
<1> QED BY <1>1, <1>2, <1>3, <1>4, <1>5

LEMMA PutVariantStep ==
    ASSUME IInv, NEW q \in Request, PutVariant(q) PROVE IInv'
<1> USE DEF IInv, PutVariant, records, request, sweep
<1>1. card[q] \in Asset /\ row[card[q]] = "none"
  BY DEF CardsHeld, HoldsCard
<1>2. \A a \in Asset : row[a] # "none" => blobs'[a] = blobs[a]
  BY <1>1 DEF TypeOK
<1>3. Renditions(purpose[card[q]]) \subseteq Width
  BY DEF Renditions, Width
<1>4. TypeOK'
  BY <1>1, <1>3 DEF TypeOK
<1>5. RefsAttached' /\ SoleOwner' /\ RowsComplete' /\ ColumnsMatch'
  BY <1>2 DEF RefsAttached, SoleOwner, RowsComplete, ColumnsMatch, Stored
<1>6. CardsHeld' /\ PrevHeldOK'
  BY DEF TypeOK, CardsHeld, PrevHeldOK, HoldsCard, HoldsPrev, Uploading, Committing
<1>7. SweepsHeld'
  BY SweepsFrame
<1> QED BY <1>4, <1>5, <1>6, <1>7

LEMMA StoreAssetStep ==
    ASSUME IInv, NEW q \in Request, StoreAsset(q) PROVE IInv'
<1> USE DEF IInv, StoreAsset, records, sweep
<1>1. /\ card[q] \in Asset /\ row[card[q]] = "none" /\ purpose[card[q]] # "unused"
      /\ blobs[card[q]] = Renditions(purpose[card[q]])
      /\ \A g \in Sweeper : card[q] \notin todo[g]
      /\ HoldsCard(q)
  BY DEF CardsHeld, HoldsCard, Uploading, UploadPurpose, Rendered
<1>2. /\ \A a \in Asset : a # card[q] => row'[a] = row[a] /\ aged'[a] = aged[a]
      /\ row'[card[q]] = "staging" /\ ~aged'[card[q]]
  BY <1>1 DEF TypeOK
<1>3. TypeOK'
  BY FinishType DEF TypeOK
<1>4. RefsAttached' /\ SoleOwner' /\ RowsComplete' /\ ColumnsMatch'
  BY <1>1, <1>2 DEF TypeOK, RefsAttached, SoleOwner, RowsComplete, ColumnsMatch, Stored
<1>5. CardsHeld' /\ PrevHeldOK'
  BY <1>1, <1>2, FinishFrame
<1>6. SweepsHeld'
  BY <1>1, <1>2 DEF TypeOK, SweepsHeld, PastWindow, Referenced
<1> QED BY <1>3, <1>4, <1>5, <1>6

-----------------------------------------------------------------------------
(* Records *)

LEMMA CreateStep ==
    ASSUME IInv, NEW q \in Request, NEW r \in Record, Create(q, r) PROVE IInv'
<1> USE DEF IInv
<1>1. PICK new \in NewRefs(r) : WriteRefs(r, new)
  BY DEF Create
<1>2. /\ status' = [status EXCEPT ![r] = "draft"]
      /\ UNCHANGED <<blobs, purpose, subject, shown, title, request, sweep>>
  BY DEF Create
<1>3. Stored(r)' /\ \A x \in Record : Stored(x) => Stored(x)'
  BY <1>2 DEF TypeOK, Stored
<1>4. TypeOK'
  BY <1>1, <1>2, WriteRefsColumns DEF TypeOK, Status, request, sweep
<1>5. RefsAttached' /\ SoleOwner' /\ RowsComplete' /\ ColumnsMatch' /\ SweepsHeld'
  BY <1>1, <1>2, <1>3, WriteRefsInv DEF sweep
<1>6. CardsHeld' /\ PrevHeldOK'
  <2>1. \A a \in Asset : row[a] = "none" <=> row'[a] = "none"
    BY <1>1, WriteRefsColumns
  <2> QED BY <1>2, <2>1, RequestsFrame
<1> QED BY <1>4, <1>5, <1>6

\* Going on to the share card adds one loading request, which holds nothing yet.
LEMMA ThenRefreshInv ==
    ASSUME IInv, NEW q \in Request, NEW r \in Record, NEW now, ThenRefresh(q, r, now),
           pc[q] = "idle",
           UNCHANGED <<blobs, purpose, subject, todo>>,
           \A a \in Asset : row[a] = "none" <=> row'[a] = "none"
    PROVE  /\ CardsHeld' /\ PrevHeldOK'
           /\ pc' \in [Request -> PC] /\ rec' \in [Request -> Record \cup {NoRecord}]
           /\ UNCHANGED <<prev, card, seen>>
<1> USE DEF IInv
<1>1. UNCHANGED <<prev, card, seen>>
  BY DEF ThenRefresh, request
<1>2. /\ pc' \in [Request -> PC] /\ rec' \in [Request -> Record \cup {NoRecord}]
      /\ \A x \in Request : \/ pc'[x] = pc[x] /\ rec'[x] = rec[x]
                            \/ pc'[x] = "load" /\ rec'[x] = r
  BY ZenonT(60) DEF ThenRefresh, request, TypeOK, PC
<1>3. CardsHeld'
  BY <1>1, <1>2 DEF TypeOK, CardsHeld, HoldsCard, HoldsPrev, Uploading, Committing
<1>4. PrevHeldOK'
  BY <1>1, <1>2 DEF TypeOK, PrevHeldOK, HoldsPrev
<1> QED BY <1>1, <1>2, <1>3, <1>4

LEMMA UpdateStep ==
    ASSUME IInv, NEW q \in Request, NEW r \in Record, Update(q, r) PROVE IInv'
<1> USE DEF IInv
<1>1. PICK new \in NewRefs(r) : WriteRefs(r, new)
  BY DEF Update
<1>2. PICK t \in {title[r], title[r] + 1} : t <= MaxTitle /\ title' = [title EXCEPT ![r] = t]
  BY DEF Update
<1>3. /\ pc[q] = "idle" /\ Stored(r)
      /\ ThenRefresh(q, r, status[r])
      /\ UNCHANGED <<blobs, purpose, subject, shown, status, gpc, cands, todo>>
  BY DEF Update, sweep
<1>4. t \in 1..MaxTitle
  BY <1>2, TitleAssumption DEF TypeOK
<1>5. Stored(r)' /\ \A x \in Record : Stored(x) => Stored(x)'
  BY <1>3 DEF Stored
<1>6. RefsAttached' /\ SoleOwner' /\ RowsComplete' /\ ColumnsMatch' /\ SweepsHeld'
  BY <1>1, <1>3, <1>5, WriteRefsInv
<1>7. \A a \in Asset : row[a] = "none" <=> row'[a] = "none"
  BY <1>1, WriteRefsColumns
<1>8. /\ CardsHeld' /\ PrevHeldOK'
      /\ pc' \in [Request -> PC] /\ rec' \in [Request -> Record \cup {NoRecord}]
      /\ UNCHANGED <<prev, card, seen>>
  BY <1>3, <1>7, ThenRefreshInv
<1>9. TypeOK'
  <2>1. title' \in [Record -> 1..MaxTitle]
    BY <1>2, <1>4 DEF TypeOK
  <2>2. /\ ref' \in [Record -> [Slot -> Asset \cup {NoAsset}]]
        /\ row' \in [Asset -> {"none", "staging", "attached"}]
        /\ aged' \in [Asset -> BOOLEAN]
    BY <1>1, WriteRefsColumns
  <2> QED BY <1>3, <1>8, <2>1, <2>2 DEF TypeOK
<1> QED BY <1>6, <1>8, <1>9

LEMMA PublishStep ==
    ASSUME IInv, NEW q \in Request, NEW r \in Record, Publish(q, r) PROVE IInv'
<1> USE DEF IInv
<1>1. /\ pc[q] = "idle"
      /\ status[r] \in {"draft", "withdrawn"}
      /\ status' = [status EXCEPT ![r] = "published"]
      /\ ThenRefresh(q, r, "published")
      /\ UNCHANGED <<blobs, purpose, row, aged, subject, shown, title, ref, gpc, cands, todo>>
  BY DEF Publish, store, sweep
<1>2. /\ CardsHeld' /\ PrevHeldOK'
      /\ pc' \in [Request -> PC] /\ rec' \in [Request -> Record \cup {NoRecord}]
      /\ UNCHANGED <<prev, card, seen>>
  BY <1>1, ThenRefreshInv
<1>3. status' \in [Record -> Status] /\ \A x \in Record : Stored(x) => Stored(x)'
  BY <1>1 DEF TypeOK, Status, Stored
<1>4. TypeOK'
  BY <1>1, <1>2, <1>3 DEF TypeOK
<1>5. RefsAttached' /\ SoleOwner' /\ RowsComplete' /\ ColumnsMatch'
  BY <1>1, <1>3 DEF RefsAttached, SoleOwner, RowsComplete, ColumnsMatch
<1>6. SweepsHeld'
  BY <1>1, SweepsFrame DEF sweep
<1> QED BY <1>2, <1>4, <1>5, <1>6

LEMMA WithdrawStep ==
    ASSUME IInv, NEW r \in Record, Withdraw(r) PROVE IInv'
<1> USE DEF IInv, Withdraw, store, request
<1>1. status' \in [Record -> Status] /\ \A x \in Record : Stored(x) => Stored(x)'
  BY DEF TypeOK, Status, Stored
<1>2. TypeOK'
  BY <1>1 DEF TypeOK, sweep
<1>3. RefsAttached' /\ SoleOwner' /\ RowsComplete' /\ ColumnsMatch'
  BY <1>1 DEF RefsAttached, SoleOwner, RowsComplete, ColumnsMatch
<1>4. SweepsHeld'
  BY SweepsFrame
<1>5. CardsHeld' /\ PrevHeldOK'
  BY RequestsFrame
<1> QED BY <1>2, <1>3, <1>4, <1>5

\* Deleting a record only empties columns.
LEMMA RecordGone ==
    ASSUME IInv, NEW r \in Record, Stored(r),
           status' = [status EXCEPT ![r] = "gone"], ref' = [ref EXCEPT ![r] = NoRefs]
    PROVE  /\ status' \in [Record -> Status] /\ ref' \in [Record -> [Slot -> Asset \cup {NoAsset}]]
           /\ \A x \in Record, s \in Slot :
                 ref'[x][s] # NoAsset => x # r /\ ref'[x][s] = ref[x][s] /\ Stored(x)'
BY DEF IInv, TypeOK, Status, Stored, NoRefs, ColumnsMatch

LEMMA HardDeleteStep ==
    ASSUME IInv, NEW r \in Record, HardDelete(r) PROVE IInv'
<1> USE DEF IInv
<1>1. /\ Stored(r)
      /\ status' = [status EXCEPT ![r] = "gone"] /\ ref' = [ref EXCEPT ![r] = NoRefs]
      /\ UNCHANGED <<blobs, purpose, row, aged, subject, shown, title, request, sweep>>
  BY DEF HardDelete, Stored, store
<1>2. /\ status' \in [Record -> Status] /\ ref' \in [Record -> [Slot -> Asset \cup {NoAsset}]]
      /\ \A x \in Record, s \in Slot :
            ref'[x][s] # NoAsset => x # r /\ ref'[x][s] = ref[x][s] /\ Stored(x)'
  BY <1>1, RecordGone
<1>3. TypeOK'
  BY <1>1, <1>2 DEF TypeOK, request, sweep
<1>4. RefsAttached' /\ SoleOwner' /\ RowsComplete' /\ ColumnsMatch'
  BY <1>1, <1>2 DEF RefsAttached, SoleOwner, RowsComplete, ColumnsMatch
<1>5. SweepsHeld'
  BY <1>1, <1>2, NullAssumption DEF TypeOK, SweepsHeld, PastWindow, Referenced, sweep
<1>6. CardsHeld' /\ PrevHeldOK'
  BY <1>1, RequestsFrame
<1> QED BY <1>3, <1>4, <1>5, <1>6

LEMMA EraseFounderStep ==
    ASSUME IInv, NEW r \in Record, EraseFounder(r) PROVE IInv'
<1> USE DEF IInv
<1> DEFINE released == {ref[r]["photo"], ref[r]["og"]}
<1>1. /\ Stored(r)
      /\ status' = [status EXCEPT ![r] = "gone"] /\ ref' = [ref EXCEPT ![r] = NoRefs]
      /\ row' = [a \in Asset |-> IF a \in released /\ row[a] # "none"
                                 THEN "staging" ELSE row[a]]
      /\ aged' = [a \in Asset |-> aged[a] \/ (a \in released /\ row[a] # "none")]
      /\ UNCHANGED <<blobs, purpose, subject, shown, title, request, sweep>>
  BY DEF EraseFounder
<1>2. /\ status' \in [Record -> Status] /\ ref' \in [Record -> [Slot -> Asset \cup {NoAsset}]]
      /\ \A x \in Record, s \in Slot :
            ref'[x][s] # NoAsset => x # r /\ ref'[x][s] = ref[x][s] /\ Stored(x)'
  BY <1>1, RecordGone
<1>3. TypeOK'
  BY <1>1, <1>2 DEF TypeOK, request, sweep
<1>4. \A a \in Asset : /\ row[a] = "none" <=> row'[a] = "none"
                       /\ a \notin released => row'[a] = row[a] /\ aged'[a] = aged[a]
  BY <1>1 DEF TypeOK
<1>5. "photo" \in Slot /\ "og" \in Slot
  BY DEF Slot, UploadPurpose
<1>6. ASSUME NEW x \in Record, NEW s \in Slot, ref'[x][s] # NoAsset
      PROVE  ref'[x][s] \in Asset /\ ref'[x][s] \notin released
  BY <1>2, <1>5, <1>6 DEF SoleOwner, TypeOK
<1>7. RefsAttached'
  BY <1>2, <1>4, <1>6 DEF RefsAttached
<1>8. SoleOwner' /\ RowsComplete' /\ ColumnsMatch'
  BY <1>1, <1>2, <1>4 DEF SoleOwner, RowsComplete, ColumnsMatch
<1>9. SweepsHeld'
  <2> SUFFICES ASSUME NEW g \in Sweeper
               PROVE  /\ gpc[g] # "sweep" => cands[g] = {}
                      /\ \A a \in cands[g] : PastWindow(a)' => ~Referenced(a)'
                      /\ \A a \in todo[g] : row'[a] = "none" /\ purpose[a] # "unused"
    BY <1>1 DEF SweepsHeld, sweep
  <2>1. ASSUME NEW a \in cands[g], PastWindow(a)', Referenced(a)' PROVE FALSE
    <3>1. a \in Asset
      BY DEF TypeOK
    <3>2. PICK x \in Record, s \in Slot : ref'[x][s] = a
      BY <2>1 DEF Referenced
    <3>3. a \notin released /\ ref[x][s] = a
      BY <1>2, <1>6, <3>1, <3>2, NullAssumption
    <3> QED BY <1>4, <2>1, <3>1, <3>3 DEF SweepsHeld, PastWindow, Referenced
  <2> QED BY <1>4, <2>1 DEF SweepsHeld, TypeOK
<1>10. CardsHeld' /\ PrevHeldOK'
  BY <1>1, <1>4, RequestsFrame
<1> QED BY <1>3, <1>7, <1>8, <1>9, <1>10

-----------------------------------------------------------------------------
(* Share cards *)

LEMMA LoadSubjectStep ==
    ASSUME IInv, NEW q \in Request, LoadSubject(q) PROVE IInv'
<1> USE DEF IInv
<1>1. /\ pc[q] = "load"
      /\ UNCHANGED <<blobs, purpose, row, aged, subject, shown, status, title, ref,
                     gpc, cands, todo>>
  BY DEF LoadSubject, store, records, sweep
<1>2. RefsAttached' /\ SoleOwner' /\ RowsComplete' /\ ColumnsMatch' /\ SweepsHeld'
  BY <1>1, ColumnsFrame, SweepsFrame DEF sweep
<1>3. CASE ~Stored(rec[q])
  <2>1. Finish(q)
    BY <1>3 DEF LoadSubject
  <2>2. TypeOK'
    BY <1>1, <2>1, FinishType DEF TypeOK
  <2>3. CardsHeld' /\ PrevHeldOK'
    BY <1>1, <2>1, FinishFrame
  <2> QED BY <1>2, <2>2, <2>3
<1>4. CASE Stored(rec[q])
  <2> DEFINE old == ref[rec[q]]["og"]
  <2>1. /\ prev' = [prev EXCEPT ![q] = old]
        /\ seen' = [seen EXCEPT ![q] = title[rec[q]]]
        /\ pc' = [pc EXCEPT ![q] = "render"]
        /\ UNCHANGED <<rec, card>>
    BY <1>4 DEF LoadSubject
  <2>2. rec[q] \in Record /\ "og" \in Slot
    BY <1>1 DEF PrevHeldOK, Slot
  <2>3. /\ old \in Asset \cup {NoAsset}
        /\ old # NoAsset => purpose[old] = "og" /\ subject[old] = rec[q] /\ row[old] = "attached"
    BY <2>2 DEF TypeOK, ColumnsMatch, RefsAttached
  <2>4. title[rec[q]] \in 0..MaxTitle /\ "render" \in PC
    BY <2>2, TitleAssumption DEF TypeOK, PC
  <2> HIDE DEF old
  <2>5. TypeOK'
    BY <1>1, <2>1, <2>3, <2>4 DEF TypeOK
  <2>6. /\ pc'[q] = "render" /\ prev'[q] = old
        /\ \A x \in Request : x # q => pc'[x] = pc[x] /\ prev'[x] = prev[x]
    BY <2>1 DEF TypeOK
  <2>7. CardsHeld'
    BY <1>1, <2>1, <2>3, <2>6 DEF CardsHeld, HoldsCard, HoldsPrev, Uploading, Committing
  <2>8. PrevHeldOK'
    BY <1>1, <2>1, <2>2, <2>3, <2>6 DEF PrevHeldOK, HoldsPrev
  <2> QED BY <1>2, <2>5, <2>7, <2>8
<1> QED BY <1>3, <1>4

LEMMA RenderCardStep ==
    ASSUME IInv, NEW q \in Request, RenderCard(q) PROVE IInv'
<1> USE DEF IInv
<1>1. PICK a \in Asset :
        /\ purpose[a] = "unused"
        /\ purpose' = [purpose EXCEPT ![a] = "og"]
        /\ blobs' = [blobs EXCEPT ![a] = {OgWidth}]
        /\ subject' = [subject EXCEPT ![a] = rec[q]]
        /\ shown' = [shown EXCEPT ![a] = seen[q]]
        /\ card' = [card EXCEPT ![q] = a]
  BY DEF RenderCard
<1>2. /\ pc[q] = "render" /\ pc' = [pc EXCEPT ![q] = "commit"]
      /\ UNCHANGED <<row, aged, status, title, ref, rec, prev, seen, gpc, cands, todo>>
  BY DEF RenderCard, records, sweep
<1>3. "og" \in Slot /\ "commit" \in PC /\ OgWidth \in Width /\ rec[q] \in Record
  BY <1>2 DEF Slot, PC, Width, PrevHeldOK
<1>4. TypeOK'
  BY <1>1, <1>2, <1>3 DEF TypeOK
<1>5. /\ row[a] = "none"
      /\ purpose'[a] = "og" /\ blobs'[a] = {OgWidth} /\ subject'[a] = rec[q]
      /\ \A b \in Asset : b # a => /\ purpose'[b] = purpose[b] /\ blobs'[b] = blobs[b]
                                   /\ subject'[b] = subject[b]
  BY <1>1 DEF TypeOK, RowsComplete
<1>6. \A x \in Request : /\ HoldsCard(x) => card[x] # a
                         /\ HoldsPrev(x) => prev[x] # a
  BY <1>1 DEF CardsHeld, PrevHeldOK, Uploading, Committing, HoldsCard, UploadPurpose
<1>7. \A g \in Sweeper : a \notin todo[g]
  BY <1>1 DEF SweepsHeld
<1>8. /\ pc'[q] = "commit" /\ card'[q] = a
      /\ \A x \in Request : x # q => pc'[x] = pc[x] /\ card'[x] = card[x]
  BY <1>1, <1>2 DEF TypeOK
<1>9. RefsAttached' /\ SoleOwner'
  BY <1>2 DEF RefsAttached, SoleOwner
<1>10. RowsComplete'
  <2> SUFFICES ASSUME NEW b \in Asset, row[b] # "none"
               PROVE  purpose'[b] # "unused" /\ blobs'[b] = Renditions(purpose'[b])
    BY <1>2 DEF RowsComplete
  <2> QED BY <1>5 DEF RowsComplete
<1>11. ColumnsMatch'
  <2> SUFFICES ASSUME NEW x \in Record, NEW s \in Slot, ref[x][s] # NoAsset
               PROVE  /\ Stored(x)'
                      /\ s = "og" => purpose'[ref[x][s]] = "og" /\ subject'[ref[x][s]] = x
                      /\ s # "og" => purpose'[ref[x][s]] # "og"
    BY <1>2 DEF ColumnsMatch
  <2>1. ref[x][s] \in Asset /\ ref[x][s] # a
    BY <1>5 DEF TypeOK, RefsAttached
  <2> QED BY <1>2, <1>5, <2>1 DEF ColumnsMatch, Stored
<1>12. CardsHeld'
  <2> SUFFICES ASSUME NEW x \in Request, HoldsCard(x)'
               PROVE  /\ card'[x] \in Asset
                      /\ row'[card'[x]] = "none"
                      /\ Uploading(x)' => purpose'[card'[x]] \in UploadPurpose
                      /\ Committing(x)' => /\ purpose'[card'[x]] = "og"
                                           /\ blobs'[card'[x]] = {OgWidth}
                                           /\ subject'[card'[x]] = rec'[x]
                      /\ \A y \in Request : HoldsCard(y)' /\ y # x => card'[y] # card'[x]
                      /\ \A y \in Request : HoldsPrev(y)' => prev'[y] # card'[x]
                      /\ \A g \in Sweeper : card'[x] \notin todo'[g]
    BY DEF CardsHeld
  <2>1. CASE x = q
    BY <1>2, <1>5, <1>6, <1>7, <1>8, <2>1 DEF HoldsCard, HoldsPrev, Uploading, Committing
  <2>2. CASE x # q
    <3>1. HoldsCard(x) /\ card'[x] = card[x] /\ card[x] # a /\ card[x] \in Asset
      BY <1>6, <1>8, <2>2 DEF HoldsCard, CardsHeld
    <3> QED
      BY <1>2, <1>5, <1>8, <2>2, <3>1
      DEF CardsHeld, HoldsCard, HoldsPrev, Uploading, Committing
  <2> QED BY <2>1, <2>2
<1>13. PrevHeldOK'
  BY <1>2, <1>5, <1>6, <1>8 DEF TypeOK, PrevHeldOK, HoldsPrev
<1>14. SweepsHeld'
  BY <1>2, <1>5, <1>7 DEF TypeOK, SweepsHeld, PastWindow, Referenced
<1> QED BY <1>4, <1>9, <1>10, <1>11, <1>12, <1>13, <1>14

\* The one column a refresh changes is the record's own: what it deletes is nobody else's.
LEMMA CommitCardColumns ==
    ASSUME IInv, NEW q \in Request, CommitCard(q)
    PROVE  /\ ref' \in [Record -> [Slot -> Asset \cup {NoAsset}]]
           /\ \A x \in Record, s \in Slot :
                 ref'[x][s] = IF x = rec[q] /\ s = "og" /\ Stored(x) THEN card[q] ELSE ref[x][s]
<1> USE DEF IInv
<1>1. /\ pc[q] = "commit" /\ rec[q] \in Record /\ "og" \in Slot
      /\ card[q] \in Asset /\ row[card[q]] = "none"
  BY DEF CommitCard, PrevHeldOK, CardsHeld, HoldsCard, Slot
<1>2. /\ PointAtCard(q) \in [Record -> [Slot -> Asset \cup {NoAsset}]]
      /\ \A x \in Record, s \in Slot :
            PointAtCard(q)[x][s] =
              IF x = rec[q] /\ s = "og" /\ Stored(x) THEN card[q] ELSE ref[x][s]
  BY <1>1 DEF PointAtCard, TypeOK
<1>3. ref' = [x \in Record |-> [s \in Slot |->
                IF PointAtCard(q)[x][s] \in Replaced(q) THEN NoAsset ELSE PointAtCard(q)[x][s]]]
  BY DEF CommitCard, SetNull
<1>4. ASSUME NEW x \in Record, NEW s \in Slot
      PROVE  PointAtCard(q)[x][s] \notin Replaced(q)
  <2> SUFFICES ASSUME PointAtCard(q)[x][s] \in Replaced(q) PROVE FALSE
    OBVIOUS
  <2> DEFINE a == PointAtCard(q)[x][s]
  <2>1. a = prev[q] /\ a # NoAsset /\ row[a] # "none"
    BY DEF Replaced
  <2>2. a # card[q] /\ a = ref[x][s] /\ ~(x = rec[q] /\ s = "og" /\ Stored(x))
    BY <1>1, <1>2, <2>1
  <2>3. purpose[a] = "og" /\ subject[a] = rec[q]
    BY <1>1, <2>1 DEF PrevHeldOK, HoldsPrev
  <2> QED BY <2>1, <2>2, <2>3 DEF ColumnsMatch
<1> QED BY <1>2, <1>3, <1>4

LEMMA CommitCardStep ==
    ASSUME IInv, NEW q \in Request, CommitCard(q) PROVE IInv'
<1> USE DEF IInv
<1> DEFINE new == card[q]
<1>1. /\ pc[q] = "commit" /\ rec[q] \in Record /\ "og" \in Slot
      /\ new \in Asset /\ row[new] = "none" /\ purpose[new] = "og"
      /\ blobs[new] = {OgWidth} /\ subject[new] = rec[q]
      /\ \A p \in Request : HoldsCard(p) /\ p # q => card[p] # new
      /\ \A p \in Request : HoldsPrev(p) => prev[p] # new
      /\ \A g \in Sweeper : new \notin todo[g]
  BY DEF CommitCard, PrevHeldOK, CardsHeld, HoldsCard, Committing, Slot
<1>2. /\ ref' \in [Record -> [Slot -> Asset \cup {NoAsset}]]
      /\ \A x \in Record, s \in Slot :
            ref'[x][s] = IF x = rec[q] /\ s = "og" /\ Stored(x) THEN new ELSE ref[x][s]
  BY CommitCardColumns
<1>3. /\ row' \in [Asset -> {"none", "staging", "attached"}]
      /\ aged' \in [Asset -> BOOLEAN]
      /\ row'[new] = "attached" /\ ~aged'[new]
      /\ \A a \in Asset : a # new =>
            IF a \in Replaced(q) THEN row'[a] = "none" /\ ~aged'[a]
                                 ELSE row'[a] = row[a] /\ aged'[a] = aged[a]
      /\ UNCHANGED <<blobs, purpose, subject, shown, status, title, gpc, cands, todo>>
  <2>1. /\ row' = [a \in Asset |-> IF a = new THEN "attached"
                                   ELSE IF a \in Replaced(q) THEN "none" ELSE row[a]]
        /\ aged' = [a \in Asset |-> aged[a] /\ a # new /\ a \notin Replaced(q)]
        /\ UNCHANGED <<blobs, purpose, subject, shown, status, title, gpc, cands, todo>>
    BY DEF CommitCard, sweep
  <2> HIDE DEF new
  <2>2. aged' \in [Asset -> BOOLEAN]
    BY <2>1 DEF TypeOK
  <2>3. row' \in [Asset -> {"none", "staging", "attached"}]
    BY <2>1 DEF TypeOK
  <2>4. row'[new] = "attached" /\ ~aged'[new]
    <3>1. row'[new] = "attached"
      BY <1>1, <2>1
    <3>2. aged'[new] = (aged[new] /\ new # new /\ new \notin Replaced(q))
      BY <1>1, <2>1
    <3> QED BY <3>1, <3>2
  <2>5. ASSUME NEW a \in Asset, a # new
        PROVE  IF a \in Replaced(q) THEN row'[a] = "none" /\ ~aged'[a]
                                    ELSE row'[a] = row[a] /\ aged'[a] = aged[a]
    <3>1. aged[a] \in BOOLEAN
      BY DEF TypeOK
    <3> QED BY <2>1, <2>5, <3>1
  <2> QED BY <2>1, <2>2, <2>3, <2>4, <2>5
<1>4. /\ \A a \in Replaced(q) : a = prev[q] /\ a # NoAsset /\ a # new /\ row[a] # "none"
      /\ \A x \in Record, s \in Slot : ref'[x][s] \notin Replaced(q)
  <2>1. \A a \in Replaced(q) : a = prev[q] /\ a # NoAsset /\ row[a] # "none"
    BY DEF Replaced
  <2>2. \A a \in Replaced(q) : purpose[a] = "og" /\ subject[a] = rec[q]
    BY <1>1, <2>1 DEF PrevHeldOK, HoldsPrev
  <2>3. \A a \in Replaced(q) : a # new
    BY <1>1, <2>1
  <2> QED BY <1>2, <2>1, <2>2, <2>3 DEF ColumnsMatch
<1>5. \/ Finish(q)
      \/ /\ Replaced(q) # {}
         /\ pc' = [pc EXCEPT ![q] = "tidy"]
         /\ UNCHANGED <<rec, prev, card, seen>>
  BY DEF CommitCard
<1>6. TypeOK'
  BY <1>2, <1>3, <1>5, FinishType DEF TypeOK, PC
<1>7. RefsAttached'
  <2> SUFFICES ASSUME NEW x \in Record, NEW s \in Slot, ref'[x][s] # NoAsset
               PROVE  row'[ref'[x][s]] = "attached"
    BY DEF RefsAttached
  <2>1. CASE ref'[x][s] = new
    BY <1>3, <2>1
  <2>2. CASE ref'[x][s] # new
    <3>1. ref'[x][s] = ref[x][s] /\ ref[x][s] \in Asset /\ row[ref[x][s]] = "attached"
      BY <1>2, <2>2 DEF TypeOK, RefsAttached
    <3> QED BY <1>3, <1>4, <2>2, <3>1
  <2> QED BY <2>1, <2>2
<1>8. SoleOwner'
  <2> SUFFICES ASSUME NEW x \in Record, NEW y \in Record, NEW s \in Slot, NEW t \in Slot,
                      ref'[x][s] # NoAsset, ref'[x][s] = ref'[y][t]
               PROVE  x = y
    BY DEF SoleOwner
  <2>1. ref[x][s] # new /\ ref[y][t] # new
    BY <1>1, NullAssumption DEF RefsAttached
  <2> QED BY <1>2, <2>1 DEF SoleOwner
<1>9. RowsComplete'
  BY <1>1, <1>3 DEF RowsComplete, Renditions
<1>10. ColumnsMatch'
  BY <1>1, <1>2, <1>3 DEF ColumnsMatch, Stored
<1>11. CardsHeld' /\ PrevHeldOK'
  <2>1. /\ \A x \in Request : x # q => /\ pc'[x] = pc[x] /\ rec'[x] = rec[x]
                                       /\ prev'[x] = prev[x] /\ card'[x] = card[x]
        /\ \/ pc'[q] = "idle"
           \/ /\ pc'[q] = "tidy" /\ prev'[q] = prev[q] /\ rec'[q] = rec[q]
              /\ Replaced(q) # {}
    BY <1>5 DEF Finish, TypeOK
  <2>2. CardsHeld'
    <3> SUFFICES ASSUME NEW x \in Request, HoldsCard(x)'
                 PROVE  /\ card'[x] \in Asset
                        /\ row'[card'[x]] = "none"
                        /\ Uploading(x)' => purpose'[card'[x]] \in UploadPurpose
                        /\ Committing(x)' => /\ purpose'[card'[x]] = "og"
                                             /\ blobs'[card'[x]] = {OgWidth}
                                             /\ subject'[card'[x]] = rec'[x]
                        /\ \A y \in Request : HoldsCard(y)' /\ y # x => card'[y] # card'[x]
                        /\ \A y \in Request : HoldsPrev(y)' => prev'[y] # card'[x]
                        /\ \A g \in Sweeper : card'[x] \notin todo'[g]
      BY DEF CardsHeld
    <3>1. x # q /\ HoldsCard(x) /\ card'[x] = card[x] /\ card[x] \in Asset /\ card[x] # new
      BY <1>1, <2>1 DEF HoldsCard, CardsHeld
    <3>2. row'[card[x]] = "none"
      BY <1>3, <3>1 DEF CardsHeld
    <3>3. \A y \in Request : HoldsPrev(y)' => HoldsPrev(y) /\ prev'[y] = prev[y]
      BY <1>1, <2>1 DEF HoldsPrev
    <3> QED
      BY <1>3, <2>1, <3>1, <3>2, <3>3
      DEF CardsHeld, HoldsCard, Uploading, Committing
  <2>3. \A y \in Request : pc[y] = "tidy" => prev[y] # new /\ row'[prev[y]] = "none"
    BY <1>1, <1>3 DEF TypeOK, PrevHeldOK, HoldsPrev
  <2>4. Replaced(q) # {} => prev[q] # NoAsset /\ row'[prev[q]] = "none"
    BY <1>1, <1>3, <1>4 DEF TypeOK
  <2>5. PrevHeldOK'
    BY <1>1, <1>3, <2>1, <2>3, <2>4 DEF PrevHeldOK, HoldsPrev
  <2> QED BY <2>2, <2>5
<1>12. SweepsHeld'
  <2> SUFFICES ASSUME NEW g \in Sweeper
               PROVE  /\ gpc[g] # "sweep" => cands[g] = {}
                      /\ \A a \in cands[g] : PastWindow(a)' => ~Referenced(a)'
                      /\ \A a \in todo[g] : row'[a] = "none" /\ purpose[a] # "unused"
    BY <1>3 DEF SweepsHeld
  <2>1. ASSUME NEW a \in cands[g], PastWindow(a)' PROVE ~Referenced(a)'
    <3>1. a \in Asset /\ a # new /\ PastWindow(a) /\ ~Referenced(a)
      BY <1>3, <2>1 DEF TypeOK, SweepsHeld, PastWindow
    <3> QED BY <1>2, <3>1 DEF Referenced
  <2>2. \A a \in todo[g] : row'[a] = "none"
    BY <1>1, <1>3 DEF TypeOK, SweepsHeld
  <2> QED BY <2>1, <2>2 DEF SweepsHeld
<1> QED BY <1>6, <1>7, <1>8, <1>9, <1>10, <1>11, <1>12

LEMMA TidyCardStep ==
    ASSUME IInv, NEW q \in Request, TidyCard(q) PROVE IInv'
<1> USE DEF IInv
<1>1. /\ pc[q] = "tidy" /\ blobs' = [blobs EXCEPT ![prev[q]] = {}] /\ Finish(q)
      /\ UNCHANGED <<purpose, row, aged, subject, shown, status, title, ref, gpc, cands, todo>>
  BY DEF TidyCard, records, sweep
<1>2. prev[q] \in Asset /\ row[prev[q]] = "none"
  BY <1>1 DEF TypeOK, PrevHeldOK
<1>3. \A a \in Asset : a # prev[q] => blobs'[a] = blobs[a]
  BY <1>1 DEF TypeOK
<1>4. TypeOK'
  BY <1>1, FinishType DEF TypeOK
<1>5. RefsAttached' /\ SoleOwner' /\ ColumnsMatch'
  BY <1>1 DEF RefsAttached, SoleOwner, ColumnsMatch, Stored
<1>6. RowsComplete'
  <2> SUFFICES ASSUME NEW a \in Asset, row[a] # "none"
               PROVE  purpose[a] # "unused" /\ blobs'[a] = Renditions(purpose[a])
    BY <1>1 DEF RowsComplete
  <2> QED BY <1>2, <1>3 DEF RowsComplete
<1>7. CardsHeld' /\ PrevHeldOK'
  BY <1>1, <1>3, FinishFrame
<1>8. SweepsHeld'
  BY <1>1, SweepsFrame DEF sweep
<1> QED BY <1>4, <1>5, <1>6, <1>7, <1>8

\* A request that fails, at whatever point, leaves both stores as they are.
LEMMA AbandonStep ==
    ASSUME IInv, NEW q \in Request, Finish(q), UNCHANGED <<store, records, sweep>>
    PROVE  IInv'
<1> USE DEF IInv, store, records, sweep
<1>1. TypeOK'
  BY FinishType DEF TypeOK
<1>2. RefsAttached' /\ SoleOwner' /\ RowsComplete' /\ ColumnsMatch' /\ SweepsHeld'
  BY ColumnsFrame, SweepsFrame
<1>3. CardsHeld' /\ PrevHeldOK'
  BY FinishFrame
<1> QED BY <1>1, <1>2, <1>3

-----------------------------------------------------------------------------
(* Sweeps *)

LEMMA SweepStartStep ==
    ASSUME IInv, NEW g \in Sweeper, SweepStart(g) PROVE IInv'
<1> USE DEF IInv, SweepStart, store, records, request
<1>1. TypeOK'
  BY DEF TypeOK, Orphans
<1>2. RefsAttached' /\ SoleOwner' /\ RowsComplete' /\ ColumnsMatch'
  BY ColumnsFrame
<1>3. CardsHeld' /\ PrevHeldOK'
  BY DEF CardsHeld, PrevHeldOK, HoldsCard, HoldsPrev, Uploading, Committing
<1>4. SweepsHeld'
  BY DEF TypeOK, SweepsHeld, PastWindow, Referenced, Orphans
<1> QED BY <1>1, <1>2, <1>3, <1>4

\* The rows deleted are in no column, so ON DELETE SET NULL has nothing to empty.
LEMMA SweptUnreferenced ==
    ASSUME IInv, NEW g \in Sweeper, SweepCommit(g)
    PROVE  UNCHANGED ref
<1>1. \A a \in Swept(g) : a \in Asset /\ ~Referenced(a)
  BY DEF IInv, TypeOK, SweepsHeld, Swept
<1>2. ref' = [r \in Record |-> [s \in Slot |->
                IF ref[r][s] \in Swept(g) THEN NoAsset ELSE ref[r][s]]]
  BY DEF SweepCommit, SetNull
<1>3. \A r \in Record, s \in Slot : ref[r][s] \notin Swept(g)
  BY <1>1 DEF Referenced
<1>4. ref \in [Record -> [Slot -> Asset \cup {NoAsset}]]
  BY DEF IInv, TypeOK
<1>5. /\ ref' \in [Record -> [Slot -> Asset \cup {NoAsset}]]
      /\ \A r \in Record, s \in Slot : ref'[r][s] = ref[r][s]
  BY <1>2, <1>3, <1>4
<1>6. ASSUME NEW r \in Record PROVE ref'[r] = ref[r]
  <2>1. ref[r] \in [Slot -> Asset \cup {NoAsset}] /\ ref'[r] \in [Slot -> Asset \cup {NoAsset}]
    BY <1>4, <1>5
  <2> QED BY <1>5, <2>1
<1> QED BY <1>4, <1>5, <1>6

LEMMA SweepCommitStep ==
    ASSUME IInv, NEW g \in Sweeper, SweepCommit(g) PROVE IInv'
<1> USE DEF IInv
<1>1. /\ row' = [a \in Asset |-> IF a \in Swept(g) THEN "none" ELSE row[a]]
      /\ aged' = [a \in Asset |-> aged[a] /\ a \notin Swept(g)]
      /\ todo' = [todo EXCEPT ![g] = Swept(g)]
      /\ cands' = [cands EXCEPT ![g] = {}]
      /\ gpc' = [gpc EXCEPT ![g] = IF Swept(g) = {} THEN "idle" ELSE "tidy"]
      /\ UNCHANGED <<blobs, purpose, subject, shown, status, title, request>>
  BY DEF SweepCommit
<1>2. UNCHANGED ref
  BY SweptUnreferenced
<1>3. \A a \in Swept(g) : a \in Asset /\ row[a] # "none" /\ ~Referenced(a)
  BY DEF TypeOK, SweepsHeld, Swept, PastWindow
<1>4. \A a \in Asset : IF a \in Swept(g) THEN row'[a] = "none" ELSE row'[a] = row[a]
  BY <1>1
<1>5. \A a \in Asset : aged'[a] => aged[a] /\ a \notin Swept(g)
  BY <1>1
<1>6. TypeOK'
  BY <1>1, <1>2, <1>3 DEF TypeOK, request
<1>7. RefsAttached'
  BY <1>2, <1>3, <1>4 DEF TypeOK, RefsAttached, Referenced
<1>8. SoleOwner' /\ RowsComplete' /\ ColumnsMatch'
  BY <1>1, <1>2, <1>4 DEF SoleOwner, RowsComplete, ColumnsMatch, Stored
<1>9. \A h \in Sweeper : /\ h # g => todo'[h] = todo[h] /\ cands'[h] = cands[h] /\ gpc'[h] = gpc[h]
                         /\ h = g => todo'[h] = Swept(g) /\ cands'[h] = {}
  BY <1>1 DEF TypeOK
<1>10. CardsHeld'
  BY <1>1, <1>3, <1>4, <1>9
  DEF CardsHeld, HoldsCard, HoldsPrev, Uploading, Committing, request
<1>11. PrevHeldOK'
  BY <1>1, <1>4 DEF TypeOK, PrevHeldOK, HoldsPrev, request
<1>12. SweepsHeld'
  <2> SUFFICES ASSUME NEW h \in Sweeper
               PROVE  /\ gpc'[h] # "sweep" => cands'[h] = {}
                      /\ \A a \in cands'[h] : PastWindow(a)' => ~Referenced(a)'
                      /\ \A a \in todo'[h] : row'[a] = "none" /\ purpose[a] # "unused"
    BY <1>1 DEF SweepsHeld
  <2>1. \A a \in Swept(g) : row'[a] = "none" /\ purpose[a] # "unused"
    BY <1>3, <1>4 DEF RowsComplete
  <2>2. CASE h = g
    BY <1>9, <2>1, <2>2
  <2>3. CASE h # g
    <3>1. \A a \in cands[h] : a \in Asset /\ (PastWindow(a)' => PastWindow(a))
      BY <1>4, <1>5 DEF TypeOK, PastWindow
    <3>2. \A a \in cands[h] : PastWindow(a)' => ~Referenced(a)'
      BY <1>2, <3>1 DEF SweepsHeld, Referenced
    <3>3. \A a \in todo[h] : row'[a] = "none" /\ purpose[a] # "unused"
      BY <1>4 DEF TypeOK, SweepsHeld
    <3> QED BY <1>9, <2>3, <3>2, <3>3 DEF SweepsHeld
  <2> QED BY <2>2, <2>3
<1> QED BY <1>6, <1>7, <1>8, <1>10, <1>11, <1>12

LEMMA SweepTidyStep ==
    ASSUME IInv, NEW g \in Sweeper, SweepTidy(g) PROVE IInv'
<1> USE DEF IInv
<1>1. PICK a \in todo[g] :
        /\ blobs' = [blobs EXCEPT ![a] = {}]
        /\ todo' = [todo EXCEPT ![g] = @ \ {a}]
        /\ gpc' = [gpc EXCEPT ![g] = IF todo[g] = {a} THEN "idle" ELSE "tidy"]
  BY DEF SweepTidy
<1>2. /\ gpc[g] = "tidy"
      /\ UNCHANGED <<purpose, row, aged, subject, shown, status, title, ref,
                     pc, rec, prev, card, seen, cands>>
  BY DEF SweepTidy, records, request
<1>3. a \in Asset /\ row[a] = "none" /\ \A q \in Request : HoldsCard(q) => card[q] # a
  BY DEF TypeOK, SweepsHeld, CardsHeld
<1>4. \A b \in Asset : b # a => blobs'[b] = blobs[b]
  BY <1>1 DEF TypeOK
<1>5. /\ \A h \in Sweeper : todo'[h] \subseteq todo[h]
      /\ \A h \in Sweeper : gpc'[h] = gpc[h] \/ (h = g /\ gpc'[h] # "sweep")
  BY <1>1 DEF TypeOK
<1>6. TypeOK'
  BY <1>1, <1>2 DEF TypeOK
<1>7. RefsAttached' /\ SoleOwner' /\ ColumnsMatch'
  BY <1>2 DEF RefsAttached, SoleOwner, ColumnsMatch, Stored
<1>8. RowsComplete'
  <2> SUFFICES ASSUME NEW b \in Asset, row[b] # "none"
               PROVE  purpose[b] # "unused" /\ blobs'[b] = Renditions(purpose[b])
    BY <1>2 DEF RowsComplete
  <2> QED BY <1>3, <1>4 DEF RowsComplete
<1>9. CardsHeld'
  BY <1>2, <1>3, <1>4, <1>5 DEF CardsHeld, HoldsCard, HoldsPrev, Uploading, Committing
<1>10. PrevHeldOK'
  BY <1>2 DEF PrevHeldOK, HoldsPrev
<1>11. SweepsHeld'
  BY <1>2, <1>5 DEF SweepsHeld, PastWindow, Referenced
<1> QED BY <1>6, <1>7, <1>8, <1>9, <1>10, <1>11

LEMMA SweepFailsStep ==
    ASSUME IInv, NEW g \in Sweeper, SweepFails(g) PROVE IInv'
<1> USE DEF IInv, SweepFails, store, records, request
<1>1. TypeOK'
  BY DEF TypeOK
<1>2. RefsAttached' /\ SoleOwner' /\ RowsComplete' /\ ColumnsMatch'
  BY ColumnsFrame
<1>3. \A h \in Sweeper : \/ gpc'[h] = gpc[h] /\ cands'[h] = cands[h] /\ todo'[h] = todo[h]
                         \/ cands'[h] = {} /\ todo'[h] = {}
  BY DEF TypeOK
<1>4. CardsHeld' /\ PrevHeldOK'
  BY <1>3, SMTT(60) DEF CardsHeld, PrevHeldOK, HoldsCard, HoldsPrev, Uploading, Committing
<1>5. SweepsHeld'
  BY <1>3 DEF SweepsHeld, PastWindow, Referenced
<1> QED BY <1>1, <1>2, <1>4, <1>5

LEMMA AgeStep ==
    ASSUME IInv, NEW a \in Asset, Age(a) PROVE IInv'
<1> USE DEF IInv, Age, records, request, sweep
<1>1. TypeOK'
  BY DEF TypeOK
<1>2. RefsAttached' /\ SoleOwner' /\ RowsComplete' /\ ColumnsMatch'
  BY ColumnsFrame
<1>3. CardsHeld' /\ PrevHeldOK'
  BY RequestsFrame
<1>4. SweepsHeld'
  BY DEF SweepsHeld
<1> QED BY <1>1, <1>2, <1>3, <1>4

-----------------------------------------------------------------------------
(* The theorems *)

LEMMA InvariantInit == ASSUME Init PROVE IInv
<1> USE DEF Init, NoRefs
<1>1. TypeOK
  BY TitleAssumption DEF TypeOK, Status, PC
<1>2. RefsAttached /\ SoleOwner /\ RowsComplete /\ ColumnsMatch
  BY DEF RefsAttached, SoleOwner, RowsComplete, ColumnsMatch
<1>3. CardsHeld /\ PrevHeldOK /\ SweepsHeld
  BY DEF CardsHeld, PrevHeldOK, SweepsHeld, HoldsCard, HoldsPrev
<1> QED BY <1>1, <1>2, <1>3 DEF IInv

LEMMA InvariantStutter == ASSUME IInv, UNCHANGED vars PROVE IInv'
<1>1. TypeOK'
  BY DEF IInv, TypeOK, vars
<1>2. RefsAttached' /\ SoleOwner' /\ RowsComplete' /\ ColumnsMatch'
  BY ColumnsFrame DEF vars
<1>3. CardsHeld' /\ PrevHeldOK'
  BY RequestsFrame DEF vars, request, sweep
<1>4. SweepsHeld'
  BY SweepsFrame DEF vars, sweep
<1> QED BY <1>1, <1>2, <1>3, <1>4 DEF IInv

LEMMA InvariantStep == ASSUME IInv, [Next]_vars PROVE IInv'
<1>1. ASSUME NEW q \in Request, RequestStep(q) PROVE IInv'
  BY <1>1, PutVariantStep, StoreAssetStep, LoadSubjectStep, RenderCardStep, CommitCardStep,
     TidyCardStep DEF RequestStep
<1>2. ASSUME NEW q \in Request, TidyFails(q) \/ RequestFails(q) PROVE IInv'
  BY <1>2, AbandonStep DEF TidyFails, RequestFails
<1>3. ASSUME NEW q \in Request, BeginUpload(q) PROVE IInv'
  BY <1>3, BeginUploadStep
<1>4. ASSUME NEW q \in Request, NEW r \in Record, Create(q, r) \/ Update(q, r) \/ Publish(q, r)
      PROVE  IInv'
  BY <1>4, CreateStep, UpdateStep, PublishStep
<1>5. ASSUME NEW r \in Record, Withdraw(r) \/ HardDelete(r) \/ EraseFounder(r) PROVE IInv'
  BY <1>5, WithdrawStep, HardDeleteStep, EraseFounderStep
<1>6. ASSUME NEW g \in Sweeper, SweepStep(g) \/ SweepFails(g) PROVE IInv'
  BY <1>6, SweepStartStep, SweepCommitStep, SweepTidyStep, SweepFailsStep DEF SweepStep
<1>7. ASSUME NEW a \in Asset, Age(a) PROVE IInv'
  BY <1>7, AgeStep
<1>8. CASE UNCHANGED vars
  BY <1>8, InvariantStutter
<1> QED BY <1>1, <1>2, <1>3, <1>4, <1>5, <1>6, <1>7, <1>8 DEF Next

\* The strengthened invariant holds of every behaviour.
THEOREM Invariance == Spec => []IInv
<1>1. Init => IInv
  BY InvariantInit
<1>2. IInv /\ [Next]_vars => IInv'
  BY InvariantStep
<1> QED BY <1>1, <1>2, PTL DEF Spec

\* Every variable keeps its type.
THEOREM TypeCorrect == Spec => []TypeOK
<1>1. IInv => TypeOK
  BY DEF IInv
<1> QED BY <1>1, Invariance, PTL

\* A record's images can always be served: row attached, renditions complete.
THEOREM ImagesAlwaysServable == Spec => []ImagesServable
<1>1. IInv => ImagesServable
  BY DEF IInv, TypeOK, ImagesServable, RefsAttached, RowsComplete
<1> QED BY <1>1, Invariance, PTL

\* No image is ever used by two records.
THEOREM AlwaysSoleOwner == Spec => []SoleOwner
<1>1. IInv => SoleOwner
  BY DEF IInv
<1> QED BY <1>1, Invariance, PTL

\* The sweep empties no column, however old the snapshot it read the references in.
THEOREM SweepIsSafe == Spec => SweepBlanksNothing
<1>1. IInv /\ [Next]_vars => [(\E g \in Sweeper : SweepCommit(g)) => UNCHANGED ref]_vars
  BY SweptUnreferenced
<1> QED BY <1>1, Invariance, PTL DEF Spec, SweepBlanksNothing

\* The only steps that change a column are the record's own save, refresh and deletion.
LEMMA CardKept ==
    ASSUME IInv, [Next]_vars, NEW r \in Record, ref[r]["og"] # NoAsset, status'[r] # "gone"
    PROVE  ref'[r]["og"] # NoAsset
<1> USE DEF IInv
<1>a. "og" \in Slot /\ \A x \in Record : "og" \notin SlotsOf[x]
  BY SlotsAssumption DEF Slot, UploadPurpose
<1>b. status[r] # "gone" /\ Stored(r)
  BY <1>a DEF ColumnsMatch, Stored
<1>1. ASSUME NEW q \in Request, NEW x \in Record, Create(q, x) \/ Update(q, x)
      PROVE  ref'[r]["og"] # NoAsset
  <2>1. PICK new \in NewRefs(x) : WriteRefs(x, new)
    BY <1>1 DEF Create, Update
  <2>2. ref'[r]["og"] = ref[r]["og"]
    BY <2>1, <1>a DEF WriteRefs, TypeOK
  <2> QED BY <2>2
<1>2. ASSUME NEW x \in Record, HardDelete(x) \/ EraseFounder(x) PROVE ref'[r]["og"] # NoAsset
  BY <1>2 DEF HardDelete, EraseFounder, TypeOK
<1>3. ASSUME NEW q \in Request, CommitCard(q) PROVE ref'[r]["og"] # NoAsset
  <2>1. card[q] # NoAsset
    BY <1>3, NullAssumption DEF CommitCard, CardsHeld, HoldsCard
  <2> QED BY <1>3, <1>a, <2>1, CommitCardColumns
<1>4. ASSUME NEW g \in Sweeper, SweepCommit(g) PROVE ref'[r]["og"] # NoAsset
  BY <1>4, SweptUnreferenced
<1>5. ASSUME UNCHANGED ref PROVE ref'[r]["og"] # NoAsset
  BY <1>5
<1>6. \/ UNCHANGED ref
      \/ \E q \in Request, x \in Record : Create(q, x) \/ Update(q, x)
      \/ \E x \in Record : HardDelete(x) \/ EraseFounder(x)
      \/ \E q \in Request : CommitCard(q)
      \/ \E g \in Sweeper : SweepCommit(g)
  BY DEF Next, vars, RequestStep, SweepStep, BeginUpload, PutVariant, StoreAsset, LoadSubject,
         RenderCard, TidyCard, TidyFails, RequestFails, Publish, Withdraw, SweepStart, SweepTidy,
         SweepFails, Age, records
<1> QED BY <1>1, <1>2, <1>3, <1>4, <1>5, <1>6

\* Replacing a share card never leaves its record without one.
THEOREM CardsNeverBlanked == Spec => CardNeverBlanked
<1>1. IInv /\ [Next]_vars =>
        [\A r \in Record :
            ref[r]["og"] # NoAsset /\ status'[r] # "gone" => ref'[r]["og"] # NoAsset]_vars
  BY CardKept
<1> QED BY <1>1, Invariance, PTL DEF Spec, CardNeverBlanked

\* An attached image no record uses is taken up by no step.
LEMMA ReleasedStays ==
    ASSUME IInv, [Next]_vars, NEW a \in Asset, row[a] = "attached", ~Referenced(a)
    PROVE  ~Referenced(a)'
<1> USE DEF IInv
<1>0. \A x \in Record, s \in Slot : ref[x][s] # a
  BY DEF Referenced
<1>1. ASSUME NEW q \in Request, NEW r \in Record, Create(q, r) \/ Update(q, r)
      PROVE  ~Referenced(a)'
  <2>1. PICK new \in NewRefs(r) : WriteRefs(r, new)
    BY <1>1 DEF Create, Update
  <2>2. \A x \in Record, s \in Slot : ref'[x][s] # a
    BY <1>0, <2>1, WriteRefsColumns, NullAssumption
  <2> QED BY <2>2 DEF Referenced
<1>2. ASSUME NEW r \in Record, HardDelete(r) \/ EraseFounder(r) PROVE ~Referenced(a)'
  <2>1. /\ Stored(r) /\ status' = [status EXCEPT ![r] = "gone"]
        /\ ref' = [ref EXCEPT ![r] = NoRefs]
    BY <1>2 DEF HardDelete, EraseFounder, Stored
  <2>2. \A x \in Record, s \in Slot : ref'[x][s] # NoAsset => ref'[x][s] = ref[x][s]
    BY <2>1, RecordGone
  <2> QED BY <1>0, <2>2, NullAssumption DEF Referenced
<1>3. ASSUME NEW q \in Request, CommitCard(q) PROVE ~Referenced(a)'
  <2>1. card[q] # a
    BY <1>3 DEF CommitCard, CardsHeld, HoldsCard
  <2> QED BY <1>0, <1>3, <2>1, CommitCardColumns DEF Referenced
<1>4. ASSUME NEW g \in Sweeper, SweepCommit(g) PROVE ~Referenced(a)'
  BY <1>0, <1>4, SweptUnreferenced DEF Referenced
<1>5. ASSUME UNCHANGED ref PROVE ~Referenced(a)'
  BY <1>0, <1>5 DEF Referenced
<1>6. \/ UNCHANGED ref
      \/ \E q \in Request, x \in Record : Create(q, x) \/ Update(q, x)
      \/ \E x \in Record : HardDelete(x) \/ EraseFounder(x)
      \/ \E q \in Request : CommitCard(q)
      \/ \E g \in Sweeper : SweepCommit(g)
  BY DEF Next, vars, RequestStep, SweepStep, BeginUpload, PutVariant, StoreAsset, LoadSubject,
         RenderCard, TidyCard, TidyFails, RequestFails, Publish, Withdraw, SweepStart, SweepTidy,
         SweepFails, Age, records
<1> QED BY <1>1, <1>2, <1>3, <1>4, <1>5, <1>6

\* A released image is never taken up again.
THEOREM ReleasedImagesStay == Spec => ReleasedForGood
<1>1. IInv /\ [Next]_vars =>
        [\A a \in Asset : row[a] = "attached" /\ ~Referenced(a) => ~Referenced(a)']_vars
  BY ReleasedStays
<1> QED BY <1>1, Invariance, PTL DEF Spec, ReleasedForGood
=============================================================================
