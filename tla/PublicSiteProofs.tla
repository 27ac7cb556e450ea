-------------------------- MODULE PublicSiteProofs --------------------------
(***************************************************************************)
(* What the public site may show, for any number of records, links,        *)
(* writers and readers: first the pages as they are read (PublicPages),    *)
(* then the entries the cache keeps of them (CacheTags), then what a       *)
(* visitor's tab makes of them (PublicTab).                                *)
(*                                                                         *)
(* Pages.  A read relies on what its earlier statements saw having been    *)
(* public at some moment of it (PageOK); what was ever public had ends     *)
(* that were published and may not be deleted since (SeenOK).  While       *)
(* nothing is written, a page under way holds what its statements so far   *)
(* select (WholeOK), and what a statement selects is what the graph of     *)
(* public records and links says of its subject.                           *)
(*                                                                         *)
(* Cache.  Since a transaction last collected tags, what others tied to    *)
(* the records it writes is in `since'; everything else tied to them had   *)
(* its tag collected (Covers).  A read under way holds rows that are       *)
(* committed still, or that a write about to expire them has changed       *)
(* (EntryOK).                                                              *)
(*                                                                         *)
(* The tab.  Lists: what matches after the place a list starts at, and has *)
(* not changed since, is on it or after where it ends (Complete, of the    *)
(* grid's cards and of every page under way).  Wishes: the grid and the    *)
(* search page are on their way to what was asked for, unless the wish     *)
(* crossed a navigation (GridChosen, PaletteLed); what was pointed at is   *)
(* highlighted still, unless suggestions came since (Pointed).  Views: a   *)
(* canvas in view has a renderer that has drawn (Behind); before anything  *)
(* is disposed of, what there is belongs to the effect (First), and but    *)
(* for motion allowed again it is one at most (Sole).  Canvas: a slot that *)
(* a card has shows it, with its images unless these are on their way      *)
(* (Painted); at rest every card in view has a slot (Drawn), and during a  *)
(* frame those looked at do (Kept), as long as there are enough; what is   *)
(* near a press stays near the pointer (Held).                             *)
(***************************************************************************)
EXTENDS PublicSite, PublicTab, Listings, FiniteSetTheorems, FunctionTheorems,
        SequenceTheorems, WellFoundedInduction, TLAPS

-----------------------------------------------------------------------------
(* Rows. *)

Tables == {"founder", "backer", "batch", "acquirer", "industry", "city", "organizer"}

\* What each table's rows are, and which records they name.
IsFounder(l) == /\ l[1] = "founder" /\ l[2] \in Startup /\ l[3] \in Founder
                /\ Ends(l) = {l[2], l[3]}
IsBacker(l) == /\ l[1] = "backer" /\ l[2] \in Startup /\ l[3] \in Investor /\ l[5] \in BOOLEAN
               /\ l[4] = None => Ends(l) = {l[2], l[3]}
               /\ l[4] # None => l[4] \in Round /\ StartupOf[l[4]] = l[2] /\ Ends(l) = {l[2], l[3], l[4]}
IsBatch(l) == /\ l[1] = "batch" /\ l[2] \in Startup /\ l[3] \in Batch
              /\ l = <<"batch", l[2], l[3]>> /\ Ends(l) = {l[2], l[3]}
IsAcquirer(l) == /\ l[1] = "acquirer" /\ l[2] \in Startup /\ l[3] \in Startup
                 /\ Ends(l) = {l[2], l[3]}
IsIndustry(l) == /\ l[1] = "industry" /\ l[2] \in Startup /\ l[3] \in Industry /\ l[4] \in BOOLEAN
                 /\ l = <<"industry", l[2], l[3], l[4]>> /\ Ends(l) = {l[2]}
IsCity(l) == /\ l[1] = "city" /\ l[2] \in Startup /\ l[3] \in City
             /\ l = <<"city", l[2], l[3]>> /\ Ends(l) = {l[2]}
IsOrganizer(l) == /\ l[1] = "organizer" /\ l[2] \in Batch /\ l[3] \in Investor
                  /\ Ends(l) = {l[2], l[3]}

LEMMA OnStartup ==
  ASSUME NEW s \in Startup, NEW l \in LinksOf(s)
  PROVE  /\ l[2] = s
         /\ IsFounder(l) \/ IsBacker(l) \/ IsBatch(l) \/ IsAcquirer(l) \/ IsIndustry(l) \/ IsCity(l)
<1> USE RecordsAssumption, DistinctIds DEF Ends, Range, Record
<1>1. CASE \E f \in Founder, role \in Role : l = <<"founder", s, f, role>>
  <2> PICK f \in Founder, role \in Role : l = <<"founder", s, f, role>>
    BY <1>1
  <2>1. DOMAIN l = {1, 2, 3, 4} /\ l[1] = "founder" /\ l[2] = s /\ l[3] = f /\ l[4] = role
    OBVIOUS
  <2>2. Ends(l) = {s, f}
    BY <2>1
  <2> QED
    BY <2>1, <2>2 DEF IsFounder
<1>2. CASE \E i \in Investor, r \in {None} \cup {q \in Round : StartupOf[q] = s}, lead \in BOOLEAN :
             l = <<"backer", s, i, r, lead>>
  <2> PICK i \in Investor, r \in {None} \cup {q \in Round : StartupOf[q] = s}, lead \in BOOLEAN :
             l = <<"backer", s, i, r, lead>>
    BY <1>2
  <2>1. /\ DOMAIN l = {1, 2, 3, 4, 5} /\ l[1] = "backer" /\ l[2] = s /\ l[3] = i /\ l[4] = r
        /\ l[5] = lead
    OBVIOUS
  <2>2. Ends(l) = {s, i} \cup ({r} \cap Record)
    BY <2>1
  <2> QED
    BY <2>1, <2>2 DEF IsBacker
<1>3. CASE \E b \in Batch : l = <<"batch", s, b>>
  <2> PICK b \in Batch : l = <<"batch", s, b>>
    BY <1>3
  <2>1. DOMAIN l = {1, 2, 3} /\ l[1] = "batch" /\ l[2] = s /\ l[3] = b
    OBVIOUS
  <2>2. Ends(l) = {s, b}
    BY <2>1
  <2> QED
    BY <2>1, <2>2 DEF IsBatch
<1>4. CASE \E a \in Startup \ {s}, on \in BOOLEAN : l = <<"acquirer", s, a, on>>
  <2> PICK a \in Startup \ {s}, on \in BOOLEAN : l = <<"acquirer", s, a, on>>
    BY <1>4
  <2>1. DOMAIN l = {1, 2, 3, 4} /\ l[1] = "acquirer" /\ l[2] = s /\ l[3] = a /\ l[4] = on
    OBVIOUS
  <2>2. Ends(l) = {s, a}
    BY <2>1
  <2> QED
    BY <2>1, <2>2 DEF IsAcquirer
<1>5. CASE \E x \in Industry, primary \in BOOLEAN : l = <<"industry", s, x, primary>>
  <2> PICK x \in Industry, primary \in BOOLEAN : l = <<"industry", s, x, primary>>
    BY <1>5
  <2>1. DOMAIN l = {1, 2, 3, 4} /\ l[1] = "industry" /\ l[2] = s /\ l[3] = x /\ l[4] = primary
    OBVIOUS
  <2>2. Ends(l) = {s}
    BY <2>1
  <2> QED
    BY <2>1, <2>2 DEF IsIndustry
<1>6. CASE \E c \in City : l = <<"city", s, c>>
  <2> PICK c \in City : l = <<"city", s, c>>
    BY <1>6
  <2>1. DOMAIN l = {1, 2, 3} /\ l[1] = "city" /\ l[2] = s /\ l[3] = c
    OBVIOUS
  <2>2. Ends(l) = {s}
    BY <2>1
  <2> QED
    BY <2>1, <2>2 DEF IsCity
<1> QED
  BY <1>1, <1>2, <1>3, <1>4, <1>5, <1>6 DEF LinksOf

LEMMA RowForms ==
  ASSUME NEW l \in Link
  PROVE  \/ IsFounder(l) \/ IsBacker(l) \/ IsBatch(l) \/ IsAcquirer(l) \/ IsIndustry(l) \/ IsCity(l)
         \/ IsOrganizer(l)
<1>1. CASE \E s \in Startup : l \in LinksOf(s)
  BY <1>1, OnStartup
<1>2. CASE \E b \in Batch, i \in Investor : l = <<"organizer", b, i>>
  <2> PICK b \in Batch, i \in Investor : l = <<"organizer", b, i>>
    BY <1>2
  <2>1. DOMAIN l = {1, 2, 3} /\ l[1] = "organizer" /\ l[2] = b /\ l[3] = i
    OBVIOUS
  <2>2. Ends(l) = {b, i}
    BY <2>1, DistinctIds DEF Ends, Range, Record
  <2> QED
    BY <2>1, <2>2 DEF IsOrganizer
<1> QED
  BY <1>1, <1>2 DEF Link
-----------------------------------------------------------------------------
(* What is public. *)

LEMMA PublicRecord ==
  ASSUME NEW rs, NEW ls, NEW r \in rs, r \in Record, r \in Round => StartupOf[r] \in rs
  PROVE  r \in Public(rs, ls)
  BY DEF Public, PublicRows

LEMMA PublicRow ==
  ASSUME NEW rs, NEW ls, NEW l \in ls, l \in Link, Ends(l) \subseteq rs
  PROVE  Facts(l) \subseteq Public(rs, ls)
<1>1. l \in PublicRows(rs, ls) /\ l \notin Record
  BY RowsAreNoIds DEF PublicRows
<1> QED
  BY <1>1 DEF Public

LEMMA PublicGrows ==
  ASSUME NEW rs, NEW ls, NEW rs2, NEW ls2, rs \subseteq rs2, ls \subseteq ls2
  PROVE  Public(rs, ls) \subseteq Public(rs2, ls2)
<1>1. PublicRows(rs, ls) \subseteq PublicRows(rs2, ls2)
  BY DEF PublicRows
<1> QED
  BY <1>1 DEF Public

LEMMA FactsOfRow ==
  ASSUME NEW l
  PROVE  /\ l[1] # "backer" => Facts(l) = {l}
         /\ l[1] = "backer" =>
              /\ <<"backs", l[3], l[2]>> \in Facts(l)
              /\ l[5] => <<"leads", l[3], l[2]>> \in Facts(l)
              /\ l[4] # None => <<"in", l[4], l[3]>> \in Facts(l)
  BY DEF Facts

Typed == status \in [Record -> {"absent", "draft", "published", "archived"}] /\ links \subseteq Link
Now == Public(Published(status), links)

LEMMA VisibleIsPublished == \A r \in Record : Visible(r) <=> r \in Published(status)
  BY DEF Visible, Published

LEMMA RowNow ==
  ASSUME Typed, NEW l \in links, \A r \in Ends(l) : Visible(r)
  PROVE  Facts(l) \subseteq Now
<1>1. Ends(l) \subseteq Record
  BY DEF Ends
<1> QED
  BY <1>1, VisibleIsPublished, PublicRow DEF Typed, Now

LEMMA RecordNow ==
  ASSUME NEW r \in Record \ Round, Visible(r)
  PROVE  r \in Now
  BY VisibleIsPublished, PublicRecord DEF Now

\* What a row says when its startup and its other end are published, and a backing's round.
LEMMA RowsNow ==
  ASSUME Typed, NEW l \in links, Visible(l[2])
  PROVE  /\ l[1] \in {"founder", "batch", "acquirer", "organizer"} /\ Visible(l[3]) => l \in Now
         /\ l[1] \in {"industry", "city"} => l \in Now
         /\ l[1] = "backer" /\ Visible(l[3]) /\ (l[4] = None \/ Visible(l[4])) => Facts(l) \subseteq Now
<1> l \in Link
  BY DEF Typed
<1>1. ASSUME l[1] # "backer", l[1] \in {"industry", "city"} \/ Visible(l[3])
      PROVE  l \in Now
  <2>1. \A r \in Ends(l) : Visible(r)
    BY <1>1, RowForms DEF IsFounder, IsBacker, IsBatch, IsAcquirer, IsIndustry, IsCity, IsOrganizer
  <2> QED
    BY <1>1, <2>1, RowNow, FactsOfRow
<1>2. ASSUME l[1] = "backer", Visible(l[3]), l[4] = None \/ Visible(l[4])
      PROVE  Facts(l) \subseteq Now
  <2>1. \A r \in Ends(l) : Visible(r)
    BY <1>2, RowForms DEF IsFounder, IsBacker, IsBatch, IsAcquirer, IsIndustry, IsCity, IsOrganizer
  <2> QED
    BY <2>1, RowNow
<1> QED
  BY <1>1, <1>2

LEMMA CardsNow ==
  ASSUME Typed, NEW ss \in SUBSET Startup
  PROVE  Cards(ss) \subseteq Now
<1> SUFFICES ASSUME NEW s \in ss, Visible(s) PROVE Card(s) \subseteq Now
  BY DEF Cards, SelectCards
<1>1. s \in Now
  BY RecordNow, DistinctIds DEF Record
<1>2. \A l \in Rows("acquirer") : l[2] = s /\ Visible(l[3]) => l \in Now
  BY RowsNow DEF Rows
<1> QED
  BY <1>1, <1>2 DEF Card

\* The startups that each filter finds.
LEMMA RowsOfStartups ==
  ASSUME Typed, NEW l \in links, l[1] # "organizer"
  PROVE  l[2] \in Startup
  BY RowForms DEF Typed, IsFounder, IsBacker, IsBatch, IsAcquirer, IsIndustry, IsCity, IsOrganizer

LEMMA FiltersFindStartups ==
  ASSUME Typed
  PROVE  /\ \A b : InBatch(b) \in SUBSET Startup
         /\ \A i : BackedBy(i) \in SUBSET Startup /\ PortfolioIds(i) \in SUBSET Startup
         /\ \A x : InFacet(x) \in SUBSET Startup
         /\ \A s, ps, cs : Similar(s, ps, cs) \in SUBSET Startup
         /\ NotAcquired \in SUBSET Startup
  BY RowsOfStartups DEF InBatch, BackedBy, PortfolioIds, InFacet, Similar, NotAcquired, Rows

LEMMA RoundsNow ==
  ASSUME Typed, NEW rs \in SUBSET Round
  PROVE  RoundFacts(rs) \subseteq Now /\ SelectRounds(rs) \subseteq Now
<1>1. SelectRounds(rs) \subseteq Now
  <2> SUFFICES ASSUME NEW r \in rs, Visible(r), Visible(StartupOf[r]) PROVE r \in Now
    BY DEF SelectRounds
  <2> QED
    BY RecordsAssumption, VisibleIsPublished, PublicRecord DEF Now, Record
<1>2. ASSUME NEW l \in links, l[1] = "backer", l[4] \in SelectRounds(rs), Visible(l[3])
      PROVE  <<"in", l[4], l[3]>> \in Now
  <2>1. l[4] # None /\ Visible(l[4]) /\ Visible(StartupOf[l[4]])
    BY <1>2, RecordsAssumption DEF SelectRounds, Record
  <2>2. StartupOf[l[4]] = l[2]
    BY <1>2, <2>1, RowForms
       DEF Typed, IsFounder, IsBacker, IsBatch, IsAcquirer, IsIndustry, IsCity, IsOrganizer
  <2> QED
    BY <1>2, <2>1, <2>2, RowsNow, FactsOfRow
<1> QED
  BY <1>1, <1>2 DEF RoundFacts, Rows

LEMMA DetailsNow ==
  ASSUME Typed, NEW s \in Startup, Visible(s)
  PROVE  Card(s) \cup DetailColumns(s) \subseteq Now
<1>1. Card(s) \subseteq Now
  BY CardsNow DEF Cards, SelectCards
<1>2. \A l \in Rows("industry") : l[2] = s => l \in Now
  BY RowsNow DEF Rows
<1>3. \A l \in Rows("batch") : l[2] = s /\ Visible(l[3]) => l \in Now
  BY RowsNow DEF Rows
<1>4. ASSUME NEW l \in Rows("backer"), l[2] = s, Visible(l[3]), l[4] = None \/ Visible(l[4])
      PROVE  <<"backs", l[3], s>> \in Now /\ (l[5] => <<"leads", l[3], s>> \in Now)
  BY <1>4, RowsNow, FactsOfRow DEF Rows
<1> QED
  BY <1>1, <1>2, <1>3, <1>4 DEF DetailColumns

-----------------------------------------------------------------------------
(* Writes. *)

Status == {"absent", "draft", "published", "archived"}
DirectoryOK(st, fs, ts, ls) ==
    /\ st \in [Record -> Status]
    /\ fs \subseteq Record /\ ts \subseteq Startup
    /\ ls \subseteq Link /\ Keyed(ls)
    /\ \A r \in Round : st[r] # "absent" => st[StartupOf[r]] # "absent"
    /\ \A l \in ls : \A r \in Ends(l) : st[r] # "absent"
    /\ Published(st) \subseteq fs

DirOK == DirectoryOK(status, first, tagline, links)
Wrote == Write(status', first', tagline', links')

\* Nothing is deleted, and nothing forgotten of what was published.
Keeps == first \subseteq first' /\ \A r \in Record : Exists(r) => status'[r] # "absent"

LEMMA WriteWrote ==
  ASSUME NEW st, NEW fs, NEW ts, NEW ls, Write(st, fs, ts, ls)
  PROVE  Wrote /\ status' = st /\ first' = fs /\ tagline' = ts /\ links' = ls
  BY DEF Write, Wrote

\* New drafts, with rows between what is there.
LEMMA DraftsKeep ==
  ASSUME DirOK, NEW rs \in SUBSET Record, NEW ts \in SUBSET Startup, NEW ls \in SUBSET Link,
         Keyed(ls), \A r \in rs : ~Exists(r),
         \A r \in rs \cap Round : StartupOf[r] \in rs \/ Exists(StartupOf[r]),
         \A l \in ls : \A r \in Ends(l) : r \in rs \/ Exists(r),
         Write(Draft(rs), first, ts, ls)
  PROVE  Wrote /\ DirOK' /\ Keeps
<1>1. Wrote /\ status' = Draft(rs) /\ first' = first /\ tagline' = ts /\ links' = ls
  BY WriteWrote
<1>2. Draft(rs) \in [Record -> Status] /\ \A r \in Record : Draft(rs)[r] = "absent" => ~Exists(r) /\ r \notin rs
  BY DEF Draft, Status, DirOK, DirectoryOK, Exists
<1>3. Published(Draft(rs)) \subseteq first
  BY DEF Draft, Published, DirOK, DirectoryOK
<1>4. \A r \in Round : Draft(rs)[r] # "absent" => Draft(rs)[StartupOf[r]] # "absent"
  BY <1>2, RecordsAssumption DEF Draft, Record, DirOK, DirectoryOK, Exists
<1>5. \A l \in ls : \A r \in Ends(l) : Draft(rs)[r] # "absent"
  BY <1>2 DEF Ends
<1>6. DirOK'
  BY <1>1, <1>2, <1>3, <1>4, <1>5 DEF DirOK, DirectoryOK
<1>7. Keeps
  BY <1>1, <1>2 DEF Keeps
<1> QED
  BY <1>1, <1>6, <1>7

\* Rows and columns alone.
LEMMA RowsKeep ==
  ASSUME DirOK, NEW ts \in SUBSET Startup, NEW ls \in SUBSET Link, Keyed(ls),
         \A l \in ls : \A r \in Ends(l) : Exists(r),
         Write(status, first, ts, ls)
  PROVE  Wrote /\ DirOK' /\ Keeps
<1>1. Wrote /\ status' = status /\ first' = first /\ tagline' = ts /\ links' = ls
  BY WriteWrote
<1>2. DirOK'
  BY <1>1 DEF DirOK, DirectoryOK, Exists
<1> QED
  BY <1>1, <1>2 DEF Keeps, Exists

LEMMA FewerKeyed ==
  ASSUME NEW ls, Keyed(ls), NEW fewer \in SUBSET ls
  PROVE  Keyed(fewer)
  BY DEF Keyed

\* No key is shared by rows of different tables or subjects.
LEMMA BothKeyed ==
  ASSUME NEW ks, NEW ls, Keyed(ks), Keyed(ls), \A k \in ks, l \in ls : k[1] # l[1] \/ k[2] # l[2]
  PROVE  Keyed(ks \cup ls)
  BY DEF Keyed

LEMMA OneKeyed == \A l : Keyed({l})
  BY DEF Keyed

\* A row names its subject.
LEMMA SubjectOfRow ==
  ASSUME NEW l \in Link
  PROVE  l[2] \in Ends(l) /\ (l[2] \in Startup \/ (l[1] = "organizer" /\ l[2] \in Batch))
  BY RowForms DEF IsFounder, IsBacker, IsBatch, IsAcquirer, IsIndustry, IsCity, IsOrganizer

LEMMA NoRowsOfAbsent ==
  ASSUME DirOK, NEW r, ~Exists(r)
  PROVE  \A l \in links : l[2] # r /\ r \notin Ends(l)
  BY SubjectOfRow DEF DirOK, DirectoryOK, Exists

LEMMA LinksOfAreLinks == \A s \in Startup : LinksOf(s) \subseteq Link
  BY DEF Link

LEMMA CreateStartupKeeps ==
  ASSUME DirOK, NEW s \in Startup, CreateStartup(s)
  PROVE  Wrote /\ DirOK' /\ Keeps
<1>1. PICK ls \in SUBSET LinksOf(s) :
        /\ Keyed(ls)
        /\ LET rs == {l[4] : l \in {k \in ls : k[1] = "backer" /\ k[4] # None}}
           IN  /\ \A l \in ls : \A r \in Ends(l) \ ({s} \cup rs) : Exists(r)
               /\ \E ts \in {tagline \ {s}, tagline \cup {s}} :
                    Write(Draft({s} \cup rs), first, ts, links \cup ls)
  BY DEF CreateStartup
<1> DEFINE rs == {l[4] : l \in {k \in ls : k[1] = "backer" /\ k[4] # None}}
           new == {s} \cup rs
<1>2. PICK ts \in {tagline \ {s}, tagline \cup {s}} : Write(Draft(new), first, ts, links \cup ls)
  BY <1>1
<1>3. ~Exists(s)
  BY DEF CreateStartup
<1>4. \A r \in rs : r \in Round /\ StartupOf[r] = s
  BY OnStartup DEF IsFounder, IsBacker, IsBatch, IsAcquirer, IsIndustry, IsCity
<1>5. \A r \in rs : ~Exists(r)
  BY <1>3, <1>4 DEF DirOK, DirectoryOK, Exists
<1>6. new \in SUBSET Record /\ ts \in SUBSET Startup /\ links \cup ls \in SUBSET Link
  BY <1>4, LinksOfAreLinks DEF DirOK, DirectoryOK, Record
<1>7. Keyed(links \cup ls)
  <2>1. \A k \in links, l \in ls : k[2] # l[2]
    BY <1>3, NoRowsOfAbsent, OnStartup
  <2> QED
    BY <2>1, <1>1, BothKeyed DEF DirOK, DirectoryOK
<1>8. \A l \in links \cup ls : \A r \in Ends(l) : r \in new \/ Exists(r)
  BY <1>1 DEF DirOK, DirectoryOK, Exists
<1>9. \A r \in new : ~Exists(r)
  BY <1>3, <1>5
<1>10. \A r \in new \cap Round : StartupOf[r] \in new \/ Exists(StartupOf[r])
  BY <1>4, DistinctIds
<1> HIDE DEF new
<1> QED
  BY <1>2, <1>6, <1>7, <1>8, <1>9, <1>10, DraftsKeep

LEMMA CreateOneKeeps ==
  ASSUME DirOK, NEW r \in Founder \cup Investor \cup Batch, ~Exists(r),
         Write(Draft({r}), first, tagline, links)
  PROVE  Wrote /\ DirOK' /\ Keeps
<1>1. {r} \in SUBSET Record /\ {r} \cap Round = {} /\ tagline \in SUBSET Startup /\ links \in SUBSET Link
      /\ Keyed(links)
  BY DistinctIds DEF Record, DirOK, DirectoryOK
<1>2. \A l \in links : \A q \in Ends(l) : Exists(q)
  BY DEF DirOK, DirectoryOK, Exists
<1> QED
  BY <1>1, <1>2, DraftsKeep

LEMMA OrganizerRow ==
  ASSUME NEW b \in Batch, NEW i \in Investor, NEW l, l = <<"organizer", b, i>>
  PROVE  l \in Link /\ l[1] = "organizer" /\ l[2] = b /\ Ends(l) = {b, i}
<1>1. l \in Link /\ l[1] = "organizer" /\ l[2] = b /\ l[3] = i
  BY DEF Link
<1> QED
  BY <1>1, RowForms, DistinctIds
     DEF IsFounder, IsBacker, IsBatch, IsAcquirer, IsIndustry, IsCity, IsOrganizer

LEMMA CreateBatchKeeps ==
  ASSUME DirOK, NEW b \in Batch, CreateBatch(b)
  PROVE  Wrote /\ DirOK' /\ Keeps
<1>1. ~Exists(b)
  BY DEF CreateBatch
<1>2. PICK organizers \in {{}} \cup {{<<"organizer", b, i>>} : i \in {j \in Investor : Exists(j)}} :
        Write(Draft({b}), first, tagline, links \cup organizers)
  BY DEF CreateBatch
<1>3. organizers \in SUBSET Link /\ Keyed(organizers)
      /\ \A l \in organizers : l[2] = b /\ \A r \in Ends(l) : r = b \/ Exists(r)
  <2>1. CASE organizers = {}
    BY <2>1 DEF Keyed
  <2>2. CASE \E i \in Investor : Exists(i) /\ organizers = {<<"organizer", b, i>>}
    <3> PICK i \in Investor : Exists(i) /\ organizers = {<<"organizer", b, i>>}
      BY <2>2
    <3>1. <<"organizer", b, i>>[2] = b /\ <<"organizer", b, i>> \in Link /\ Ends(<<"organizer", b, i>>) = {b, i}
      BY OrganizerRow
    <3> QED
      BY <3>1, OneKeyed
  <2> QED
    BY <1>2, <2>1, <2>2
<1>4. Keyed(links \cup organizers)
  BY <1>1, <1>3, NoRowsOfAbsent, BothKeyed DEF DirOK, DirectoryOK
<1>5. {b} \in SUBSET Record /\ {b} \cap Round = {} /\ tagline \in SUBSET Startup
      /\ links \cup organizers \in SUBSET Link
  BY <1>3, DistinctIds DEF Record, DirOK, DirectoryOK
<1>6. \A l \in links \cup organizers : \A q \in Ends(l) : q \in {b} \/ Exists(q)
  BY <1>3 DEF DirOK, DirectoryOK, Exists
<1> QED
  BY <1>1, <1>2, <1>4, <1>5, <1>6, DraftsKeep

LEMMA CreateRoundKeeps ==
  ASSUME DirOK, NEW r \in Round, CreateRound(r)
  PROVE  Wrote /\ DirOK' /\ Keeps
<1>1. ~Exists(r) /\ Exists(StartupOf[r]) /\ StartupOf[r] \in Startup
  BY RecordsAssumption DEF CreateRound
<1>2. PICK ls \in SUBSET {l \in LinksOf(StartupOf[r]) : l[1] = "backer" /\ l[4] = r} :
        /\ Keyed(ls) /\ \A l \in ls : Exists(l[3])
        /\ Write(Draft({r}), first, tagline, links \cup ls)
  BY DEF CreateRound
<1>3. \A l \in ls : IsBacker(l) /\ l \in Link /\ l[4] = r /\ l[1] = "backer" /\ l[4] # None /\ l[2] = StartupOf[r]
  BY <1>1, <1>2, OnStartup, LinksOfAreLinks, RecordsAssumption
     DEF IsFounder, IsBatch, IsAcquirer, IsIndustry, IsCity, Record
<1>4. \A l \in ls : \A q \in Ends(l) : q \in {r} \/ Exists(q)
  BY <1>1, <1>2, <1>3 DEF IsBacker
<1>5. \A k \in links, l \in ls : k[1] = "backer" => k[4] # l[4]
  <2> SUFFICES ASSUME NEW k \in links, k[1] = "backer", k[4] = r PROVE FALSE
    BY <1>3
  <2>1. k \in Link /\ r # None
    BY RecordsAssumption DEF DirOK, DirectoryOK, Record
  <2>2. r \in Ends(k)
    BY <2>1, RowForms DEF IsFounder, IsBacker, IsBatch, IsAcquirer, IsIndustry, IsCity, IsOrganizer
  <2> QED
    BY <2>2, <1>1, NoRowsOfAbsent
<1>6. Keyed(links \cup ls)
  BY <1>2, <1>3, <1>5 DEF Keyed, DirOK, DirectoryOK
<1>7. {r} \in SUBSET Record /\ tagline \in SUBSET Startup /\ links \cup ls \in SUBSET Link
  BY <1>3 DEF Record, DirOK, DirectoryOK
<1>8. \A l \in links \cup ls : \A q \in Ends(l) : q \in {r} \/ Exists(q)
  BY <1>4 DEF DirOK, DirectoryOK, Exists
<1> QED
  BY <1>1, <1>2, <1>6, <1>7, <1>8, DraftsKeep

LEMMA UpdateStartupKeeps ==
  ASSUME DirOK, NEW s \in Startup, UpdateStartup(s)
  PROVE  Wrote /\ DirOK' /\ Keeps
<1> USE DEF DirOK, DirectoryOK
<1>1. CASE Write(status, first, IF s \in tagline THEN tagline \ {s} ELSE tagline \cup {s}, links)
  <2>1. (IF s \in tagline THEN tagline \ {s} ELSE tagline \cup {s}) \in SUBSET Startup
    OBVIOUS
  <2> QED
    BY <1>1, <2>1, RowsKeep DEF Exists
<1>2. ASSUME NEW column \in {"acquirer", "city"},
             NEW new \in {{}} \cup {{l} : l \in {k \in LinksOf(s) : k[1] = column}},
             \A l \in new : \A r \in Ends(l) : Exists(r),
             Write(status, first, tagline, (links \ {l \in Rows(column) : l[2] = s}) \cup new)
      PROVE  Wrote /\ DirOK' /\ Keeps
  <2> DEFINE rest == links \ {l \in Rows(column) : l[2] = s}
  <2>1. new \in SUBSET Link /\ Keyed(new) /\ \A l \in new : l[1] = column /\ l[2] = s
    BY OnStartup, LinksOfAreLinks DEF Keyed
  <2>2. Keyed(rest) /\ \A k \in rest : k[1] # column \/ k[2] # s
    BY FewerKeyed DEF Rows
  <2>3. Keyed(rest \cup new)
    BY <2>1, <2>2, BothKeyed
  <2>4. rest \cup new \in SUBSET Link /\ \A l \in rest \cup new : \A r \in Ends(l) : Exists(r)
    BY <1>2, <2>1 DEF Exists
  <2> QED
    BY <1>2, <2>3, <2>4, RowsKeep
<1> QED
  BY <1>1, <1>2 DEF UpdateStartup

LEMMA UpdateBatchKeeps ==
  ASSUME DirOK, NEW b \in Batch, UpdateBatch(b)
  PROVE  Wrote /\ DirOK' /\ Keeps
<1> USE DEF DirOK, DirectoryOK
<1> DEFINE rest == links \ {l \in Rows("organizer") : l[2] = b}
<1>1. Exists(b)
  BY DEF UpdateBatch
<1>2. PICK new \in {{}} \cup {{<<"organizer", b, i>>} : i \in {j \in Investor : Exists(j)}} :
        Write(status, first, tagline, rest \cup new)
  BY DEF UpdateBatch
<1>3. /\ new \in SUBSET Link /\ Keyed(new)
      /\ \A l \in new : l[1] = "organizer" /\ l[2] = b /\ \A r \in Ends(l) : Exists(r)
  <2>1. CASE new = {}
    BY <2>1 DEF Keyed
  <2>2. CASE \E i \in Investor : Exists(i) /\ new = {<<"organizer", b, i>>}
    <3> PICK i \in Investor : Exists(i) /\ new = {<<"organizer", b, i>>}
      BY <2>2
    <3>1. /\ <<"organizer", b, i>> \in Link /\ Ends(<<"organizer", b, i>>) = {b, i}
          /\ <<"organizer", b, i>>[1] = "organizer" /\ <<"organizer", b, i>>[2] = b
      BY OrganizerRow
    <3> QED
      BY <1>1, <3>1, OneKeyed
  <2> QED
    BY <1>2, <2>1, <2>2
<1>4. Keyed(rest) /\ \A k \in rest : k[1] # "organizer" \/ k[2] # b
  BY FewerKeyed DEF Rows
<1>5. Keyed(rest \cup new)
  BY <1>3, <1>4, BothKeyed
<1>6. rest \cup new \in SUBSET Link /\ \A l \in rest \cup new : \A r \in Ends(l) : Exists(r)
  BY <1>3 DEF Exists
<1> QED
  BY <1>2, <1>5, <1>6, RowsKeep

LEMMA AddLinkKeeps ==
  ASSUME DirOK, NEW s \in Startup, NEW table, AddLink(s, table)
  PROVE  Wrote /\ DirOK' /\ Keeps
<1>1. PICK l \in LinksOf(s) : /\ \A r \in Ends(l) : Exists(r)
                              /\ Keyed(links \cup {l})
                              /\ Write(status, first, tagline, links \cup {l})
  BY DEF AddLink
<1>2. links \cup {l} \in SUBSET Link /\ \A k \in links \cup {l} : \A r \in Ends(k) : Exists(r)
  BY <1>1, LinksOfAreLinks DEF DirOK, DirectoryOK, Exists
<1> QED
  BY <1>1, <1>2, RowsKeep DEF DirOK, DirectoryOK

LEMMA RemoveLinkKeeps ==
  ASSUME DirOK, NEW s, NEW table, RemoveLink(s, table)
  PROVE  Wrote /\ DirOK' /\ Keeps
<1>1. PICK l : Write(status, first, tagline, links \ {l})
  BY DEF RemoveLink
<1>2. links \ {l} \in SUBSET Link /\ Keyed(links \ {l})
  BY FewerKeyed DEF DirOK, DirectoryOK
<1> QED
  BY <1>1, <1>2, RowsKeep DEF DirOK, DirectoryOK, Exists

LEMMA SetIndustriesKeeps ==
  ASSUME DirOK, NEW s \in Startup, SetIndustries(s)
  PROVE  Wrote /\ DirOK' /\ Keeps
<1> USE DEF DirOK, DirectoryOK
<1> DEFINE rest == {l \in links : ~(l[1] = "industry" /\ l[2] = s)}
<1>1. PICK new \in SUBSET {l \in LinksOf(s) : l[1] = "industry"} :
        Keyed(new) /\ Write(status, first, tagline, rest \cup new)
  BY DEF SetIndustries
<1>2. /\ new \in SUBSET Link /\ \A l \in new : l[1] = "industry" /\ l[2] = s /\ Ends(l) = {s}
  BY OnStartup, LinksOfAreLinks
     DEF IsFounder, IsBacker, IsBatch, IsAcquirer, IsIndustry, IsCity
<1>3. Keyed(rest) /\ \A k \in rest : k[1] # "industry" \/ k[2] # s
  BY FewerKeyed
<1>4. Keyed(rest \cup new)
  BY <1>1, <1>2, <1>3, BothKeyed
<1>5. Exists(s)
  BY DEF SetIndustries
<1>6. rest \cup new \in SUBSET Link /\ \A l \in rest \cup new : \A r \in Ends(l) : Exists(r)
  BY <1>2, <1>5 DEF Exists
<1> QED
  BY <1>1, <1>4, <1>6, RowsKeep

LEMMA TransitionKeeps ==
  ASSUME DirOK, NEW r \in Record, NEW action \in DOMAIN Transitions, Transition(r, action)
  PROVE  Wrote /\ DirOK' /\ Keeps
<1> USE DEF DirOK, DirectoryOK, Status
<1> DEFINE to == Transitions[action].to
           fs == IF action = "publish" THEN first \cup {r} ELSE first
<1>1. /\ to \in {"draft", "published", "archived"} /\ (to = "published" <=> action = "publish")
      /\ status[r] # "absent"
  <2>1. action \in {"publish", "unpublish", "archive", "restore"}
    BY DEF Transitions
  <2> QED
    BY <2>1 DEF Transition, Transitions
<1>2. Write([status EXCEPT ![r] = to], fs, tagline, links)
  BY DEF Transition
<1> HIDE DEF to, fs
<1>3. Wrote /\ status' = [status EXCEPT ![r] = to] /\ first' = fs /\ tagline' = tagline /\ links' = links
  BY ONLY <1>2, WriteWrote
<1>4. /\ status' \in [Record -> Status] /\ \A q \in Record : q # r => status'[q] = status[q]
      /\ status'[r] = to /\ to # "absent"
  BY <1>1, <1>3
<1>5. Published(status') \subseteq fs
  BY <1>1, <1>4 DEF Published, fs
<1>6. \A q \in Round : status'[q] # "absent" => status'[StartupOf[q]] # "absent"
  BY <1>1, <1>4, RecordsAssumption DEF Record
<1>7. \A l \in links : \A q \in Ends(l) : status'[q] # "absent"
  BY <1>1, <1>4 DEF Ends
<1>8. fs \subseteq Record /\ first \subseteq fs
  BY DEF fs
<1>9. Keeps
  BY <1>3, <1>4, <1>8 DEF Keeps, Exists
<1> QED
  BY <1>3, <1>4, <1>5, <1>6, <1>7, <1>8, <1>9

\* Deleting takes a record that was never published; of a startup its rounds, and every row of them.
LEMMA HardDeleteKeeps ==
  ASSUME DirOK, NEW r \in Record, HardDelete(r)
  PROVE  LET gone == {r} \cup {q \in Round : StartupOf[q] = r}
         IN  /\ Wrote /\ DirOK'
             /\ r \notin first /\ first' = first \ gone
             /\ \A q \in Record \ gone : status'[q] = status[q]
             /\ links' = {l \in links : Ends(l) \cap gone = {}}
<1> USE DEF DirOK, DirectoryOK, Status
<1> DEFINE gone == {r} \cup {q \in Round : StartupOf[q] = r}
           st == [q \in Record |-> IF q \in gone THEN "absent" ELSE status[q]]
           ls == {l \in links : Ends(l) \cap gone = {}}
<1>1. Write(st, first \ gone, tagline \ gone, ls) /\ r \notin first
  BY DEF HardDelete
<1>2. Wrote /\ status' = st /\ first' = first \ gone /\ tagline' = tagline \ gone /\ links' = ls
  BY <1>1, WriteWrote
<1>3. /\ st \in [Record -> Status] /\ \A q \in Record \ gone : st[q] = status[q]
      /\ \A q \in Record \cap gone : st[q] = "absent"
  OBVIOUS
<1>4. \A q \in Round : st[q] # "absent" => st[StartupOf[q]] # "absent"
  <2> SUFFICES ASSUME NEW q \in Round, st[q] # "absent" PROVE st[StartupOf[q]] # "absent"
    OBVIOUS
  <2>1. q \notin gone /\ status[q] # "absent"
    BY <1>3 DEF Record
  <2>2. StartupOf[q] \in Startup /\ StartupOf[q] # r
    BY <2>1, RecordsAssumption
  <2>3. StartupOf[q] \in Record \ gone
    BY <2>2, DistinctIds DEF Record
  <2> HIDE DEF gone, st
  <2> QED
    BY <1>3, <2>1, <2>3
<1>5. \A l \in ls : \A q \in Ends(l) : st[q] # "absent"
  BY <1>3 DEF Ends
<1>6. Published(st) \subseteq first \ gone
  BY <1>3 DEF Published
<1>7. Keyed(ls) /\ ls \subseteq Link
  BY FewerKeyed
<1> QED
  BY <1>1, <1>2, <1>3, <1>4, <1>5, <1>6, <1>7

\* Every write but a deletion.
LEMMA EditsKeep ==
  ASSUME DirOK, Edit, ~\E r \in Record : HardDelete(r)
  PROVE  Wrote /\ DirOK' /\ Keeps
<1>1. ASSUME NEW s \in Startup,
             \/ CreateStartup(s) \/ UpdateStartup(s) \/ SetIndustries(s)
             \/ AddFounder(s) \/ RemoveFounder(s)
             \/ AddInvestor(s) \/ RemoveInvestor(s)
             \/ AddBatch(s) \/ RemoveBatch(s)
      PROVE  Wrote /\ DirOK' /\ Keeps
  BY <1>1, CreateStartupKeeps, UpdateStartupKeeps, SetIndustriesKeeps, AddLinkKeeps, RemoveLinkKeeps
     DEF AddFounder, RemoveFounder, AddInvestor, RemoveInvestor, AddBatch, RemoveBatch
<1>2. ASSUME NEW f \in Founder, CreateFounder(f)
      PROVE  Wrote /\ DirOK' /\ Keeps
  BY <1>2, CreateOneKeeps DEF CreateFounder
<1>3. ASSUME NEW i \in Investor, CreateInvestor(i)
      PROVE  Wrote /\ DirOK' /\ Keeps
  BY <1>3, CreateOneKeeps DEF CreateInvestor
<1>4. ASSUME NEW b \in Batch, CreateBatch(b) \/ UpdateBatch(b)
      PROVE  Wrote /\ DirOK' /\ Keeps
  BY <1>4, CreateBatchKeeps, UpdateBatchKeeps
<1>5. ASSUME NEW r \in Round, CreateRound(r)
      PROVE  Wrote /\ DirOK' /\ Keeps
  BY <1>5, CreateRoundKeeps
<1>6. ASSUME NEW r \in Record, NEW action \in DOMAIN Transitions, Transition(r, action)
      PROVE  Wrote /\ DirOK' /\ Keeps
  BY <1>6, TransitionKeeps
<1> QED
  BY <1>1, <1>2, <1>3, <1>4, <1>5, <1>6 DEF Edit

-----------------------------------------------------------------------------
(* What was ever public. *)

\* A record that was public, a public round's startup, and the ends of a public row have all been
\* published.
WasPublished(xs, fs) ==
    /\ xs \subseteq Record \cup Link
    /\ \A r \in xs \cap Record : r \in fs /\ (r \in Round => StartupOf[r] \in fs)
    /\ \A l \in xs \ Record : Ends(l) \subseteq fs
SeenOK == WasPublished(seen, first)

LEMMA PublicPublished ==
  ASSUME NEW st, NEW fs, NEW ls \in SUBSET Link, Published(st) \subseteq fs
  PROVE  WasPublished(PublicRows(Published(st), ls), fs)
<1>1. \A l \in ls : l \notin Record
  BY RowsAreNoIds
<1>2. Published(st) \subseteq Record
  BY DEF Published
<1> QED
  BY <1>1, <1>2 DEF WasPublished, PublicRows

LEMMA SeenGrows ==
  ASSUME Wrote, DirOK', WasPublished(seen, first')
  PROVE  SeenOK'
<1>1. WasPublished(PublicRows(Published(status'), links'), first')
  BY PublicPublished DEF DirOK, DirectoryOK
<1>2. seen' = seen \cup PublicRows(Published(status'), links')
  BY DEF Wrote, Write
<1> QED
  BY <1>1, <1>2 DEF SeenOK, WasPublished

\* A row of a round is also of its startup.
LEMMA RowOfRound ==
  ASSUME NEW l \in Link, NEW q \in Round, q \in Ends(l)
  PROVE  StartupOf[q] \in Ends(l)
  BY RowForms, DistinctIds
     DEF IsFounder, IsBacker, IsBatch, IsAcquirer, IsIndustry, IsCity, IsOrganizer

LEMMA DeletionUnseen ==
  ASSUME SeenOK, NEW r \in Record, r \notin first
  PROVE  LET gone == {r} \cup {q \in Round : StartupOf[q] = r}
         IN  /\ seen \cap gone = {}
             /\ \A l \in seen \ Record : Ends(l) \cap gone = {}
             /\ \A q \in (seen \cap Round) : StartupOf[q] \notin gone
<1> DEFINE gone == {r} \cup {q \in Round : StartupOf[q] = r}
<1>1. gone \subseteq Record
  BY DEF Record
<1>2. seen \cap gone = {}
  BY <1>1 DEF SeenOK, WasPublished
<1>3. \A l \in seen \ Record : Ends(l) \cap gone = {}
  <2> SUFFICES ASSUME NEW l \in seen \ Record, NEW q \in Ends(l), q \in gone PROVE FALSE
    OBVIOUS
  <2>1. l \in Link /\ Ends(l) \subseteq first
    BY DEF SeenOK, WasPublished
  <2>2. r \in Ends(l)
    BY <2>1, RowOfRound
  <2> QED
    BY <2>1, <2>2
<1>4. \A q \in (seen \cap Round) : StartupOf[q] \notin gone
  BY RecordsAssumption, DistinctIds DEF SeenOK, WasPublished, Record
<1> QED
  BY <1>2, <1>3, <1>4

\* Deleting a record keeps all of what was seen, and the rows that go with it were not.
LEMMA DeletionStep ==
  ASSUME DirOK, SeenOK, NEW r \in Record, HardDelete(r)
  PROVE  /\ Wrote /\ DirOK' /\ SeenOK'
         /\ seen \cap ({q \in Record : Exists(q) /\ status'[q] = "absent"} \cup (links \ links')) = {}
<1> DEFINE gone == {r} \cup {q \in Round : StartupOf[q] = r}
<1>1. /\ Wrote /\ DirOK'
      /\ r \notin first /\ first' = first \ gone
      /\ \A q \in Record \ gone : status'[q] = status[q]
      /\ links' = {l \in links : Ends(l) \cap gone = {}}
  BY HardDeleteKeeps
<1>2. /\ seen \cap gone = {}
      /\ \A l \in seen \ Record : Ends(l) \cap gone = {}
      /\ \A q \in (seen \cap Round) : StartupOf[q] \notin gone
  BY <1>1, DeletionUnseen
<1> HIDE DEF gone
<1>3. WasPublished(seen, first')
  BY <1>1, <1>2 DEF SeenOK, WasPublished
<1>4. {q \in Record : Exists(q) /\ status'[q] = "absent"} \subseteq gone
  BY <1>1 DEF Exists
<1>5. seen \cap (links \ links') = {}
  BY <1>1, <1>2, RowsAreNoIds DEF DirOK, DirectoryOK
<1> QED
  BY <1>1, <1>2, <1>3, <1>4, <1>5, SeenGrows

LEMMA EditStep ==
  ASSUME DirOK, SeenOK, Edit
  PROVE  /\ Wrote /\ DirOK' /\ SeenOK'
         /\ LET gone == {r \in Record : Exists(r) /\ status'[r] = "absent"}
            IN  gone # {} => seen \cap (gone \cup (links \ links')) = {}
<1>1. CASE \E r \in Record : HardDelete(r)
  BY <1>1, DeletionStep
<1>2. CASE ~\E r \in Record : HardDelete(r)
  <2>1. Wrote /\ DirOK' /\ Keeps
    BY <1>2, EditsKeep
  <2>2. WasPublished(seen, first')
    BY <2>1 DEF Keeps, SeenOK, WasPublished
  <2>3. {r \in Record : Exists(r) /\ status'[r] = "absent"} = {}
    BY <2>1 DEF Keeps
  <2> QED
    BY <2>1, <2>2, <2>3, SeenGrows
<1> QED
  BY <1>1, <1>2

-----------------------------------------------------------------------------
(* Pages. *)

IsPage(p) ==
    p = [kind |-> p.kind, of |-> p.of, todo |-> p.todo, ids |-> p.ids, facts |-> p.facts,
         count |-> p.count, mode |-> p.mode, end |-> p.end]

\* What a page under way relies on: what it read before was shown rightly.
Underway ==
    /\ Published(status) \subseteq live /\ links \subseteq rows
    /\ page.kind = "company" => page.of \in live \cap Startup
    /\ page.kind = "founder" =>
          /\ page.of \in live
          /\ "stints" \notin page.todo =>
               \A l \in page.ids : l \in rows /\ l[2] \in Startup /\ Ends(l) \subseteq live /\ l[1] = "founder"
    /\ page.kind \in {"news", "led"} => page.ids \subseteq Round
PageOK ==
    /\ IsPage(page) /\ rows \subseteq Link
    /\ NothingHidden
    /\ page.end = "reading" => Underway

LEMMA PageBesideWrites ==
  ASSUME PageOK, Wrote, DirOK'
  PROVE  PageOK'
<1>1. links' \subseteq Link
  BY DEF DirOK, DirectoryOK
<1>2. CASE page.end = "reading"
  <2>1. live' = live \cup Published(status') /\ rows' = rows \cup links' /\ page' = page
    BY <1>2 DEF Wrote, Write
  <2>2. NothingHidden'
    BY <2>1, PublicGrows DEF PageOK, NothingHidden
  <2>3. Underway'
    BY <1>2, <2>1 DEF PageOK, Underway
  <2> QED
    BY <1>1, <2>1, <2>2, <2>3 DEF PageOK
<1>3. CASE page.end # "reading"
  <2>1. page' = NoPage /\ rows' = {}
    BY <1>3 DEF Wrote, Write
  <2> QED
    BY <2>1 DEF PageOK, NoPage, IsPage, NothingHidden
<1> QED
  BY <1>2, <1>3

LEMMA OpenOK ==
  ASSUME Typed, NEW kind, NEW of, NEW todo, NEW ids, NEW facts, NEW count,
         Open(kind, of, todo, ids, facts, count), facts \subseteq Now,
         kind = "company" => of \in Startup /\ Visible(of),
         kind = "founder" => of \in Founder /\ Visible(of) /\ "stints" \in todo,
         kind \in {"news", "led"} => ids \subseteq Round
  PROVE  PageOK'
<1>1. /\ page' = [kind |-> kind, of |-> of, todo |-> todo, ids |-> ids, facts |-> facts,
                  count |-> count, mode |-> "fulltext", end |-> "reading"]
      /\ live' = Published(status) /\ rows' = links /\ status' = status /\ links' = links
  BY DEF Open, NoPage, db
<1>2. of \in Startup \cup Founder => (Visible(of) <=> of \in Published(status))
  BY VisibleIsPublished DEF Record
<1> QED
  BY <1>1, <1>2 DEF PageOK, IsPage, NothingHidden, Underway, Now, Typed

LEMMA AnswerOK ==
  ASSUME Typed, NEW kind, NEW of, NEW facts, NEW end, Answer(kind, of, facts, end),
         facts \subseteq Now, end # "reading"
  PROVE  PageOK'
<1>1. /\ page' = [kind |-> kind, of |-> of, todo |-> {}, ids |-> {}, facts |-> facts,
                  count |-> 0, mode |-> "fulltext", end |-> end]
      /\ live' = Published(status) /\ rows' = links /\ status' = status /\ links' = links
  BY DEF Answer, NoPage, db
<1> QED
  BY <1>1 DEF PageOK, IsPage, NothingHidden, Now, Typed

LEMMA NowIsShown ==
  ASSUME PageOK, page.end = "reading"
  PROVE  Now \subseteq Public(live, rows)
  BY PublicGrows DEF PageOK, Underway, Now

LEMMA StepOK ==
  ASSUME PageOK, NEW statement, NEW ids, NEW facts, NEW end,
         page.end = "reading", Step(statement, ids, facts, end), facts \subseteq Public(live, rows),
         page.kind # "founder",
         page.kind \in {"news", "led"} => ids \subseteq Round
  PROVE  PageOK'
<1>1. /\ page' = [page EXCEPT !.todo = @ \ {statement}, !.ids = ids, !.facts = @ \cup facts,
                              !.end = end]
      /\ live' = live /\ rows' = rows /\ status' = status /\ links' = links
  BY DEF Step, db
<1>2. /\ IsPage(page') /\ page'.kind = page.kind /\ page'.of = page.of /\ page'.ids = ids
      /\ page'.facts = page.facts \cup facts
  BY <1>1 DEF PageOK, IsPage
<1> QED
  BY <1>1, <1>2 DEF PageOK, NothingHidden, Underway

LEMMA NotFoundOK ==
  ASSUME Typed, NEW kind, NEW of, NotFound(kind, of)
  PROVE  PageOK'
  BY AnswerOK DEF NotFound

LEMMA CompanyRead ==
  ASSUME Typed, PageOK,
         \/ \E s \in Startup : ReadCompany(s) \/ ReadTimeline(s) \/ ReadSimilar(s)
         \/ CompanyFounders \/ CompanyRounds \/ SimilarCards
  PROVE  PageOK'
<1>1. ASSUME NEW s \in Startup, ReadCompany(s)
      PROVE  PageOK'
  BY <1>1, DetailsNow, OpenOK, NotFoundOK DEF ReadCompany
<1>2. ASSUME NEW s \in Startup, ReadTimeline(s)
      PROVE  PageOK'
  BY <1>2, OpenOK, NotFoundOK DEF ReadTimeline
<1>3. ASSUME NEW s \in Startup, ReadSimilar(s)
      PROVE  PageOK'
  <2> DEFINE ids == {l[3] : l \in {k \in Rows("industry") : k[2] = s /\ k[4]} \cup
                                  {k \in Rows("city") : k[2] = s}}
  <2>1. Open("similar", s, {"cards"}, ids, {}, 0) \/ NotFound("similar", s)
    BY <1>3 DEF ReadSimilar
  <2> HIDE DEF ids
  <2> QED
    BY <2>1, OpenOK, NotFoundOK
<1>4. CASE CompanyFounders
  <2>1. /\ page.end = "reading" /\ page.kind = "company"
        /\ Step("founders", {}, SelectFounders(page.of), Last)
    BY <1>4 DEF CompanyFounders, Reads
  <2>2. SelectFounders(page.of) \subseteq Public(live, rows)
    <3> SUFFICES ASSUME NEW l \in Rows("founder"), l[2] = page.of, Visible(l[3])
                 PROVE  l \in Public(live, rows)
      BY DEF SelectFounders
    <3>1. l \in Link /\ l[1] = "founder" /\ l \in rows
      BY <2>1 DEF Typed, Rows, PageOK, Underway
    <3>2. Ends(l) = {l[2], l[3]} /\ l[3] \in Founder
      BY <3>1, RowForms DEF IsFounder, IsBacker, IsBatch, IsAcquirer, IsIndustry, IsCity, IsOrganizer
    <3>3. l[2] \in live /\ l[3] \in live
      BY <2>1, <3>2, VisibleIsPublished DEF PageOK, Underway, Record
    <3>4. Facts(l) \subseteq Public(live, rows)
      BY <3>1, <3>2, <3>3, PublicRow
    <3> QED
      BY <3>1, <3>4, FactsOfRow
  <2> QED
    BY <2>1, <2>2, StepOK
<1>5. CASE CompanyRounds
  <2> DEFINE facts == RoundFacts({r \in Round : StartupOf[r] = page.of})
  <2>1. /\ page.end = "reading" /\ page.kind \in {"company", "timeline"}
        /\ Step("rounds", {}, facts, Last)
    BY <1>5 DEF CompanyRounds, Reads
  <2>2. facts \subseteq Public(live, rows)
    BY <2>1, RoundsNow, NowIsShown
  <2> HIDE DEF facts
  <2> QED
    BY <2>1, <2>2, StepOK
<1>6. CASE SimilarCards
  <2> DEFINE ss == SelectCards(Similar(page.of, page.ids \cap Industry, page.ids \cap City))
  <2>1. /\ page.end = "reading" /\ page.kind = "similar"
        /\ Step("cards", ss, Cards(ss), "found")
    BY <1>6 DEF SimilarCards, Reads
  <2>2. ss \in SUBSET Startup
    BY FiltersFindStartups DEF SelectCards
  <2> HIDE DEF ss
  <2> QED
    BY <2>1, <2>2, CardsNow, NowIsShown, StepOK
<1> QED
  BY <1>1, <1>2, <1>3, <1>4, <1>5, <1>6

LEMMA FounderRead ==
  ASSUME Typed, PageOK, (\E f \in Founder : ReadFounder(f)) \/ FounderStints \/ FounderCards
  PROVE  PageOK'
<1>1. ASSUME NEW f \in Founder, ReadFounder(f)
      PROVE  PageOK'
  <2>1. f \in Record \ Round
    BY DistinctIds DEF Record
  <2> QED
    BY <1>1, <2>1, RecordNow, OpenOK, NotFoundOK DEF ReadFounder
<1>2. CASE FounderStints
  <2>1. /\ page.end = "reading" /\ page.kind = "founder"
        /\ page' = [page EXCEPT !.todo = @ \ {"stints"}, !.ids = Stints(page.of),
                                !.facts = @ \cup {}, !.end = "reading"]
        /\ live' = live /\ rows' = rows /\ status' = status /\ links' = links
    BY <1>2 DEF FounderStints, Reads, Step, db
  <2>2. \A l \in Stints(page.of) :
           l \in rows /\ l[2] \in Startup /\ Ends(l) \subseteq live /\ l[1] = "founder"
    <3> SUFFICES ASSUME NEW l \in Rows("founder"), l[3] = page.of, Visible(l[2])
                 PROVE  l \in rows /\ l[2] \in Startup /\ Ends(l) \subseteq live /\ l[1] = "founder"
      BY DEF Stints
    <3>1. l \in Link /\ l[1] = "founder" /\ l \in rows
      BY <2>1 DEF Typed, Rows, PageOK, Underway
    <3>2. Ends(l) = {l[2], l[3]} /\ l[2] \in Startup
      BY <3>1, RowForms DEF IsFounder, IsBacker, IsBatch, IsAcquirer, IsIndustry, IsCity, IsOrganizer
    <3>3. l[2] \in live /\ l[3] \in live
      BY <2>1, <3>2, VisibleIsPublished DEF PageOK, Underway, Record
    <3> QED
      BY <3>1, <3>2, <3>3
  <2>3. /\ IsPage(page') /\ page'.kind = page.kind /\ page'.of = page.of
        /\ page'.ids = Stints(page.of) /\ page'.facts = page.facts
    BY <2>1 DEF PageOK, IsPage
  <2> QED
    BY <2>1, <2>2, <2>3 DEF PageOK, NothingHidden, Underway
<1>3. CASE FounderCards
  <2> DEFINE ss == SelectCards({l[2] : l \in page.ids})
             facts == Cards(ss) \cup {l \in page.ids : l[2] \in ss}
  <2>1. /\ page.end = "reading" /\ page.kind = "founder" /\ "stints" \notin page.todo
        /\ page' = [page EXCEPT !.todo = @ \ {"cards"}, !.ids = page.ids,
                                !.facts = @ \cup facts, !.end = "found"]
        /\ live' = live /\ rows' = rows /\ status' = status /\ links' = links
    BY <1>3 DEF FounderCards, Reads, Step, db
  <2>2. ss \in SUBSET Startup
    BY <2>1 DEF PageOK, Underway, SelectCards
  <2>3. \A l \in page.ids : l \in Public(live, rows)
    BY <2>1, PublicRow, FactsOfRow DEF PageOK, Underway
  <2>4. facts \subseteq Public(live, rows)
    BY <2>1, <2>2, <2>3, CardsNow, NowIsShown
  <2> HIDE DEF facts
  <2>5. IsPage(page') /\ page'.facts = page.facts \cup facts /\ page'.end = "found"
    BY <2>1 DEF PageOK, IsPage
  <2> QED
    BY <2>1, <2>4, <2>5 DEF PageOK, NothingHidden
<1> QED
  BY <1>1, <1>2, <1>3

LEMMA InvestorRead ==
  ASSUME Typed, PageOK,
         \/ \E i \in Investor : ReadInvestor(i) \/ ReadPortfolio(i) \/ ReadLed(i)
         \/ InvestorPortfolio \/ LedRows
  PROVE  PageOK'
<1>1. ASSUME NEW i \in Investor, ReadInvestor(i) \/ ReadPortfolio(i) \/ ReadLed(i)
      PROVE  PageOK'
  <2>1. Visible(i) => {i} \subseteq Now
    BY RecordNow, DistinctIds DEF Record
  <2> QED
    BY <1>1, <2>1, OpenOK, NotFoundOK DEF ReadInvestor, ReadPortfolio, ReadLed
<1>2. CASE InvestorPortfolio
  <2> DEFINE ss == SelectCards(BackedBy(page.of))
             facts == Cards(BackedBy(page.of)) \cup {<<"backs", page.of, s>> : s \in ss}
  <2>1. /\ page.end = "reading" /\ page.kind \in {"investor", "portfolio"}
        /\ Step("portfolio", ss, facts, "found")
    BY <1>2 DEF InvestorPortfolio, Reads
  <2>2. ASSUME NEW s \in ss
        PROVE  <<"backs", page.of, s>> \in Now
    <3>1. PICK l \in Rows("backer") :
            /\ s = l[2] /\ l[3] = page.of /\ Visible(page.of) /\ (l[4] = None \/ Visible(l[4]))
            /\ Visible(s)
      BY <2>2 DEF SelectCards, BackedBy
    <3> QED
      BY <3>1, RowsNow, FactsOfRow DEF Rows
  <2>3. facts \subseteq Now
    BY <2>2, CardsNow, FiltersFindStartups
  <2> HIDE DEF ss, facts
  <2> QED
    BY <2>1, <2>3, NowIsShown, StepOK
<1>3. CASE LedRows
  <2> DEFINE rs == LedRounds(page.of)
  <2>1. page.end = "reading" /\ page.kind = "led" /\ Step("rounds", SelectRounds(rs), RoundFacts(rs), "reading")
    BY <1>3 DEF LedRows, Reads
  <2>2. rs \in SUBSET Round
    BY RowForms
       DEF LedRounds, Rows, Typed, IsFounder, IsBacker, IsBatch, IsAcquirer, IsIndustry, IsCity, IsOrganizer
  <2>3. SelectRounds(rs) \subseteq Round
    BY <2>2 DEF SelectRounds
  <2> HIDE DEF rs
  <2> QED
    BY <2>1, <2>2, <2>3, RoundsNow, NowIsShown, StepOK
<1> QED
  BY <1>1, <1>2, <1>3

LEMMA BatchRead ==
  ASSUME Typed, PageOK,
         (\E b \in Batch : ReadBatch(b) \/ ReadStats(b)) \/ BatchStats \/ BatchCohort
  PROVE  PageOK'
<1>1. ASSUME NEW b \in Batch, ReadBatch(b)
      PROVE  PageOK'
  <2> DEFINE facts == {b} \cup {l \in Rows("organizer") : l[2] = b /\ Visible(l[3])}
  <2>1. Visible(b) => facts \subseteq Now
    BY RecordNow, RowsNow, DistinctIds DEF Record, Rows
  <2>2. IF Visible(b) THEN Open("batch", b, {"stats", "cohort"}, {}, facts, 0) ELSE NotFound("batch", b)
    BY <1>1 DEF ReadBatch
  <2> HIDE DEF facts
  <2> QED
    BY <2>1, <2>2, OpenOK, NotFoundOK
<1>2. ASSUME NEW b \in Batch, ReadStats(b)
      PROVE  PageOK'
  BY <1>2, OpenOK, NotFoundOK DEF ReadStats
<1>3. CASE BatchStats
  <2>1. /\ page.end = "reading" /\ page.kind \in {"batch", "stats"}
        /\ page' = [page EXCEPT !.todo = @ \ {"stats"}, !.count = CompanyCount(page.of), !.end = Last]
        /\ live' = live /\ rows' = rows /\ status' = status /\ links' = links
    BY <1>3 DEF BatchStats, Reads, db
  <2>2. IsPage(page') /\ page'.kind = page.kind /\ page'.facts = page.facts
    BY <2>1 DEF PageOK, IsPage
  <2> QED
    BY <2>1, <2>2 DEF PageOK, NothingHidden, Underway
<1>4. CASE BatchCohort
  <2> DEFINE ss == SelectCards(InBatch(page.of))
             facts == Cards(ss) \cup {<<"batch", s, page.of>> : s \in ss}
  <2>1. page.end = "reading" /\ page.kind = "batch" /\ Step("cohort", ss, facts, Last)
    BY <1>4 DEF BatchCohort, Reads
  <2>2. ASSUME NEW s \in ss
        PROVE  <<"batch", s, page.of>> \in Now
    <3>1. PICK l \in Rows("batch") : s = l[2] /\ l[3] = page.of /\ Visible(page.of) /\ Visible(s)
      BY <2>2 DEF SelectCards, InBatch
    <3>2. l = <<"batch", s, page.of>>
      BY <3>1, RowForms
         DEF Rows, Typed, IsFounder, IsBacker, IsBatch, IsAcquirer, IsIndustry, IsCity, IsOrganizer
    <3> QED
      BY <3>1, <3>2, RowsNow DEF Rows
  <2>3. ss \in SUBSET Startup
    BY FiltersFindStartups DEF SelectCards
  <2>4. facts \subseteq Now
    BY <2>2, <2>3, CardsNow
  <2> HIDE DEF ss, facts
  <2> QED
    BY <2>1, <2>4, NowIsShown, StepOK
<1> QED
  BY <1>1, <1>2, <1>3, <1>4

LEMMA ListRead ==
  ASSUME Typed, PageOK,
         \/ ReadNews \/ FeedCards \/ ReadLanding \/ Suggest
         \/ \E x \in Industry \cup City \cup Country : ReadCategory(x)
         \/ CategoryCompanies
  PROVE  PageOK'
<1>1. CASE ReadNews
  <2>1. SelectRounds(Round) \subseteq Round
    BY DEF SelectRounds
  <2> QED
    BY <1>1, <2>1, RoundsNow, OpenOK DEF ReadNews
<1>2. CASE FeedCards
  <2> DEFINE ss == {StartupOf[r] : r \in page.ids}
             end == IF ss \subseteq SelectCards(ss) THEN "found" ELSE "error"
  <2>1. /\ page.end = "reading" /\ page.kind \in {"news", "led"}
        /\ Step("cards", page.ids, Cards(ss), end)
    BY <1>2 DEF FeedCards, Reads
  <2>2. ss \in SUBSET Startup /\ page.ids \subseteq Round
    BY <2>1, RecordsAssumption DEF PageOK, Underway
  <2> HIDE DEF ss, end
  <2> QED
    BY <2>1, <2>2, CardsNow, NowIsShown, StepOK
<1>3. CASE ReadLanding
  <2>1. Landing \in SUBSET Startup
    BY FiltersFindStartups DEF Landing, SelectCards
  <2> QED
    BY <1>3, <2>1, CardsNow, AnswerOK DEF ReadLanding
<1>4. CASE Suggest
  <2> DEFINE facts == {r \in Hits["fulltext"] \cup Hits["trigram"] : Visible(r)}
  <2>1. facts \subseteq Now
    BY RecordNow, RecordsAssumption
  <2>2. Answer("suggest", None, facts, "found")
    BY <1>4 DEF Suggest
  <2> HIDE DEF facts
  <2> QED
    BY <2>1, <2>2, AnswerOK
<1>5. ASSUME NEW x, ReadCategory(x)
      PROVE  PageOK'
  BY <1>5, OpenOK, NotFoundOK DEF ReadCategory
<1>6. CASE CategoryCompanies
  <2> DEFINE ss == InFacet(page.of)
  <2>1. page.end = "reading" /\ page.kind = "category" /\ Step("companies", SelectCards(ss), Cards(ss), "found")
    BY <1>6 DEF CategoryCompanies, Reads
  <2>2. ss \in SUBSET Startup
    BY FiltersFindStartups
  <2> HIDE DEF ss
  <2> QED
    BY <2>1, <2>2, CardsNow, NowIsShown, StepOK
<1> QED
  BY <1>1, <1>2, <1>3, <1>4, <1>5, <1>6

LEMMA SearchRead ==
  ASSUME Typed, PageOK,
         \/ \E want \in {Groups} \cup {{g} : g \in Groups} : Search(want)
         \/ \E g \in Groups : SearchGroup(g)
  PROVE  PageOK'
<1>1. ASSUME NEW want, Search(want)
      PROVE  PageOK'
  BY <1>1, OpenOK DEF Search
<1>2. ASSUME NEW g \in Groups, SearchGroup(g)
      PROVE  PageOK'
  <2> DEFINE found == {r \in GroupOf(g) \cap Hits[page.mode] : Visible(r)}
             facts == IF g = "startup" THEN Cards(found) ELSE found
             retry == Last = "found" /\ page.facts \cup facts = {} /\ page.mode = "fulltext"
             todo == IF retry THEN page.ids ELSE page.todo \ {g}
             mode == IF retry THEN "trigram" ELSE page.mode
             end == IF retry THEN "reading" ELSE Last
  <2>1. /\ page.end = "reading" /\ page.kind = "search"
        /\ page' = [page EXCEPT !.facts = @ \cup facts, !.todo = todo, !.mode = mode, !.end = end]
        /\ live' = live /\ rows' = rows /\ status' = status /\ links' = links
    BY <1>2 DEF SearchGroup, Reads, db
  <2>2. facts \subseteq Now
    <3>1. CASE g = "startup"
      <4>1. found \in SUBSET Startup
        BY <3>1 DEF GroupOf
      <4> QED
        BY <3>1, <4>1, CardsNow
    <3>2. CASE g # "startup"
      <4>1. \A r \in found : r \in Record \ Round /\ Visible(r)
        BY <3>2, DistinctIds DEF GroupOf, Groups, Record
      <4> QED
        BY <3>2, <4>1, RecordNow
    <3> QED
      BY <3>1, <3>2
  <2>3. facts \subseteq Public(live, rows)
    BY <2>1, <2>2, NowIsShown
  <2> HIDE DEF facts, todo, mode, end
  <2>4. IsPage(page') /\ page'.kind = page.kind /\ page'.facts = page.facts \cup facts
    BY <2>1 DEF PageOK, IsPage
  <2> QED
    BY <2>1, <2>3, <2>4 DEF PageOK, NothingHidden, Underway
<1> QED
  BY <1>1, <1>2

LEMMA ReadOK ==
  ASSUME Typed, PageOK, Read
  PROVE  PageOK'
  BY CompanyRead, FounderRead, InvestorRead, BatchRead, ListRead, SearchRead DEF Read

LEMMA ReadsWriteNothing ==
  ASSUME Read
  PROVE  UNCHANGED <<db, writes, seen>> /\ (still \in BOOLEAN => still' \in BOOLEAN)
<1> USE DEF Open, Answer, NotFound, Step
<1>1. CASE \/ \E s \in Startup : ReadCompany(s) \/ ReadTimeline(s) \/ ReadSimilar(s)
           \/ CompanyFounders \/ CompanyRounds \/ SimilarCards
           \/ \E f \in Founder : ReadFounder(f)
           \/ FounderStints \/ FounderCards
  BY <1>1 DEF ReadCompany, ReadTimeline, ReadSimilar, CompanyFounders, CompanyRounds, SimilarCards,
              ReadFounder, FounderStints, FounderCards
<1>2. CASE \/ \E i \in Investor : ReadInvestor(i) \/ ReadPortfolio(i) \/ ReadLed(i)
           \/ InvestorPortfolio \/ LedRows
           \/ \E b \in Batch : ReadBatch(b) \/ ReadStats(b)
           \/ BatchStats \/ BatchCohort
  BY <1>2 DEF ReadInvestor, ReadPortfolio, ReadLed, InvestorPortfolio, LedRows, ReadBatch, ReadStats,
              BatchStats, BatchCohort
<1>3. CASE \/ ReadNews \/ FeedCards \/ ReadLanding \/ Suggest
           \/ \E x \in Industry \cup City \cup Country : ReadCategory(x)
           \/ CategoryCompanies
           \/ \E want \in {Groups} \cup {{g} : g \in Groups} : Search(want)
           \/ \E g \in Groups : SearchGroup(g)
  BY <1>3 DEF ReadNews, FeedCards, ReadLanding, Suggest, ReadCategory, CategoryCompanies, Search, SearchGroup
<1> QED
  BY <1>1, <1>2, <1>3 DEF Read

-----------------------------------------------------------------------------
(* The inductive invariant. *)

IInv ==
    /\ DirOK /\ writes \in 0 .. MaxWrites /\ still \in BOOLEAN
    /\ SeenOK /\ PageOK

LEMMA InitIInv == Init => IInv
<1> SUFFICES ASSUME Init PROVE IInv
  OBVIOUS
<1>1. PICK seed \in Seeds : status = [r \in Record |-> seed[1]] /\ links = seed[2]
  BY DEF Init
<1>2. seed[1] \in {"draft", "published", "archived"} /\ links \subseteq Link /\ Keyed(links)
  BY <1>1, SeedsAssumption
<1>3. status \in [Record -> Status] /\ \A r \in Record : status[r] # "absent"
  BY <1>1, <1>2 DEF Status
<1>4. first = Published(status) /\ tagline = Startup /\ page = NoPage /\ writes = 0
      /\ rows = {} /\ still = TRUE /\ seen = PublicRows(first, links)
  BY DEF Init, Published, Visible
<1>5. DirOK
  BY <1>2, <1>3, <1>4, RecordsAssumption DEF DirOK, DirectoryOK, Record, Ends, Published
<1>6. SeenOK
  BY <1>2, <1>4, PublicPublished DEF SeenOK
<1>7. PageOK
  BY <1>4 DEF PageOK, IsPage, NoPage, NothingHidden
<1> QED
  BY <1>4, <1>5, <1>6, <1>7, RecordsAssumption DEF IInv

LEMMA NextIInv == IInv /\ [Next]_vars => IInv'
<1> SUFFICES ASSUME IInv, [Next]_vars PROVE IInv'
  OBVIOUS
<1> USE DEF IInv
<1>1. CASE Read
  <2>1. UNCHANGED <<db, writes, seen>> /\ still' \in BOOLEAN
    BY <1>1, ReadsWriteNothing
  <2>2. PageOK'
    BY <1>1, ReadOK DEF Typed, DirOK, DirectoryOK, Status
  <2> QED
    BY <2>1, <2>2 DEF db, DirOK, DirectoryOK, SeenOK, WasPublished, Published
<1>2. CASE Edit
  <2>1. Wrote /\ DirOK' /\ SeenOK'
    BY <1>2, EditStep
  <2>2. PageOK'
    BY <2>1, PageBesideWrites
  <2>3. writes' \in 0 .. MaxWrites
    BY <1>2, <2>1, RecordsAssumption DEF Edit, Wrote, Write
  <2>4. still' \in BOOLEAN
    BY <2>1 DEF Wrote, Write
  <2> QED
    BY <2>1, <2>2, <2>3, <2>4
<1>3. CASE UNCHANGED vars
  BY <1>3 DEF vars, db, DirOK, DirectoryOK, SeenOK, WasPublished, Published, PageOK, NothingHidden,
              Underway, IsPage
<1> QED
  BY <1>1, <1>2, <1>3 DEF Next

LEMMA IInvAlways == Spec => []IInv
  BY InitIInv, NextIInv, PTL DEF Spec

\* The tables keep their types, their unique keys and their foreign keys, whatever is written.
THEOREM TypeCorrect == Spec => []TypeOK
<1>1. IInv => TypeOK
  BY DEF IInv, TypeOK, DirOK, DirectoryOK, Status, Exists
<1> QED
  BY <1>1, IInvAlways, PTL

\* lifecycle.ts, hardDelete: no record that goes, with its rounds and rows, was ever public.
THEOREM DeletedWereUnseen == Spec => DeletedUnseen
<1>1. IInv /\ [Next]_vars =>
        [LET gone == {r \in Record : Exists(r) /\ status'[r] = "absent"}
         IN  gone # {} => seen \cap (gone \cup (links \ links')) = {}]_vars
  <2> SUFFICES ASSUME IInv, Next
               PROVE  LET gone == {r \in Record : Exists(r) /\ status'[r] = "absent"}
                      IN  gone # {} => seen \cap (gone \cup (links \ links')) = {}
    OBVIOUS
  <2>1. CASE Read
    BY <2>1, ReadsWriteNothing DEF db, Exists
  <2>2. CASE Edit
    BY <2>2, EditStep DEF IInv
  <2> QED
    BY <2>1, <2>2 DEF Next
<1> QED
  BY <1>1, IInvAlways, PTL DEF DeletedUnseen, Spec

-----------------------------------------------------------------------------
(* Numbers. *)

\* Rows that are one for each startup are as many as those startups.
LEMMA OneRowEach ==
  ASSUME NEW R, NEW S \in SUBSET Startup,
         \A l \in R : l[2] \in S, \A s \in S : \E l \in R : l[2] = s,
         \A k, l \in R : k[2] = l[2] => k = l
  PROVE  Cardinality(R) = Cardinality(S)
<1> DEFINE row == [s \in S |-> CHOOSE l \in R : l[2] = s]
<1>1. IsFiniteSet(S)
  BY RecordsAssumption, FS_Subset
<1>2. \A s \in S : row[s] \in R /\ row[s][2] = s
  OBVIOUS
<1>3. row \in [S -> R]
  BY <1>2
<1> HIDE DEF row
<1>4. row \in Injection(S, R)
  BY <1>2, <1>3 DEF Injection, IsInjective
<1>5. row \in Surjection(S, R)
  BY <1>2, <1>3 DEF Surjection
<1>6. ExistsBijection(S, R)
  BY <1>4, <1>5 DEF ExistsBijection, Bijection
<1> QED
  BY <1>1, <1>6, FS_Bijection

LEMMA CategoriesCounted ==
  ASSUME Typed, Keyed(links), NEW x \in Industry \cup City \cup Country
  PROVE  DirectoryCount(x) = Count(x)
<1> DEFINE ss == SelectCards(InFacet(x))
<1>1. ss \in SUBSET Startup
  BY FiltersFindStartups DEF SelectCards
<1>2. \A k \in Rows("industry") \cup Rows("city") : k \in links /\ k \in Link /\ k[2] \in Startup
  BY RowsOfStartups DEF Rows, Typed
<1>3. CASE x \in Industry
  <2> DEFINE R == {l \in Rows("industry") : l[3] = x /\ Visible(l[2])}
  <2>1. DirectoryCount(x) = Cardinality(R)
    BY <1>3, DistinctIds DEF DirectoryCount
  <2>2. \A k \in Rows("city") : k[3] \in City
    BY <1>2, RowForms
       DEF Rows, IsFounder, IsBacker, IsBatch, IsAcquirer, IsIndustry, IsCity, IsOrganizer
  <2>3. \A s : s \in ss <=> \E l \in R : l[2] = s
    BY <1>3, <2>2, DistinctIds DEF SelectCards, InFacet, Rows
  <2>4. \A k, l \in R : k[2] = l[2] => k = l
    BY DEF Keyed, Rows
  <2> HIDE DEF R, ss
  <2>5. Cardinality(R) = Cardinality(ss)
    BY <1>1, <2>3, <2>4, OneRowEach
  <2> QED
    BY <2>1, <2>5 DEF Count, ss
<1>4. CASE x \in City
  <2> DEFINE R == {l \in Rows("city") : l[3] = x /\ Visible(l[2])}
  <2>1. DirectoryCount(x) = Cardinality(R)
    BY <1>4, DistinctIds DEF DirectoryCount
  <2>2. \A k \in Rows("industry") : k[3] \in Industry
    BY <1>2, RowForms
       DEF Rows, IsFounder, IsBacker, IsBatch, IsAcquirer, IsIndustry, IsCity, IsOrganizer
  <2>3. \A s : s \in ss <=> \E l \in R : l[2] = s
    BY <1>4, <2>2, DistinctIds DEF SelectCards, InFacet, Rows
  <2>4. \A k, l \in R : k[2] = l[2] => k = l
    BY DEF Keyed, Rows
  <2> HIDE DEF R, ss
  <2>5. Cardinality(R) = Cardinality(ss)
    BY <1>1, <2>3, <2>4, OneRowEach
  <2> QED
    BY <2>1, <2>5 DEF Count, ss
<1>5. CASE x \in Country /\ x \notin Industry \cup City
  <2> DEFINE S == {s \in Startup : Visible(s) /\ \E l \in Rows("city") : l[2] = s /\ CountryOf[l[3]] = x}
  <2>1. DirectoryCount(x) = Cardinality(S)
    BY <1>5 DEF DirectoryCount
  <2>2. \A k \in Rows("industry") \cup Rows("city") : k[3] \in Industry \cup City
    BY <1>2, RowForms
       DEF Rows, IsFounder, IsBacker, IsBatch, IsAcquirer, IsIndustry, IsCity, IsOrganizer
  <2>3. \A s : s \in ss <=> Visible(s) /\ \E l \in Rows("city") : l[2] = s /\ CountryOf[l[3]] = x
    BY <1>5, <2>2 DEF SelectCards, InFacet, Rows
  <2>4. ss = S
    BY <1>2, <2>3
  <2> QED
    BY <2>1, <2>4 DEF Count
<1> QED
  BY <1>3, <1>4, <1>5

LEMMA CompaniesCounted ==
  ASSUME Typed, NEW b \in Batch, Visible(b)
  PROVE  CompanyCount(b) = Cardinality(SelectCards(InBatch(b)))
<1> DEFINE ss == SelectCards(InBatch(b))
           R == {l \in Rows("batch") : l[3] = b /\ Visible(l[2])}
<1>1. ss \in SUBSET Startup
  BY FiltersFindStartups DEF SelectCards
<1>2. \A l \in R : l = <<"batch", l[2], b>>
  BY RowForms DEF Typed, Rows, IsFounder, IsBacker, IsBatch, IsAcquirer, IsIndustry, IsCity, IsOrganizer
<1>3. \A s : s \in ss <=> \E l \in R : l[2] = s
  BY DEF SelectCards, InBatch, Rows
<1> HIDE DEF ss, R
<1>4. Cardinality(R) = Cardinality(ss)
  BY <1>1, <1>2, <1>3, OneRowEach
<1> QED
  BY <1>4 DEF CompanyCount, ss, R

LEMMA Counted ==
  ASSUME Typed, Keyed(links)
  PROVE  CountsAgree
<1>1. \A x \in Industry \cup City \cup Country : DirectoryCount(x) = Count(x)
  BY CategoriesCounted
<1>2. ASSUME NEW i \in Investor, Visible(i)
      PROVE  PortfolioIds(i) = SelectCards(BackedBy(i))
  BY <1>2 DEF PortfolioIds, SelectCards, BackedBy
<1>3. ASSUME NEW i \in Investor
      PROVE  RoundsLedCount(i) = Cardinality(SelectRounds(LedRounds(i)))
  <2>1. {l[4] : l \in {k \in Rows("backer") :
            k[3] = i /\ k[5] /\ k[4] # None /\ Visible(k[4]) /\ Visible(StartupOf[k[4]])}}
          = SelectRounds(LedRounds(i))
    BY DEF SelectRounds, LedRounds
  <2> QED
    BY <2>1 DEF RoundsLedCount
<1>4. \A b \in Batch : Visible(b) => CompanyCount(b) = Cardinality(SelectCards(InBatch(b)))
  BY CompaniesCounted
<1>5. ASSUME NEW f \in Founder, Visible(f)
      PROVE  StartupCount(f) =
               Cardinality({s \in Startup : Visible(s) /\ \E l \in SelectFounders(s) : l[3] = f})
  <2>1. {l[2] : l \in Stints(f)} =
          {s \in Startup : Visible(s) /\ \E l \in SelectFounders(s) : l[3] = f}
    BY <1>5, RowsOfStartups DEF Stints, SelectFounders, Rows
  <2> QED
    BY <2>1 DEF StartupCount
<1>6. StatCounts.rounds = Cardinality(SelectRounds(Round))
  BY DEF StatCounts, SelectRounds
<1> QED
  BY <1>1, <1>2, <1>3, <1>4, <1>5, <1>6 DEF CountsAgree

\* A page shows nothing that was hidden all the while it was read, and two queries that count one
\* thing for a page agree.
THEOREM PagesShowTruly == Spec => []ShownTruly
<1>1. IInv => ShownTruly
  BY Counted DEF IInv, ShownTruly, PageOK, DirOK, DirectoryOK, Typed, Status
<1> QED
  BY <1>1, IInvAlways, PTL

-----------------------------------------------------------------------------
(* The public graph. *)

LEMMA RecordsInGraph ==
  ASSUME Typed, NEW r \in Record
  PROVE  r \in Now <=> Visible(r) /\ (r \in Round => Visible(StartupOf[r]))
<1>1. ASSUME NEW l \in links PROVE r \notin Facts(l)
  BY RowsAreNoIds DEF Typed
<1>2. PublicRows(Published(status), links) \ Record \subseteq links
  BY DEF PublicRows, Published
<1>3. r \in Now <=> r \in PublicRows(Published(status), links)
  BY <1>1, <1>2 DEF Now, Public
<1>4. r \notin links
  BY RowsAreNoIds DEF Typed
<1>5. r \in PublicRows(Published(status), links)
        <=> r \in Published(status) /\ (r \in Round => StartupOf[r] \in Published(status))
  BY <1>4 DEF PublicRows
<1> QED
  BY <1>3, <1>5, VisibleIsPublished, RecordsAssumption DEF Record

LEMMA NoneNotInGraph ==
  ASSUME Typed
  PROVE  None \notin Now
<1>1. \A l \in links : None \notin Facts(l)
  BY RowsAreNoIds DEF Typed
<1>2. PublicRows(Published(status), links) \ Record \subseteq links
  BY DEF PublicRows, Published
<1> QED
  BY <1>1, <1>2, RecordsAssumption DEF Now, Public

LEMMA TiesInGraph ==
  ASSUME Typed, NEW x
  PROVE  x \in Now \ Record <=> \E l \in links : (\A r \in Ends(l) : Visible(r)) /\ x \in Facts(l)
<1>1. \A l \in links : l \notin Record /\ \A y \in Facts(l) : y \notin Record
  BY RowsAreNoIds DEF Typed
<1>2. \A l : l \in PublicRows(Published(status), links) \ Record
               <=> l \in links /\ \A r \in Ends(l) : Visible(r)
  BY <1>1, VisibleIsPublished DEF PublicRows, Published, Ends
<1> QED
  BY <1>1, <1>2 DEF Now, Public

Tied(tag) == {x \in Now \ Record : x[1] = tag}
Backings == {l \in Rows("backer") : Visible(l[2]) /\ Visible(l[3]) /\ (l[4] = None \/ Visible(l[4]))}

LEMMA FactsOf ==
  ASSUME NEW l, NEW x \in Facts(l)
  PROVE  \/ l[1] # "backer" /\ x = l
         \/ l[1] = "backer" /\ x = <<"backs", l[3], l[2]>>
         \/ l[1] = "backer" /\ l[5] /\ x = <<"leads", l[3], l[2]>>
         \/ l[1] = "backer" /\ l[4] # None /\ x = <<"in", l[4], l[3]>>
  BY DEF Facts

LEMMA OfBacking ==
  ASSUME NEW l, l[1] = "backer", NEW x
  PROVE  /\ x \in Facts(l) /\ x[1] = "backs" <=> x = <<"backs", l[3], l[2]>>
         /\ x \in Facts(l) /\ x[1] = "leads" <=> l[5] /\ x = <<"leads", l[3], l[2]>>
         /\ x \in Facts(l) /\ x[1] = "in" <=> l[4] # None /\ x = <<"in", l[4], l[3]>>
<1>1. <<"backs", l[3], l[2]>>[1] = "backs" /\ <<"leads", l[3], l[2]>>[1] = "leads"
      /\ <<"in", l[4], l[3]>>[1] = "in"
  OBVIOUS
<1>2. x \in Facts(l) => \/ x = <<"backs", l[3], l[2]>>
                        \/ l[5] /\ x = <<"leads", l[3], l[2]>>
                        \/ l[4] # None /\ x = <<"in", l[4], l[3]>>
  BY FactsOf
<1>3. /\ <<"backs", l[3], l[2]>> \in Facts(l)
      /\ l[5] => <<"leads", l[3], l[2]>> \in Facts(l)
      /\ l[4] # None => <<"in", l[4], l[3]>> \in Facts(l)
  BY FactsOfRow
<1> QED
  BY <1>1, <1>2, <1>3

\* A row's ends are public.
LEMMA EndsVisible ==
  ASSUME Typed, NEW l \in links
  PROVE  /\ l[1] \in Tables
         /\ (\A r \in Ends(l) : Visible(r)) <=>
              CASE l[1] \in {"industry", "city"} -> Visible(l[2])
                [] l[1] = "backer" -> l \in Backings
                [] OTHER -> Visible(l[2]) /\ Visible(l[3])
<1>1. l \in Link
  BY DEF Typed
<1>2. l[1] \in Tables
  BY <1>1, RowForms DEF Tables, IsFounder, IsBacker, IsBatch, IsAcquirer, IsIndustry, IsCity, IsOrganizer
<1>3. CASE IsFounder(l) \/ IsBatch(l) \/ IsAcquirer(l) \/ IsOrganizer(l)
  BY <1>2, <1>3 DEF IsFounder, IsBatch, IsAcquirer, IsOrganizer
<1>4. CASE IsIndustry(l) \/ IsCity(l)
  BY <1>2, <1>4 DEF IsIndustry, IsCity
<1>5. CASE IsBacker(l)
  BY <1>2, <1>5 DEF IsBacker, Backings, Rows
<1> QED
  BY <1>1, <1>3, <1>4, <1>5, RowForms

LEMMA TaggedTies ==
  ASSUME Typed
  PROVE  /\ \A tag \in {"founder", "batch", "acquirer", "organizer"} :
              Tied(tag) = {l \in Rows(tag) : Visible(l[2]) /\ Visible(l[3])}
         /\ \A tag \in {"industry", "city"} : Tied(tag) = {l \in Rows(tag) : Visible(l[2])}
         /\ Tied("backs") = {<<"backs", l[3], l[2]>> : l \in Backings}
         /\ Tied("leads") = {<<"leads", l[3], l[2]>> : l \in {k \in Backings : k[5]}}
         /\ Tied("in") = {<<"in", l[4], l[3]>> : l \in {k \in Backings : k[4] # None}}
<1> DEFINE Shown(l) == \A r \in Ends(l) : Visible(r)
<1>1. \A x : x \in Now \ Record <=> \E l \in links : Shown(l) /\ x \in Facts(l)
  BY TiesInGraph
<1>2. \A l \in links : l[1] # "backer" => Facts(l) = {l}
  BY FactsOfRow
<1>3. \A l \in links : \A x \in Facts(l) :
         \/ l[1] # "backer" /\ x = l
         \/ l[1] = "backer" /\ x = <<"backs", l[3], l[2]>>
         \/ l[1] = "backer" /\ l[5] /\ x = <<"leads", l[3], l[2]>>
         \/ l[1] = "backer" /\ l[4] # None /\ x = <<"in", l[4], l[3]>>
  BY FactsOf
<1>4. \A l \in links :
        /\ l[1] \in {"industry", "city"} => (Shown(l) <=> Visible(l[2]))
        /\ l[1] = "backer" => (Shown(l) <=> l \in Backings)
        /\ l[1] \in {"founder", "batch", "acquirer", "organizer"} =>
             (Shown(l) <=> Visible(l[2]) /\ Visible(l[3]))
        /\ l[1] \in Tables
  BY EndsVisible
<1> HIDE DEF Shown
<1>5. ASSUME NEW tag \in Tables \ {"backer"}
      PROVE  Tied(tag) = {l \in Rows(tag) : Shown(l)}
  <2>1. ASSUME NEW x \in Tied(tag) PROVE x \in Rows(tag) /\ Shown(x)
    <3>1. PICK l \in links : Shown(l) /\ x \in Facts(l)
      BY <1>1, <2>1 DEF Tied
    <3>2. x = l
      BY <1>3, <3>1, <2>1 DEF Tied, Tables
    <3> QED
      BY <3>1, <3>2, <2>1 DEF Tied, Rows
  <2>2. ASSUME NEW l \in Rows(tag), Shown(l) PROVE l \in Tied(tag)
    BY <1>1, <1>2, <2>2 DEF Tied, Rows, Tables
  <2> QED
    BY <2>1, <2>2
<1>6. \A l \in Backings : l \in links /\ l[1] = "backer" /\ Shown(l)
  BY <1>4 DEF Backings, Rows
<1>7. ASSUME NEW x, NEW tag \in {"backs", "leads", "in"}
      PROVE  x \in Tied(tag) <=> \E l \in Backings : x \in Facts(l) /\ x[1] = tag
  <2>1. ASSUME x \in Tied(tag) PROVE \E l \in Backings : x \in Facts(l) /\ x[1] = tag
    <3>1. PICK l \in links : Shown(l) /\ x \in Facts(l)
      BY <1>1, <2>1 DEF Tied
    <3>2. l[1] = "backer"
      BY <1>3, <1>4, <3>1, <2>1 DEF Tied, Tables
    <3> QED
      BY <3>1, <3>2, <2>1, <1>4 DEF Tied
  <2> QED
    BY <2>1, <1>1, <1>6 DEF Tied
<1>8. Tied("backs") = {<<"backs", l[3], l[2]>> : l \in Backings}
  <2>1. ASSUME NEW l \in Backings, NEW x
        PROVE  x \in Facts(l) /\ x[1] = "backs" <=> x = <<"backs", l[3], l[2]>>
    BY <1>6, OfBacking
  <2> QED
    BY <2>1, <1>7
<1>9. Tied("leads") = {<<"leads", l[3], l[2]>> : l \in {k \in Backings : k[5]}}
  <2>1. ASSUME NEW l \in Backings, NEW x
        PROVE  x \in Facts(l) /\ x[1] = "leads" <=> l[5] /\ x = <<"leads", l[3], l[2]>>
    BY <1>6, OfBacking
  <2> QED
    BY <2>1, <1>7
<1>10. Tied("in") = {<<"in", l[4], l[3]>> : l \in {k \in Backings : k[4] # None}}
  <2>1. ASSUME NEW l \in Backings, NEW x
        PROVE  x \in Facts(l) /\ x[1] = "in" <=> l[4] # None /\ x = <<"in", l[4], l[3]>>
    BY <1>6, OfBacking
  <2> QED
    BY <2>1, <1>7
<1>11. \A tag : \A l \in Rows(tag) : l \in links /\ l[1] = tag
  BY DEF Rows
<1> QED
  BY <1>4, <1>5, <1>8, <1>9, <1>10, <1>11 DEF Tables

\* What a visitor would draw of some startups or rounds is what their cards and cells show.
CardsOf(ss) == (ss \cap Now) \cup {x \in Now \ Record : x[1] = "acquirer" /\ x[2] \in ss}
ToldOf(rs) == (rs \cap Now) \cup {x \in Now \ Record : x[1] = "in" /\ x[2] \in rs}

LEMMA CardsDrawn ==
  ASSUME Typed, NEW ss \in SUBSET Startup
  PROVE  CardsOf(ss) = Cards(ss)
<1>1. ss \cap Now = SelectCards(ss)
  BY RecordsInGraph, DistinctIds DEF SelectCards, Record
<1>2. {x \in Now \ Record : x[1] = "acquirer" /\ x[2] \in ss}
        = {l \in Rows("acquirer") : Visible(l[2]) /\ Visible(l[3]) /\ l[2] \in ss}
  BY TaggedTies DEF Tied
<1> QED
  BY <1>1, <1>2 DEF CardsOf, Cards, Card, SelectCards

LEMMA RoundsDrawn ==
  ASSUME Typed, NEW rs \in SUBSET Round
  PROVE  ToldOf(rs) = RoundFacts(rs) /\ rs \cap Now = SelectRounds(rs)
<1>1. rs \cap Now = SelectRounds(rs)
  BY RecordsInGraph DEF SelectRounds, Record
<1>2. {x \in Now \ Record : x[1] = "in" /\ x[2] \in rs}
        = {<<"in", l[4], l[3]>> : l \in {k \in Backings : k[4] # None /\ k[4] \in rs}}
  BY TaggedTies DEF Tied
<1>3. \A l \in Rows("backer") : l[4] # None => l[4] \in Round /\ StartupOf[l[4]] = l[2]
  BY RowForms
     DEF Rows, Typed, IsFounder, IsBacker, IsBatch, IsAcquirer, IsIndustry, IsCity, IsOrganizer
<1>4. None \notin rs
  BY RecordsAssumption DEF Record
<1>5. {k \in Backings : k[4] # None /\ k[4] \in rs}
        = {k \in Rows("backer") : k[4] \in SelectRounds(rs) /\ Visible(k[3])}
  BY <1>3, <1>4 DEF Backings, SelectRounds
<1> QED
  BY <1>1, <1>2, <1>5 DEF ToldOf, RoundFacts

Of3(tag, of) == {x \in Now \ Record : x[1] = tag /\ x[3] = of}
RoundsOf(s) == {r \in Round : StartupOf[r] = s}
Led(i) == {l[4] : l \in {k \in Rows("backer") : k[3] = i /\ k[5]}} \cap Now
Peers(s) ==
    {p \in Startup \ {s} : \E x, y \in Now \ Record :
        /\ x[1] = y[1] /\ x[2] = s /\ y[2] = p /\ x[3] = y[3]
        /\ x[1] = "city" \/ (x[1] = "industry" /\ x[4] /\ y[4])}

LEMMA AboutForms ==
  ASSUME NEW of
  PROVE  /\ About("company", of) =
              CardsOf({of}) \cup ToldOf(RoundsOf(of))
                \cup {x \in Now \ Record : x[1] \in {"founder", "batch", "industry"} /\ x[2] = of}
                \cup Of3("backs", of) \cup Of3("leads", of)
         /\ About("timeline", of) = ToldOf(RoundsOf(of))
         /\ About("founder", of) = {of} \cup Of3("founder", of) \cup CardsOf(Startups(Of3("founder", of)))
         /\ About("batch", of) =
              {of} \cup Of3("batch", of) \cup CardsOf(Startups(Of3("batch", of)))
                \cup {x \in Now \ Record : x[1] = "organizer" /\ x[2] = of}
         /\ About("stats", of) = {}
         /\ About("landing", of) =
              CardsOf({s \in Startup : ~\E l \in links : l[1] = "acquirer" /\ l[2] = s /\ l[4]})
         /\ About("suggest", of) = {r \in Now : \E mode \in DOMAIN Hits : r \in Hits[mode]}
         /\ About("news", of) = ToldOf(Round) \cup CardsOf({StartupOf[r] : r \in Round \cap Now})
         /\ About("led", of) =
              {of} \cup ToldOf(Led(of)) \cup CardsOf({StartupOf[r] : r \in Led(of)})
         /\ About("category", of) =
              CardsOf(Startups({x \in Now \ Record : x[1] \in {"industry", "city"} /\
                   (x[3] = of \/ (x[1] = "city" /\ CountryOf[x[3]] = of))}))
         /\ About("similar", of) = CardsOf(Peers(of))
<1> USE DEF About, CardsOf, ToldOf, Of3, RoundsOf, Led, Peers, Now
<1>1. About("company", of) =
              CardsOf({of}) \cup ToldOf(RoundsOf(of))
                \cup {x \in Now \ Record : x[1] \in {"founder", "batch", "industry"} /\ x[2] = of}
                \cup Of3("backs", of) \cup Of3("leads", of)
  OBVIOUS
<1>2. About("timeline", of) = ToldOf(RoundsOf(of))
  OBVIOUS
<1>3. About("founder", of) = {of} \cup Of3("founder", of) \cup CardsOf(Startups(Of3("founder", of)))
  OBVIOUS
<1>4. About("batch", of) =
              {of} \cup Of3("batch", of) \cup CardsOf(Startups(Of3("batch", of)))
                \cup {x \in Now \ Record : x[1] = "organizer" /\ x[2] = of}
  OBVIOUS
<1>5. About("stats", of) = {}
  OBVIOUS
<1>6. About("landing", of) =
              CardsOf({s \in Startup : ~\E l \in links : l[1] = "acquirer" /\ l[2] = s /\ l[4]})
  OBVIOUS
<1>7. About("suggest", of) = {r \in Now : \E mode \in DOMAIN Hits : r \in Hits[mode]}
  OBVIOUS
<1>8. About("news", of) = ToldOf(Round) \cup CardsOf({StartupOf[r] : r \in Round \cap Now})
  OBVIOUS
<1>9. About("led", of) =
              {of} \cup ToldOf(Led(of)) \cup CardsOf({StartupOf[r] : r \in Led(of)})
  OBVIOUS
<1>10. About("category", of) =
              CardsOf(Startups({x \in Now \ Record : x[1] \in {"industry", "city"} /\
                   (x[3] = of \/ (x[1] = "city" /\ CountryOf[x[3]] = of))}))
  OBVIOUS
<1>11. About("similar", of) = CardsOf(Peers(of))
  OBVIOUS
<1> HIDE DEF About, CardsOf, ToldOf, Of3, RoundsOf, Led, Peers, Now
<1> QED
  BY <1>1, <1>2, <1>3, <1>4, <1>5, <1>6, <1>7, <1>8, <1>9, <1>10, <1>11

Backed(of) == {x \in Now \ Record : x[1] = "backs" /\ x[2] = of}
Wanted(of) == UNION {GroupOf(g) : g \in of}
HitsDrawn(of, mode) ==
    CardsOf(Startup \cap Hits[mode] \cap Wanted(of)) \cup ((Hits[mode] \cap Wanted(of)) \cap Now)

LEMMA AboutInvestor ==
  ASSUME NEW of
  PROVE  /\ About("investor", of) =
              {of} \cup Backed(of) \cup CardsOf({x[3] : x \in Backed(of)})
         /\ About("portfolio", of) = Backed(of) \cup CardsOf({x[3] : x \in Backed(of)})
<1> USE DEF About, CardsOf, Backed, Now
<1>1. About("investor", of) = {of} \cup Backed(of) \cup CardsOf({x[3] : x \in Backed(of)})
  OBVIOUS
<1>2. About("portfolio", of) = Backed(of) \cup CardsOf({x[3] : x \in Backed(of)})
  OBVIOUS
<1> QED
  BY <1>1, <1>2

LEMMA AboutSearch ==
  ASSUME NEW of
  PROVE  About("search", of) =
           IF HitsDrawn(of, "fulltext") # {} THEN HitsDrawn(of, "fulltext")
           ELSE HitsDrawn(of, "trigram")
  BY DEF About, CardsOf, HitsDrawn, Wanted, Now

\* What each page is about, as its statements show it.
LEMMA CompanyDrawn ==
  ASSUME Typed, NEW s \in Startup, Visible(s)
  PROVE  /\ About("company", s) = Card(s) \cup DetailColumns(s) \cup SelectFounders(s)
                                    \cup RoundFacts(RoundsOf(s))
         /\ About("timeline", s) = RoundFacts(RoundsOf(s))
<1>1. CardsOf({s}) = Card(s)
  BY CardsDrawn DEF Cards, SelectCards
<1>2. ToldOf(RoundsOf(s)) = RoundFacts(RoundsOf(s))
  BY RoundsDrawn DEF RoundsOf
<1>3. {x \in Now \ Record : x[1] \in {"founder", "batch", "industry"} /\ x[2] = s}
        = SelectFounders(s) \cup {l \in Rows("batch") : l[2] = s /\ Visible(l[3])}
            \cup {l \in Rows("industry") : l[2] = s}
  <2>1. {x \in Now \ Record : x[1] \in {"founder", "batch", "industry"} /\ x[2] = s}
          = {x \in Tied("founder") : x[2] = s} \cup {x \in Tied("batch") : x[2] = s}
              \cup {x \in Tied("industry") : x[2] = s}
    BY DEF Tied
  <2> QED
    BY <2>1, TaggedTies DEF SelectFounders
<1> DEFINE shown == {l \in Rows("backer") :
                       l[2] = s /\ Visible(l[3]) /\ (l[4] = None \/ Visible(l[4]))}
<1>4. shown = {l \in Backings : l[2] = s}
  BY DEF Backings
<1>5. Of3("backs", s) = {<<"backs", l[3], s>> : l \in shown}
  <2>1. Of3("backs", s) = {x \in Tied("backs") : x[3] = s}
    BY DEF Of3, Tied
  <2>2. \A l \in Backings : <<"backs", l[3], l[2]>>[3] = l[2]
    OBVIOUS
  <2> QED
    BY <2>1, <2>2, <1>4, TaggedTies
<1>6. Of3("leads", s) = {<<"leads", l[3], s>> : l \in {k \in shown : k[5]}}
  <2>1. Of3("leads", s) = {x \in Tied("leads") : x[3] = s}
    BY DEF Of3, Tied
  <2>2. \A l \in Backings : <<"leads", l[3], l[2]>>[3] = l[2]
    OBVIOUS
  <2> QED
    BY <2>1, <2>2, <1>4, TaggedTies
<1>7. DetailColumns(s) =
        {l \in Rows("industry") : l[2] = s} \cup {l \in Rows("batch") : l[2] = s /\ Visible(l[3])}
          \cup {<<"backs", l[3], s>> : l \in shown}
          \cup {<<"leads", l[3], s>> : l \in {k \in shown : k[5]}}
  BY DEF DetailColumns
<1>8. /\ About("company", s) =
              CardsOf({s}) \cup ToldOf(RoundsOf(s))
                \cup {x \in Now \ Record : x[1] \in {"founder", "batch", "industry"} /\ x[2] = s}
                \cup Of3("backs", s) \cup Of3("leads", s)
      /\ About("timeline", s) = ToldOf(RoundsOf(s))
  BY AboutForms
<1> HIDE DEF shown
<1> QED
  BY <1>1, <1>2, <1>3, <1>5, <1>6, <1>7, <1>8, ZenonT(60)

LEMMA FounderDrawn ==
  ASSUME Typed, NEW f \in Founder, Visible(f)
  PROVE  LET ss == SelectCards({l[2] : l \in Stints(f)})
         IN  About("founder", f) = {f} \cup Cards(ss) \cup {l \in Stints(f) : l[2] \in ss}
<1> DEFINE ss == SelectCards({l[2] : l \in Stints(f)})
<1>1. Of3("founder", f) = Stints(f)
  BY TaggedTies DEF Of3, Tied, Stints
<1>2. ss \in SUBSET Startup /\ ss = {l[2] : l \in Stints(f)}
  BY RowsOfStartups DEF Stints, Rows, SelectCards
<1>3. CardsOf(Startups(Of3("founder", f))) = Cards(ss)
  BY <1>1, <1>2, CardsDrawn DEF Startups
<1>4. {l \in Stints(f) : l[2] \in ss} = Stints(f)
  BY <1>2
<1>5. About("founder", f) = {f} \cup Of3("founder", f) \cup CardsOf(Startups(Of3("founder", f)))
  BY AboutForms
<1> HIDE DEF ss
<1> QED
  BY <1>1, <1>3, <1>4, <1>5 DEF ss

LEMMA InvestorDrawn ==
  ASSUME Typed, NEW i \in Investor, Visible(i)
  PROVE  LET ss == SelectCards(BackedBy(i))
             facts == Cards(BackedBy(i)) \cup {<<"backs", i, s>> : s \in ss}
         IN  About("investor", i) = {i} \cup facts /\ About("portfolio", i) = facts
<1> DEFINE ss == SelectCards(BackedBy(i))
<1>1. Backed(i) = {<<"backs", i, s>> : s \in ss}
  <2>1. Backed(i) = {x \in Tied("backs") : x[2] = i}
    BY DEF Backed, Tied
  <2>2. \A l \in Backings : <<"backs", l[3], l[2]>>[2] = l[3]
    OBVIOUS
  <2>3. \A s : s \in ss <=> \E l \in Backings : l[3] = i /\ l[2] = s
    BY DEF SelectCards, BackedBy, Backings, Rows
  <2> HIDE DEF ss
  <2> QED
    BY <2>1, <2>2, <2>3, TaggedTies
<1>2. {x[3] : x \in Backed(i)} = ss
  <2>1. \A s : <<"backs", i, s>>[3] = s
    OBVIOUS
  <2> HIDE DEF ss
  <2>2. {x[3] : x \in Backed(i)} = {x[3] : x \in {<<"backs", i, s>> : s \in ss}}
    BY <1>1
  <2> QED
    BY <2>1, <2>2
<1>3. ss \in SUBSET Startup /\ Cards(ss) = Cards(BackedBy(i))
  BY FiltersFindStartups DEF Cards, SelectCards
<1>4. CardsOf(ss) = Cards(BackedBy(i))
  BY <1>3, CardsDrawn
<1> HIDE DEF ss
<1>5. /\ About("investor", i) = {i} \cup Backed(i) \cup CardsOf(ss)
      /\ About("portfolio", i) = Backed(i) \cup CardsOf(ss)
  BY <1>2, AboutInvestor
<1> QED
  BY <1>1, <1>4, <1>5 DEF ss

LEMMA BatchDrawn ==
  ASSUME Typed, NEW b \in Batch, Visible(b)
  PROVE  LET ss == SelectCards(InBatch(b))
         IN  About("batch", b) =
               {b} \cup {l \in Rows("organizer") : l[2] = b /\ Visible(l[3])}
                 \cup Cards(ss) \cup {<<"batch", s, b>> : s \in ss}
<1> DEFINE ss == SelectCards(InBatch(b))
<1>1. \A l \in Rows("batch") : l = <<"batch", l[2], l[3]>>
  BY RowForms DEF Typed, Rows, IsFounder, IsBacker, IsBatch, IsAcquirer, IsIndustry, IsCity, IsOrganizer
<1>2. Of3("batch", b) = {l \in Rows("batch") : l[3] = b /\ Visible(l[2])}
  BY TaggedTies DEF Of3, Tied
<1>3. \A s : s \in ss <=> \E l \in Of3("batch", b) : l[2] = s
  BY <1>2 DEF SelectCards, InBatch, Rows
<1>4. ss \in SUBSET Startup
  BY FiltersFindStartups DEF SelectCards
<1>5. {x \in Now \ Record : x[1] = "organizer" /\ x[2] = b}
        = {l \in Rows("organizer") : l[2] = b /\ Visible(l[3])}
  BY TaggedTies DEF Tied
<1> HIDE DEF ss
<1>6. Of3("batch", b) = {<<"batch", s, b>> : s \in ss}
  BY <1>1, <1>2, <1>3
<1>7. Startups(Of3("batch", b)) = ss
  BY <1>3 DEF Startups
<1>8. About("batch", b) =
        {b} \cup Of3("batch", b) \cup CardsOf(ss)
          \cup {x \in Now \ Record : x[1] = "organizer" /\ x[2] = b}
  BY <1>7, AboutForms
<1>9. CardsOf(ss) = Cards(ss)
  BY <1>4, CardsDrawn
<1> QED
  BY <1>5, <1>6, <1>8, <1>9 DEF ss

LEMMA FeedsDrawn ==
  ASSUME Typed
  PROVE  /\ About("news", None) =
              RoundFacts(Round) \cup Cards({StartupOf[r] : r \in SelectRounds(Round)})
         /\ \A i \in Investor :
              About("led", i) = {i} \cup RoundFacts(LedRounds(i))
                                  \cup Cards({StartupOf[r] : r \in SelectRounds(LedRounds(i))})
<1>1. \A rs \in SUBSET Round :
        /\ ToldOf(rs) = RoundFacts(rs) /\ rs \cap Now = SelectRounds(rs)
        /\ SelectRounds(rs) \in SUBSET Round
        /\ {StartupOf[r] : r \in SelectRounds(rs)} \in SUBSET Startup
  BY RoundsDrawn, RecordsAssumption DEF SelectRounds
<1>2. CardsOf({StartupOf[r] : r \in SelectRounds(Round)}) = Cards({StartupOf[r] : r \in SelectRounds(Round)})
  BY <1>1, CardsDrawn
<1>3. About("news", None) =
        RoundFacts(Round) \cup Cards({StartupOf[r] : r \in SelectRounds(Round)})
  BY <1>1, <1>2, AboutForms
<1>4. ASSUME NEW i \in Investor
      PROVE  About("led", i) = {i} \cup RoundFacts(LedRounds(i))
                                 \cup Cards({StartupOf[r] : r \in SelectRounds(LedRounds(i))})
  <2>1. LedRounds(i) \in SUBSET Round
    BY RowForms
       DEF LedRounds, Rows, Typed, IsFounder, IsBacker, IsBatch, IsAcquirer, IsIndustry, IsCity, IsOrganizer
  <2>2. Led(i) = LedRounds(i) \cap Now
    BY NoneNotInGraph DEF Led, LedRounds
  <2>3. Led(i) = SelectRounds(LedRounds(i))
    BY <2>1, <2>2, <1>1
  <2>4. ToldOf(Led(i)) = RoundFacts(LedRounds(i))
    BY <2>1, <2>3, <1>1 DEF RoundFacts, SelectRounds
  <2> QED
    BY <2>1, <2>3, <2>4, <1>1, CardsDrawn, AboutForms
<1> QED
  BY <1>3, <1>4

LEMMA ListsDrawn ==
  ASSUME Typed
  PROVE  /\ About("landing", None) = Cards(Landing)
         /\ About("suggest", None) = {r \in Hits["fulltext"] \cup Hits["trigram"] : Visible(r)}
         /\ \A x \in Industry \cup City \cup Country : About("category", x) = Cards(InFacet(x))
<1>1. About("landing", None) = Cards(Landing)
  <2>1. {s \in Startup : ~\E l \in links : l[1] = "acquirer" /\ l[2] = s /\ l[4]} = NotAcquired
    BY DEF NotAcquired, Rows
  <2>2. Cards(NotAcquired) = Cards(Landing)
    BY DEF Cards, Landing, SelectCards
  <2> QED
    BY <2>1, <2>2, CardsDrawn, FiltersFindStartups, AboutForms
<1>2. About("suggest", None) = {r \in Hits["fulltext"] \cup Hits["trigram"] : Visible(r)}
  <2>1. DOMAIN Hits = {"fulltext", "trigram"} /\ \A mode \in DOMAIN Hits : Hits[mode] \subseteq Record \ Round
    BY RecordsAssumption
  <2>2. \A r \in Record \ Round : r \in Now <=> Visible(r)
    BY RecordsInGraph
  <2> QED
    BY <2>1, <2>2, AboutForms
<1>3. ASSUME NEW x \in Industry \cup City \cup Country
      PROVE  About("category", x) = Cards(InFacet(x))
  <2> DEFINE ties == {y \in Now \ Record : y[1] \in {"industry", "city"} /\
                        (y[3] = x \/ (y[1] = "city" /\ CountryOf[y[3]] = x))}
  <2>1. \A l \in Rows("city") : l[3] \in City
    BY RowForms
       DEF Typed, Rows, IsFounder, IsBacker, IsBatch, IsAcquirer, IsIndustry, IsCity, IsOrganizer
  <2>2. \A l \in Rows("city") : CountryOf[l[3]] \in Country
    BY <2>1, RecordsAssumption DEF Country, Range
  <2>3. \A y : y \in ties <=>
          /\ y \in Rows("industry") \cup Rows("city") /\ Visible(y[2])
          /\ y[3] = x \/ (y[1] = "city" /\ CountryOf[y[3]] = x)
    <3>1. \A y : y \in ties <=> /\ y \in Tied("industry") \cup Tied("city")
                                /\ y[3] = x \/ (y[1] = "city" /\ CountryOf[y[3]] = x)
      BY DEF Tied
    <3> QED
      BY <3>1, TaggedTies
  <2>4. Startups(ties) = SelectCards(InFacet(x))
    BY <2>2, <2>3 DEF Startups, SelectCards, InFacet, Rows
  <2>5. InFacet(x) \in SUBSET Startup
    BY FiltersFindStartups
  <2>6. SelectCards(InFacet(x)) \in SUBSET Startup
        /\ Cards(SelectCards(InFacet(x))) = Cards(InFacet(x))
    BY <2>5 DEF SelectCards, Cards
  <2>7. About("category", x) = CardsOf(Startups(ties))
    BY AboutForms
  <2> HIDE DEF ties
  <2> QED
    BY <2>4, <2>6, <2>7, CardsDrawn
<1> QED
  BY <1>1, <1>2, <1>3

SimilarKeys(s) ==
    {l[3] : l \in {k \in Rows("industry") : k[2] = s /\ k[4]} \cup {k \in Rows("city") : k[2] = s}}

LEMMA SimilarDrawn ==
  ASSUME Typed, NEW s \in Startup, Visible(s)
  PROVE  LET ss == SelectCards(Similar(s, SimilarKeys(s) \cap Industry, SimilarKeys(s) \cap City))
         IN  About("similar", s) = Cards(ss)
<1> DEFINE ss == SelectCards(Similar(s, SimilarKeys(s) \cap Industry, SimilarKeys(s) \cap City))
<1>1. \A l \in Rows("city") : l[3] \in City /\ l[2] \in Startup
  BY RowForms
     DEF Typed, Rows, IsFounder, IsBacker, IsBatch, IsAcquirer, IsIndustry, IsCity, IsOrganizer
<1>2. \A l \in Rows("industry") : l[3] \in Industry /\ l[2] \in Startup
  BY RowForms
     DEF Typed, Rows, IsFounder, IsBacker, IsBatch, IsAcquirer, IsIndustry, IsCity, IsOrganizer
<1>3. \A x : x \in SimilarKeys(s) \cap Industry <=> \E l \in Rows("industry") : l[2] = s /\ l[4] /\ l[3] = x
  BY <1>1, <1>2, DistinctIds DEF SimilarKeys
<1>4. \A x : x \in SimilarKeys(s) \cap City <=> \E l \in Rows("city") : l[2] = s /\ l[3] = x
  BY <1>1, <1>2, DistinctIds DEF SimilarKeys
<1>5. \A p : p \in ss <=>
        /\ p # s /\ Visible(p)
        /\ \/ \E k, l \in Rows("industry") :
                l[2] = s /\ l[4] /\ k[2] = p /\ k[4] /\ k[3] = l[3]
           \/ \E k, l \in Rows("city") : l[2] = s /\ k[2] = p /\ k[3] = l[3]
  BY <1>3, <1>4 DEF SelectCards, Similar
<1> HIDE DEF ss
<1>6. \A x : /\ x \in Now \ Record /\ x[1] = "industry" <=> x \in Rows("industry") /\ Visible(x[2])
             /\ x \in Now \ Record /\ x[1] = "city" <=> x \in Rows("city") /\ Visible(x[2])
  BY TaggedTies DEF Tied
<1>7. \A p : p \in Peers(s) <=>
        /\ p \in Startup /\ p # s
        /\ \/ \E x, y \in Rows("industry") :
                Visible(y[2]) /\ x[2] = s /\ y[2] = p /\ x[3] = y[3] /\ x[4] /\ y[4]
           \/ \E x, y \in Rows("city") : Visible(y[2]) /\ x[2] = s /\ y[2] = p /\ x[3] = y[3]
  BY <1>6 DEF Peers
<1>8. Peers(s) = ss
  BY <1>1, <1>2, <1>5, <1>7
<1>9. Peers(s) \in SUBSET Startup
  BY DEF Peers
<1> QED
  BY <1>8, <1>9, CardsDrawn, AboutForms DEF ss

GroupFacts(g, mode) ==
    LET found == {r \in GroupOf(g) \cap Hits[mode] : Visible(r)}
    IN  IF g = "startup" THEN Cards(found) ELSE found

LEMMA SearchDrawn ==
  ASSUME Typed, NEW want \in SUBSET Groups, NEW mode \in {"fulltext", "trigram"}
  PROVE  HitsDrawn(want, mode) = UNION {GroupFacts(g, mode) : g \in want}
<1> DEFINE ss == Startup \cap Hits[mode] \cap Wanted(want)
           fs == {r \in Startup \cap Hits[mode] : Visible(r)}
<1>1. CardsOf(ss) = Cards(ss)
  BY CardsDrawn
<1>2. Hits[mode] \subseteq Record \ Round
  BY RecordsAssumption
<1>3. \A r \in Hits[mode] : r \in Now <=> Visible(r)
  BY <1>2, RecordsInGraph
<1>4. \A g \in want \ {"startup"} : GroupOf(g) \cap Startup = {}
  BY DistinctIds DEF GroupOf, Groups
<1>5. GroupOf("startup") = Startup
  BY DEF GroupOf
<1>6. Cards(ss) = IF "startup" \in want THEN Cards(fs) ELSE {}
  <2>1. SelectCards(ss) = IF "startup" \in want THEN SelectCards(fs) ELSE {}
    BY <1>4, <1>5 DEF SelectCards, Wanted
  <2> QED
    BY <2>1 DEF Cards
<1>7. \A r \in fs : r \in Cards(fs)
  BY DEF Cards, Card, SelectCards
<1>8. "startup" \in want => GroupFacts("startup", mode) = Cards(fs)
  BY <1>5 DEF GroupFacts
<1>9. \A g \in want \ {"startup"} : GroupFacts(g, mode) = {r \in GroupOf(g) \cap Hits[mode] : Visible(r)}
  BY DEF GroupFacts
<1>10. Hits[mode] \cap Wanted(want) \cap Now
         = UNION {{r \in GroupOf(g) \cap Hits[mode] : Visible(r)} : g \in want}
  BY <1>3 DEF Wanted
<1> HIDE DEF ss, fs
<1>11. HitsDrawn(want, mode) = Cards(ss) \cup (Hits[mode] \cap Wanted(want) \cap Now)
  BY <1>1 DEF HitsDrawn, ss
<1>12. ASSUME NEW x \in HitsDrawn(want, mode)
       PROVE  \E g \in want : x \in GroupFacts(g, mode)
  <2>1. CASE x \in Cards(ss)
    BY <2>1, <1>6, <1>8
  <2>2. CASE \E g \in want : x \in {r \in GroupOf(g) \cap Hits[mode] : Visible(r)}
    BY <2>2, <1>5, <1>7, <1>8, <1>9 DEF fs
  <2> QED
    BY <1>10, <1>11, <1>12, <2>1, <2>2
<1>13. ASSUME NEW g \in want, NEW x \in GroupFacts(g, mode)
       PROVE  x \in HitsDrawn(want, mode)
  BY <1>6, <1>8, <1>9, <1>10, <1>11, <1>13
<1> QED
  BY <1>12, <1>13

LEMMA StartupsShown ==
  ASSUME Typed, NEW ss \in SUBSET Startup
  PROVE  /\ SelectCards(ss) \subseteq Cards(ss)
         /\ Cards(ss) \cap Startup = SelectCards(ss) /\ Cards(ss) \cap Round = {}
<1>1. \A l \in links : l \notin Record
  BY RowsAreNoIds DEF Typed
<1> QED
  BY <1>1, DistinctIds DEF Cards, Card, SelectCards, Rows, Record

-----------------------------------------------------------------------------
(* Pages during whose read nothing was written. *)

Organizers(b) == {l \in Rows("organizer") : l[2] = b /\ Visible(l[3])}
CohortFacts(b) ==
    Cards(SelectCards(InBatch(b))) \cup {<<"batch", s, b>> : s \in SelectCards(InBatch(b))}

\* What has been read of each kind of page under way.
CompanyPart(p) ==
    p.kind = "company" =>
        /\ p.of \in Startup /\ Visible(p.of) /\ p.todo \in SUBSET {"founders", "rounds"}
        /\ p.facts = Card(p.of) \cup DetailColumns(p.of)
                       \cup (IF "founders" \in p.todo THEN {} ELSE SelectFounders(p.of))
                       \cup (IF "rounds" \in p.todo THEN {} ELSE RoundFacts(RoundsOf(p.of)))
TimelinePart(p) ==
    p.kind = "timeline" =>
        p.of \in Startup /\ Visible(p.of) /\ p.todo = {"rounds"} /\ p.facts = {}
FounderPart(p) ==
    p.kind = "founder" =>
        /\ p.of \in Founder /\ Visible(p.of) /\ p.facts = {p.of}
        /\ \/ p.todo = {"stints", "cards"}
           \/ p.todo = {"cards"} /\ p.ids = Stints(p.of)
InvestorPart(p) ==
    p.kind \in {"investor", "portfolio"} =>
        /\ p.of \in Investor /\ Visible(p.of) /\ p.todo = {"portfolio"}
        /\ p.kind = "investor" => p.facts = {p.of} /\ p.count = Cardinality(PortfolioIds(p.of))
        /\ p.kind = "portfolio" => p.facts = {}
BatchPart(p) ==
    p.kind = "batch" =>
        /\ p.of \in Batch /\ Visible(p.of) /\ p.todo \in SUBSET {"stats", "cohort"}
        /\ p.facts = {p.of} \cup Organizers(p.of)
                       \cup (IF "cohort" \in p.todo THEN {} ELSE CohortFacts(p.of))
        /\ "stats" \notin p.todo => p.count = CompanyCount(p.of)
StatsPart(p) ==
    p.kind = "stats" =>
        p.of \in Batch /\ Visible(p.of) /\ p.todo = {"stats"} /\ p.facts = {}
NewsPart(p) ==
    p.kind = "news" =>
        /\ p.of = None /\ p.todo = {"cards"}
        /\ p.ids = SelectRounds(Round) /\ p.facts = RoundFacts(Round)
LedPart(p) ==
    p.kind = "led" =>
        /\ p.of \in Investor /\ Visible(p.of) /\ p.count = RoundsLedCount(p.of)
        /\ \/ p.todo = {"rounds", "cards"} /\ p.facts = {p.of}
           \/ /\ p.todo = {"cards"} /\ p.ids = SelectRounds(LedRounds(p.of))
              /\ p.facts = {p.of} \cup RoundFacts(LedRounds(p.of))
CategoryPart(p) ==
    p.kind = "category" =>
        /\ p.of \in Industry \cup City \cup Country /\ p.todo = {"companies"}
        /\ p.facts = {} /\ p.count = Count(p.of)
SimilarPart(p) ==
    p.kind = "similar" =>
        /\ p.of \in Startup /\ Visible(p.of) /\ p.todo = {"cards"}
        /\ p.ids = SimilarKeys(p.of) /\ p.facts = {}
SearchPart(p) ==
    p.kind = "search" =>
        /\ p.of \in SUBSET Groups /\ p.ids = p.of /\ p.todo \in SUBSET p.of
        /\ p.mode \in {"fulltext", "trigram"}
        /\ p.facts = UNION {GroupFacts(g, p.mode) : g \in p.of \ p.todo}
        /\ p.mode = "trigram" => UNION {GroupFacts(g, "fulltext") : g \in p.of} = {}
Part(p) ==
    /\ CompanyPart(p) /\ TimelinePart(p) /\ FounderPart(p) /\ InvestorPart(p) /\ BatchPart(p)
    /\ StatsPart(p) /\ NewsPart(p) /\ LedPart(p) /\ CategoryPart(p) /\ SimilarPart(p) /\ SearchPart(p)

WholeOK == page.end = "reading" /\ still => Part(page)

\* Nothing of it changes as long as nothing is written.
LEMMA PartStays ==
  ASSUME status' = status, links' = links, Part(page')
  PROVE  Part(page)'
<1> USE DEF Visible, Rows
<1>1. CompanyPart(page)'
  BY DEF Part, CompanyPart, Card, DetailColumns, SelectFounders, RoundFacts, SelectRounds, RoundsOf
<1>2. TimelinePart(page)' /\ StatsPart(page)'
  BY DEF Part, TimelinePart, StatsPart
<1>3. FounderPart(page)'
  BY DEF Part, FounderPart, Stints
<1>4. InvestorPart(page)'
  BY DEF Part, InvestorPart, PortfolioIds
<1>5. BatchPart(page)'
  BY DEF Part, BatchPart, Organizers, CohortFacts, Cards, Card, SelectCards, InBatch, CompanyCount
<1>6. NewsPart(page)'
  BY DEF Part, NewsPart, SelectRounds, RoundFacts
<1>7. LedPart(page)'
  BY DEF Part, LedPart, RoundsLedCount, LedRounds, SelectRounds, RoundFacts
<1>8. CategoryPart(page)'
  BY DEF Part, CategoryPart, Count, SelectCards, InFacet
<1>9. SimilarPart(page)'
  BY DEF Part, SimilarPart, SimilarKeys
<1>10. SearchPart(page)'
  BY DEF Part, SearchPart, GroupFacts, Cards, Card, SelectCards
<1> QED
  BY <1>1, <1>2, <1>3, <1>4, <1>5, <1>6, <1>7, <1>8, <1>9, <1>10 DEF Part

\* What a page should be when it is done.
Right(p) ==
    /\ p.end = "found" => p.facts = About(p.kind, p.of)
    /\ p.end = "found" /\ p.kind \in {"investor", "batch", "led", "category"} =>
         p.count = Cardinality(p.facts \cap (IF p.kind = "led" THEN Round ELSE Startup))
    /\ p.end = "found" /\ p.kind = "stats" =>
         p.count = Cardinality(Startup \cap About("batch", p.of))
    /\ p.end = "notFound" =>
         IF p.kind = "category" THEN About(p.kind, p.of) = {} ELSE ~Visible(p.of)
    /\ p.end # "error"
Outcome == still' => IF page'.end = "reading" THEN Part(page') ELSE Right(page')

LEMMA PartOf ==
  ASSUME NEW p
  PROVE  /\ p.kind = "company" /\ CompanyPart(p) => Part(p)
         /\ p.kind = "timeline" /\ TimelinePart(p) => Part(p)
         /\ p.kind = "founder" /\ FounderPart(p) => Part(p)
         /\ p.kind \in {"investor", "portfolio"} /\ InvestorPart(p) => Part(p)
         /\ p.kind = "batch" /\ BatchPart(p) => Part(p)
         /\ p.kind = "stats" /\ StatsPart(p) => Part(p)
         /\ p.kind = "news" /\ NewsPart(p) => Part(p)
         /\ p.kind = "led" /\ LedPart(p) => Part(p)
         /\ p.kind = "category" /\ CategoryPart(p) => Part(p)
         /\ p.kind = "similar" /\ SimilarPart(p) => Part(p)
         /\ p.kind = "search" /\ SearchPart(p) => Part(p)
  BY DEF Part, CompanyPart, TimelinePart, FounderPart, InvestorPart, BatchPart, StatsPart, NewsPart,
         LedPart, CategoryPart, SimilarPart, SearchPart

LEMMA LastIs ==
  ASSUME IsFiniteSet(page.todo), NEW x \in page.todo
  PROVE  Last = IF page.todo \ {x} = {} THEN "found" ELSE "reading"
<1>1. Cardinality(page.todo) = 1 <=> page.todo = {x}
  BY FS_Singleton
<1> QED
  BY <1>1 DEF Last

LEMMA TwoFinite ==
  ASSUME NEW x, NEW y
  PROVE  IsFiniteSet({x, y})
<1>1. IsFiniteSet({x} \cup {y})
  BY FS_Singleton, FS_AddElement
<1>2. {x, y} = {x} \cup {y}
  OBVIOUS
<1> QED
  BY <1>1, <1>2

LEMMA AfterStep ==
  ASSUME IsPage(page), NEW statement, NEW ids, NEW facts, NEW end, Step(statement, ids, facts, end)
  PROVE  /\ page'.kind = page.kind /\ page'.of = page.of /\ page'.todo = page.todo \ {statement}
         /\ page'.ids = ids /\ page'.facts = page.facts \cup facts /\ page'.count = page.count
         /\ page'.mode = page.mode /\ page'.end = end /\ still' = still
  BY DEF Step, IsPage

LEMMA AfterOpen ==
  ASSUME NEW kind, NEW of, NEW todo, NEW ids, NEW facts, NEW count,
         Open(kind, of, todo, ids, facts, count)
  PROVE  /\ page'.kind = kind /\ page'.of = of /\ page'.todo = todo
         /\ page'.ids = ids /\ page'.facts = facts /\ page'.count = count
         /\ page'.mode = "fulltext" /\ page'.end = "reading"
  BY DEF Open, NoPage

LEMMA AfterAnswer ==
  ASSUME NEW kind, NEW of, NEW facts, NEW end, Answer(kind, of, facts, end)
  PROVE  page'.kind = kind /\ page'.of = of /\ page'.facts = facts /\ page'.end = end
  BY DEF Answer, NoPage

LEMMA NotFoundRight ==
  ASSUME NEW kind, NEW of, NotFound(kind, of), kind # "category", ~Visible(of)
  PROVE  Outcome
<1>1. page'.kind = kind /\ page'.of = of /\ page'.end = "notFound"
  BY AfterAnswer DEF NotFound
<1> QED
  BY <1>1 DEF Outcome, Right

LEMMA CompanyRight ==
  ASSUME Typed, IsPage(page), WholeOK,
         (\E s \in Startup : ReadCompany(s) \/ ReadTimeline(s)) \/ CompanyFounders \/ CompanyRounds
  PROVE  Outcome
<1>1. ASSUME NEW s \in Startup, ReadCompany(s), Visible(s) PROVE Outcome
  <2>1. Open("company", s, {"founders", "rounds"}, {}, Card(s) \cup DetailColumns(s), 0)
    BY <1>1 DEF ReadCompany
  <2>2. CompanyPart(page') /\ page'.kind = "company" /\ page'.end = "reading"
    BY <1>1, <2>1, AfterOpen DEF CompanyPart
  <2> QED
    BY <2>2, PartOf DEF Outcome
<1>2. ASSUME NEW s \in Startup, ReadTimeline(s), Visible(s) PROVE Outcome
  <2>1. Open("timeline", s, {"rounds"}, {}, {}, 0)
    BY <1>2 DEF ReadTimeline
  <2>2. TimelinePart(page') /\ page'.kind = "timeline" /\ page'.end = "reading"
    BY <1>2, <2>1, AfterOpen DEF TimelinePart
  <2> QED
    BY <2>2, PartOf DEF Outcome
<1>3. ASSUME NEW s \in Startup, ReadCompany(s) \/ ReadTimeline(s), ~Visible(s) PROVE Outcome
  BY <1>3, NotFoundRight DEF ReadCompany, ReadTimeline
<1>4. ASSUME NEW statement \in {"founders", "rounds"}, NEW facts,
             statement = "founders" => facts = SelectFounders(page.of),
             statement = "rounds" => facts = RoundFacts(RoundsOf(page.of)),
             page.kind = "company", page.end = "reading", statement \in page.todo,
             Step(statement, {}, facts, Last)
      PROVE  Outcome
  <2> SUFFICES ASSUME still' PROVE IF page'.end = "reading" THEN Part(page') ELSE Right(page')
    BY DEF Outcome
  <2>1. /\ page'.kind = page.kind /\ page'.of = page.of /\ page'.todo = page.todo \ {statement}
        /\ page'.facts = page.facts \cup facts /\ page'.end = Last /\ still' = still
    BY <1>4, AfterStep
  <2>2. CompanyPart(page)
    BY <1>4, <2>1 DEF WholeOK, Part
  <2>3. CompanyPart(page')
    BY <1>4, <2>1, <2>2 DEF CompanyPart
  <2>4. IsFiniteSet(page.todo)
    <3>1. page.todo \in SUBSET {"founders", "rounds"}
      BY <1>4, <2>2 DEF CompanyPart
    <3>2. IsFiniteSet({"founders", "rounds"})
      BY TwoFinite
    <3> QED
      BY <3>1, <3>2, FS_Subset
  <2>5. CASE page.todo \ {statement} = {}
    <3>1. page'.end = "found" /\ page'.todo = {}
      BY <1>4, <2>1, <2>4, <2>5, LastIs
    <3>2. page'.facts = About("company", page'.of)
      BY <1>4, <2>1, <2>3, <3>1, CompanyDrawn DEF CompanyPart
    <3> QED
      BY <1>4, <2>1, <3>1, <3>2 DEF Right
  <2>6. CASE page.todo \ {statement} # {}
    BY <1>4, <2>1, <2>3, <2>4, <2>6, LastIs, PartOf
  <2> QED
    BY <2>5, <2>6
<1>5. CASE CompanyFounders
  BY <1>4, <1>5 DEF CompanyFounders, Reads
<1>6. CASE CompanyRounds /\ page.kind = "company"
  BY <1>4, <1>6 DEF CompanyRounds, Reads, RoundsOf
<1>7. CASE CompanyRounds /\ page.kind = "timeline"
  <2> SUFFICES ASSUME still' PROVE page'.end = "found" /\ Right(page')
    BY DEF Outcome
  <2> DEFINE facts == RoundFacts(RoundsOf(page.of))
  <2>1. "rounds" \in page.todo /\ page.end = "reading" /\ Step("rounds", {}, facts, Last)
    BY <1>7 DEF CompanyRounds, Reads, RoundsOf
  <2> HIDE DEF facts
  <2>2. /\ page'.kind = page.kind /\ page'.of = page.of
        /\ page'.facts = page.facts \cup facts /\ page'.end = Last /\ still' = still
    BY ONLY IsPage(page), <2>1, AfterStep
  <2>3. page.of \in Startup /\ Visible(page.of) /\ page.todo = {"rounds"} /\ page.facts = {}
    BY <1>7, <2>1, <2>2 DEF WholeOK, Part, TimelinePart
  <2>4. page'.end = "found"
    BY <2>1, <2>2, <2>3, LastIs, FS_Singleton, SMTT(60)
  <2>5. page'.facts = About("timeline", page'.of)
    BY <2>2, <2>3, CompanyDrawn DEF facts
  <2> QED
    BY <1>7, <2>2, <2>4, <2>5 DEF Right
<1>8. CompanyRounds => page.kind \in {"company", "timeline"}
  BY DEF CompanyRounds, Reads
<1> QED
  BY <1>1, <1>2, <1>3, <1>5, <1>6, <1>7, <1>8

LEMMA SimilarRight ==
  ASSUME Typed, IsPage(page), WholeOK, (\E s \in Startup : ReadSimilar(s)) \/ SimilarCards
  PROVE  Outcome
<1>1. ASSUME NEW s \in Startup, ReadSimilar(s), Visible(s) PROVE Outcome
  <2>1. Open("similar", s, {"cards"}, SimilarKeys(s), {}, 0)
    BY <1>1 DEF ReadSimilar, SimilarKeys
  <2>2. SimilarPart(page') /\ page'.kind = "similar" /\ page'.end = "reading"
    BY <1>1, <2>1, AfterOpen DEF SimilarPart
  <2> QED
    BY <2>2, PartOf DEF Outcome
<1>2. ASSUME NEW s \in Startup, ReadSimilar(s), ~Visible(s) PROVE Outcome
  BY <1>2, NotFoundRight DEF ReadSimilar
<1>3. CASE SimilarCards
  <2> SUFFICES ASSUME still' PROVE page'.end = "found" /\ Right(page')
    BY DEF Outcome
  <2> DEFINE ss == SelectCards(Similar(page.of, page.ids \cap Industry, page.ids \cap City))
  <2>1. page.end = "reading" /\ page.kind = "similar" /\ Step("cards", ss, Cards(ss), "found")
    BY <1>3 DEF SimilarCards, Reads
  <2> HIDE DEF ss
  <2>2. /\ page'.kind = page.kind /\ page'.of = page.of
        /\ page'.facts = page.facts \cup Cards(ss) /\ page'.end = "found" /\ still' = still
    BY ONLY IsPage(page), <2>1, AfterStep
  <2>3. page.of \in Startup /\ Visible(page.of) /\ page.ids = SimilarKeys(page.of) /\ page.facts = {}
    BY <2>1, <2>2 DEF WholeOK, Part, SimilarPart
  <2>4. Cards(ss) = About("similar", page.of)
    BY <2>3, SimilarDrawn DEF ss
  <2> QED
    BY <2>1, <2>2, <2>3, <2>4 DEF Right
<1> QED
  BY <1>1, <1>2, <1>3

LEMMA FounderRight ==
  ASSUME Typed, IsPage(page), WholeOK,
         (\E f \in Founder : ReadFounder(f)) \/ FounderStints \/ FounderCards
  PROVE  Outcome
<1>1. ASSUME NEW f \in Founder, ReadFounder(f), Visible(f) PROVE Outcome
  <2>1. Open("founder", f, {"stints", "cards"}, {}, {f}, 0)
    BY <1>1 DEF ReadFounder
  <2>2. FounderPart(page') /\ page'.kind = "founder" /\ page'.end = "reading"
    BY <1>1, <2>1, AfterOpen DEF FounderPart
  <2> QED
    BY <2>2, PartOf DEF Outcome
<1>2. ASSUME NEW f \in Founder, ReadFounder(f), ~Visible(f) PROVE Outcome
  BY <1>2, NotFoundRight DEF ReadFounder
<1>3. CASE FounderStints
  <2> SUFFICES ASSUME still' PROVE page'.end = "reading" /\ Part(page')
    BY DEF Outcome
  <2>1. /\ page.end = "reading" /\ page.kind = "founder" /\ "stints" \in page.todo
        /\ Step("stints", Stints(page.of), {}, "reading")
    BY <1>3 DEF FounderStints, Reads
  <2>2. /\ page'.kind = page.kind /\ page'.of = page.of /\ page'.todo = page.todo \ {"stints"}
        /\ page'.ids = Stints(page.of) /\ page'.facts = page.facts \cup {}
        /\ page'.end = "reading" /\ still' = still
    BY ONLY IsPage(page), <2>1, AfterStep
  <2>3. FounderPart(page)
    BY <2>1, <2>2 DEF WholeOK, Part
  <2>4. FounderPart(page')
    BY <2>1, <2>2, <2>3 DEF FounderPart
  <2> QED
    BY <2>1, <2>2, <2>4, PartOf
<1>4. CASE FounderCards
  <2> SUFFICES ASSUME still' PROVE page'.end = "found" /\ Right(page')
    BY DEF Outcome
  <2> DEFINE ss == SelectCards({l[2] : l \in page.ids})
             facts == Cards(ss) \cup {l \in page.ids : l[2] \in ss}
  <2>1. /\ page.end = "reading" /\ page.kind = "founder" /\ "stints" \notin page.todo
        /\ Step("cards", page.ids, facts, "found")
    BY <1>4 DEF FounderCards, Reads
  <2> HIDE DEF facts
  <2>2. /\ page'.kind = page.kind /\ page'.of = page.of
        /\ page'.facts = page.facts \cup facts /\ page'.end = "found" /\ still' = still
    BY ONLY IsPage(page), <2>1, AfterStep
  <2>3. page.of \in Founder /\ Visible(page.of) /\ page.facts = {page.of} /\ page.ids = Stints(page.of)
    BY <2>1, <2>2 DEF WholeOK, Part, FounderPart
  <2>4. {page.of} \cup facts = About("founder", page.of)
    BY <2>3, FounderDrawn DEF facts
  <2> QED
    BY <2>1, <2>2, <2>3, <2>4 DEF Right
<1> QED
  BY <1>1, <1>2, <1>3, <1>4

\* What rows say is no record.
LEMMA TiesShown ==
  ASSUME Typed
  PROVE  /\ \A l \in links : l \notin Record
         /\ \A i : \A s \in SelectCards(BackedBy(i)) : <<"backs", i, s>> \notin Record
         /\ \A b : \A s \in SelectCards(InBatch(b)) : <<"batch", s, b>> \notin Record
         /\ \A rs \in SUBSET Round : RoundFacts(rs) \cap Round = SelectRounds(rs)
                                     /\ RoundFacts(rs) \cap Startup = {}
<1>1. \A l \in links : l \notin Record /\ \A x \in Facts(l) : x \notin Record
  BY RowsAreNoIds DEF Typed
<1>2. ASSUME NEW i, NEW s \in SelectCards(BackedBy(i))
      PROVE  <<"backs", i, s>> \notin Record
  <2>1. PICK l \in Rows("backer") : l[3] = i /\ l[2] = s
    BY DEF SelectCards, BackedBy
  <2> QED
    BY <2>1, <1>1, FactsOfRow DEF Rows
<1>3. ASSUME NEW b, NEW s \in SelectCards(InBatch(b))
      PROVE  <<"batch", s, b>> \notin Record
  <2>1. PICK l \in Rows("batch") : l[3] = b /\ l[2] = s
    BY DEF SelectCards, InBatch
  <2>2. l = <<"batch", s, b>>
    BY <2>1, RowForms
       DEF Rows, Typed, IsFounder, IsBacker, IsBatch, IsAcquirer, IsIndustry, IsCity, IsOrganizer
  <2> QED
    BY <2>1, <2>2, <1>1 DEF Rows
<1>4. ASSUME NEW rs \in SUBSET Round
      PROVE  RoundFacts(rs) \cap Round = SelectRounds(rs) /\ RoundFacts(rs) \cap Startup = {}
  <2>1. ASSUME NEW l \in Rows("backer"), l[4] \in SelectRounds(rs)
        PROVE  <<"in", l[4], l[3]>> \notin Record
    <3>1. l[4] # None
      BY <2>1, RecordsAssumption DEF SelectRounds, Record
    <3> QED
      BY <3>1, <1>1, FactsOfRow DEF Rows
  <2> QED
    BY <2>1, DistinctIds DEF RoundFacts, SelectRounds, Record
<1> QED
  BY <1>1, <1>2, <1>3, <1>4

LEMMA InvestorRight ==
  ASSUME Typed, Keyed(links), IsPage(page), WholeOK,
         (\E i \in Investor : ReadInvestor(i) \/ ReadPortfolio(i)) \/ InvestorPortfolio
  PROVE  Outcome
<1>1. ASSUME NEW i \in Investor, ReadInvestor(i), Visible(i) PROVE Outcome
  <2>1. Open("investor", i, {"portfolio"}, {}, {i}, Cardinality(PortfolioIds(i)))
    BY <1>1 DEF ReadInvestor
  <2>2. InvestorPart(page') /\ page'.kind = "investor" /\ page'.end = "reading"
    BY <1>1, <2>1, AfterOpen DEF InvestorPart
  <2> QED
    BY <2>2, PartOf DEF Outcome
<1>2. ASSUME NEW i \in Investor, ReadPortfolio(i), Visible(i) PROVE Outcome
  <2>1. Open("portfolio", i, {"portfolio"}, {}, {}, 0)
    BY <1>2 DEF ReadPortfolio
  <2>2. InvestorPart(page') /\ page'.kind = "portfolio" /\ page'.end = "reading"
    BY <1>2, <2>1, AfterOpen DEF InvestorPart
  <2> QED
    BY <2>2, PartOf DEF Outcome
<1>3. ASSUME NEW i \in Investor, ReadInvestor(i) \/ ReadPortfolio(i), ~Visible(i) PROVE Outcome
  BY <1>3, NotFoundRight DEF ReadInvestor, ReadPortfolio
<1>4. CASE InvestorPortfolio
  <2> SUFFICES ASSUME still' PROVE page'.end = "found" /\ Right(page')
    BY DEF Outcome
  <2> DEFINE ss == SelectCards(BackedBy(page.of))
             facts == Cards(BackedBy(page.of)) \cup {<<"backs", page.of, s>> : s \in ss}
  <2>1. /\ page.end = "reading" /\ page.kind \in {"investor", "portfolio"}
        /\ Step("portfolio", ss, facts, "found")
    BY <1>4 DEF InvestorPortfolio, Reads
  <2> HIDE DEF ss, facts
  <2>2. /\ page'.kind = page.kind /\ page'.of = page.of /\ page'.count = page.count
        /\ page'.facts = page.facts \cup facts /\ page'.end = "found" /\ still' = still
    BY ONLY IsPage(page), <2>1, AfterStep
  <2>3. InvestorPart(page)
    BY <2>1, <2>2 DEF WholeOK, Part
  <2>4. page.of \in Investor /\ Visible(page.of)
    BY <2>1, <2>3 DEF InvestorPart
  <2>5. /\ About("investor", page.of) = {page.of} \cup facts
        /\ About("portfolio", page.of) = facts
    BY <2>4, InvestorDrawn DEF facts, ss
  <2>6. page'.facts = About(page'.kind, page'.of)
    BY <2>1, <2>2, <2>3, <2>5 DEF InvestorPart
  <2>7. page.kind = "investor" => page'.count = Cardinality(page'.facts \cap Startup)
    <3>1. BackedBy(page.of) \in SUBSET Startup
      BY FiltersFindStartups
    <3>2. facts \cap Startup = ss
      BY <3>1, StartupsShown, TiesShown DEF facts, ss, Record
    <3>3. page.of \notin Startup
      BY <2>4, DistinctIds
    <3>4. PortfolioIds(page.of) = ss
      BY <2>4, Counted DEF CountsAgree, ss
    <3> QED
      BY <2>2, <2>3, <3>2, <3>3, <3>4 DEF InvestorPart
  <2> QED
    BY <2>1, <2>2, <2>6, <2>7 DEF Right
<1> QED
  BY <1>1, <1>2, <1>3, <1>4

LEMMA CohortShown ==
  ASSUME Typed, NEW b \in Batch, Visible(b)
  PROVE  /\ About("batch", b) = {b} \cup Organizers(b) \cup CohortFacts(b)
         /\ About("batch", b) \cap Startup = SelectCards(InBatch(b))
         /\ CompanyCount(b) = Cardinality(About("batch", b) \cap Startup)
<1> DEFINE ss == SelectCards(InBatch(b))
<1>1. ss \in SUBSET Startup /\ SelectCards(ss) = ss
  BY FiltersFindStartups DEF SelectCards
<1>2. About("batch", b) = {b} \cup Organizers(b) \cup CohortFacts(b)
  BY BatchDrawn DEF Organizers, CohortFacts
<1>3. Organizers(b) \cap Record = {}
  BY TiesShown DEF Organizers, Rows
<1>4. CohortFacts(b) \cap Startup = ss
  BY <1>1, StartupsShown, TiesShown DEF CohortFacts, Record
<1>5. b \notin Startup
  BY DistinctIds
<1> HIDE DEF ss
<1>6. About("batch", b) \cap Startup = ss
  BY <1>2, <1>3, <1>4, <1>5 DEF Record
<1> QED
  BY <1>2, <1>6, CompaniesCounted DEF ss

LEMMA BatchRight ==
  ASSUME Typed, IsPage(page), WholeOK,
         (\E b \in Batch : ReadBatch(b) \/ ReadStats(b)) \/ BatchStats \/ BatchCohort
  PROVE  Outcome
<1>1. ASSUME NEW b \in Batch, ReadBatch(b), Visible(b) PROVE Outcome
  <2>1. Open("batch", b, {"stats", "cohort"}, {}, {b} \cup Organizers(b), 0)
    BY <1>1 DEF ReadBatch, Organizers
  <2>2. BatchPart(page') /\ page'.kind = "batch" /\ page'.end = "reading"
    BY <1>1, <2>1, AfterOpen DEF BatchPart
  <2> QED
    BY <2>2, PartOf DEF Outcome
<1>2. ASSUME NEW b \in Batch, ReadStats(b), Visible(b) PROVE Outcome
  <2>1. Open("stats", b, {"stats"}, {}, {}, 0)
    BY <1>2 DEF ReadStats
  <2>2. StatsPart(page') /\ page'.kind = "stats" /\ page'.end = "reading"
    BY <1>2, <2>1, AfterOpen DEF StatsPart
  <2> QED
    BY <2>2, PartOf DEF Outcome
<1>3. ASSUME NEW b \in Batch, ReadBatch(b) \/ ReadStats(b), ~Visible(b) PROVE Outcome
  BY <1>3, NotFoundRight DEF ReadBatch, ReadStats
<1>4. ASSUME BatchPart(page), page.kind = "batch", NEW statement \in page.todo,
             page'.kind = page.kind, page'.of = page.of, page'.todo = page.todo \ {statement},
             page'.end = Last, BatchPart(page')
      PROVE  IF page'.end = "reading" THEN Part(page') ELSE Right(page')
  <2>1. page.todo \in SUBSET {"stats", "cohort"} /\ page.of \in Batch /\ Visible(page.of)
    BY <1>4 DEF BatchPart
  <2>2. Last = IF page'.todo = {} THEN "found" ELSE "reading"
    BY <1>4, <2>1, LastIs, TwoFinite, FS_Subset
  <2>3. CASE page'.todo = {}
    <3>1. page'.facts = About("batch", page.of) /\ page'.count = CompanyCount(page.of)
      BY <1>4, <2>1, <2>3, CohortShown DEF BatchPart
    <3>2. page'.count = Cardinality(page'.facts \cap Startup)
      BY <2>1, <3>1, CohortShown
    <3> QED
      BY <1>4, <2>2, <2>3, <3>1, <3>2 DEF Right
  <2>4. CASE page'.todo # {}
    BY <1>4, <2>2, <2>4, PartOf
  <2> QED
    BY <2>3, <2>4
<1>5. CASE BatchCohort
  <2> SUFFICES ASSUME still' PROVE IF page'.end = "reading" THEN Part(page') ELSE Right(page')
    BY DEF Outcome
  <2> DEFINE ss == SelectCards(InBatch(page.of))
             facts == CohortFacts(page.of)
  <2>1. /\ page.end = "reading" /\ page.kind = "batch" /\ "cohort" \in page.todo
        /\ Step("cohort", ss, facts, Last)
    BY <1>5 DEF BatchCohort, Reads, CohortFacts
  <2> HIDE DEF ss, facts
  <2>2. /\ page'.kind = page.kind /\ page'.of = page.of /\ page'.todo = page.todo \ {"cohort"}
        /\ page'.facts = page.facts \cup facts /\ page'.count = page.count
        /\ page'.end = Last /\ still' = still
    BY ONLY IsPage(page), <2>1, AfterStep
  <2>3. BatchPart(page)
    BY <2>1, <2>2 DEF WholeOK, Part
  <2>4. BatchPart(page')
    BY <2>1, <2>2, <2>3 DEF BatchPart, facts
  <2> QED
    BY <1>4, <2>1, <2>2, <2>3, <2>4
<1>6. ASSUME BatchStats
      PROVE  /\ page.end = "reading" /\ page.kind \in {"batch", "stats"} /\ "stats" \in page.todo
             /\ page'.kind = page.kind /\ page'.of = page.of /\ page'.todo = page.todo \ {"stats"}
             /\ page'.facts = page.facts /\ page'.count = CompanyCount(page.of)
             /\ page'.end = Last /\ still' = still
  BY ONLY IsPage(page), <1>6 DEF BatchStats, Reads, IsPage
<1>7. CASE BatchStats /\ page.kind = "batch"
  <2> SUFFICES ASSUME still' PROVE IF page'.end = "reading" THEN Part(page') ELSE Right(page')
    BY DEF Outcome
  <2>1. BatchPart(page)
    BY <1>6, <1>7 DEF WholeOK, Part
  <2>2. BatchPart(page')
    BY <1>6, <1>7, <2>1 DEF BatchPart
  <2> QED
    BY <1>4, <1>6, <1>7, <2>1, <2>2
<1>8. CASE BatchStats /\ page.kind = "stats"
  <2> SUFFICES ASSUME still' PROVE page'.end = "found" /\ Right(page')
    BY DEF Outcome
  <2>1. page.of \in Batch /\ Visible(page.of) /\ page.todo = {"stats"} /\ page.facts = {}
    BY <1>6, <1>8 DEF WholeOK, Part, StatsPart
  <2>2. page'.end = "found"
    <3>1. IsFiniteSet(page.todo)
      BY <2>1, FS_Singleton
    <3>2. Last = "found"
      BY ONLY <2>1, <3>1, LastIs
    <3> QED
      BY <1>6, <1>8, <3>2
  <2>3. page'.count = Cardinality(Startup \cap About("batch", page.of))
    <3>1. Startup \cap About("batch", page.of) = About("batch", page.of) \cap Startup
      OBVIOUS
    <3> QED
      BY <1>6, <1>8, <2>1, <3>1, CohortShown
  <2>4. About("stats", page.of) = {}
    BY AboutForms
  <2> QED
    BY <1>6, <1>8, <2>1, <2>2, <2>3, <2>4 DEF Right
<1> QED
  BY <1>1, <1>2, <1>3, <1>5, <1>6, <1>7, <1>8

LEMMA FeedsRight ==
  ASSUME Typed, Keyed(links), IsPage(page), WholeOK,
         ReadNews \/ (\E i \in Investor : ReadLed(i)) \/ LedRows \/ FeedCards
  PROVE  Outcome
<1>1. CASE ReadNews
  <2>1. Open("news", None, {"cards"}, SelectRounds(Round), RoundFacts(Round), 0)
    BY <1>1 DEF ReadNews
  <2>2. NewsPart(page') /\ page'.kind = "news" /\ page'.end = "reading"
    BY <2>1, AfterOpen DEF NewsPart
  <2> QED
    BY <2>2, PartOf DEF Outcome
<1>2. ASSUME NEW i \in Investor, ReadLed(i), Visible(i) PROVE Outcome
  <2>1. Open("led", i, {"rounds", "cards"}, {}, {i}, RoundsLedCount(i))
    BY <1>2 DEF ReadLed
  <2>2. LedPart(page') /\ page'.kind = "led" /\ page'.end = "reading"
    BY <1>2, <2>1, AfterOpen DEF LedPart
  <2> QED
    BY <2>2, PartOf DEF Outcome
<1>3. ASSUME NEW i \in Investor, ReadLed(i), ~Visible(i) PROVE Outcome
  BY <1>3, NotFoundRight DEF ReadLed
<1>4. CASE LedRows
  <2> SUFFICES ASSUME still' PROVE page'.end = "reading" /\ Part(page')
    BY DEF Outcome
  <2> DEFINE rs == SelectRounds(LedRounds(page.of))
             facts == RoundFacts(LedRounds(page.of))
  <2>1. /\ page.end = "reading" /\ page.kind = "led" /\ "rounds" \in page.todo
        /\ Step("rounds", rs, facts, "reading")
    BY <1>4 DEF LedRows, Reads
  <2> HIDE DEF rs, facts
  <2>2. /\ page'.kind = page.kind /\ page'.of = page.of /\ page'.todo = page.todo \ {"rounds"}
        /\ page'.ids = rs /\ page'.facts = page.facts \cup facts /\ page'.count = page.count
        /\ page'.end = "reading" /\ still' = still
    BY ONLY IsPage(page), <2>1, AfterStep
  <2>3. LedPart(page)
    BY <2>1, <2>2 DEF WholeOK, Part
  <2>4. LedPart(page')
    BY <2>1, <2>2, <2>3 DEF LedPart, rs, facts
  <2> QED
    BY <2>1, <2>2, <2>4, PartOf
<1>5. CASE FeedCards
  <2> SUFFICES ASSUME still' PROVE page'.end = "found" /\ Right(page')
    BY DEF Outcome
  <2> DEFINE ss == {StartupOf[r] : r \in page.ids}
             end == IF ss \subseteq SelectCards(ss) THEN "found" ELSE "error"
             facts == Cards(ss)
  <2>1. /\ page.end = "reading" /\ page.kind \in {"news", "led"} /\ "rounds" \notin page.todo
        /\ Step("cards", page.ids, facts, end)
    BY <1>5 DEF FeedCards, Reads
  <2> HIDE DEF ss, end, facts
  <2>2. /\ page'.kind = page.kind /\ page'.of = page.of /\ page'.count = page.count
        /\ page'.facts = page.facts \cup facts /\ page'.end = end /\ still' = still
    BY ONLY IsPage(page), <2>1, AfterStep
  <2>3. NewsPart(page) /\ LedPart(page)
    BY <2>1, <2>2 DEF WholeOK, Part
  <2>4. page.ids \subseteq Round /\ \A r \in page.ids : Visible(StartupOf[r])
    <3>1. LedRounds(page.of) \ {None} \subseteq Round
      BY RowForms
         DEF LedRounds, Rows, Typed, IsFounder, IsBacker, IsBatch, IsAcquirer, IsIndustry, IsCity, IsOrganizer
    <3> QED
      BY <2>1, <2>3, <3>1 DEF NewsPart, LedPart, SelectRounds, LedRounds
  <2>5. ss \in SUBSET Startup /\ end = "found"
    BY <2>4, RecordsAssumption DEF ss, end, SelectCards
  <2>6. CASE page.kind = "news"
    <3>1. page'.facts = About("news", page.of)
      BY <2>2, <2>3, <2>6, FeedsDrawn DEF NewsPart, facts, ss
    <3> QED
      BY <2>2, <2>5, <2>6, <3>1 DEF Right
  <2>7. CASE page.kind = "led"
    <3>1. /\ page.of \in Investor /\ Visible(page.of) /\ page.count = RoundsLedCount(page.of)
          /\ page.ids = SelectRounds(LedRounds(page.of))
          /\ page.facts = {page.of} \cup RoundFacts(LedRounds(page.of))
      BY <2>1, <2>3, <2>7 DEF LedPart
    <3>2. page'.facts = About("led", page.of)
      BY <2>2, <3>1, FeedsDrawn DEF facts, ss
    <3>3. LedRounds(page.of) \in SUBSET Round
      BY RowForms
         DEF LedRounds, Rows, Typed, IsFounder, IsBacker, IsBatch, IsAcquirer, IsIndustry, IsCity, IsOrganizer
    <3>4. page'.facts \cap Round = SelectRounds(LedRounds(page.of))
      <4>1. facts \cap Round = {}
        BY <2>5, StartupsShown DEF facts
      <4>2. RoundFacts(LedRounds(page.of)) \cap Round = SelectRounds(LedRounds(page.of))
        BY <3>3, TiesShown
      <4>3. page.of \notin Round
        BY <3>1, DistinctIds
      <4> QED
        BY <2>2, <3>1, <4>1, <4>2, <4>3
    <3>5. page'.count = Cardinality(page'.facts \cap Round)
      BY <2>2, <3>1, <3>4, Counted DEF CountsAgree
    <3> QED
      BY <2>2, <2>5, <2>7, <3>2, <3>5 DEF Right
  <2> QED
    BY <2>1, <2>2, <2>5, <2>6, <2>7
<1> QED
  BY <1>1, <1>2, <1>3, <1>4, <1>5

LEMMA ListsRight ==
  ASSUME Typed, IsPage(page), WholeOK,
         \/ ReadLanding \/ Suggest
         \/ \E x \in Industry \cup City \cup Country : ReadCategory(x)
         \/ CategoryCompanies
  PROVE  Outcome
<1>1. CASE ReadLanding
  <2>1. Answer("landing", None, Cards(Landing), "found")
    BY <1>1 DEF ReadLanding
  <2>2. page'.kind = "landing" /\ page'.of = None /\ page'.facts = Cards(Landing) /\ page'.end = "found"
    BY <2>1, AfterAnswer
  <2> QED
    BY <2>2, ListsDrawn DEF Outcome, Right
<1>2. CASE Suggest
  <2> DEFINE facts == {r \in Hits["fulltext"] \cup Hits["trigram"] : Visible(r)}
  <2>1. Answer("suggest", None, facts, "found")
    BY <1>2 DEF Suggest
  <2>2. facts = About("suggest", None)
    BY ListsDrawn
  <2> HIDE DEF facts
  <2>3. page'.kind = "suggest" /\ page'.of = None /\ page'.facts = facts /\ page'.end = "found"
    BY <2>1, AfterAnswer
  <2> QED
    BY <2>2, <2>3 DEF Outcome, Right
<1>3. \A x : InFacet(x) \in SUBSET Startup /\ IsFiniteSet(SelectCards(InFacet(x)))
  <2>1. \A x : InFacet(x) \in SUBSET Startup /\ SelectCards(InFacet(x)) \in SUBSET Startup
    BY FiltersFindStartups DEF SelectCards
  <2> QED
    BY <2>1, RecordsAssumption, FS_Subset
<1>4. ASSUME NEW x \in Industry \cup City \cup Country, ReadCategory(x), Count(x) # 0 PROVE Outcome
  <2>1. Open("category", x, {"companies"}, {}, {}, Count(x))
    BY <1>4 DEF ReadCategory
  <2>2. CategoryPart(page') /\ page'.kind = "category" /\ page'.end = "reading"
    BY <2>1, AfterOpen DEF CategoryPart
  <2> QED
    BY <2>2, PartOf DEF Outcome
<1>5. ASSUME NEW x \in Industry \cup City \cup Country, ReadCategory(x), Count(x) = 0 PROVE Outcome
  <2>1. page'.kind = "category" /\ page'.of = x /\ page'.end = "notFound"
    BY <1>5, AfterAnswer DEF ReadCategory, NotFound
  <2>2. SelectCards(InFacet(x)) = {}
    BY <1>3, <1>5, FS_EmptySet DEF Count
  <2>3. About("category", x) = {}
    BY <2>2, ListsDrawn DEF Cards
  <2> QED
    BY <2>1, <2>3 DEF Outcome, Right
<1>6. CASE CategoryCompanies
  <2> SUFFICES ASSUME still' PROVE page'.end = "found" /\ Right(page')
    BY DEF Outcome
  <2> DEFINE ss == SelectCards(InFacet(page.of))
             facts == Cards(InFacet(page.of))
  <2>1. page.end = "reading" /\ page.kind = "category" /\ Step("companies", ss, facts, "found")
    BY <1>6 DEF CategoryCompanies, Reads
  <2> HIDE DEF ss, facts
  <2>2. /\ page'.kind = page.kind /\ page'.of = page.of /\ page'.count = page.count
        /\ page'.facts = page.facts \cup facts /\ page'.end = "found" /\ still' = still
    BY ONLY IsPage(page), <2>1, AfterStep
  <2>3. /\ page.of \in Industry \cup City \cup Country
        /\ page.facts = {} /\ page.count = Count(page.of)
    BY <2>1, <2>2 DEF WholeOK, Part, CategoryPart
  <2>4. page'.facts = About("category", page.of)
    BY <2>2, <2>3, ListsDrawn DEF facts
  <2>5. facts \cap Startup = ss
    BY <1>3, StartupsShown DEF facts, ss
  <2>6. page'.count = Cardinality(page'.facts \cap Startup)
    BY <2>2, <2>3, <2>5 DEF Count, ss
  <2> QED
    BY <2>1, <2>2, <2>4, <2>6 DEF Right
<1> QED
  BY <1>1, <1>2, <1>4, <1>5, <1>6

LEMMA SearchRight ==
  ASSUME Typed, IsPage(page), WholeOK,
         \/ \E want \in {Groups} \cup {{g} : g \in Groups} : Search(want)
         \/ \E g \in Groups : SearchGroup(g)
  PROVE  Outcome
<1>1. ASSUME NEW want \in SUBSET Groups, Search(want) PROVE Outcome
  <2>1. Open("search", want, want, want, {}, 0)
    BY <1>1 DEF Search
  <2>2. /\ page'.kind = "search" /\ page'.end = "reading" /\ page'.of = want /\ page'.ids = want
        /\ page'.todo = want /\ page'.facts = {} /\ page'.mode = "fulltext"
    BY <2>1, AfterOpen
  <2>3. SearchPart(page')
    BY <2>2 DEF SearchPart
  <2> QED
    BY <2>2, <2>3, PartOf DEF Outcome
<1>2. ASSUME NEW g \in Groups, SearchGroup(g) PROVE Outcome
  <2> SUFFICES ASSUME still' PROVE IF page'.end = "reading" THEN Part(page') ELSE Right(page')
    BY DEF Outcome
  <2> DEFINE facts == GroupFacts(g, page.mode)
             retry == Last = "found" /\ page.facts \cup facts = {} /\ page.mode = "fulltext"
             todo == IF retry THEN page.ids ELSE page.todo \ {g}
             mode == IF retry THEN "trigram" ELSE page.mode
             end == IF retry THEN "reading" ELSE Last
  <2>1. /\ page.end = "reading" /\ page.kind = "search" /\ g \in page.todo
        /\ page' = [page EXCEPT !.facts = @ \cup facts, !.todo = todo, !.mode = mode, !.end = end]
        /\ still' = still
    BY <1>2 DEF SearchGroup, Reads, GroupFacts
  <2> HIDE DEF facts, retry, todo, mode, end
  <2>2. /\ page'.kind = page.kind /\ page'.of = page.of /\ page'.ids = page.ids
        /\ page'.facts = page.facts \cup facts /\ page'.todo = todo /\ page'.mode = mode
        /\ page'.end = end
    BY ONLY IsPage(page), <2>1 DEF IsPage
  <2>3. SearchPart(page)
    BY <2>1 DEF WholeOK, Part
  <2> DEFINE Found(m, gs) == UNION {GroupFacts(h, m) : h \in gs}
  <2>4. /\ page.of \in SUBSET Groups /\ page.ids = page.of /\ page.todo \in SUBSET page.of
        /\ page.mode \in {"fulltext", "trigram"}
        /\ page.facts = Found(page.mode, page.of \ page.todo)
        /\ page.mode = "trigram" => Found("fulltext", page.of) = {}
    BY <2>1, <2>3 DEF SearchPart
  <2>5. page.facts \cup facts = Found(page.mode, page.of \ (page.todo \ {g}))
    BY <2>1, <2>4 DEF facts
  <2>6. Last = IF page.todo \ {g} = {} THEN "found" ELSE "reading"
    <3>1. IsFiniteSet(Groups)
      <4>1. Groups = {"startup", "founder"} \cup {"investor"} \cup {"batch"}
        BY DEF Groups
      <4>2. IsFiniteSet({"startup", "founder"} \cup {"investor"})
        BY TwoFinite, FS_AddElement
      <4>3. IsFiniteSet({"startup", "founder"} \cup {"investor"} \cup {"batch"})
        BY <4>2, FS_AddElement
      <4> QED
        BY <4>1, <4>3
    <3>2. page.todo \in SUBSET Groups
      BY <2>4
    <3>3. IsFiniteSet(page.todo)
      BY <3>1, <3>2, FS_Subset
    <3> QED
      BY ONLY <2>1, <3>3, LastIs
  <2> HIDE DEF Found
  <2>7. CASE retry
    <3>1. /\ todo = page.of /\ mode = "trigram" /\ end = "reading"
          /\ page.facts \cup facts = {} /\ page.mode = "fulltext" /\ page.todo \ {g} = {}
      BY <2>4, <2>6, <2>7 DEF retry, todo, mode, end
    <3>2. Found("fulltext", page.of) = {}
      <4>1. page.of \ (page.todo \ {g}) = page.of
        BY <3>1
      <4> QED
        BY <2>5, <3>1, <4>1
    <3>3. Found("trigram", page.of \ page.of) = {}
      BY DEF Found
    <3>4. SearchPart(page')
      BY <2>1, <2>2, <2>4, <3>1, <3>2, <3>3 DEF SearchPart, Found
    <3> QED
      BY <2>1, <2>2, <3>1, <3>4, PartOf
  <2>8. CASE ~retry /\ page.todo \ {g} # {}
    <3>1. todo = page.todo \ {g} /\ mode = page.mode /\ end = "reading"
      BY <2>6, <2>8 DEF todo, mode, end
    <3>2. SearchPart(page')
      BY <2>1, <2>2, <2>4, <2>5, <3>1 DEF SearchPart, Found
    <3> QED
      BY <2>1, <2>2, <3>1, <3>2, PartOf
  <2>9. CASE ~retry /\ page.todo \ {g} = {}
    <3>1. end = "found"
      BY <2>6, <2>9 DEF end
    <3>2. page.of \ (page.todo \ {g}) = page.of
      BY <2>9
    <3>3. page'.facts = Found(page.mode, page.of)
      BY <2>2, <2>5, <3>2
    <3>4. \A m \in {"fulltext", "trigram"} : HitsDrawn(page.of, m) = Found(m, page.of)
      BY <2>4, SearchDrawn DEF Found
    <3>5. page.mode = "fulltext" => page'.facts # {}
      BY <2>2, <2>6, <2>9 DEF retry
    <3>6. page'.facts = About("search", page.of)
      BY <2>4, <3>3, <3>4, <3>5, AboutSearch
    <3> QED
      BY <2>1, <2>2, <3>1, <3>6 DEF Right
  <2> QED
    BY <2>7, <2>8, <2>9
<1>3. ASSUME NEW want \in {Groups} \cup {{g} : g \in Groups}
      PROVE  want \in SUBSET Groups
  OBVIOUS
<1> QED
  BY <1>1, <1>2, <1>3

LEMMA ReadRight ==
  ASSUME Typed, Keyed(links), IsPage(page), WholeOK, Read
  PROVE  Outcome
  BY CompanyRight, SimilarRight, FounderRight, InvestorRight, BatchRight, FeedsRight, ListsRight,
     SearchRight DEF Read

\* A write ends what is known of a page under way, and forgets one that was read.
LEMMA WriteRight ==
  ASSUME Wrote
  PROVE  /\ page'.end = "reading" => ~still'
         /\ page' # page => page'.end = "none" /\ page'.kind = "none"
  BY DEF Wrote, Write, NoPage

LEMMA NextWhole == IInv /\ WholeOK /\ [Next]_vars => WholeOK'
<1> SUFFICES ASSUME IInv, WholeOK, [Next]_vars PROVE WholeOK'
  OBVIOUS
<1>1. CASE Read
  <2>1. Outcome
    BY <1>1, ReadRight DEF IInv, DirOK, DirectoryOK, Typed, Status, PageOK
  <2>2. status' = status /\ links' = links
    BY <1>1, ReadsWriteNothing DEF db
  <2> QED
    BY <2>1, <2>2, PartStays DEF Outcome, WholeOK
<1>2. CASE Edit
  <2>1. Wrote
    BY <1>2, EditStep DEF IInv
  <2> QED
    BY <2>1, WriteRight DEF WholeOK
<1>3. CASE UNCHANGED vars
  <2>1. page' = page /\ still' = still /\ status' = status /\ links' = links
    BY <1>3 DEF vars, db
  <2> QED
    BY <2>1, PartStays DEF WholeOK
<1> QED
  BY <1>1, <1>2, <1>3 DEF Next

\* A page during whose read nothing was written shows what is public about its subject, all of it and
\* nothing else, with its count, and is missing only if its subject is hidden.
THEOREM QuietPagesAreWhole == Spec => QuietPagesWhole
<1>1. Init => WholeOK
  BY DEF Init, NoPage, WholeOK
<1>2. IInv /\ WholeOK /\ [Next]_vars =>
        [LET p == page'
             listed == IF p.kind = "led" THEN Round ELSE Startup
         IN  p # page /\ p.end # "reading" /\ still' =>
               /\ p.end = "found" => p.facts = About(p.kind, p.of)
               /\ p.end = "found" /\ p.kind \in {"investor", "batch", "led", "category"} =>
                    p.count = Cardinality(p.facts \cap listed)
               /\ p.end = "found" /\ p.kind = "stats" =>
                    p.count = Cardinality(Startup \cap About("batch", p.of))
               /\ p.end = "notFound" =>
                    IF p.kind = "category" THEN About(p.kind, p.of) = {} ELSE ~Visible(p.of)
               /\ p.end # "error"]_vars
  <2> SUFFICES ASSUME IInv, WholeOK, Next, page' # page, page'.end # "reading", still'
               PROVE  Right(page')
    BY DEF Right
  <2>1. CASE Read
    BY <2>1, ReadRight DEF IInv, DirOK, DirectoryOK, Typed, Status, PageOK, Outcome
  <2>2. CASE Edit
    <3>1. page'.end = "none"
      BY <2>2, EditStep, WriteRight DEF IInv
    <3> QED
      BY <3>1 DEF Right
  <2> QED
    BY <2>1, <2>2 DEF Next
<1> QED
  BY <1>1, <1>2, InitIInv, NextIInv, NextWhole, PTL DEF QuietPagesWhole, Spec

-----------------------------------------------------------------------------
(* The cache. *)

Past == {"before", "written", "after"}

\* Everything that shows the cards of ss, as far as it was tied to them when x collected tags.
CoversCards(x, ties) ==
    /\ x.s \subseteq x.tags /\ List \in x.tags
    /\ \A l \in joined : l[1] \in x.s => l[2] \in x.tags \/ l \in ties

\* Everything that shows the card of a company that one of x.s acquired.
CoversAcquired(x, ties) ==
    \A s \in Company : acquirer[s] \in x.s =>
        \/ <<s, acquirer[s]>> \in ties
        \/ /\ s \in x.tags
           /\ \A l \in joined : l[1] = s => l[2] \in x.tags \/ l \in ties

\* Everything that names the ends x.o.
CoversEnds(x, ties) ==
    /\ x.o \subseteq x.tags
    /\ \A l \in joined : l[2] \in x.o => l[1] \in x.tags \/ l \in ties

Covers(x, ties) ==
    /\ x.op = "none" => x.pc = "idle"
    /\ x.op \in {"edit", "transition", "round"} /\ x.pc \in Past =>
          CoversCards(x, ties) /\ CoversAcquired(x, ties)
    /\ x.op = "import" /\ x.pc = "after" => CoversCards(x, ties) /\ CoversAcquired(x, ties)
    /\ x.op = "acquire" /\ x.pc = "after" => CoversCards(x, ties)
    /\ x.op = "remove" /\ x.pc \in Past => x.s \subseteq x.tags
    /\ x.op \in {"add", "remove"} /\ x.pc = "after" => x.s \cup x.o \subseteq x.tags
    /\ x.op \in {"editEnd", "erase"} /\ x.pc \in Past => CoversEnds(x, ties)

Expiring == \E t \in Tx : tx[t].pc = "committed" /\ watched \in tx[t].tags

EntryOK ==
    /\ cache = None \/ reading = None
    /\ reading # None /\ reading[1] # Cache!First(watched) => owed \/ Expiring
    /\ StaleIsExpired

CacheInv == Cache!TypeOK /\ (\A t \in Tx : Covers(tx[t], since[t])) /\ EntryOK

LEMMA EntriesApart ==
    Company \cap End = {} /\ List \notin Company \cup End /\ None \notin Cache!Page /\ MaxTx \in Nat
  BY EntriesAssumption DEF Cache!PagesAssumption

LEMMA IdleOK == Cache!Idle \in Cache!Txs /\ \A ties : Covers(Cache!Idle, ties)
  BY DEF Cache!Idle, Cache!Txs, Cache!Op, Covers, Past

LEMMA InitCacheInv == Cache!Init => CacheInv
<1> SUFFICES ASSUME Cache!Init PROVE CacheInv
  OBVIOUS
<1>1. Cache!TypeOK
  <2>1. /\ name \in [Company -> Nat] /\ money \in [Company -> Nat] /\ head \in [End -> Nat]
        /\ joined \subseteq Cache!Link /\ acquirer \in [Company -> Company \cup {None}] /\ erased \subseteq End
    BY DEF Cache!Init
  <2>2. tx \in [Tx -> Cache!Txs] /\ \A t \in Tx : tx[t].update \cup tx[t].writing \cup tx[t].shares = {}
    BY IdleOK DEF Cache!Init, Cache!Idle
  <2>3. watched \in Cache!Page /\ begun \in 0 .. MaxTx /\ since \in [Tx -> SUBSET Cache!Ties]
    BY EntriesApart DEF Cache!Init
  <2>4. owed \in BOOLEAN
    BY DEF Cache!Init
  <2> QED
    BY <2>1, <2>2, <2>3, <2>4 DEF Cache!TypeOK
<1>2. \A t \in Tx : Covers(tx[t], since[t])
  BY IdleOK DEF Cache!Init
<1>3. EntryOK
  BY DEF Cache!Init, EntryOK, StaleIsExpired, Cache!StaleIsExpired, Cache!Stale
<1> QED
  BY <1>1, <1>2, <1>3 DEF CacheInv

-----------------------------------------------------------------------------
(* Steps that commit nothing *)

LEMMA SamePages ==
    ASSUME UNCHANGED Cache!db, NEW p
    PROVE  Cache!First(p)' = Cache!First(p) /\ Cache!Rest(p)' = Cache!Rest(p) /\ Cache!Content(p)' = Cache!Content(p)
  BY DEF Cache!db, Cache!First, Cache!Rest, Cache!Content, Cache!Card, Cache!EndsOf, Cache!StartupsOf

LEMMA SameCovers ==
    ASSUME UNCHANGED Cache!db, NEW t \in Tx, NEW x, NEW ties,
           tx'[t] = x, since'[t] = ties, Covers(x, ties)
    PROVE  Covers(tx[t], since[t])'
  BY DEF Cache!db, Covers, CoversCards, CoversAcquired, CoversEnds

\* One transaction gets on with its work.
LEMMA QuietStep ==
    ASSUME CacheInv, NEW t \in Tx, NEW y \in Cache!Txs, tx' = [tx EXCEPT ![t] = y],
           tx[t].pc # "committed", y.pc # "committed",
           y.pc = "idle" => y.update \cup y.writing \cup y.shares = {},
           NEW ties \in SUBSET Cache!Ties, since' = [since EXCEPT ![t] = ties], Covers(y, ties),
           begun' \in 0 .. MaxTx, UNCHANGED <<Cache!db, watched, cache, reading, owed>>
    PROVE  CacheInv'
<1>1. tx'[t] = y /\ since'[t] = ties /\ \A u \in Tx \ {t} : tx'[u] = tx[u] /\ since'[u] = since[u]
  BY DEF CacheInv, Cache!TypeOK
<1>2. Cache!TypeOK'
  BY <1>1 DEF CacheInv, Cache!TypeOK, Cache!db
<1>3. ASSUME NEW u \in Tx PROVE Covers(tx[u], since[u])'
  <2>1. Covers(tx'[u], since'[u])
    BY <1>1 DEF CacheInv
  <2> QED
    BY <2>1, SameCovers
<1>4. Expiring' <=> Expiring
  BY <1>1 DEF Expiring
<1>5. Cache!First(watched)' = Cache!First(watched) /\ Cache!Content(watched)' = Cache!Content(watched)
  BY SamePages
<1>6. EntryOK'
  BY <1>4, <1>5 DEF CacheInv, EntryOK, StaleIsExpired, Cache!StaleIsExpired, Cache!Stale, Expiring
<1> QED
  BY <1>2, <1>3, <1>6 DEF CacheInv

LEMMA StartStep ==
    ASSUME CacheInv, NEW t \in Tx, NEW op \in Cache!Op \ {"none"}, NEW ss \in SUBSET Company,
           NEW os \in SUBSET End,
           NEW by \in Company \cup {None}, NEW x \in SUBSET (Company \cup End), Cache!Start(t, op, ss, os, by, x)
    PROVE  CacheInv'
<1> DEFINE y == [Cache!Idle EXCEPT !.op = op, !.s = ss, !.o = os, !.by = by, !.pc = "begun", !.update = x]
<1>1. y \in Cache!Txs
  BY IdleOK DEF Cache!Txs
<1>2. y.op = op /\ y.pc = "begun"
  BY IdleOK DEF Cache!Txs
<1>3. tx[t].pc = "idle"
  BY DEF Cache!Start, Cache!Idle
<1>4. /\ tx' = [tx EXCEPT ![t] = y] /\ begun' = begun + 1 /\ begun < MaxTx
      /\ UNCHANGED <<Cache!db, watched, cache, reading, owed, since>>
  BY DEF Cache!Start
<1> HIDE DEF y
<1>5. Covers(y, since[t])
  BY <1>2 DEF Covers, Past
<1>6. since' = [since EXCEPT ![t] = since[t]] /\ since[t] \in SUBSET Cache!Ties
  BY <1>4 DEF CacheInv, Cache!TypeOK
<1>7. begun' \in 0 .. MaxTx
  BY <1>4, EntriesApart DEF CacheInv, Cache!TypeOK
<1> QED
  BY <1>1, <1>2, <1>3, <1>4, <1>5, <1>6, <1>7, QuietStep

LEMMA BeginStep ==
    ASSUME CacheInv, NEW t \in Tx, Cache!Begin(t)
    PROVE  CacheInv'
<1>1. {"edit", "transition", "round", "acquire", "add", "remove", "import", "editEnd", "erase"}
          \subseteq Cache!Op \ {"none"}
  BY DEF Cache!Op
<1>2. ASSUME NEW s \in Company,
             Cache!Start(t, "edit", {s}, {}, None, {s}) \/ Cache!Start(t, "transition", {s}, {}, None, {s})
             \/ Cache!Start(t, "round", {s}, {}, None, {})
      PROVE  CacheInv'
  <2>1. PICK op \in {"edit", "transition", "round"}, x \in {{s}, {}} : Cache!Start(t, op, {s}, {}, None, x)
    BY <1>2
  <2>2. {s} \in SUBSET Company /\ {} \in SUBSET End /\ None \in Company \cup {None}
        /\ x \in SUBSET (Company \cup End)
    OBVIOUS
  <2> QED
    BY <1>1, <2>1, <2>2, StartStep
<1>3. ASSUME NEW s \in Company, NEW b \in Company \cup {None}, Cache!Start(t, "acquire", {s}, {},
             b, {s})
      PROVE  CacheInv'
  <2>1. {s} \in SUBSET Company /\ {} \in SUBSET End /\ {s} \in SUBSET (Company \cup End)
    OBVIOUS
  <2> QED
    BY <1>1, <1>3, <2>1, StartStep
<1>4. ASSUME NEW s \in Company, NEW o \in End,
             Cache!Start(t, "add", {s}, {o}, None, {s}) \/ Cache!Start(t, "remove", {s}, {o}, None, {s})
      PROVE  CacheInv'
  <2>1. PICK op \in {"add", "remove"} : Cache!Start(t, op, {s}, {o}, None, {s})
    BY <1>4
  <2>2. {s} \in SUBSET Company /\ {o} \in SUBSET End /\ None \in Company \cup {None}
        /\ {s} \in SUBSET (Company \cup End)
    OBVIOUS
  <2> QED
    BY <1>1, <2>1, <2>2, StartStep
<1>5. ASSUME NEW ss \in SUBSET Company, Cache!Start(t, "import", ss, {}, None, {})
      PROVE  CacheInv'
  <2>1. {} \in SUBSET End /\ None \in Company \cup {None} /\ {} \in SUBSET (Company \cup End)
    OBVIOUS
  <2> QED
    BY <1>1, <1>5, <2>1, StartStep
<1>6. ASSUME NEW o \in End,
             Cache!Start(t, "editEnd", {}, {o}, None, {o}) \/ Cache!Start(t, "erase", {}, {o}, None, {o})
      PROVE  CacheInv'
  <2>1. PICK op \in {"editEnd", "erase"} : Cache!Start(t, op, {}, {o}, None, {o})
    BY <1>6
  <2>2. {} \in SUBSET Company /\ {o} \in SUBSET End /\ None \in Company \cup {None}
        /\ {o} \in SUBSET (Company \cup End)
    OBVIOUS
  <2> QED
    BY <1>1, <2>1, <2>2, StartStep
<1> QED
  BY <1>2, <1>3, <1>4, <1>5, <1>6 DEF Cache!Begin

\* The transaction when it has collected the tags of some pages.
After(x, pages, pc) == [x EXCEPT !.tags = @ \cup pages, !.pc = pc]

LEMMA AfterFields ==
    ASSUME NEW x \in Cache!Txs, NEW pages \in SUBSET Cache!Page, NEW pc \in {"before", "after"}
    PROVE  LET y == After(x, pages, pc)
           IN  /\ y \in Cache!Txs /\ y.op = x.op /\ y.s = x.s /\ y.o = x.o /\ y.pc = pc
               /\ y.tags = x.tags \cup pages
  BY DEF After, Cache!Txs

\* Whatever was tied to its records by then is no longer news to it.
LEMMA CollectStep ==
    ASSUME CacheInv, NEW t \in Tx, NEW pages \in SUBSET Cache!Page, NEW pc \in {"before", "after"},
           Cache!Collect(t, pages, pc), tx[t].pc \in {"begun", "written"},
           Covers(After(tx[t], pages, pc), {})
    PROVE  CacheInv'
<1> DEFINE y == After(tx[t], pages, pc)
<1>1. tx[t] \in Cache!Txs
  BY DEF CacheInv, Cache!TypeOK
<1>2. y \in Cache!Txs /\ y.pc = pc
  BY <1>1, AfterFields
<1>3. /\ tx' = [tx EXCEPT ![t] = y] /\ since' = [since EXCEPT ![t] = {}]
      /\ UNCHANGED <<Cache!db, watched, cache, reading, owed, begun>>
  BY <1>1 DEF Cache!Collect, CacheInv, Cache!TypeOK, After
<1> HIDE DEF y
<1>4. Covers(y, {})
  BY DEF y
<1>5. begun' \in 0 .. MaxTx /\ {} \in SUBSET Cache!Ties
  BY <1>3 DEF CacheInv, Cache!TypeOK
<1>6. tx[t].pc # "committed" /\ y.pc # "committed" /\ y.pc # "idle"
  BY <1>2
<1> QED
  BY <1>2, <1>3, <1>4, <1>5, <1>6, QuietStep

\* What the collected tags cover when nothing has been tied since.
LEMMA StartupTagsCover ==
    ASSUME Cache!TypeOK, NEW x \in Cache!Txs, Cache!StartupTags(joined, acquirer,
           x.s) \subseteq x.tags
    PROVE  CoversCards(x, {}) /\ CoversAcquired(x, {})
  BY DEF Cache!StartupTags, Cache!EndsOf, CoversCards, CoversAcquired, Cache!Txs, Cache!TypeOK,
     Cache!Link

LEMMA EndTagsCover ==
    ASSUME Cache!TypeOK, NEW x \in Cache!Txs, Cache!EndTags(joined, x.o) \subseteq x.tags
    PROVE  CoversEnds(x, {})
  BY DEF Cache!EndTags, Cache!StartupsOf, CoversEnds, Cache!TypeOK, Cache!Link

LEMMA CardsArePages ==
    ASSUME NEW ls \in SUBSET Cache!Link, NEW a, NEW ss \in SUBSET Company
    PROVE  Cache!StartupTags(ls, a, ss) \in SUBSET Cache!Page /\ ss \cup {List} \subseteq Cache!StartupTags(ls, a, ss)
  BY DEF Cache!StartupTags, Cache!EndsOf, Cache!Page, Cache!Link

LEMMA EndsArePages ==
    ASSUME NEW ls \in SUBSET Cache!Link, NEW os \in SUBSET End
    PROVE  Cache!EndTags(ls, os) \in SUBSET Cache!Page /\ os \subseteq Cache!EndTags(ls, os)
  BY DEF Cache!EndTags, Cache!StartupsOf, Cache!Page, Cache!Link

LEMMA CollectBeforeStep ==
    ASSUME CacheInv, NEW t \in Tx, Cache!CollectBefore(t)
    PROVE  CacheInv'
<1> DEFINE x == tx[t]
<1>1. /\ Cache!TypeOK /\ x \in Cache!Txs /\ x.pc \in {"begun", "written"} /\ "before" \in {"before", "after"}
      /\ joined \in SUBSET Cache!Link /\ x.s \in SUBSET Company /\ x.o \in SUBSET End
  BY DEF Cache!CollectBefore, CacheInv, Cache!TypeOK, Cache!Txs
<1>2. CASE x.op \in {"edit", "acquire", "transition", "round", "remove"}
           /\ Cache!Collect(t, Cache!StartupTags(joined, acquirer, x.s), "before")
  <2> DEFINE cards == Cache!StartupTags(joined, acquirer, x.s)
             y == After(x, cards, "before")
  <2>1. cards \in SUBSET Cache!Page /\ x.s \subseteq cards
    BY <1>1, CardsArePages
  <2>2. /\ y \in Cache!Txs /\ y.op = x.op /\ y.s = x.s /\ y.pc = "before"
        /\ y.tags = x.tags \cup cards
    BY <1>1, <2>1, AfterFields
  <2>3. Cache!StartupTags(joined, acquirer, y.s) \subseteq y.tags
    BY <2>2
  <2> HIDE DEF y, cards
  <2>4. CoversCards(y, {}) /\ CoversAcquired(y, {})
    BY <1>1, <2>2, <2>3, StartupTagsCover
  <2>5. Covers(y, {})
    BY <1>2, <2>1, <2>2, <2>4 DEF Covers
  <2> QED
    BY <1>1, <1>2, <2>1, <2>5, CollectStep DEF y, cards
<1>3. CASE x.op \in {"editEnd", "erase"} /\ Cache!Collect(t, Cache!EndTags(joined, x.o), "before")
  <2> DEFINE ends == Cache!EndTags(joined, x.o)
             y == After(x, ends, "before")
  <2>1. ends \in SUBSET Cache!Page
    BY <1>1, EndsArePages
  <2>2. /\ y \in Cache!Txs /\ y.op = x.op /\ y.o = x.o /\ y.pc = "before"
        /\ y.tags = x.tags \cup ends
    BY <1>1, <2>1, AfterFields
  <2>3. Cache!EndTags(joined, y.o) \subseteq y.tags
    BY <2>2
  <2> HIDE DEF y, ends
  <2>4. CoversEnds(y, {})
    BY <1>1, <2>2, <2>3, EndTagsCover
  <2>5. Covers(y, {})
    BY <1>3, <2>2, <2>4 DEF Covers
  <2> QED
    BY <1>1, <1>3, <2>1, <2>5, CollectStep DEF y, ends
<1> QED
  BY <1>2, <1>3 DEF Cache!CollectBefore

LEMMA CollectAfterStep ==
    ASSUME CacheInv, NEW t \in Tx, Cache!CollectAfter(t)
    PROVE  CacheInv'
<1> DEFINE x == tx[t]
           cards == Cache!StartupTags(Cache!LinksAfter(t), Cache!AcquirerAfter(t), x.s)
           mine == Cache!StartupTags(Cache!LinksAfter(t), acquirer, x.s)
           ends == Cache!EndTags(Cache!LinksAfter(t), x.o)
<1>1. /\ Cache!TypeOK /\ x \in Cache!Txs /\ x.pc \in {"begun", "written"} /\ x.pc = "written"
      /\ x.s \in SUBSET Company /\ x.o \in SUBSET End /\ joined \in SUBSET Cache!Link
      /\ Covers(x, since[t]) /\ "after" \in {"before", "after"}
  BY DEF Cache!CollectAfter, CacheInv, Cache!TypeOK, Cache!Txs
<1>2. Cache!LinksAfter(t) \in SUBSET Cache!Link
  BY <1>1 DEF Cache!LinksAfter, Cache!Link
<1>3. /\ cards \in SUBSET Cache!Page /\ mine \in SUBSET Cache!Page /\ ends \in SUBSET Cache!Page
      /\ x.s \subseteq mine /\ x.o \subseteq ends
  BY <1>1, <1>2, CardsArePages, EndsArePages
<1>4. CASE x.op \in {"edit", "import"} /\ Cache!Collect(t, cards, "after")
  <2> DEFINE y == After(x, cards, "after")
  <2>1. Cache!LinksAfter(t) = joined /\ Cache!AcquirerAfter(t) = acquirer
    BY <1>1, <1>4 DEF Cache!LinksAfter, Cache!AcquirerAfter, Cache!TypeOK
  <2>2. y \in Cache!Txs /\ y.op = x.op /\ y.s = x.s /\ y.pc = "after" /\ y.tags = x.tags \cup cards
    BY <1>1, <1>3, AfterFields
  <2>3. Cache!StartupTags(joined, acquirer, y.s) \subseteq y.tags
    BY <2>1, <2>2
  <2> HIDE DEF y, cards
  <2>4. CoversCards(y, {}) /\ CoversAcquired(y, {})
    BY <1>1, <2>2, <2>3, StartupTagsCover
  <2>5. Covers(y, {})
    BY <1>4, <2>2, <2>4 DEF Covers
  <2> QED
    BY <1>1, <1>3, <1>4, <2>5, CollectStep DEF y
<1>5. CASE x.op = "acquire" /\ Cache!Collect(t, cards, "after")
  <2> DEFINE y == After(x, cards, "after")
  <2>1. x.s \cup Cache!EndsOf(joined, x.s) \cup {List} \subseteq cards
    BY <1>5 DEF Cache!LinksAfter, Cache!StartupTags, Cache!EndsOf
  <2>2. y \in Cache!Txs /\ y.op = x.op /\ y.s = x.s /\ y.pc = "after" /\ y.tags = x.tags \cup cards
    BY <1>1, <1>3, AfterFields
  <2> HIDE DEF y, cards
  <2>3. CoversCards(y, {})
    BY <1>1, <2>1, <2>2 DEF CoversCards, Cache!EndsOf
  <2>4. Covers(y, {})
    BY <1>5, <2>2, <2>3 DEF Covers
  <2> QED
    BY <1>1, <1>3, <1>5, <2>4, CollectStep DEF y
<1>6. CASE x.op = "add" /\ Cache!Collect(t, mine \cup ends, "after")
  <2> DEFINE both == mine \cup ends
             y == After(x, both, "after")
  <2>1. both \in SUBSET Cache!Page /\ x.s \cup x.o \subseteq both
    BY <1>3
  <2> HIDE DEF both
  <2>2. /\ y.op = x.op /\ y.s = x.s /\ y.o = x.o /\ y.pc = "after"
        /\ y.tags = x.tags \cup both
    BY <1>1, <2>1, AfterFields
  <2> HIDE DEF y
  <2>3. Covers(y, {})
    BY <1>6, <2>1, <2>2 DEF Covers
  <2>4. Cache!Collect(t, both, "after")
    BY <1>6 DEF both
  <2> QED
    BY <1>1, <2>1, <2>3, <2>4, CollectStep DEF y
<1>7. CASE x.op = "remove" /\ Cache!Collect(t, ends, "after")
  <2> DEFINE y == After(x, ends, "after")
  <2>1. x.s \subseteq x.tags
    BY <1>1, <1>7 DEF Covers, Past
  <2>2. /\ y.op = x.op /\ y.s = x.s /\ y.o = x.o /\ y.pc = "after"
        /\ y.tags = x.tags \cup ends
    BY <1>1, <1>3, AfterFields
  <2> HIDE DEF y, ends
  <2>3. Covers(y, {})
    BY <1>3, <1>7, <2>1, <2>2 DEF Covers
  <2> QED
    BY <1>1, <1>3, <1>7, <2>3, CollectStep DEF y
<1> QED
  BY <1>4, <1>5, <1>6, <1>7 DEF Cache!CollectAfter

LEMMA WriteStep ==
    ASSUME CacheInv, NEW t \in Tx, Cache!Write(t)
    PROVE  CacheInv'
<1> DEFINE x == tx[t]
           written == IF x.op \in {"round", "import"} THEN x.s ELSE {}
           keys == IF x.op = "add" THEN x.o ELSE IF x.op = "acquire" THEN {x.by} \ {None} ELSE {}
           y == [x EXCEPT !.writing = written, !.shares = keys, !.pc = "written"]
<1>1. x \in Cache!Txs /\ Covers(x, since[t]) /\ since[t] \in SUBSET Cache!Ties
  BY DEF CacheInv, Cache!TypeOK
<1>2. /\ x.pc = (IF x.op \in {"add", "import"} THEN "begun" ELSE "before")
      /\ tx' = [tx EXCEPT ![t] = y]
      /\ UNCHANGED <<Cache!db, watched, cache, reading, begun, owed, since>>
  BY <1>1 DEF Cache!Write, CacheInv, Cache!TypeOK
<1>3. written \in SUBSET Company /\ keys \in SUBSET (Company \cup End)
  BY <1>1 DEF Cache!Txs
<1> HIDE DEF written, keys
<1>4. y \in Cache!Txs
  BY <1>1, <1>3 DEF Cache!Txs
<1>5. y.op = x.op /\ y.pc = "written" /\ y.s = x.s /\ y.o = x.o /\ y.tags = x.tags
  BY <1>1 DEF Cache!Txs
<1> HIDE DEF x, y
<1>6. Covers(y, since[t])
  BY <1>1, <1>2, <1>5 DEF Covers, CoversCards, CoversAcquired, CoversEnds, Past
<1>7. since' = [since EXCEPT ![t] = since[t]] /\ begun' \in 0 .. MaxTx
  BY <1>2 DEF CacheInv, Cache!TypeOK
<1>8. x.pc # "committed" /\ y.pc # "committed" /\ y.pc # "idle"
  BY <1>2, <1>5
<1> QED
  BY <1>1, <1>2, <1>4, <1>6, <1>7, <1>8, QuietStep DEF x

LEMMA RollbackStep ==
    ASSUME CacheInv, NEW t \in Tx, Cache!Rollback(t)
    PROVE  CacheInv'
<1>1. Cache!Idle.pc = "idle" /\ Cache!Idle.update \cup Cache!Idle.writing \cup Cache!Idle.shares = {}
  BY DEF Cache!Idle
<1>2. since' = [since EXCEPT ![t] = since[t]] /\ begun' \in 0 .. MaxTx /\ since[t] \in SUBSET Cache!Ties
  BY DEF Cache!Rollback, CacheInv, Cache!TypeOK
<1> QED
  BY <1>1, <1>2, IdleOK, QuietStep DEF Cache!Rollback

-----------------------------------------------------------------------------
(* What a commit changes *)

LEMMA SameList ==
    ASSUME \A s \in Company : Cache!Card(s)' = Cache!Card(s)
    PROVE  Cache!Content(List)' = Cache!Content(List)
<1>1. Cache!First(List)' = Cache!First(List)
  BY EntriesApart DEF Cache!First
<1>2. Cache!Rest(List)' = Cache!Rest(List)
  BY EntriesApart DEF Cache!Rest
<1> QED
  BY <1>1, <1>2 DEF Cache!Content

LEMMA SameStartup ==
    ASSUME NEW p \in Company, joined \subseteq Cache!Link, joined' \subseteq Cache!Link,
           Cache!Card(p)' = Cache!Card(p),
           \A o \in End : <<p, o>> \in joined' <=> <<p, o>> \in joined,
           \A o \in End : <<p, o>> \in joined => head'[o] = head[o]
    PROVE  Cache!Content(p)' = Cache!Content(p)
<1>1. Cache!First(p)' = Cache!First(p)
  BY DEF Cache!First
<1>2. Cache!EndsOf(joined, {p}) = {o \in End : <<p, o>> \in joined}
  BY DEF Cache!EndsOf, Cache!Link
<1>3. Cache!EndsOf(joined', {p}) = {o \in End : <<p, o>> \in joined'}
  BY DEF Cache!EndsOf, Cache!Link
<1>4. {<<o, head'[o]>> : o \in Cache!EndsOf(joined', {p})} = {<<o, head[o]>> : o \in Cache!EndsOf(joined, {p})}
  BY <1>2, <1>3
<1>5. Cache!Rest(p)' = Cache!Rest(p)
  BY <1>4 DEF Cache!Rest
<1> QED
  BY <1>1, <1>5 DEF Cache!Content

LEMMA SameEnd ==
    ASSUME NEW p \in End, joined \subseteq Cache!Link, joined' \subseteq Cache!Link,
           head'[p] = head[p],
           \A s \in Company : <<s, p>> \in joined' <=> <<s, p>> \in joined,
           \A s \in Company : <<s, p>> \in joined => Cache!Card(s)' = Cache!Card(s)
    PROVE  Cache!Content(p)' = Cache!Content(p)
<1>0. p \notin Company
  BY EntriesApart
<1>1. Cache!First(p)' = Cache!First(p)
  BY <1>0 DEF Cache!First
<1>2. Cache!StartupsOf(joined, {p}) = {s \in Company : <<s, p>> \in joined}
  BY DEF Cache!StartupsOf, Cache!Link
<1>3. Cache!StartupsOf(joined', {p}) = {s \in Company : <<s, p>> \in joined'}
  BY DEF Cache!StartupsOf, Cache!Link
<1>4. {Cache!Card(s)' : s \in Cache!StartupsOf(joined', {p})} = {Cache!Card(s) : s \in Cache!StartupsOf(joined, {p})}
  BY <1>2, <1>3
<1>5. Cache!Rest(p)' = Cache!Rest(p)
  BY <1>0, <1>4 DEF Cache!Rest
<1> QED
  BY <1>1, <1>5 DEF Cache!Content

LEMMA SameCard ==
    ASSUME NEW s \in Company, Cache!TypeOK, name'[s] = name[s], money'[s] = money[s],
           acquirer'[s] = acquirer[s], acquirer[s] \in Company => name'[acquirer[s]] = name[acquirer[s]]
    PROVE  Cache!Card(s)' = Cache!Card(s)
  BY EntriesApart DEF Cache!Card, Cache!TypeOK, Cache!Page

LEMMA BumpOthers ==
    ASSUME NEW D, NEW f \in [D -> Nat], NEW xs
    PROVE  Cache!Bump(f, xs) \in [D -> Nat] /\ \A d \in D : d \notin xs => Cache!Bump(f, xs)[d] = f[d]
  BY DEF Cache!Bump

\* A commit, said without the functions it writes into.
Committed(t) ==
    LET x == tx[t] IN
    /\ \A s \in Company : s \notin x.s \/ x.op \notin {"edit", "transition", "import"} => name'[s] = name[s]
    /\ \A s \in Company : s \notin x.s \/ x.op # "round" => money'[s] = money[s]
    /\ \A o \in End : o \notin x.o \/ x.op \notin {"editEnd", "erase"} => head'[o] = head[o]
    /\ \A s \in Company : s \notin x.s \/ x.op # "acquire" => acquirer'[s] = acquirer[s]
    /\ x.op \notin {"add", "remove", "erase"} => joined' = joined
    /\ x.op = "add" => joined' = joined \cup (x.s \X x.o)
    /\ x.op = "remove" => joined' = joined \ (x.s \X x.o)
    /\ x.op = "erase" => joined' = joined \ (Company \X x.o)

LEMMA CommitWrites ==
    ASSUME CacheInv, NEW t \in Tx, Cache!Commit(t)
    PROVE  Committed(t) /\ Cache!TypeOK'
<1> DEFINE x == tx[t]
<1>1. /\ Cache!TypeOK /\ x \in Cache!Txs /\ x.s \in SUBSET Company /\ x.o \in SUBSET End
      /\ x.tags \in SUBSET Cache!Page /\ x.by \in Company \cup {None}
  BY DEF CacheInv, Cache!TypeOK, Cache!Txs
<1>2. /\ name' \in [Company -> Nat]
      /\ \A s \in Company : s \notin x.s \/ x.op \notin {"edit", "transition", "import"} => name'[s] = name[s]
  BY <1>1, BumpOthers DEF Cache!Commit, Cache!TypeOK
<1>3. /\ money' \in [Company -> Nat]
      /\ \A s \in Company : s \notin x.s \/ x.op # "round" => money'[s] = money[s]
  BY <1>1, BumpOthers DEF Cache!Commit, Cache!TypeOK
<1>4. /\ head' \in [End -> Nat]
      /\ \A o \in End : o \notin x.o \/ x.op \notin {"editEnd", "erase"} => head'[o] = head[o]
  BY <1>1, BumpOthers DEF Cache!Commit, Cache!TypeOK
<1>5. /\ acquirer' \in [Company -> Company \cup {None}]
      /\ \A s \in Company : s \notin x.s \/ x.op # "acquire" => acquirer'[s] = acquirer[s]
  BY <1>1 DEF Cache!Commit, Cache!AcquirerAfter, Cache!TypeOK
<1>6. /\ x.op \notin {"add", "remove", "erase"} => joined' = joined
      /\ x.op = "add" => joined' = joined \cup (x.s \X x.o)
      /\ x.op = "remove" => joined' = joined \ (x.s \X x.o)
      /\ x.op = "erase" => joined' = joined \ (Company \X x.o)
  BY DEF Cache!Commit, Cache!LinksAfter
<1>7. joined' \subseteq Cache!Link /\ erased' \subseteq End
  BY <1>1, <1>6 DEF Cache!Commit, Cache!TypeOK, Cache!Link
<1>8. /\ tx' \in [Tx -> Cache!Txs]
      /\ \A u \in Tx : tx'[u].pc \in {"idle", "committed"} =>
            tx'[u].update \cup tx'[u].writing \cup tx'[u].shares = {}
  <2> DEFINE y == [Cache!Idle EXCEPT !.op = x.op, !.pc = "committed", !.tags = x.tags]
  <2>1. y \in Cache!Txs
    BY <1>1, IdleOK DEF Cache!Txs
  <2>2. y.update = {} /\ y.writing = {} /\ y.shares = {}
    BY IdleOK DEF Cache!Txs, Cache!Idle
  <2>3. tx' = [tx EXCEPT ![t] = y]
    BY DEF Cache!Commit
  <2> HIDE DEF y
  <2> QED
    BY <1>1, <2>1, <2>2, <2>3 DEF Cache!TypeOK
<1>9. since' \in [Tx -> SUBSET Cache!Ties]
  BY <1>1, <1>5, <1>7 DEF Cache!Commit, Cache!TypeOK, Cache!Ties
<1>10. owed' \in BOOLEAN
  BY DEF Cache!Commit
<1>11. watched' \in Cache!Page /\ begun' \in 0 .. MaxTx
  BY <1>1 DEF Cache!Commit, Cache!TypeOK
<1> QED
  BY <1>2, <1>3, <1>4, <1>5, <1>6, <1>7, <1>8, <1>9, <1>10, <1>11 DEF Committed, Cache!TypeOK

\* What x has the tag of, or what others have tied since: what Committed may change.
Tagged(x, ties, p) == p \in x.tags \/ Cache!Tied(p, ties)

LEMMA CardsFound ==
    ASSUME CacheInv, NEW t \in Tx, Committed(t), Cache!TypeOK',
           tx[t].op \in {"edit", "transition", "import", "round"},
           CoversCards(tx[t], since[t]), CoversAcquired(tx[t], since[t]),
           NEW p \in Cache!Page, ~Tagged(tx[t], since[t], p)
    PROVE  Cache!Content(p)' = Cache!Content(p)
<1> DEFINE x == tx[t]
<1>1. /\ joined' = joined /\ joined \subseteq Cache!Link /\ x.s \in SUBSET Company /\ p \notin x.tags
      /\ \A o \in End : head'[o] = head[o]
      /\ \A s \in Company : acquirer'[s] = acquirer[s]
      /\ \A s \in Company \ x.s : name'[s] = name[s] /\ money'[s] = money[s]
  BY DEF Committed, CacheInv, Cache!TypeOK, Cache!Txs, Tagged
<1>2. ASSUME NEW s \in Company, s \notin x.s,
             acquirer[s] \notin x.s PROVE Cache!Card(s)' = Cache!Card(s)
  BY <1>1, <1>2, SameCard DEF CacheInv
<1>3. \A tie \in since[t] : p # tie[1] /\ p # tie[2] /\ <<tie[1], p>> \notin joined
  BY DEF Tagged, Cache!Tied
<1>4. CASE p \in Company
  <2>1. p \notin x.s /\ acquirer[p] \notin x.s
    BY <1>1, <1>3, <1>4 DEF CoversCards, CoversAcquired
  <2> QED
    BY <1>1, <1>2, <1>4, <2>1, SameStartup
<1>5. CASE p \in End
  <2>1. ASSUME NEW s \in Company, <<s, p>> \in joined PROVE s \notin x.s /\ acquirer[s] \notin x.s
    <3>1. <<s, p>> \notin since[t]
      BY <1>3
    <3>2. s \notin x.s
      BY <1>1, <2>1, <3>1 DEF CoversCards
    <3>3. ASSUME acquirer[s] \in x.s PROVE FALSE
      <4>1. <<s, acquirer[s]>> \notin since[t]
        BY <1>3, <2>1
      <4> QED
        BY <1>1, <2>1, <3>1, <3>3, <4>1 DEF CoversAcquired
    <3> QED
      BY <3>2, <3>3
  <2> QED
    BY <1>1, <1>2, <1>5, <2>1, SameEnd
<1>6. CASE p = List
  BY <1>1, <1>6 DEF CoversCards
<1> QED
  BY <1>4, <1>5, <1>6 DEF Cache!Page

LEMMA AcquiredFound ==
    ASSUME CacheInv, NEW t \in Tx, Committed(t), Cache!TypeOK', tx[t].op = "acquire",
           CoversCards(tx[t], since[t]),
           NEW p \in Cache!Page, ~Tagged(tx[t], since[t], p)
    PROVE  Cache!Content(p)' = Cache!Content(p)
<1> DEFINE x == tx[t]
<1>1. /\ joined' = joined /\ joined \subseteq Cache!Link /\ x.s \in SUBSET Company /\ p \notin x.tags
      /\ \A o \in End : head'[o] = head[o]
      /\ \A s \in Company : name'[s] = name[s] /\ money'[s] = money[s]
      /\ \A s \in Company \ x.s : acquirer'[s] = acquirer[s]
  BY DEF Committed, CacheInv, Cache!TypeOK, Cache!Txs, Tagged
<1>2. ASSUME NEW s \in Company, s \notin x.s PROVE Cache!Card(s)' = Cache!Card(s)
  BY <1>1, <1>2, SameCard DEF CacheInv
<1>3. \A tie \in since[t] : p # tie[2]
  BY DEF Tagged, Cache!Tied
<1>4. CASE p \in Company
  <2>1. p \notin x.s
    BY <1>1 DEF CoversCards
  <2> QED
    BY <1>1, <1>2, <1>4, <2>1, SameStartup
<1>5. CASE p \in End
  <2>1. ASSUME NEW s \in Company, <<s, p>> \in joined PROVE s \notin x.s
    <3>1. <<s, p>> \notin since[t]
      BY <1>3
    <3> QED
      BY <1>1, <2>1, <3>1 DEF CoversCards
  <2> QED
    BY <1>1, <1>2, <1>5, <2>1, SameEnd
<1>6. CASE p = List
  BY <1>1, <1>6 DEF CoversCards
<1> QED
  BY <1>4, <1>5, <1>6 DEF Cache!Page

LEMMA LinksFound ==
    ASSUME CacheInv, NEW t \in Tx, Committed(t), Cache!TypeOK', tx[t].op \in {"add", "remove"},
           tx[t].s \cup tx[t].o \subseteq tx[t].tags,
           NEW p \in Cache!Page, ~Tagged(tx[t], since[t], p)
    PROVE  Cache!Content(p)' = Cache!Content(p)
<1> DEFINE x == tx[t]
<1>1. /\ joined \subseteq Cache!Link /\ joined' \subseteq Cache!Link /\ p \notin x.s /\ p \notin x.o
      /\ joined' = joined \cup (x.s \X x.o) \/ joined' = joined \ (x.s \X x.o)
      /\ \A o \in End : head'[o] = head[o]
      /\ \A s \in Company : name'[s] = name[s] /\ money'[s] = money[s] /\ acquirer'[s] = acquirer[s]
  BY DEF Committed, CacheInv, Cache!TypeOK, Tagged
<1>2. \A s \in Company : Cache!Card(s)' = Cache!Card(s)
  BY <1>1, SameCard DEF CacheInv
<1>3. CASE p \in Company
  BY <1>1, <1>2, <1>3, SameStartup
<1>4. CASE p \in End
  BY <1>1, <1>2, <1>4, SameEnd
<1>5. CASE p = List
  BY <1>2, <1>5, SameList
<1> QED
  BY <1>3, <1>4, <1>5 DEF Cache!Page

LEMMA EndsFound ==
    ASSUME CacheInv, NEW t \in Tx, Committed(t), Cache!TypeOK', tx[t].op \in {"editEnd", "erase"},
           CoversEnds(tx[t], since[t]),
           NEW p \in Cache!Page, ~Tagged(tx[t], since[t], p)
    PROVE  Cache!Content(p)' = Cache!Content(p)
<1> DEFINE x == tx[t]
<1>1. /\ joined \subseteq Cache!Link /\ joined' \subseteq Cache!Link /\ p \notin x.o /\ p \notin x.tags
      /\ joined' = joined \/ joined' = joined \ (Company \X x.o)
      /\ \A o \in End \ x.o : head'[o] = head[o]
      /\ \A s \in Company : name'[s] = name[s] /\ money'[s] = money[s] /\ acquirer'[s] = acquirer[s]
  BY DEF Committed, CacheInv, Cache!TypeOK, Tagged, CoversEnds
<1>2. \A s \in Company : Cache!Card(s)' = Cache!Card(s)
  BY <1>1, SameCard DEF CacheInv
<1>3. CASE p \in Company
  <2>1. ASSUME NEW o \in End, <<p, o>> \in joined PROVE o \notin x.o
    <3>1. <<p, o>> \notin since[t]
      BY DEF Tagged, Cache!Tied
    <3> QED
      BY <1>1, <2>1, <3>1 DEF CoversEnds
  <2> QED
    BY <1>1, <1>2, <1>3, <2>1, SameStartup
<1>4. CASE p \in End
  BY <1>1, <1>2, <1>4, SameEnd
<1>5. CASE p = List
  BY <1>2, <1>5, SameList
<1> QED
  BY <1>3, <1>4, <1>5 DEF Cache!Page

\* A commit changes no page but those it has the tag of, and those tied since.
LEMMA CommitFound ==
    ASSUME CacheInv, NEW t \in Tx, Cache!Commit(t), NEW p \in Cache!Page, ~Tagged(tx[t], since[t], p)
    PROVE  Cache!Content(p)' = Cache!Content(p)
<1> DEFINE x == tx[t]
<1>1. Committed(t) /\ Cache!TypeOK' /\ x \in Cache!Txs /\ Covers(x, since[t])
  BY CommitWrites DEF CacheInv, Cache!TypeOK
<1>2. x.pc = IF x.op \in {"transition", "round", "editEnd", "erase"} THEN "written" ELSE "after"
  BY DEF Cache!Commit
<1>3. CASE x.op \in {"edit", "transition", "import", "round"}
  <2>1. CoversCards(x, since[t]) /\ CoversAcquired(x, since[t])
    BY <1>1, <1>2, <1>3 DEF Covers, Past
  <2> QED
    BY <1>1, <1>3, <2>1, CardsFound
<1>4. CASE x.op = "acquire"
  <2>1. CoversCards(x, since[t])
    BY <1>1, <1>2, <1>4 DEF Covers, Past
  <2> QED
    BY <1>1, <1>4, <2>1, AcquiredFound
<1>5. CASE x.op \in {"add", "remove"}
  <2>1. x.s \cup x.o \subseteq x.tags
    BY <1>1, <1>2, <1>5 DEF Covers, Past
  <2> QED
    BY <1>1, <1>5, <2>1, LinksFound
<1>6. CASE x.op \in {"editEnd", "erase"}
  <2>1. CoversEnds(x, since[t])
    BY <1>1, <1>2, <1>6 DEF Covers, Past
  <2> QED
    BY <1>1, <1>6, <2>1, EndsFound
<1>7. x.op # "none"
  BY <1>1, <1>2 DEF Covers
<1> QED
  BY <1>1, <1>3, <1>4, <1>5, <1>6, <1>7 DEF Cache!Txs, Cache!Op

-----------------------------------------------------------------------------
(* The commit keeps the invariant *)

LEMMA CommitTx ==
    ASSUME CacheInv, NEW t \in Tx, Cache!Commit(t)
    PROVE  /\ tx'[t].op = tx[t].op /\ tx'[t].pc = "committed" /\ tx'[t].tags = tx[t].tags
           /\ \A u \in Tx \ {t} : tx'[u] = tx[u]
           /\ tx[t].pc \notin {"idle", "committed"}
<1> DEFINE x == tx[t]
           y == [Cache!Idle EXCEPT !.op = x.op, !.pc = "committed", !.tags = x.tags]
<1>1. y.op = x.op /\ y.pc = "committed" /\ y.tags = x.tags
  BY IdleOK DEF Cache!Txs
<1>2. tx' = [tx EXCEPT ![t] = y] /\ x.pc \notin {"idle", "committed"}
  BY DEF Cache!Commit
<1> HIDE DEF y
<1> QED
  BY <1>1, <1>2 DEF CacheInv, Cache!TypeOK

\* What others have tied while u was at work is in its `since'.
LEMMA CommitCovers ==
    ASSUME CacheInv, NEW t \in Tx, Cache!Commit(t), NEW u \in Tx \ {t}
    PROVE  Covers(tx[u], since[u])'
<1> DEFINE z == tx[u]
           ties == since[u]
           later == since'[u]
<1>1. tx'[u] = z /\ z \in Cache!Txs /\ z.s \in SUBSET Company /\ Covers(z, ties)
  BY CommitTx DEF CacheInv, Cache!TypeOK, Cache!Txs
<1>2. /\ acquirer \in [Company -> Company \cup {None}] /\ acquirer' \in [Company -> Company \cup {None}]
      /\ ties \subseteq later /\ joined' \ joined \subseteq later
      /\ \A s \in Company : acquirer'[s] # acquirer[s] /\ acquirer'[s] # None => <<s, acquirer'[s]>> \in later
  BY CommitWrites, ZenonT(60) DEF Cache!Commit, CacheInv, Cache!TypeOK
<1>3. None \notin z.s
  BY <1>1, EntriesApart DEF Cache!Page
<1> HIDE DEF z, ties, later
<1>4. CoversCards(z, ties) => z.s \subseteq z.tags /\ List \in z.tags
            /\ \A l \in joined' : l[1] \in z.s => l[2] \in z.tags \/ l \in later
  BY <1>2 DEF CoversCards
<1>5. CoversEnds(z, ties) => z.o \subseteq z.tags
            /\ \A l \in joined' : l[2] \in z.o => l[1] \in z.tags \/ l \in later
  BY <1>2 DEF CoversEnds
<1>6. CoversAcquired(z, ties) => \A s \in Company : acquirer'[s] \in z.s =>
            \/ <<s, acquirer'[s]>> \in later
            \/ /\ s \in z.tags
               /\ \A l \in joined' : l[1] = s => l[2] \in z.tags \/ l \in later
  BY <1>2, <1>3 DEF CoversAcquired
<1> QED
  BY <1>1, <1>4, <1>5, <1>6 DEF Covers, CoversCards, CoversAcquired, CoversEnds, z, later

LEMMA CommitStep ==
    ASSUME CacheInv, NEW t \in Tx, Cache!Commit(t)
    PROVE  CacheInv'
<1>1. Cache!TypeOK'
  BY CommitWrites
<1>2. Covers(tx[t], since[t])'
  BY CommitTx DEF Covers, Past, CacheInv
<1>3. \A u \in Tx : Covers(tx[u], since[u])'
  BY <1>2, CommitCovers
<1>4. EntryOK'
  <2>1. UNCHANGED <<watched, cache, reading>> /\ (owed => owed')
        /\ (Cache!Content(watched)' # Cache!Content(watched) => owed' \/ watched \in tx[t].tags)
    BY DEF Cache!Commit
  <2>2. Expiring => Expiring'
    BY <2>1, CommitTx DEF Expiring
  <2>3. watched \in tx[t].tags => Expiring'
    BY <2>1, CommitTx DEF Expiring
  <2>4. CASE Cache!Content(watched)' # Cache!Content(watched)
    BY <2>1, <2>3, <2>4 DEF CacheInv, EntryOK, StaleIsExpired, Cache!StaleIsExpired, Expiring
  <2>5. CASE Cache!Content(watched)' = Cache!Content(watched)
    <3>1. Cache!First(watched)' = Cache!First(watched)
      BY <2>5 DEF Cache!Content
    <3> QED
      BY <2>1, <2>2, <2>5, <3>1 DEF CacheInv, EntryOK, StaleIsExpired, Cache!StaleIsExpired,
         Cache!Stale, Expiring
  <2> QED
    BY <2>4, <2>5
<1> QED
  BY <1>1, <1>3, <1>4 DEF CacheInv

-----------------------------------------------------------------------------
(* Readers, and what happens after the commit *)

LEMMA ReaderStep ==
    ASSUME CacheInv, Cache!BeginRead \/ Cache!EndRead \/ Cache!Lapse
    PROVE  CacheInv'
<1>1. UNCHANGED <<Cache!db, tx, watched, begun, since>> /\ owed' \in BOOLEAN
  BY DEF Cache!BeginRead, Cache!EndRead, Cache!Lapse, CacheInv, Cache!TypeOK
<1>2. Cache!TypeOK'
  BY <1>1 DEF CacheInv, Cache!TypeOK, Cache!db
<1>3. \A t \in Tx : Covers(tx[t], since[t])'
  BY <1>1, SameCovers DEF CacheInv
<1>4. Cache!First(watched)' = Cache!First(watched) /\ Cache!Content(watched)' = Cache!Content(watched)
  BY <1>1, SamePages
<1>5. Expiring' <=> Expiring
  BY <1>1 DEF Expiring
<1>6. ASSUME Cache!BeginRead PROVE EntryOK'
  <2>1. cache = None /\ cache' = None /\ owed' = owed /\ reading'[1] = Cache!First(watched)
    BY <1>6 DEF Cache!BeginRead
  <2> QED
    BY <1>4, <2>1 DEF EntryOK, StaleIsExpired, Cache!StaleIsExpired, Cache!Stale
<1>7. ASSUME Cache!EndRead PROVE EntryOK'
  <2>1. /\ reading # None /\ reading' = None /\ owed' = owed
        /\ cache' = <<reading[1], Cache!Rest(watched)>>
    BY <1>7 DEF Cache!EndRead
  <2>2. cache' # Cache!Content(watched) => owed \/ Expiring
    BY <2>1 DEF CacheInv, EntryOK, Cache!Content
  <2> QED
    BY <1>4, <1>5, <2>1, <2>2 DEF EntryOK, StaleIsExpired, Cache!StaleIsExpired, Cache!Stale, Expiring
<1>8. ASSUME Cache!Lapse PROVE EntryOK'
  BY <1>8 DEF Cache!Lapse, CacheInv, EntryOK, StaleIsExpired, Cache!StaleIsExpired, Cache!Stale
<1>9. EntryOK'
  BY <1>6, <1>7, <1>8
<1> QED
  BY <1>2, <1>3, <1>9 DEF CacheInv

LEMMA EndStep ==
    ASSUME CacheInv, NEW t \in Tx, Cache!Expire(t) \/ Cache!Stop(t)
    PROVE  CacheInv'
<1>1. /\ tx[t].pc = "committed" /\ tx' = [tx EXCEPT ![t] = Cache!Idle] /\ owed' \in BOOLEAN
      /\ UNCHANGED <<Cache!db, watched, begun, since>>
  BY DEF Cache!Expire, Cache!Stop, CacheInv, Cache!TypeOK
<1>2. tx'[t] = Cache!Idle /\ \A u \in Tx \ {t} : tx'[u] = tx[u]
  BY <1>1 DEF CacheInv, Cache!TypeOK
<1>3. Cache!TypeOK'
  BY <1>1, <1>2, IdleOK DEF CacheInv, Cache!TypeOK, Cache!db, Cache!Idle
<1>4. ASSUME NEW u \in Tx PROVE Covers(tx[u], since[u])'
  <2>1. Covers(tx'[u], since'[u])
    BY <1>1, <1>2, IdleOK DEF CacheInv
  <2> QED
    BY <1>1, <2>1, SameCovers
<1>5. Cache!First(watched)' = Cache!First(watched) /\ Cache!Content(watched)' = Cache!Content(watched)
  BY <1>1, SamePages
<1>6. ASSUME watched \in tx[t].tags, Cache!Expire(t) PROVE EntryOK'
  BY <1>6 DEF Cache!Expire, EntryOK, StaleIsExpired, Cache!StaleIsExpired, Cache!Stale
<1>7. ASSUME watched \in tx[t].tags, Cache!Stop(t) PROVE EntryOK'
  BY <1>1, <1>7 DEF Cache!Stop, CacheInv, EntryOK, StaleIsExpired, Cache!StaleIsExpired
<1>8. ASSUME watched \notin tx[t].tags PROVE EntryOK'
  <2>1. Expiring' <=> Expiring
    BY <1>1, <1>2, <1>8 DEF Expiring, Cache!Idle
  <2>2. UNCHANGED <<cache, reading>> /\ (owed => owed')
    BY <1>8 DEF Cache!Expire, Cache!Stop
  <2> QED
    BY <1>5, <2>1, <2>2 DEF CacheInv, EntryOK, StaleIsExpired, Cache!StaleIsExpired, Cache!Stale,
       Expiring
<1> QED
  BY <1>3, <1>4, <1>6, <1>7, <1>8 DEF CacheInv

-----------------------------------------------------------------------------
(* The theorems *)

LEMMA StutterStep ==
    ASSUME CacheInv, UNCHANGED Cache!vars
    PROVE  CacheInv'
<1>1. UNCHANGED <<Cache!db, tx, watched, cache, reading, begun, owed, since>>
  BY DEF Cache!vars
<1>2. Cache!TypeOK'
  BY <1>1 DEF CacheInv, Cache!TypeOK, Cache!db
<1>3. \A t \in Tx : Covers(tx[t], since[t])'
  BY <1>1, SameCovers DEF CacheInv
<1>4. Cache!First(watched)' = Cache!First(watched) /\ Cache!Content(watched)' = Cache!Content(watched)
  BY <1>1, SamePages
<1>5. EntryOK'
  BY <1>1, <1>4 DEF CacheInv, EntryOK, StaleIsExpired, Cache!StaleIsExpired, Cache!Stale, Expiring
<1> QED
  BY <1>2, <1>3, <1>5 DEF CacheInv

LEMMA NextCacheInv ==
    ASSUME CacheInv, [Cache!Next]_(Cache!vars)
    PROVE  CacheInv'
<1>1. CASE UNCHANGED Cache!vars
  BY <1>1, StutterStep
<1>2. CASE Cache!BeginRead \/ Cache!EndRead \/ Cache!Lapse
  BY <1>2, ReaderStep
<1>3. ASSUME NEW t \in Tx,
             \/ Cache!Begin(t) \/ Cache!CollectBefore(t) \/ Cache!Write(t) \/ Cache!CollectAfter(t)
             \/ Cache!Commit(t) \/ Cache!Expire(t) \/ Cache!Rollback(t) \/ Cache!Stop(t)
      PROVE  CacheInv'
  BY <1>3, BeginStep, CollectBeforeStep, WriteStep, CollectAfterStep, CommitStep, EndStep,
     RollbackStep
<1> QED
  BY <1>1, <1>2, <1>3 DEF Cache!Next

LEMMA CacheInvAlways == Cache!Spec => []CacheInv
<1>1. Cache!Init => CacheInv
  BY InitCacheInv
<1>2. CacheInv /\ [Cache!Next]_(Cache!vars) => CacheInv'
  BY NextCacheInv
<1> QED
  BY <1>1, <1>2, PTL DEF Cache!Spec

\* Every value keeps its type, and a transaction that is over holds no row.
THEOREM CacheTypeCorrect == Cache!Spec => []Cache!TypeOK
<1>1. CacheInv => Cache!TypeOK
  BY DEF CacheInv
<1> QED
  BY <1>1, CacheInvAlways, PTL

\* A cached page, any of them, shows what is committed, or a write about to expire its tag has
\* changed it, or nobody owes it that tag: its write missed it, or its server stopped first.
THEOREM StaleEntriesExpire == Cache!Spec => []StaleIsExpired
<1>1. CacheInv => StaleIsExpired
  BY DEF CacheInv, EntryOK
<1> QED
  BY <1>1, CacheInvAlways, PTL

\* Only a commit makes a transaction committed.
LEMMA OnlyCommitCommits ==
    ASSUME CacheInv, [Cache!Next]_(Cache!vars), NEW t \in Tx, tx[t].pc # "committed",
           tx'[t].pc = "committed"
    PROVE  Cache!Commit(t)
<1>1. CASE UNCHANGED Cache!vars \/ Cache!BeginRead \/ Cache!EndRead \/ Cache!Lapse
  BY <1>1 DEF Cache!vars, Cache!BeginRead, Cache!EndRead, Cache!Lapse
<1>2. ASSUME NEW u \in Tx, Cache!Begin(u) PROVE FALSE
  <2>1. PICK op, ss, os, by, x : Cache!Start(u, op, ss, os, by, x)
    BY <1>2 DEF Cache!Begin
  <2>2. tx' = [tx EXCEPT ![u] = [Cache!Idle EXCEPT !.op = op, !.s = ss, !.o = os, !.by = by,
                                             !.pc = "begun", !.update = x]]
    BY <2>1 DEF Cache!Start
  <2>3. [Cache!Idle EXCEPT !.op = op, !.s = ss, !.o = os, !.by = by, !.pc = "begun", !.update = x].pc = "begun"
    BY DEF Cache!Idle
  <2> QED
    BY <2>2, <2>3 DEF CacheInv, Cache!TypeOK
<1>3. ASSUME NEW u \in Tx, Cache!CollectBefore(u) \/ Cache!CollectAfter(u) PROVE FALSE
  <2>1. \E pc \in {"before", "after"} : \E pages : Cache!Collect(u, pages, pc)
    BY <1>3 DEF Cache!CollectBefore, Cache!CollectAfter
  <2>2. PICK pc \in {"before", "after"} : \E pages : Cache!Collect(u, pages, pc)
    BY <2>1
  <2>3. PICK pages : Cache!Collect(u, pages, pc)
    BY <2>2
  <2> QED
    BY <2>3 DEF Cache!Collect, CacheInv, Cache!TypeOK, Cache!Txs
<1>4. ASSUME NEW u \in Tx, Cache!Write(u) PROVE FALSE
  BY <1>4 DEF Cache!Write, CacheInv, Cache!TypeOK, Cache!Txs
<1>5. ASSUME NEW u \in Tx, Cache!Expire(u) \/ Cache!Rollback(u) \/ Cache!Stop(u) PROVE FALSE
  BY <1>5 DEF Cache!Expire, Cache!Rollback, Cache!Stop, Cache!Idle, CacheInv, Cache!TypeOK
<1>6. ASSUME NEW u \in Tx, Cache!Commit(u) PROVE u = t
  BY <1>6, CommitTx
<1> QED
  BY <1>1, <1>2, <1>3, <1>4, <1>5, <1>6 DEF Cache!Next

\* tags.ts, for any number of records and transactions: a write that commits has collected the tag
\* of every page it changes, but for pages tied to its records by what others committed since.
THEOREM TagsCoverChanges == Cache!Spec => OnlyLateTiesMissed
<1>1. CacheInv /\ [Cache!Next]_(Cache!vars) =>
        (\A t \in Tx : tx[t].pc # "committed" /\ tx'[t].pc = "committed" =>
            \A p \in Cache!Page : Cache!Content(p)' # Cache!Content(p) => p \in tx[t].tags \/ Cache!Tied(p, since[t]))
  BY OnlyCommitCommits, CommitFound DEF Tagged
<1> QED
  BY <1>1, CacheInvAlways, PTL DEF OnlyLateTiesMissed, Cache!OnlyLateTiesMissed, Cache!Spec

-----------------------------------------------------------------------------
(* Lists. *)

\* Everything comes before or after everything else.
Total(S, precedes) ==
  /\ \A x \in S : <<x, x>> \notin precedes
  /\ \A x, y \in S : x # y => <<x, y>> \in precedes \/ <<y, x>> \in precedes
  /\ \A x, y, z \in S : <<x, y>> \in precedes /\ <<y, z>> \in precedes => <<x, z>> \in precedes

\* A finite set has such a list: each element's place is the number of those up to it.
LEMMA OrderedFacts ==
  ASSUME NEW S, IsFiniteSet(S), NEW precedes, Total(S, precedes)
  PROVE  LET f == Ordered(S, precedes) IN
         /\ Cardinality(S) \in Nat /\ f \in [1 .. Cardinality(S) -> S]
         /\ \A i, j \in 1 .. Cardinality(S) : i < j => <<f[i], f[j]>> \in precedes
         /\ \A i, j \in 1 .. Cardinality(S) : f[i] = f[j] => i = j
         /\ \A x \in S : \E i \in 1 .. Cardinality(S) : f[i] = x
  <1> DEFINE n == Cardinality(S)
             upTo(x) == {y \in S : y = x \/ <<y, x>> \in precedes}
             rank == [x \in S |-> Cardinality(upTo(x))]
             good(f) == \A i, j \in 1 .. n : i < j => <<f[i], f[j]>> \in precedes
  <1>1. n \in Nat
    BY FS_CardinalityType
  <1>2. \A x \in S : IsFiniteSet(upTo(x)) /\ Cardinality(upTo(x)) \in 1 .. n
    <2>1. TAKE x \in S
    <2>2. upTo(x) \in SUBSET S /\ upTo(x) # {}
      OBVIOUS
    <2>3. IsFiniteSet(upTo(x)) /\ Cardinality(upTo(x)) <= n
      BY <2>2, FS_Subset
    <2>4. Cardinality(upTo(x)) \in Nat /\ Cardinality(upTo(x)) # 0
      BY <2>2, <2>3, FS_CardinalityType, FS_EmptySet
    <2>5. QED
      BY <1>1, <2>3, <2>4
  <1>3. \A x, y \in S : <<x, y>> \in precedes => rank[x] < rank[y]
    <2>1. SUFFICES ASSUME NEW x \in S, NEW y \in S, <<x, y>> \in precedes
                   PROVE  Cardinality(upTo(x)) < Cardinality(upTo(y))
      OBVIOUS
    <2>2. upTo(x) \in SUBSET upTo(y)
      BY <2>1 DEF Total
    <2>3. y \in upTo(y) /\ y \notin upTo(x)
      BY <2>1 DEF Total
    <2>4. IsFiniteSet(upTo(y))
      BY <1>2
    <2>a. Cardinality(upTo(x)) <= Cardinality(upTo(y)) /\ Cardinality(upTo(x)) # Cardinality(upTo(y))
      BY <2>2, <2>3, <2>4, FS_Subset
    <2>5. Cardinality(upTo(x)) \in Nat /\ Cardinality(upTo(y)) \in Nat
      BY <1>2, SMTT(60)
    <2>6. QED
      BY <2>a, <2>5
  <1>4. rank \in [S -> 1 .. n]
    BY <1>2
  <1>5. \A x, y \in S : rank[x] = rank[y] => x = y
    <2>1. SUFFICES ASSUME NEW x \in S, NEW y \in S, rank[x] = rank[y], x # y PROVE FALSE
      OBVIOUS
    <2>2. <<x, y>> \in precedes \/ <<y, x>> \in precedes
      BY <2>1 DEF Total
    <2>3. rank[x] \in Nat /\ rank[x] # rank[y]
      BY <1>1, <1>3, <1>4, <2>2, SMTT(60)
    <2>4. QED
      BY <2>1, <2>3
  <1>6. rank \in Injection(S, 1 .. n)
    BY <1>4, <1>5 DEF Injection, IsInjective
  <1>7. IsFiniteSet(1 .. n) /\ Cardinality(1 .. n) = n
    BY <1>1, FS_Interval
  <1>8. rank \in Surjection(S, 1 .. n)
    BY <1>6, <1>7, FS_Injection
  <1> DEFINE g == [i \in 1 .. n |-> CHOOSE x \in S : rank[x] = i]
  <1>9. \A i \in 1 .. n : g[i] \in S /\ rank[g[i]] = i
    BY <1>8 DEF Surjection
  <1>10. g \in [1 .. n -> S]
    BY <1>9
  <1> HIDE DEF g, rank, upTo
  <1>11. good(g)
    <2>1. SUFFICES ASSUME NEW i \in 1 .. n, NEW j \in 1 .. n, i < j PROVE <<g[i], g[j]>> \in precedes
      OBVIOUS
    <2>2. g[i] \in S /\ g[j] \in S /\ rank[g[i]] = i /\ rank[g[j]] = j
      BY <1>9
    <2>3. g[i] # g[j]
      BY <2>1, <2>2, <1>1
    <2>4. ~(<<g[j], g[i]>> \in precedes)
      <3>1. SUFFICES ASSUME <<g[j], g[i]>> \in precedes PROVE FALSE
        OBVIOUS
      <3>2. rank[g[j]] < rank[g[i]]
        BY <1>3, <2>2, <3>1
      <3>3. QED
        BY <1>1, <2>1, <2>2, <3>2
    <2>5. QED
      BY <2>2, <2>3, <2>4 DEF Total
  <1>12. PICK f : f = Ordered(S, precedes)
    OBVIOUS
  <1>13. f \in [1 .. n -> S] /\ good(f)
    BY <1>10, <1>11, <1>12 DEF Ordered
  <1>14. \A i, j \in 1 .. n : f[i] = f[j] => i = j
    <2>1. SUFFICES ASSUME NEW i \in 1 .. n, NEW j \in 1 .. n, f[i] = f[j], i # j PROVE FALSE
      OBVIOUS
    <2>2. i < j \/ j < i
      BY <1>1, <2>1
    <2>3. <<f[i], f[i]>> \in precedes /\ f[i] \in S
      BY <1>13, <2>1, <2>2
    <2>4. QED
      BY <2>3 DEF Total
  <1>15. f \in Injection(1 .. n, S)
    BY <1>13, <1>14 DEF Injection, IsInjective
  <1>16. f \in Surjection(1 .. n, S)
    BY <1>7, <1>15, FS_Injection
  <1>17. \A x \in S : \E i \in 1 .. n : f[i] = x
    BY <1>16 DEF Surjection
  <1>18. QED
    BY <1>1, <1>12, <1>13, <1>14, <1>17

\* Entries of a list at some of its places: those and no others, each once, in their order.
LEMMA EntriesFacts ==
  ASSUME NEW T, NEW s \in Seq(T), NEW places \in SUBSET DOMAIN s
  PROVE  LET e == EntriesAt(s, places) IN
         /\ e \in Seq(T) /\ IsFiniteSet(places) /\ Len(e) = Cardinality(places)
         /\ \A k \in DOMAIN e : \E i \in places : e[k] = s[i]
         /\ \A i \in places : \E k \in DOMAIN e : e[k] = s[i]
         /\ \A k, l \in DOMAIN e : k # l => \E i, j \in places : i # j /\ e[k] = s[i] /\ e[l] = s[j]
  <1> DEFINE precedes == {p \in places \X places : p[1] < p[2]}
  <1>1. DOMAIN s = 1 .. Len(s) /\ Len(s) \in Nat
    OBVIOUS
  <1>2. IsFiniteSet(places)
    <2>1. IsFiniteSet(1 .. Len(s))
      BY <1>1, FS_Interval
    <2>2. QED
      BY <1>1, <2>1, FS_Subset
  <1>3. \A i, j : <<i, j>> \in precedes <=> i \in places /\ j \in places /\ i < j
    OBVIOUS
  <1>4. Total(places, precedes)
    <2>1. \A i \in places : i \in Nat
      BY <1>1
    <2>2. QED
      BY <1>3, <2>1 DEF Total
  <1> HIDE DEF precedes
  <1>5. PICK f : f = Ordered(places, precedes)
    OBVIOUS
  <1>6. PICK n : n = Cardinality(places)
    OBVIOUS
  <1>7. /\ n \in Nat /\ f \in [1 .. n -> places]
        /\ \A i, j \in 1 .. n : f[i] = f[j] => i = j
        /\ \A x \in places : \E i \in 1 .. n : f[i] = x
    <2>1. LET g == Ordered(places, precedes)
              m == Cardinality(places)
          IN  /\ m \in Nat /\ g \in [1 .. m -> places]
              /\ \A i, j \in 1 .. m : g[i] = g[j] => i = j
              /\ \A x \in places : \E i \in 1 .. m : g[i] = x
      BY <1>2, <1>4, OrderedFacts
    <2>2. QED
      BY <1>5, <1>6, <2>1
  <1>8. PICK e : e = EntriesAt(s, places)
    OBVIOUS
  <1>9. e = [k \in 1 .. n |-> s[f[k]]]
    BY <1>5, <1>7, <1>8 DEF EntriesAt, precedes
  <1>10. \A k \in 1 .. n : f[k] \in places /\ s[f[k]] \in T
    BY <1>1, <1>7
  <1>11. e \in Seq(T) /\ Len(e) = n /\ DOMAIN e = 1 .. n
    BY <1>7, <1>9, <1>10
  <1>12. QED
    BY <1>2, <1>6, <1>7, <1>8, <1>9, <1>10, <1>11

-----------------------------------------------------------------------------
(* The landing's views. *)

\* What is assumed, and operators of the library under the instance's names.
LEMMA ViewsGiven == Views!ViewAssumption
  BY TabAssumption DEF TabAssumption

LEMMA ViewsNumber == \A S : Views!Cardinality(S) = Cardinality(S)
  BY Zenon DEF Views!Cardinality, Cardinality

\* A list that was chosen has no effect to clean up, and runs are numbered.
Shapes ==
  /\ run \in Nat /\ made \in Nat /\ asks \in Seq(Nat)
  /\ armed \in BOOLEAN /\ reduced \in BOOLEAN /\ context \in {"live", "losing", "lost"}
  /\ surface \in {"flat", "canvas"} /\ available \in BOOLEAN
  /\ \A r \in renderers : r[1] \in 1 .. made
  /\ ref \in {Nothing, 0} \cup (1 .. made)
  /\ armed => view = "curved"
  /\ \A i \in DOMAIN asks : asks[i] <= run

\* Behind the canvas there is a renderer that has drawn, and the effect that started it.
Behind == surface = "canvas" => ready # {} /\ armed /\ (~pressed => available)

\* Until a renderer was disposed of, those there are belong to the effect, which has the last.
First ==
  ~disposed =>
    /\ context # "lost" /\ (context = "losing" => renderers # {})
    /\ \A r \in renderers : armed /\ r[2] = run
    /\ renderers # {} => \E r \in renderers : r[1] = ref

\* Before an import of the effect resolves nothing is there, and it has asked for no other.
Sole ==
  ~flickered =>
    /\ \A r \in renderers : r[1] = ref
    /\ ~armed \/ reduced => renderers = {}
    /\ \A i \in DOMAIN asks : armed /\ asks[i] = run =>
         reduced \/ (renderers = {} /\ \A j \in DOMAIN asks : asks[j] = run => j = i)

ViewInv == Shapes /\ Behind /\ First /\ Sole

LEMMA InitView == Views!Init => ViewInv
  <1>1. SUFFICES ASSUME Views!Init PROVE ViewInv
    OBVIOUS
  <1>2. asks = <<>> \/ asks = <<1>>
    BY <1>1 DEF Views!Init
  <1>a. asks \in Seq(Nat) /\ \A i \in DOMAIN asks : asks[i] = 1
    <2>1. CASE asks = <<>>
      BY <2>1
    <2>2. CASE asks = <<1>>
      BY <2>2
    <2>3. QED
      BY <1>2, <2>1, <2>2
  <1>3. Shapes
    <2>1. run = 1 /\ made = 0 /\ renderers = {} /\ ref = Nothing /\ context = "live" /\ surface = "flat"
          /\ available = FALSE /\ reduced \in BOOLEAN
      BY <1>1 DEF Views!Init
    <2>2. armed \in BOOLEAN /\ (armed => view = "curved")
      BY <1>1 DEF Views!Init
    <2>3. available \in BOOLEAN
      BY <2>1
    <2>4. run \in Nat /\ made \in Nat /\ \A i \in DOMAIN asks : asks[i] <= run
      BY <2>1, <1>a
    <2>5. (\A r \in renderers : r[1] \in 1 .. made) /\ ref \in {Nothing, 0} \cup (1 .. made)
      BY <2>1
    <2>6. QED
      BY <2>1, <2>2, <2>3, <2>4, <2>5, <1>a, Zenon DEF Shapes
  <1>4. Behind /\ First
    BY <1>1 DEF Views!Init, Behind, First
  <1>5. Sole
    BY <1>1, <1>2 DEF Views!Init, Sole
  <1>6. QED
    BY <1>3, <1>4, <1>5 DEF ViewInv

\* What stops a renderer leaves the others as they were.
LEMMA Stopped ==
  ASSUME ViewInv, Views!stop
  PROVE  /\ made' = made /\ available' = available /\ ref' = Nothing /\ surface' = "flat"
         /\ renderers' \subseteq renderers /\ \A r \in renderers : r[1] # ref => r \in renderers'
         /\ disposed => disposed'
         /\ ~disposed' => renderers' = renderers /\ context' = context /\ ~(ref \in 1 .. made)
         /\ context' \in {"live", "losing", "lost"}
         /\ (\A r \in renderers : r[1] = ref) => renderers' = {}
  BY ViewsGiven DEF ViewInv, Shapes, Views!stop, Views!dispose, Views!ViewAssumption

\* A renderer is made only where none is, unless motion was allowed again meanwhile.
LEMMA ResolveStep ==
  ASSUME ViewInv, Views!Resolve
  PROVE  ViewInv'
  <1>1. /\ code = "here" /\ asks # <<>> /\ asks' = Tail(asks)
        /\ UNCHANGED <<view, saved, run, armed, reduced, code, gestures, flickered, pressed>>
    BY DEF Views!Resolve
  <1>2. asks \in Seq(Nat) /\ asks[1] \in Nat /\ 1 \in DOMAIN asks
    BY <1>1 DEF ViewInv, Shapes
  <1>3. /\ asks' \in Seq(Nat)
        /\ \A i \in DOMAIN asks' : i + 1 \in DOMAIN asks /\ asks'[i] = asks[i + 1] /\ i + 1 # 1
    BY <1>1, <1>2
  <1>4. CASE ~Views!MayStart(Head(asks))
    <2>1. UNCHANGED <<Views!canvas, Views!shown, disposed>>
      BY <1>4 DEF Views!Resolve
    <2>2. Shapes' /\ Behind' /\ First'
      BY <1>1, <1>3, <2>1 DEF ViewInv, Shapes, Behind, First, Views!canvas, Views!shown
    <2>3. Sole'
      <3>1. \A i \in DOMAIN asks' : \A j \in DOMAIN asks' : i + 1 = j + 1 => i = j
        BY <1>3
      <3>2. QED
        BY <1>1, <1>3, <2>1, <3>1 DEF ViewInv, Sole, Views!canvas
    <2>4. QED
      BY <2>2, <2>3 DEF ViewInv
  <1>5. CASE Views!MayStart(Head(asks))
    <2>1. armed /\ asks[1] = run /\ ~reduced
      BY <1>1, <1>2, <1>5 DEF Views!MayStart
    <2>2. ~flickered => renderers = {} /\ \A j \in DOMAIN asks : asks[j] = run => j = 1
      BY <1>2, <2>1 DEF ViewInv, Sole
    <2>3. ~flickered => \A i \in DOMAIN asks' : asks'[i] # run
      BY <1>3, <2>2
    <2>4. Views!createGridRenderer(asks[1])
      BY <1>1, <1>2, <1>5 DEF Views!Resolve
    <2>5. CASE /\ made' = made + 1 /\ made < MaxRenderers
               /\ renderers' = renderers \cup {<<made + 1, asks[1]>>} /\ ref' = made + 1
               /\ UNCHANGED <<ready, context, Views!shown, disposed>>
      <3>1. Shapes'
        BY <1>1, <1>3, <2>5 DEF ViewInv, Shapes, Views!shown
      <3>2. Behind'
        BY <1>1, <2>5 DEF ViewInv, Behind, Views!shown
      <3>3. First'
        <4>1. <<made + 1, asks[1]>> \in renderers' /\ <<made + 1, asks[1]>>[1] = ref'
          BY <2>5
        <4>2. \A r \in renderers' : r \in renderers \/ r[2] = run
          BY <2>1, <2>5
        <4>3. QED
          BY <1>1, <2>1, <2>5, <4>1, <4>2 DEF ViewInv, First
      <3>4. Sole'
        BY <1>1, <2>1, <2>2, <2>3, <2>5 DEF ViewInv, Sole
      <3>5. QED
        BY <3>1, <3>2, <3>3, <3>4 DEF ViewInv
    <2>6. CASE /\ context = "live" /\ renderers = {} /\ made = 0
               /\ ref' = 0 /\ surface' = "flat"
               /\ UNCHANGED <<made, renderers, ready, context, available, disposed>>
      <3>1. Shapes'
        BY <1>1, <1>3, <2>6 DEF ViewInv, Shapes
      <3>2. Behind' /\ First'
        BY <1>1, <2>6 DEF ViewInv, Behind, First
      <3>3. Sole'
        BY <1>1, <2>1, <2>3, <2>6 DEF ViewInv, Sole
      <3>4. QED
        BY <3>1, <3>2, <3>3 DEF ViewInv
    <2>7. CASE context # "live" /\ Views!stop
      <3>1. Shapes'
        BY <1>1, <1>3, <2>7, Stopped DEF ViewInv, Shapes
      <3>2. Behind' /\ First'
        BY <1>1, <2>7, Stopped DEF ViewInv, Shapes, Behind, First
      <3>3. Sole'
        BY <1>1, <2>1, <2>2, <2>3, <2>7, Stopped DEF ViewInv, Sole
      <3>4. QED
        BY <3>1, <3>2, <3>3 DEF ViewInv
    <2>8. QED
      BY <2>4, <2>5, <2>6, <2>7 DEF Views!createGridRenderer
  <1>6. QED
    BY <1>4, <1>5

LEMMA DeliverStep ==
  ASSUME ViewInv, Views!Deliver
  PROVE  ViewInv'
  <1>1. UNCHANGED <<view, saved, run, armed, reduced, gestures, flickered, pressed>>
    BY DEF Views!Deliver
  <1>2. CASE code' = "here" /\ UNCHANGED <<asks, Views!canvas, Views!shown, disposed>>
    BY <1>1, <1>2 DEF ViewInv, Shapes, Behind, First, Sole, Views!canvas, Views!shown
  <1>3. CASE code' = "failed" /\ asks' = <<>> /\ Views!stop
    <2>1. Shapes'
      BY <1>1, <1>3, Stopped DEF ViewInv, Shapes
    <2>2. Behind' /\ First'
      BY <1>1, <1>3, Stopped DEF ViewInv, Shapes, Behind, First
    <2>3. Sole'
      BY <1>1, <1>3, Stopped DEF ViewInv, Sole
    <2>4. QED
      BY <2>1, <2>2, <2>3 DEF ViewInv
  <1>4. QED
    BY <1>2, <1>3 DEF Views!Deliver

LEMMA FirstFrameStep ==
  ASSUME ViewInv, NEW r \in renderers, Views!FirstFrame(r)
  PROVE  ViewInv'
  <1>1. /\ ready' = ready \cup {r[1]}
        /\ UNCHANGED <<view, saved, Views!effect, reduced, code, made, renderers, ref, context, gestures, Views!history>>
        /\ IF armed /\ r[2] = run THEN surface' = "canvas" /\ available' = (available \/ surface = "flat")
           ELSE UNCHANGED Views!shown
    BY DEF Views!FirstFrame
  <1>2. Shapes' /\ Behind' /\ First' /\ Sole'
    BY <1>1 DEF ViewInv, Shapes, Behind, First, Sole, Views!effect, Views!history, Views!shown
  <1>3. QED
    BY <1>2 DEF ViewInv

LEMMA LoseContextStep ==
  ASSUME ViewInv, Views!LoseContext
  PROVE  ViewInv'
  BY DEF Views!LoseContext, ViewInv, Shapes, Behind, First, Sole, Views!effect, Views!history,
     Views!shown

LEMMA onFailStep ==
  ASSUME ViewInv, Views!onFail
  PROVE  ViewInv'
  <1>1. /\ context = "losing" /\ context' = "lost"
        /\ UNCHANGED <<view, saved, Views!effect, reduced, code, made, available, gestures, flickered, pressed>>
    BY DEF Views!onFail
  <1>2. CASE armed /\ \E r \in renderers : r[2] = run
    <2>1. /\ renderers' = {r \in renderers : r[1] # ref}
          /\ disposed' = (disposed \/ \E r \in renderers : r[1] = ref)
          /\ ref' = Nothing /\ surface' = "flat"
      BY <1>2 DEF Views!onFail
    <2>2. Shapes' /\ Behind' /\ Sole'
      BY <1>1, <2>1 DEF ViewInv, Shapes, Behind, Sole, Views!effect
    <2>3. disposed'
      BY <1>2, <2>1 DEF ViewInv, First
    <2>4. QED
      BY <2>2, <2>3 DEF ViewInv, First
  <1>3. CASE ~(armed /\ \E r \in renderers : r[2] = run)
    <2>1. UNCHANGED <<renderers, ready, ref, surface, disposed>>
      BY <1>3 DEF Views!onFail
    <2>2. disposed
      BY <1>1, <1>3 DEF ViewInv, First
    <2>3. QED
      BY <1>1, <2>1, <2>2 DEF ViewInv, Shapes, Behind, First, Sole, Views!effect
  <1>4. QED
    BY <1>2, <1>3

\* Asking for the code once more, where the effect has no renderer yet.
LEMMA Asked ==
  ASSUME NEW r, NEW less, asks \in Seq(Nat), r \in Nat, Views!start(r, less)
  PROVE  /\ asks' \in Seq(Nat)
         /\ \/ asks' = asks
            \/ /\ ~less /\ ref = Nothing /\ Len(asks') = Len(asks) + 1 /\ asks'[Len(asks) + 1] = r
               /\ \A i \in DOMAIN asks : i \in DOMAIN asks' /\ asks'[i] = asks[i]
               /\ DOMAIN asks' = DOMAIN asks \cup {Len(asks) + 1}
  <1>1. CASE asks' = asks
    BY <1>1
  <1>2. CASE ~less /\ ref = Nothing /\ asks' = Append(asks, r)
    <2>1. /\ asks' \in Seq(Nat) /\ Len(asks') = Len(asks) + 1 /\ asks'[Len(asks) + 1] = r
          /\ \A i \in 1 .. Len(asks) : asks'[i] = asks[i]
      BY <1>2
    <2>2. DOMAIN asks = 1 .. Len(asks) /\ DOMAIN asks' = 1 .. Len(asks) + 1 /\ Len(asks) \in Nat
      BY <2>1
    <2>3. DOMAIN asks' = DOMAIN asks \cup {Len(asks) + 1}
      BY <2>2
    <2>4. \A i \in DOMAIN asks : i \in DOMAIN asks' /\ asks'[i] = asks[i]
      BY <2>1, <2>2
    <2>5. QED
      BY <1>2, <2>1, <2>3, <2>4
  <1>3. QED
    BY <1>1, <1>2 DEF Views!start, Views!import

LEMMA onMotionChangeStep ==
  ASSUME ViewInv, Views!onMotionChange
  PROVE  ViewInv'
  <1>1. /\ reduced' = ~reduced
        /\ flickered' = (flickered \/ (reduced /\ armed /\ asks # <<>>))
        /\ UNCHANGED <<view, saved, run, armed, pressed>>
    BY DEF Views!onMotionChange
  <1>2. CASE ~armed
    <2>1. UNCHANGED <<asks, code, Views!canvas, Views!shown, disposed>>
      BY <1>2 DEF Views!onMotionChange
    <2>2. QED
      BY <1>1, <1>2, <2>1 DEF ViewInv, Shapes, Behind, First, Sole, Views!canvas, Views!shown
  <1>3. CASE armed /\ reduced'
    <2>1. Views!stop /\ UNCHANGED <<asks, code>>
      BY <1>3 DEF Views!onMotionChange
    <2>2. Shapes'
      BY <1>1, <2>1, Stopped DEF ViewInv, Shapes
    <2>3. Behind' /\ First'
      BY <1>1, <2>1, Stopped DEF ViewInv, Shapes, Behind, First
    <2>4. Sole'
      BY <1>1, <1>3, <2>1, Stopped DEF ViewInv, Sole
    <2>5. QED
      BY <2>2, <2>3, <2>4 DEF ViewInv
  <1>4. CASE armed /\ ~reduced'
    <2>1. UNCHANGED <<Views!canvas, Views!shown, disposed>> /\ Views!start(run, FALSE)
      BY <1>4 DEF Views!onMotionChange
    <2>2. /\ asks' \in Seq(Nat)
          /\ \/ asks' = asks
             \/ /\ ref = Nothing /\ Len(asks') = Len(asks) + 1 /\ asks'[Len(asks) + 1] = run
                /\ \A i \in DOMAIN asks : i \in DOMAIN asks' /\ asks'[i] = asks[i]
                /\ DOMAIN asks' = DOMAIN asks \cup {Len(asks) + 1}
      BY <2>1, Asked DEF ViewInv, Shapes
    <2>3. Shapes' /\ Behind' /\ First'
      BY <1>1, <2>1, <2>2 DEF ViewInv, Shapes, Behind, First, Views!canvas, Views!shown
    <2>4. Sole'
      <3>1. SUFFICES ASSUME ~flickered' PROVE Sole'
        BY DEF Sole
      <3>2. reduced /\ asks = <<>> /\ ~flickered /\ renderers = {} /\ renderers' = {}
        BY <1>1, <1>4, <2>1, <3>1 DEF ViewInv, Sole, Views!canvas, Shapes
      <3>3. asks' = <<>> \/ DOMAIN asks' = {1}
        BY <2>2, <3>2
      <3>4. QED
        BY <1>1, <3>2, <3>3 DEF Sole
    <2>5. QED
      BY <2>3, <2>4 DEF ViewInv
  <1>5. QED
    BY <1>2, <1>3, <1>4

LEMMA chooseViewStep ==
  ASSUME ViewInv, NEW next \in {"curved", "flat"}, Views!chooseView(next)
  PROVE  ViewInv'
  <1>1. /\ armed \/ view = "flat"
        /\ view' = next /\ UNCHANGED <<reduced, flickered>>
        /\ pressed' = (pressed \/ (next = "curved" /\ view = "curved"))
    BY DEF Views!chooseView
  <1>2. CASE next = view
    <2>1. /\ available' = (available /\ next = "flat")
          /\ UNCHANGED <<Views!effect, code, Views!canvas, surface, disposed>>
      BY <1>2 DEF Views!chooseView
    <2>2. QED
      BY <1>1, <1>2, <2>1 DEF ViewInv, Shapes, Behind, First, Sole, Views!effect, Views!canvas
  <1>3. CASE next # view /\ next = "flat"
    <2>1. Views!stop /\ armed' = FALSE /\ UNCHANGED <<run, asks, code>>
      BY <1>3 DEF Views!chooseView
    <2>2. Shapes'
      BY <1>1, <2>1, Stopped DEF ViewInv, Shapes
    <2>3. Behind'
      BY <1>1, <2>1, Stopped DEF ViewInv, Behind
    <2>4. First'
      BY <1>1, <2>1, Stopped DEF ViewInv, First, Shapes
    <2>5. Sole'
      BY <1>1, <2>1, Stopped DEF ViewInv, Sole
    <2>6. QED
      BY <2>2, <2>3, <2>4, <2>5 DEF ViewInv
  <1>4. CASE next # view /\ next # "flat"
    <2>1. /\ run' = run + 1 /\ armed' = TRUE /\ available' = FALSE
          /\ UNCHANGED <<Views!canvas, surface, disposed>> /\ Views!start(run + 1, reduced)
      BY <1>4 DEF Views!chooseView
    <2>2. ~armed /\ surface = "flat" /\ next = "curved"
      BY <1>1, <1>4 DEF ViewInv, Shapes, Behind
    <2>3. /\ asks' \in Seq(Nat)
          /\ \/ asks' = asks
             \/ /\ ref = Nothing /\ Len(asks') = Len(asks) + 1 /\ asks'[Len(asks) + 1] = run + 1
                /\ \A i \in DOMAIN asks : i \in DOMAIN asks' /\ asks'[i] = asks[i]
                /\ DOMAIN asks' = DOMAIN asks \cup {Len(asks) + 1}
      <3>1. asks \in Seq(Nat) /\ run + 1 \in Nat
        BY DEF ViewInv, Shapes
      <3>2. QED
        BY <2>1, <3>1, Asked
    <2>4. Shapes'
      <3>1. \A i \in DOMAIN asks : asks[i] \in Nat
        BY DEF ViewInv, Shapes
      <3>2. \A i \in DOMAIN asks' : asks'[i] <= run + 1
        BY <2>3, <3>1 DEF ViewInv, Shapes
      <3>3. /\ run \in Nat /\ run' = run + 1 /\ armed' /\ view' = "curved" /\ made' = made /\ renderers' = renderers
            /\ ref' = ref /\ context' = context /\ surface' = surface /\ ~available' /\ reduced' = reduced
        BY <1>1, <2>1, <2>2 DEF ViewInv, Shapes, Views!canvas
      <3>4. armed' \in BOOLEAN /\ available' \in BOOLEAN
        BY <2>1, Zenon
      <3>5. QED
        BY <2>3, <3>2, <3>3, <3>4 DEF ViewInv, Shapes
    <2>5. Behind' /\ First'
      BY <1>1, <2>1, <2>2 DEF ViewInv, Behind, First, Views!canvas
    <2>6. Sole'
      <3>1. SUFFICES ASSUME ~flickered' PROVE Sole'
        BY DEF Sole
      <3>2. renderers = {} /\ renderers' = {}
        BY <1>1, <2>1, <2>2, <3>1 DEF ViewInv, Sole, Views!canvas
      <3>3. \A i \in DOMAIN asks : asks[i] # run + 1
        BY DEF ViewInv, Shapes
      <3>4. \A i, j \in DOMAIN asks' : asks'[i] = run + 1 /\ asks'[j] = run + 1 => i = j
        BY <2>3, <3>3
      <3>5. QED
        BY <2>1, <3>2, <3>4 DEF Sole
    <2>7. QED
      BY <2>4, <2>5, <2>6 DEF ViewInv
  <1>5. QED
    BY <1>2, <1>3, <1>4

LEMMA LeaveStep ==
  ASSUME ViewInv, Views!Leave
  PROVE  ViewInv'
  <1>1. /\ armed' = FALSE /\ Views!stop
        /\ UNCHANGED <<view, saved, run, asks, reduced, code, flickered, pressed>>
    BY DEF Views!Leave
  <1>2. Shapes'
    BY <1>1, Stopped DEF ViewInv, Shapes
  <1>3. Behind'
    BY <1>1, Stopped DEF ViewInv, Behind
  <1>4. First'
    BY <1>1, Stopped DEF ViewInv, First, Shapes
  <1>5. Sole'
    BY <1>1, Stopped DEF ViewInv, Sole
  <1>6. QED
    BY <1>2, <1>3, <1>4, <1>5 DEF ViewInv

LEMMA NextView == ViewInv /\ [Views!Next]_(Views!landingVars) => ViewInv'
  <1>1. SUFFICES ASSUME ViewInv, [Views!Next]_(Views!landingVars) PROVE ViewInv'
    OBVIOUS
  <1>2. CASE UNCHANGED Views!landingVars
    BY <1>1, <1>2 DEF ViewInv, Shapes, Behind, First, Sole, Views!landingVars, Views!effect,
       Views!canvas, Views!shown, Views!history
  <1>3. CASE Views!Next
    BY <1>1, <1>3, ResolveStep, DeliverStep, onFailStep, FirstFrameStep, LoseContextStep,
       onMotionChangeStep, LeaveStep, chooseViewStep DEF Views!Next, Views!Browser
  <1>4. QED
    BY <1>1, <1>2, <1>3

\* The landing's list is hidden only behind a canvas that draws, one renderer runs at most, and the
\* way back to the list stays, however often motion, the context and the views change.
LEMMA CanvasAlwaysInOrder ==
  Views!Init /\ [][Views!Next]_(Views!landingVars) =>
    [](Views!CanvasDraws /\ Views!OneRenderer /\ Views!ListInReach)
  <1>1. Views!Init => ViewInv
    BY InitView
  <1>2. ViewInv /\ [Views!Next]_(Views!landingVars) => ViewInv'
    BY NextView
  <1>3. ViewInv => Views!CanvasDraws /\ Views!OneRenderer /\ Views!ListInReach
    BY DEF ViewInv, Behind, First, Sole, Views!CanvasDraws, Views!OneRenderer, Views!ListInReach,
       Views!Toggle
  <1>4. QED
    BY <1>1, <1>2, <1>3, PTL

-----------------------------------------------------------------------------
(* Search. *)

\* What is assumed, and operators of the library under the instance's names.
LEMMA PaletteGiven == Palette!SearchAssumption
  BY TabAssumption DEF TabAssumption

LEMMA PaletteFinite == \A S : Palette!IsFiniteSet(S) <=> IsFiniteSet(S)
  BY Zenon DEF Palette!IsFiniteSet, IsFiniteSet

LEMMA PaletteNumber == \A S : Palette!Cardinality(S) = Cardinality(S)
  BY Zenon DEF Palette!Cardinality, Cardinality

LEMMA PaletteOrdered == \A S, precedes : Palette!Ordered(S, precedes) = Ordered(S, precedes)
  BY PaletteNumber, Zenon DEF Palette!Ordered, Ordered

LEMMA PaletteEntries == \A s, places : Palette!EntriesAt(s, places) = EntriesAt(s, places)
  BY PaletteOrdered, Zenon DEF Palette!EntriesAt, EntriesAt

\* Where the visitor will be is where they asked to be.
PaletteLed == ~missed => (IF going = Nothing THEN place ELSE going) = sought

\* What was pointed at is highlighted still, unless suggestions came since.
Pointed ==
  box.open =>
    IF meant = {} THEN box.active = 0
    ELSE meant = Palette!Places \/ (box.active \in DOMAIN Palette!Options /\ meant = {Palette!Options[box.active]})

SearchInv == Palette!TypeOK /\ PaletteLed /\ Pointed

LEMMA OptionsFacts ==
  ASSUME Palette!TypeOK
  PROVE  Palette!Options \in Seq(Palette!Places) /\ 0 \notin DOMAIN Palette!Options /\ Palette!Search(box.text, "all") \in Palette!Places
  <1>1. Palette!Search(box.text, "all") \in Palette!Places
    BY PaletteGiven DEF Palette!TypeOK, Palette!SearchAssumption, Palette!Places,
       Palette!Searches, Palette!Search
  <1>2. CASE box.text = ""
    <2>1. Palette!Options = [i \in DOMAIN recent |-> Palette!Search(recent[i], "all")]
      BY <1>2 DEF Palette!Options
    <2>2. DOMAIN recent = 1 .. Len(recent) /\ Len(recent) \in Nat
          /\ \A i \in DOMAIN recent : recent[i] \in Text
      BY DEF Palette!TypeOK
    <2>3. \A i \in DOMAIN recent : Palette!Search(recent[i], "all") \in Palette!Places
      BY <2>2, PaletteGiven DEF Palette!SearchAssumption, Palette!Places, Palette!Searches,
         Palette!Search
    <2>4. QED
      BY <1>1, <2>1, <2>2, <2>3
  <1>3. CASE box.text # ""
    <2> DEFINE pages == [i \in DOMAIN Suggestions[box.of] |-> Palette!PageOf(Suggestions[box.of][i])]
               last == IF Palette!Long(box.text) THEN <<Palette!Search(box.text, "all")>> ELSE <<>>
    <2>1. Suggestions[box.of] \in Seq(Slug)
      BY PaletteGiven, ZenonT(60) DEF Palette!TypeOK, Palette!SearchAssumption
    <2>2. DOMAIN Suggestions[box.of] = 1 .. Len(Suggestions[box.of]) /\ Len(Suggestions[box.of]) \in Nat
          /\ \A i \in DOMAIN Suggestions[box.of] : Palette!PageOf(Suggestions[box.of][i]) \in Palette!Places
      BY <2>1 DEF Palette!Places
    <2>3. pages \in Seq(Palette!Places)
      BY <2>2
    <2>4. last \in Seq(Palette!Places)
      BY <1>1
    <2>5. Palette!Options = pages \o last
      BY <1>3 DEF Palette!Options
    <2> HIDE DEF pages, last
    <2>6. Palette!Options \in Seq(Palette!Places)
      BY <2>3, <2>4, <2>5
    <2>7. QED
      BY <1>1, <2>6
  <1>4. QED
    BY <1>2, <1>3

LEMMA Remembered ==
  ASSUME Palette!TypeOK, NEW q \in Text
  PROVE  Palette!rememberSearch(q) \in Seq(Text)
  <1> DEFINE others == EntriesAt(recent, {i \in DOMAIN recent : Fold[recent[i]] # Fold[q]})
             all == <<q>> \o others
  <1>1. recent \in Seq(Text)
    BY DEF Palette!TypeOK
  <1>2. others \in Seq(Text)
    BY <1>1, EntriesFacts
  <1> HIDE DEF others
  <1>3. all \in Seq(Text)
    BY <1>2
  <1>4. MaxRecent \in Nat
    BY PaletteGiven DEF Palette!SearchAssumption
  <1> HIDE DEF all
  <1>5. SubSeq(all, 1, IF Len(all) < MaxRecent THEN Len(all) ELSE MaxRecent) \in Seq(Text)
    <2>1. PICK m : m = IF Len(all) < MaxRecent THEN Len(all) ELSE MaxRecent
      OBVIOUS
    <2>2. m \in Nat /\ m <= Len(all)
      BY <1>3, <1>4, <2>1
    <2>3. \A i \in 1 .. m : i \in 1 .. Len(all)
      BY <1>3, <2>2
    <2>4. SubSeq(all, 1, m) \in Seq(Text)
      BY <1>3, <2>2, <2>3, SubSeqProperties
    <2>5. QED
      BY <2>1, <2>4
  <1>6. QED
    BY <1>1, <1>5, PaletteEntries DEF Palette!rememberSearch, all, others

LEMMA InitSearch == Palette!Init => SearchInv
  <1>1. SUFFICES ASSUME Palette!Init PROVE SearchInv
    OBVIOUS
  <1>2. "" \in Text /\ "all" \in Tab /\ MaxSearchMoves \in Nat
    BY PaletteGiven DEF Palette!SearchAssumption
  <1>3. Palette!Search("", "all") \in Palette!Places
    BY <1>2 DEF Palette!Places, Palette!Searches, Palette!Search
  <1>4. place \in Palette!Places
    BY <1>1, <1>3 DEF Palette!Init, Palette!Places
  <1>a. /\ going = Nothing /\ sought = place /\ recent = <<>> /\ kept = <<>> /\ asking = "none"
        /\ sent = {} /\ steps = 0 /\ meant = {}
    BY <1>1 DEF Palette!Init
  <1>5. going \in Palette!Places \cup {Nothing} /\ sought \in Palette!Places /\ recent \in Seq(Text) /\ kept \in Seq(Text)
    BY <1>a, <1>4
  <1>6. /\ box \in [open : BOOLEAN, text : Text, active : Nat, q : Text,
                    status : {"loading", "ready", "error"}, of : Text]
        /\ results \in [text : Text, q : Text, status : {"loading", "ready", "error"}]
    BY <1>1, <1>2 DEF Palette!Init
  <1>7. asking \in {"none", "pausing", "sent"} /\ sent \subseteq Text /\ steps \in 0 .. MaxSearchMoves
        /\ meant \subseteq Palette!Places
    <2>a. MaxSearchMoves \in Nat
      BY <1>2
    <2>1. 0 \in 0 .. MaxSearchMoves
      BY <2>a
    <2>2. QED
      BY <1>a, <2>1
  <1>8. missed \in BOOLEAN
    BY <1>1, Zenon DEF Palette!Init
  <1>9. Palette!TypeOK
    BY <1>4, <1>5, <1>6, <1>7, <1>8 DEF Palette!TypeOK
  <1>10. QED
    BY <1>1, <1>9 DEF Palette!Init, SearchInv, PaletteLed, Pointed

\* Each step of the visitor counts.
LEMMA Moved ==
  ASSUME Palette!TypeOK, Palette!Move
  PROVE  steps' \in 0 .. MaxSearchMoves
  <1>1. MaxSearchMoves \in Nat
    BY PaletteGiven DEF Palette!SearchAssumption
  <1>2. QED
    BY <1>1 DEF Palette!TypeOK, Palette!Move

(* The palette. *)

\* A new text is highlighted nowhere.
LEMMA TextSet ==
  ASSUME Palette!TypeOK, NEW q \in Text, Palette!SetText(q), q # box.text \/ q = ""
  PROVE  /\ box' \in [open : BOOLEAN, text : Text, active : Nat, q : Text,
                      status : {"loading", "ready", "error"}, of : Text]
         /\ box'.open /\ box'.active = 0
         /\ asking' \in {"none", "pausing", "sent"} /\ kept' \in Seq(Text)
  <1>1. /\ box \in [open : BOOLEAN, text : Text, active : Nat, q : Text,
                    status : {"loading", "ready", "error"}, of : Text]
        /\ asking \in {"none", "pausing", "sent"} /\ kept \in Seq(Text)
    BY DEF Palette!TypeOK
  <1>2. asking' \in {"none", "pausing", "sent"} /\ kept' \in Seq(Text)
    BY <1>1 DEF Palette!SetText
  <1>3. CASE q = box.text \/ q = ""
    <2>1. box' = [box EXCEPT !.open = TRUE, !.text = q, !.active = 0]
      BY <1>3 DEF Palette!SetText
    <2>2. box' = [open |-> TRUE, text |-> q, active |-> 0, q |-> box.q, status |-> box.status,
                  of |-> box.of]
      BY <1>1, <2>1
    <2>3. QED
      BY <1>1, <1>2, <2>2
  <1>4. CASE ~(q = box.text \/ q = "")
    <2>1. box' = [open |-> TRUE, text |-> q, active |-> 0, q |-> q,
                  status |-> IF Palette!Cached(q) THEN "ready" ELSE "loading",
                  of |-> IF Palette!Cached(q) THEN q ELSE box.of]
      BY <1>4 DEF Palette!SetText
    <2>2. QED
      BY <1>1, <1>2, <2>1
  <1>5. QED
    BY <1>3, <1>4

LEMMA OpenStep ==
  ASSUME SearchInv, Palette!Open
  PROVE  SearchInv'
  <1>1. /\ Palette!Move /\ Palette!SetText("") /\ meant' = {}
        /\ UNCHANGED <<place, going, recent, Palette!page, sought, missed>>
    BY DEF Palette!Open
  <1>2. "" \in Text
    BY PaletteGiven DEF Palette!SearchAssumption
  <1>3. Palette!TypeOK'
    BY <1>1, <1>2, TextSet, Moved DEF SearchInv, Palette!TypeOK, Palette!page
  <1>4. box'.active = 0
    BY <1>1, <1>2, TextSet DEF SearchInv
  <1>5. QED
    BY <1>1, <1>3, <1>4 DEF SearchInv, PaletteLed, Pointed

LEMMA TypeStep ==
  ASSUME SearchInv, NEW q \in Text, Palette!Type(q)
  PROVE  SearchInv'
  <1>1. /\ Palette!Move /\ Palette!SetText(q) /\ meant' = {} /\ q # box.text
        /\ UNCHANGED <<place, going, recent, Palette!page, sought, missed>>
    BY DEF Palette!Type
  <1>3. Palette!TypeOK'
    BY <1>1, TextSet, Moved DEF SearchInv, Palette!TypeOK, Palette!page
  <1>4. box'.active = 0
    BY <1>1, TextSet DEF SearchInv
  <1>5. QED
    BY <1>1, <1>3, <1>4 DEF SearchInv, PaletteLed, Pointed

LEMMA CloseStep ==
  ASSUME SearchInv, Palette!Close
  PROVE  SearchInv'
  <1>1. /\ box' = [box EXCEPT !.open = FALSE]
        /\ UNCHANGED <<place, going, recent, asking, kept, Palette!page, steps, Palette!history>>
    BY DEF Palette!Close
  <1>2. Palette!TypeOK' /\ ~box'.open
    BY <1>1 DEF SearchInv, Palette!TypeOK, Palette!page, Palette!history
  <1>3. QED
    BY <1>1, <1>2 DEF SearchInv, PaletteLed, Pointed, Palette!history

LEMMA PointAtStep ==
  ASSUME SearchInv, NEW i \in 1 .. 3, Palette!PointAt(i)
  PROVE  SearchInv'
  <1>1. /\ Palette!Move /\ i \in DOMAIN Palette!Options /\ box' = [box EXCEPT !.active = i] /\ meant' = {Palette!Options[i]}
        /\ UNCHANGED <<place, going, recent, asking, kept, Palette!page, sought, missed>>
    BY DEF Palette!PointAt
  <1>2. Palette!Options[i] \in Palette!Places
    BY <1>1, OptionsFacts DEF SearchInv
  <1>3. /\ box' \in [open : BOOLEAN, text : Text, active : Nat, q : Text,
                     status : {"loading", "ready", "error"}, of : Text]
        /\ box'.active = i /\ box'.text = box.text /\ box'.of = box.of
    BY <1>1, SMTT(60) DEF SearchInv, Palette!TypeOK
  <1>4. Palette!TypeOK'
    BY <1>1, <1>2, <1>3, Moved DEF SearchInv, Palette!TypeOK, Palette!page
  <1>5. Palette!Options' = Palette!Options
    BY <1>1, <1>3 DEF Palette!Options
  <1>6. Pointed'
    BY <1>1, <1>3, <1>5 DEF Pointed
  <1>7. QED
    BY <1>1, <1>4, <1>6 DEF SearchInv, PaletteLed

LEMMA PauseStep ==
  ASSUME SearchInv, Palette!Pause
  PROVE  SearchInv'
  <1>1. /\ asking' = "sent"
        /\ UNCHANGED <<place, going, recent, box, kept, Palette!page, steps, Palette!history>>
    BY DEF Palette!Pause
  <1>2. Palette!TypeOK' /\ Palette!Options' = Palette!Options
    BY <1>1 DEF SearchInv, Palette!TypeOK, Palette!page, Palette!history, Palette!Options
  <1>3. QED
    BY <1>1, <1>2 DEF SearchInv, PaletteLed, Pointed, Palette!history

LEMMA SuggestedStep ==
  ASSUME SearchInv, Palette!Suggested
  PROVE  SearchInv'
  <1>1. /\ asking' = "none" /\ meant' = (IF meant = {} THEN {} ELSE Palette!Places)
        /\ UNCHANGED <<place, going, recent, Palette!page, steps, sought, missed>>
    BY DEF Palette!Suggested
  <1>2. /\ box \in [open : BOOLEAN, text : Text, active : Nat, q : Text,
                    status : {"loading", "ready", "error"}, of : Text]
        /\ kept \in Seq(Text) /\ "" \in Text /\ Fold[box.text] \in Text
    BY PaletteGiven DEF SearchInv, Palette!TypeOK, Palette!SearchAssumption
  <1>3. \/ /\ box' = [box EXCEPT !.q = box.text, !.status = "ready", !.of = box.text]
           /\ kept' = Palette!Keep(box.text)
        \/ /\ box' = [box EXCEPT !.q = box.text, !.status = "error", !.of = ""]
           /\ UNCHANGED kept
    BY DEF Palette!Suggested
  <1>4. PICK outcome \in {"ready", "error"}, of \in Text :
          box' = [box EXCEPT !.q = box.text, !.status = outcome, !.of = of]
    BY <1>2, <1>3
  <1>5. box' = [open |-> box.open, text |-> box.text, active |-> box.active, q |-> box.text,
                status |-> outcome, of |-> of]
    BY <1>2, <1>4
  <1>6. kept' \in Seq(Text)
    <2>1. Palette!Keep(box.text) \in Seq(Text)
      <3>1. PICK more : more = IF Palette!Cached(box.text) THEN kept ELSE Append(kept, Fold[box.text])
        OBVIOUS
      <3>2. more \in Seq(Text) /\ CacheSize \in Nat
        <4>1. CacheSize \in Nat
          BY PaletteGiven DEF Palette!SearchAssumption
        <4>2. Append(kept, Fold[box.text]) \in Seq(Text)
          <5>1. PICK t \in Text : t = Fold[box.text]
            BY <1>2
          <5>2. kept \in Seq(Text)
            BY <1>2
          <5>3. Append(kept, t) \in Seq(Text)
            BY <5>2
          <5>4. QED
            BY <5>1, <5>3
        <4>3. QED
          BY <1>2, <3>1, <4>1, <4>2
      <3>3. Len(more) > CacheSize => Tail(more) \in Seq(Text)
        BY <3>2
      <3>4. QED
        BY <3>1, <3>2, <3>3 DEF Palette!Keep
    <2>2. QED
      BY <1>2, <1>3, <2>1
  <1>7. /\ box' \in [open : BOOLEAN, text : Text, active : Nat, q : Text,
                     status : {"loading", "ready", "error"}, of : Text]
        /\ box'.open = box.open /\ box'.active = box.active
    BY <1>2, <1>5
  <1>8. Palette!TypeOK'
    BY <1>1, <1>6, <1>7 DEF SearchInv, Palette!TypeOK, Palette!page
  <1>9. meant # {} => Palette!Places # {}
    BY DEF SearchInv, Palette!TypeOK
  <1>10. Pointed'
    BY <1>1, <1>7, <1>9 DEF SearchInv, Pointed
  <1>11. QED
    BY <1>1, <1>8, <1>10 DEF SearchInv, PaletteLed

\* An option is opened: that is where the visitor asks to be.
LEMMA Chosen ==
  ASSUME SearchInv, NEW option \in Palette!Places, Palette!Move, Palette!Choose(option)
  PROVE  SearchInv' /\ going' = option
  <1>1. /\ box' = [box EXCEPT !.open = FALSE]
        /\ recent' = (IF option.type = "page" THEN recent ELSE Palette!rememberSearch(option.q))
        /\ going' = option /\ sought' = option /\ missed' = FALSE
        /\ UNCHANGED <<place, asking, kept, Palette!page, meant>>
    BY DEF Palette!Choose, Palette!Visit
  <1>2. option.type # "page" => option.q \in Text
    BY DEF Palette!Places, Palette!Searches, Palette!PageOf
  <1>3. recent' \in Seq(Text)
    BY <1>1, <1>2, Remembered DEF SearchInv, Palette!TypeOK
  <1>4. Palette!TypeOK' /\ ~box'.open
    BY <1>1, <1>3, Moved DEF SearchInv, Palette!TypeOK, Palette!page
  <1>5. going' # Nothing
    BY <1>1, PaletteGiven DEF Palette!SearchAssumption
  <1>6. QED
    BY <1>1, <1>4, <1>5 DEF SearchInv, PaletteLed, Pointed

LEMMA EnterStep ==
  ASSUME SearchInv, Palette!Enter
  PROVE  SearchInv' /\ going' \in (IF meant = {} THEN {Palette!Search(box.text, "all")} ELSE meant)
  <1>1. Palette!Options \in Seq(Palette!Places) /\ 0 \notin DOMAIN Palette!Options /\ Palette!Search(box.text, "all") \in Palette!Places
    BY OptionsFacts DEF SearchInv
  <1>2. Pointed /\ box.open /\ Palette!Move
    BY DEF SearchInv, Palette!Enter
  <1>3. CASE box.active \in DOMAIN Palette!Options
    <2>1. Palette!Options[box.active] \in Palette!Places
      BY <1>1, <1>3
    <2>2. Palette!Choose(Palette!Options[box.active])
      BY <1>3 DEF Palette!Enter
    <2>3. SearchInv' /\ going' = Palette!Options[box.active]
      BY <1>2, <2>1, <2>2, Chosen
    <2>4. meant # {}
      BY <1>1, <1>2, <1>3 DEF Pointed
    <2>5. going' \in meant
      BY <1>2, <2>1, <2>3, <2>4 DEF Pointed
    <2>6. QED
      BY <2>3, <2>4, <2>5
  <1>4. CASE box.active \notin DOMAIN Palette!Options
    <2>1. SearchInv' /\ going' = Palette!Search(box.text, "all")
      BY <1>1, <1>2, <1>4, Chosen DEF Palette!Enter
    <2>2. meant = {} \/ meant = Palette!Places
      BY <1>2, <1>4 DEF Pointed
    <2>3. QED
      BY <1>1, <2>1, <2>2
  <1>5. QED
    BY <1>3, <1>4

LEMMA ClickStep ==
  ASSUME SearchInv, NEW i \in 1 .. 3, Palette!Click(i)
  PROVE  SearchInv'
  <1>1. Palette!Move /\ i \in DOMAIN Palette!Options /\ Palette!Choose(Palette!Options[i])
    BY DEF Palette!Click
  <1>2. Palette!Options[i] \in Palette!Places
    BY <1>1, OptionsFacts DEF SearchInv
  <1>3. QED
    BY <1>1, <1>2, Chosen

(* The search page. *)

\* What is highlighted stays, where the palette and the remembered searches do.
LEMMA StillPointed ==
  ASSUME SearchInv, box.open => UNCHANGED recent, UNCHANGED <<box, meant>>
  PROVE  Pointed'
  <1>1. box.open => Palette!Options' = Palette!Options
    BY DEF Palette!Options
  <1>2. QED
    BY <1>1 DEF SearchInv, Pointed

LEMMA PaletteAsked ==
  ASSUME Palette!TypeOK, NEW q \in Text, Palette!Ask(q)
  PROVE  /\ sent' \subseteq Text
         /\ results' \in [text : Text, q : Text, status : {"loading", "ready", "error"}]
  BY DEF Palette!Ask, Palette!Abandon, Palette!TypeOK

LEMMA ArriveStep ==
  ASSUME SearchInv, Palette!Arrive
  PROVE  SearchInv'
  <1>1. /\ going # Nothing /\ place' = going /\ going' = Nothing
        /\ UNCHANGED <<recent, Palette!palette, steps, Palette!history>>
    BY DEF Palette!Arrive
  <1>2. going \in Palette!Places
    BY <1>1 DEF SearchInv, Palette!TypeOK
  <1>3. /\ sent' \subseteq Text
        /\ results' \in [text : Text, q : Text, status : {"loading", "ready", "error"}]
    <2>1. CASE going.type = "page"
      BY <2>1 DEF Palette!Arrive, SearchInv, Palette!TypeOK
    <2>2. CASE going.type # "page" /\ Palette!OnSearch /\ going.q = place.q
      BY <2>2 DEF Palette!Arrive, SearchInv, Palette!TypeOK, Palette!page
    <2>3. CASE going.type # "page" /\ ~(Palette!OnSearch /\ going.q = place.q)
      <3>1. going.q \in Text
        BY <1>2, <2>3 DEF Palette!Places, Palette!Searches, Palette!PageOf
      <3>2. Palette!Ask(going.q)
        BY <2>3 DEF Palette!Arrive
      <3>3. QED
        BY <3>1, <3>2, PaletteAsked DEF SearchInv
    <2>4. QED
      BY <2>1, <2>2, <2>3
  <1>4. Palette!TypeOK'
    BY <1>1, <1>2, <1>3 DEF SearchInv, Palette!TypeOK, Palette!palette, Palette!history
  <1>5. Pointed'
    BY <1>1, StillPointed DEF Palette!palette, Palette!history
  <1>6. QED
    BY <1>1, <1>4, <1>5 DEF SearchInv, PaletteLed, Palette!history

LEMMA ResultsStep ==
  ASSUME SearchInv, NEW q \in sent, Palette!Results(q)
  PROVE  SearchInv'
  <1>1. /\ sent' = sent \ {q} /\ UNCHANGED <<place, going, recent, Palette!palette, steps, Palette!history>>
        /\ \E outcome \in {"ready", "error"} : results' = [results EXCEPT !.q = q, !.status = outcome]
    BY DEF Palette!Results
  <1>2. q \in Text
    BY DEF SearchInv, Palette!TypeOK
  <1>3. results' \in [text : Text, q : Text, status : {"loading", "ready", "error"}]
    BY <1>1, <1>2 DEF SearchInv, Palette!TypeOK
  <1>4. Palette!TypeOK'
    BY <1>1, <1>3 DEF SearchInv, Palette!TypeOK, Palette!palette, Palette!history
  <1>5. Pointed'
    BY <1>1, StillPointed DEF Palette!palette, Palette!history
  <1>6. QED
    BY <1>1, <1>4, <1>5 DEF SearchInv, PaletteLed, Palette!history

LEMMA TryAgainStep ==
  ASSUME SearchInv, Palette!TryAgain
  PROVE  SearchInv'
  <1>1. /\ Palette!Move /\ Palette!OnSearch /\ Palette!Status = "error"
        /\ sent' = {place.q} /\ results' = [results EXCEPT !.status = "loading"]
        /\ UNCHANGED <<place, going, recent, Palette!palette, Palette!history>>
    BY DEF Palette!TryAgain
  <1>2. place.q \in Text
    BY <1>1 DEF SearchInv, Palette!TypeOK, Palette!OnSearch, Palette!Places, Palette!Searches,
       Palette!PageOf
  <1>3. results' \in [text : Text, q : Text, status : {"loading", "ready", "error"}]
    BY <1>1 DEF SearchInv, Palette!TypeOK
  <1>4. Palette!TypeOK'
    BY <1>1, <1>2, <1>3, Moved DEF SearchInv, Palette!TypeOK, Palette!palette, Palette!history
  <1>5. Pointed'
    BY <1>1, StillPointed DEF Palette!palette, Palette!history
  <1>6. QED
    BY <1>1, <1>4, <1>5 DEF SearchInv, PaletteLed, Palette!history

LEMMA TypeQueryStep ==
  ASSUME SearchInv, NEW t \in Text, Palette!TypeQuery(t)
  PROVE  SearchInv'
  <1>1. /\ Palette!Move /\ results' = [results EXCEPT !.text = t]
        /\ UNCHANGED <<place, going, recent, Palette!palette, sent, Palette!history>>
    BY DEF Palette!TypeQuery
  <1>3. results' \in [text : Text, q : Text, status : {"loading", "ready", "error"}]
    BY <1>1 DEF SearchInv, Palette!TypeOK
  <1>4. Palette!TypeOK'
    BY <1>1, <1>3, Moved DEF SearchInv, Palette!TypeOK, Palette!palette, Palette!history
  <1>5. Pointed'
    BY <1>1, StillPointed DEF Palette!palette, Palette!history
  <1>6. QED
    BY <1>1, <1>4, <1>5 DEF SearchInv, PaletteLed, Palette!history

\* On the search page the visitor is at a search.
LEMMA AtSearch ==
  ASSUME SearchInv, Palette!OnSearch
  PROVE  place \in Palette!Searches /\ place.q \in Text /\ place.type \in Tab
  BY DEF SearchInv, Palette!TypeOK, Palette!OnSearch, Palette!Places, Palette!Searches,
     Palette!PageOf

LEMMA SubmitStep ==
  ASSUME SearchInv, Palette!Submit
  PROVE  SearchInv'
  <1> DEFINE kind == IF sought \in Palette!Searches THEN sought.type ELSE place.type
  <1>1. /\ Palette!Move /\ ~box.open /\ Palette!OnSearch /\ recent' = Palette!rememberSearch(results.text)
        /\ going' = Palette!Search(results.text, place.type) /\ missed' = (missed \/ going # Nothing)
        /\ sought' = Palette!Search(results.text, kind)
        /\ UNCHANGED <<place, Palette!palette, Palette!page, meant>>
    BY DEF Palette!Submit, Palette!searchHref
  <1>2. place \in Palette!Searches /\ place.type \in Tab /\ results.text \in Text
    BY <1>1, AtSearch DEF SearchInv, Palette!TypeOK
  <1>3. kind \in Tab
    BY <1>2 DEF Palette!Searches
  <1>4. going' \in Palette!Places /\ sought' \in Palette!Places
    BY <1>1, <1>2, <1>3 DEF Palette!Places, Palette!Searches, Palette!Search
  <1>5. recent' \in Seq(Text)
    BY <1>1, <1>2, Remembered DEF SearchInv
  <1>6. missed' \in BOOLEAN
    BY <1>1
  <1>7. Palette!TypeOK'
    BY <1>1, <1>4, <1>5, <1>6, Moved DEF SearchInv, Palette!TypeOK, Palette!palette, Palette!page
  <1>8. PaletteLed'
    <2>1. going' # Nothing
      BY <1>4, PaletteGiven DEF Palette!SearchAssumption
    <2>2. ~missed' => kind = place.type
      BY <1>1, <1>2 DEF SearchInv, PaletteLed
    <2>3. QED
      BY <1>1, <2>1, <2>2 DEF PaletteLed
  <1>9. Pointed'
    BY <1>1, StillPointed DEF Palette!palette
  <1>10. QED
    BY <1>7, <1>8, <1>9 DEF SearchInv

LEMMA ChooseTabStep ==
  ASSUME SearchInv, NEW tab \in Tab, Palette!ChooseTab(tab)
  PROVE  SearchInv'
  <1> DEFINE typed == IF sought \in Palette!Searches THEN sought.q ELSE place.q
  <1>1. /\ Palette!Move /\ Palette!OnSearch /\ going' = Palette!Search(place.q, tab) /\ missed' = (missed \/ going # Nothing)
        /\ sought' = Palette!Search(typed, tab)
        /\ UNCHANGED <<place, recent, Palette!palette, Palette!page, meant>>
    BY DEF Palette!ChooseTab, Palette!searchHref
  <1>2. place \in Palette!Searches /\ place.q \in Text
    BY <1>1, AtSearch
  <1>3. typed \in Text
    BY <1>2 DEF Palette!Searches
  <1>4. going' \in Palette!Places /\ sought' \in Palette!Places
    BY <1>1, <1>2, <1>3 DEF Palette!Places, Palette!Searches, Palette!Search
  <1>6. missed' \in BOOLEAN
    BY <1>1
  <1>7. Palette!TypeOK'
    BY <1>1, <1>4, <1>6, Moved DEF SearchInv, Palette!TypeOK, Palette!palette, Palette!page
  <1>8. PaletteLed'
    <2>1. going' # Nothing
      BY <1>4, PaletteGiven DEF Palette!SearchAssumption
    <2>2. ~missed' => typed = place.q
      BY <1>1, <1>2 DEF SearchInv, PaletteLed
    <2>3. QED
      BY <1>1, <2>1, <2>2 DEF PaletteLed
  <1>9. Pointed'
    BY <1>1, StillPointed DEF Palette!palette
  <1>10. QED
    BY <1>7, <1>8, <1>9 DEF SearchInv

\* A place that depends on nothing shown.
LEMMA Visited ==
  ASSUME SearchInv, NEW to \in Palette!Places, Palette!Move, Palette!Visit(to),
         UNCHANGED <<place, recent, Palette!palette, Palette!page, meant>>
  PROVE  SearchInv'
  <1>1. going' = to /\ sought' = to /\ missed' = FALSE /\ to # Nothing
    BY PaletteGiven DEF Palette!Visit, Palette!SearchAssumption
  <1>2. missed' \in BOOLEAN
    BY <1>1, Zenon
  <1>3. Palette!TypeOK'
    BY <1>1, <1>2, Moved DEF SearchInv, Palette!TypeOK, Palette!palette, Palette!page
  <1>4. Pointed'
    BY StillPointed DEF Palette!palette
  <1>5. QED
    BY <1>1, <1>3, <1>4 DEF SearchInv, PaletteLed

LEMMA ChooseRecentStep ==
  ASSUME SearchInv, NEW i \in 1 .. 3, Palette!ChooseRecent(i)
  PROVE  SearchInv'
  <1>1. /\ Palette!Move /\ i \in DOMAIN recent /\ Palette!Visit(Palette!Search(recent[i], "all"))
        /\ UNCHANGED <<place, recent, Palette!palette, Palette!page, meant>>
    BY DEF Palette!ChooseRecent
  <1>a. recent[i] \in Text
    BY <1>1 DEF SearchInv, Palette!TypeOK
  <1>2. Palette!Search(recent[i], "all") \in Palette!Places
    BY <1>a, PaletteGiven DEF Palette!SearchAssumption, Palette!Places, Palette!Searches,
       Palette!Search
  <1>3. QED
    BY <1>1, <1>2, Visited

LEMMA TravelStep ==
  ASSUME SearchInv, NEW to \in Palette!Places, Palette!Travel(to)
  PROVE  SearchInv'
  BY Visited DEF Palette!Travel

LEMMA ClearRecentStep ==
  ASSUME SearchInv, Palette!ClearRecent
  PROVE  SearchInv'
  <1>1. /\ Palette!Move /\ ~box.open /\ recent' = <<>> /\ UNCHANGED <<place, going, Palette!palette, Palette!page, Palette!history>>
    BY DEF Palette!ClearRecent, Palette!Idle
  <1>2. recent' \in Seq(Text)
    BY <1>1
  <1>3. Palette!TypeOK'
    BY <1>1, <1>2, Moved DEF SearchInv, Palette!TypeOK, Palette!palette, Palette!page,
       Palette!history
  <1>4. Pointed'
    BY <1>1, StillPointed DEF Palette!palette, Palette!history
  <1>5. QED
    BY <1>1, <1>3, <1>4 DEF SearchInv, PaletteLed, Palette!history

LEMMA NextSearch == SearchInv /\ [Palette!Next]_(Palette!vars) => SearchInv'
  <1>1. SUFFICES ASSUME SearchInv, [Palette!Next]_(Palette!vars) PROVE SearchInv'
    OBVIOUS
  <1>2. CASE UNCHANGED Palette!vars
    <2>1. Palette!TypeOK'
      BY <1>1, <1>2 DEF SearchInv, Palette!TypeOK, Palette!vars, Palette!palette, Palette!page,
         Palette!history
    <2>2. Pointed'
      BY <1>1, <1>2, StillPointed DEF Palette!vars, Palette!palette, Palette!history
    <2>3. QED
      BY <1>1, <1>2, <2>1, <2>2 DEF SearchInv, PaletteLed, Palette!vars, Palette!history
  <1>3. CASE Palette!Next
    BY <1>1, <1>3, PauseStep, SuggestedStep, ArriveStep, ResultsStep, OpenStep, CloseStep,
       EnterStep,
       SubmitStep, TryAgainStep, ClearRecentStep, TypeStep, TypeQueryStep, PointAtStep, ClickStep,
       ChooseRecentStep, ChooseTabStep, TravelStep DEF Palette!Next, Palette!Browser
  <1>4. QED
    BY <1>1, <1>2, <1>3

\* The visitor ends where they asked to be, unless they asked on a URL about to be replaced.
LEMMA WishesKept ==
  Palette!Init /\ [][Palette!Next]_(Palette!vars) =>
    []Palette!OnlyCrossingsLoseSearches
  <1>1. Palette!Init => SearchInv
    BY InitSearch
  <1>2. SearchInv /\ [Palette!Next]_(Palette!vars) => SearchInv'
    BY NextSearch
  <1>3. SearchInv => Palette!OnlyCrossingsLoseSearches
    BY DEF SearchInv, PaletteLed, Palette!OnlyCrossingsLoseSearches
  <1>4. QED
    BY <1>1, <1>2, <1>3, PTL

\* Enter opens what was pointed at last.
LEMMA EnterOpens ==
  Palette!Init /\ [][Palette!Next]_(Palette!vars) =>
    Palette!OpensWhatWasMeant
  <1>1. Palette!Init => SearchInv
    BY InitSearch
  <1>2. SearchInv /\ [Palette!Next]_(Palette!vars) => SearchInv'
    BY NextSearch
  <1>3. SearchInv /\ [Palette!Next]_(Palette!vars) =>
          [Palette!Enter => going' \in IF meant = {} THEN {Palette!Search(box.text, "all")} ELSE meant]_(Palette!vars)
    BY EnterStep
  <1>4. QED
    BY <1>1, <1>2, <1>3, PTL DEF Palette!OpensWhatWasMeant

-----------------------------------------------------------------------------
(* The landing's canvas. *)

\* What is assumed, and an operator of the library under the instance's name.
LEMMA CanvasGiven == Canvas!AtlasAssumption
  BY TabAssumption DEF TabAssumption

LEMMA CanvasNumber == \A S : Canvas!Cardinality(S) = Cardinality(S)
  BY Zenon DEF Canvas!Cardinality, Cardinality

\* Where the view may begin, in halves of a cell.
Places == 0 .. 2 * CardCount - 1
Presses == [at : {0, 1, 2}, moved : BOOLEAN, long : BOOLEAN]

\* A slot's picture; and a texture, in which a card has one slot at most.
Picture == [card : Canvas!Cards \cup {Nothing}, theme : {0, 1}, images : BOOLEAN]
AtlasOK(a) ==
  /\ a = [made |-> a.made, owner |-> a.owner, lastSeen |-> a.lastSeen, paint |-> a.paint]
  /\ a.made \in {0, 1} /\ a.lastSeen \in [1 .. Slots -> Nat]
  /\ a.owner \in [1 .. Slots -> Canvas!Cards \cup {Nothing}] /\ a.paint \in [1 .. Slots -> Picture]
  /\ \A s, t \in 1 .. Slots : a.owner[s] = a.owner[t] /\ a.owner[s] # Nothing => s = t
LoadsOK(loads) == loads \subseteq Canvas!Cards \X (1 .. Slots) \X {0, 1}

\* No slot was looked at later than in the frame so numbered.
SeenBy(a, frame) == \A s \in 1 .. Slots : a.lastSeen[s] <= frame

CanvasTypes ==
  /\ width \in {1, 3} /\ theme \in {0, 1} /\ camera \in Places
  /\ speed \in Int /\ tween \in Places \cup {Nothing}
  /\ press \in Presses \cup {Nothing}
  /\ AtlasOK(atlas) /\ SeenBy(atlas, Slots) /\ LoadsOK(loading) /\ raf \in BOOLEAN

\* A slot that a card has shows it, with its images unless these are on their way.
Painted(a, loads, colours) ==
  \A s \in 1 .. Slots : a.owner[s] # Nothing =>
    /\ a.paint[s].card = a.owner[s] /\ a.paint[s].theme = colours
    /\ a.paint[s].images \/ <<a.owner[s], s, a.made>> \in loads

\* At rest every card in view has a slot.
HasSlot(a, card) == \E s \in 1 .. Slots : a.owner[s] = card
Drawn == ~raf => \A card \in Canvas!visibleCells : HasSlot(atlas, card)

\* What is near the press stays there while nothing else moves the grid.
Held ==
  press # Nothing /\ ~press.moved /\ ~press.long =>
    allowed = Canvas!Cards \/ (tween = Nothing /\ speed = 0 /\ allowed = Canvas!CardsNear(press.at))

CanvasInv == CanvasTypes /\ Painted(atlas, loading, theme) /\ Drawn /\ Held

LEMMA CanvasNumbers ==
  /\ CardCount \in Nat /\ CardCount > 0 /\ Slots \in Nat /\ Slots > 0 /\ Nothing \notin Int
  /\ Canvas!Now = Slots + 1 /\ Canvas!Now \in Nat
  BY CanvasGiven DEF Canvas!AtlasAssumption, Canvas!Now

LEMMA Modulo ==
  ASSUME NEW x \in Int
  PROVE  x % CardCount \in Canvas!Cards
  BY CanvasNumbers DEF Canvas!Cards

LEMMA PlacesFacts ==
  /\ 0 \in Places /\ \A at \in Places : at \in Nat /\ at # Nothing
  /\ \A x \in Int : x % (2 * CardCount) \in Places
  /\ \A card \in Canvas!Cards : 2 * card \in Places /\ card # Nothing
  <1>1. PICK n \in Nat \ {0} : n = 2 * CardCount
    BY CanvasNumbers
  <1>2. \A x \in Int : x % n \in 0 .. n - 1
    OBVIOUS
  <1>3. QED
    BY <1>1, <1>2, CanvasNumbers DEF Places, Canvas!Cards

LEMMA CanvasVisible ==
  ASSUME NEW cell \in Int
  PROVE  Canvas!cardIndexAt(cell) \in Canvas!Cards
  BY Modulo DEF Canvas!cardIndexAt

LEMMA CardsNearOK ==
  ASSUME camera \in Places, NEW point \in {0, 1, 2}
  PROVE  Canvas!CardsNear(point) \subseteq Canvas!Cards
  <1>1. \A d \in -1 .. 1 : (camera + (point + d)) \div 2 \in Int
    BY PlacesFacts
  <1>2. QED
    BY <1>1, CanvasVisible DEF Canvas!CardsNear, Canvas!cardAt

\* The cells in view: one more in the middle of a cell, and three at most.
LEMMA CellsInView ==
  ASSUME NEW at \in Places, width \in {1, 3}
  PROVE  /\ Canvas!first(at) \in Int /\ Canvas!last(at) \in Int
         /\ \A cell \in Int : cell \in Canvas!first(at) .. Canvas!last(at) <=>
              cell \in {Canvas!first(at), Canvas!first(at) + 1, Canvas!first(at) + 2} /\ cell <= Canvas!last(at)
  <1>1. at \in Nat /\ width \in Nat /\ width <= 3
    BY PlacesFacts
  <1>2. (at + width) \div 2 <= (at \div 2) + 2 /\ at \div 2 \in Int /\ (at + width) \div 2 \in Int
    BY <1>1
  <1>3. QED
    BY <1>2 DEF Canvas!first, Canvas!last

LEMMA LeastOf ==
  ASSUME NEW T \in SUBSET Nat, T # {}
  PROVE  \E x \in T : \A y \in T : x <= y
  <1>1. PICK x \in T : \A y \in T : <<y, x>> \notin OpToRel(<, Nat)
    BY NatLessThanWellFounded, WFMin, Zenon
  <1>2. \A y \in T : ~(y < x)
    BY <1>1 DEF OpToRel
  <1>3. QED
    BY <1>2

\* The slot that is taken was not looked at later than another.
LEMMA OldestFacts ==
  ASSUME NEW a, NEW stamps \in [1 .. Slots -> Nat], a.lastSeen = stamps
  PROVE  Canvas!Oldest(a) \in 1 .. Slots /\ \A t \in 1 .. Slots : stamps[Canvas!Oldest(a)] <= stamps[t]
  <1> DEFINE Before(s) == \A t \in 1 .. Slots : stamps[s] < stamps[t] \/ (stamps[s] = stamps[t] /\ s <= t)
  <1>1. 1 \in 1 .. Slots
    BY CanvasNumbers
  <1>2. PICK times : times = {stamps[s] : s \in 1 .. Slots}
    OBVIOUS
  <1>3. times \in SUBSET Nat /\ times # {}
    BY <1>1, <1>2
  <1>4. PICK least \in times : \A y \in times : least <= y
    BY <1>3, LeastOf
  <1>5. PICK those : those = {s \in 1 .. Slots : stamps[s] = least}
    OBVIOUS
  <1>6. those \in SUBSET Nat /\ those # {}
    BY <1>2, <1>4, <1>5
  <1>7. PICK s \in those : \A y \in those : s <= y
    BY <1>6, LeastOf
  <1>8. s \in 1 .. Slots /\ Before(s)
    <2>1. s \in 1 .. Slots /\ stamps[s] = least
      BY <1>5, <1>7
    <2>2. SUFFICES ASSUME NEW t \in 1 .. Slots PROVE stamps[s] < stamps[t] \/ (stamps[s] = stamps[t] /\ s <= t)
      BY <2>1
    <2>3. least <= stamps[t] /\ stamps[t] \in Nat /\ least \in Nat
      BY <1>2, <1>3, <1>4
    <2>4. stamps[t] = least => s <= t
      BY <1>5, <1>7
    <2>5. QED
      BY <2>1, <2>3, <2>4
  <1>9. Canvas!Oldest(a) = CHOOSE x \in 1 .. Slots : Before(x)
    BY DEF Canvas!Oldest
  <1> HIDE DEF Before
  <1>10. Canvas!Oldest(a) \in 1 .. Slots /\ Before(Canvas!Oldest(a))
    BY <1>8, <1>9, Zenon
  <1>11. QED
    BY <1>10 DEF Before

LEMMA EmptyOK ==
  ASSUME NEW n \in {0, 1}, NEW loads, NEW colours
  PROVE  AtlasOK(Canvas!Empty(n)) /\ SeenBy(Canvas!Empty(n), Slots) /\ Painted(Canvas!Empty(n), loads, colours)
  <1>1. PICK a : a = Canvas!Empty(n)
    OBVIOUS
  <1>2. /\ a.made = n /\ a.owner = [s \in 1 .. Slots |-> Nothing] /\ a.lastSeen = [s \in 1 .. Slots |-> 0]
        /\ a.paint = [s \in 1 .. Slots |-> Canvas!rasterCard(Nothing, 0, FALSE)]
        /\ a = [made |-> a.made, owner |-> a.owner, lastSeen |-> a.lastSeen, paint |-> a.paint]
    BY <1>1 DEF Canvas!Empty
  <1>3. Canvas!rasterCard(Nothing, 0, FALSE) \in Picture
    BY DEF Canvas!rasterCard, Picture
  <1>4. /\ a.owner \in [1 .. Slots -> Canvas!Cards \cup {Nothing}] /\ a.paint \in [1 .. Slots -> Picture]
        /\ a.lastSeen \in [1 .. Slots -> Nat] /\ \A s \in 1 .. Slots : a.owner[s] = Nothing
    <2>1. PICK blank \in Picture : blank = Canvas!rasterCard(Nothing, 0, FALSE)
      BY <1>3
    <2>2. a.paint \in [1 .. Slots -> Picture]
      BY <1>2, <2>1
    <2>3. a.lastSeen \in [1 .. Slots -> Nat]
      BY <1>2
    <2>4. QED
      BY <1>2, <2>2, <2>3
  <1>5. AtlasOK(a)
    BY <1>2, <1>4 DEF AtlasOK
  <1>6. SeenBy(a, Slots) /\ Painted(a, loads, colours)
    BY <1>2, CanvasNumbers DEF SeenBy, Painted
  <1>7. QED
    BY <1>1, <1>5, <1>6

\* Numbering the frames anew keeps what the slots show.
LEMMA RenumberedOK ==
  ASSUME NEW a, AtlasOK(a), NEW loads, NEW colours, Painted(a, loads, colours),
         NEW b, b = Canvas!Renumbered(a)
  PROVE  AtlasOK(b) /\ SeenBy(b, Slots) /\ Painted(b, loads, colours) /\ b.owner = a.owner
  <1> DEFINE earlier(s) == {t \in 1 .. Slots : a.lastSeen[t] < a.lastSeen[s]}
  <1>1. PICK stamps : stamps = [s \in 1 .. Slots |-> Cardinality(earlier(s))]
    OBVIOUS
  <1>2. \A s \in 1 .. Slots : Cardinality(earlier(s)) \in Nat /\ Cardinality(earlier(s)) <= Slots
    <2> TAKE s \in 1 .. Slots
    <2>1. IsFiniteSet(1 .. Slots) /\ Cardinality(1 .. Slots) = Slots
      BY CanvasNumbers, FS_Interval
    <2>2. earlier(s) \in SUBSET (1 .. Slots)
      OBVIOUS
    <2> HIDE DEF earlier
    <2>3. QED
      BY <2>1, <2>2, FS_Subset, FS_CardinalityType
  <1>3. b = [a EXCEPT !.lastSeen = stamps]
    BY <1>1, CanvasNumber DEF Canvas!Renumbered
  <1> HIDE DEF earlier
  <1>4. stamps \in [1 .. Slots -> Nat] /\ \A s \in 1 .. Slots : stamps[s] <= Slots
    BY <1>1, <1>2
  <1>5. b = [made |-> a.made, owner |-> a.owner, lastSeen |-> stamps, paint |-> a.paint]
    <2>1. PICK which, owner, before, paint :
            a = [made |-> which, owner |-> owner, lastSeen |-> before, paint |-> paint]
      BY DEF AtlasOK
    <2>2. QED
      BY <1>3, <2>1
  <1>6. /\ b.made = a.made /\ b.owner = a.owner /\ b.lastSeen = stamps /\ b.paint = a.paint
        /\ b = [made |-> b.made, owner |-> b.owner, lastSeen |-> b.lastSeen, paint |-> b.paint]
    BY <1>5
  <1>7. AtlasOK(b)
    BY <1>4, <1>6 DEF AtlasOK
  <1>8. SeenBy(b, Slots) /\ Painted(b, loads, colours)
    BY <1>4, <1>6 DEF SeenBy, Painted
  <1>9. QED
    BY <1>6, <1>7, <1>8

\* A frame as far as it is drawn.
FrameOK(f) ==
  /\ f = [atlas |-> f.atlas, loading |-> f.loading, fresh |-> f.fresh] /\ f.fresh \in BOOLEAN
  /\ AtlasOK(f.atlas) /\ SeenBy(f.atlas, Canvas!Now) /\ LoadsOK(f.loading)
  /\ Painted(f.atlas, f.loading, theme)

\* The cards looked at so far have slots, and those slots are the ones seen in this frame.
Kept(a, cards) ==
  /\ \A card \in cards : \E s \in 1 .. Slots : a.owner[s] = card /\ a.lastSeen[s] = Canvas!Now
  /\ \A s \in 1 .. Slots : a.lastSeen[s] = Canvas!Now => a.owner[s] \in cards

\* Looking a card up: it has a slot then, in a frame that takes none it had one before, and of cards
\* that have a slot each, those looked at before keep theirs.
Fit(cards) == IsFiniteSet(cards) /\ Cardinality(cards) <= Slots
Follows(f, g, card) ==
  /\ FrameOK(g)
  /\ ~g.fresh => ~f.fresh /\ g.atlas.owner = f.atlas.owner /\ HasSlot(f.atlas, card)
  /\ \A cards, all : Fit(all) /\ cards \cup {card} \subseteq all /\ Nothing \notin all /\ Kept(f.atlas, cards) =>
       Kept(g.atlas, cards \cup {card})

LEMMA AcquireFinds ==
  ASSUME NEW f, FrameOK(f), NEW card \in Canvas!Cards, Canvas!SlotOf(f.atlas, card) # {}
  PROVE  Follows(f, Canvas!acquire(f, card), card)
  <1>1. PICK a, loads, fresh : f = [atlas |-> a, loading |-> loads, fresh |-> fresh]
    BY DEF FrameOK
  <1>2. f.atlas = a /\ f.loading = loads /\ f.fresh = fresh
    BY <1>1
  <1>3. AtlasOK(a) /\ SeenBy(a, Canvas!Now) /\ LoadsOK(loads) /\ Painted(a, loads, theme)
    BY <1>2 DEF FrameOK
  <1>4. PICK which, owner, stamps, paint : a = [made |-> which, owner |-> owner, lastSeen |-> stamps, paint |-> paint]
    BY <1>3 DEF AtlasOK
  <1>5. /\ a.made = which /\ a.owner = owner /\ a.lastSeen = stamps /\ a.paint = paint
        /\ stamps \in [1 .. Slots -> Nat]
    BY <1>3, <1>4 DEF AtlasOK
  <1>6. PICK now \in Nat : now = Canvas!Now
    BY CanvasNumbers
  <1>7. PICK next : next = [s \in 1 .. Slots |-> IF owner[s] = card THEN now ELSE stamps[s]]
    OBVIOUS
  <1>8. next \in [1 .. Slots -> Nat]
    BY <1>5, <1>7
  <1>9. PICK b : b = [made |-> which, owner |-> owner, lastSeen |-> next, paint |-> paint]
    OBVIOUS
  <1>10. b.made = which /\ b.owner = owner /\ b.lastSeen = next /\ b.paint = paint
    BY <1>9
  <1>11. PICK g : g = Canvas!acquire(f, card)
    OBVIOUS
  <1>12. g = [atlas |-> b, loading |-> loads, fresh |-> fresh]
    <2>1. \A s \in 1 .. Slots : s \in Canvas!SlotOf(a, card) <=> owner[s] = card
      BY <1>5 DEF Canvas!SlotOf
    <2>2. g = [f EXCEPT !.atlas.lastSeen = [s \in 1 .. Slots |->
                 IF s \in Canvas!SlotOf(a, card) THEN now ELSE stamps[s]]]
      BY <1>2, <1>5, <1>6, <1>11 DEF Canvas!acquire
    <2>3. g = [f EXCEPT !.atlas.lastSeen = next]
      BY <1>7, <2>1, <2>2
    <2>4. QED
      BY <1>1, <1>4, <1>9, <2>3
  <1>13. g.atlas = b /\ g.loading = loads /\ g.fresh = fresh
    BY <1>12
  <1>14. AtlasOK(b)
    BY <1>3, <1>5, <1>8, <1>9, <1>10 DEF AtlasOK
  <1>15. SeenBy(b, Canvas!Now) /\ Painted(b, loads, theme)
    BY <1>3, <1>5, <1>6, <1>7, <1>10 DEF SeenBy, Painted
  <1>16. FrameOK(g)
    <2>1. g = [atlas |-> g.atlas, loading |-> g.loading, fresh |-> g.fresh]
      BY <1>12, <1>13
    <2>2. g.fresh \in BOOLEAN
      BY <1>2, <1>13 DEF FrameOK
    <2>3. QED
      BY <1>3, <1>13, <1>14, <1>15, <2>1, <2>2 DEF FrameOK
  <1>17. PICK slot \in 1 .. Slots : owner[slot] = card
    BY <1>2, <1>5 DEF Canvas!SlotOf
  <1>18. ASSUME NEW cards, Kept(a, cards) PROVE Kept(b, cards \cup {card})
    <2>1. ASSUME NEW c \in cards \cup {card}
          PROVE  \E s \in 1 .. Slots : owner[s] = c /\ next[s] = now
      BY <1>5, <1>6, <1>7, <1>17, <1>18, <2>1 DEF Kept
    <2>2. ASSUME NEW s \in 1 .. Slots, next[s] = now PROVE owner[s] \in cards \cup {card}
      BY <1>5, <1>6, <1>7, <1>18, <2>2 DEF Kept
    <2>3. QED
      BY <1>6, <1>10, <2>1, <2>2 DEF Kept
  <1>19. HasSlot(a, card)
    BY <1>5, <1>17 DEF HasSlot
  <1>20. Follows(f, g, card)
    BY <1>2, <1>5, <1>10, <1>13, <1>16, <1>18, <1>19 DEF Follows
  <1>21. QED
    BY <1>11, <1>20

\* A slot that gets a new card.
Repainted(a, s, card, time, shown) ==
  [a EXCEPT !.owner[s] = card, !.lastSeen[s] = time, !.paint[s] = shown]

LEMMA RepaintOK ==
  ASSUME NEW a, AtlasOK(a), NEW s \in 1 .. Slots, NEW card \in Canvas!Cards, ~HasSlot(a, card),
         NEW shown \in Picture, NEW time \in Nat,
         NEW b, b = Repainted(a, s, card, time, shown)
  PROVE  /\ AtlasOK(b) /\ b.made = a.made
         /\ b.owner[s] = card /\ b.lastSeen[s] = time /\ b.paint[s] = shown
         /\ \A t \in 1 .. Slots : t # s =>
              b.owner[t] = a.owner[t] /\ b.lastSeen[t] = a.lastSeen[t] /\ b.paint[t] = a.paint[t]
  <1>1. PICK which, owner, stamps, paint : a = [made |-> which, owner |-> owner, lastSeen |-> stamps, paint |-> paint]
    BY DEF AtlasOK
  <1>2. a.made = which /\ a.owner = owner /\ a.lastSeen = stamps /\ a.paint = paint
    BY <1>1
  <1>3. /\ which \in {0, 1} /\ stamps \in [1 .. Slots -> Nat] /\ paint \in [1 .. Slots -> Picture]
        /\ owner \in [1 .. Slots -> Canvas!Cards \cup {Nothing}]
        /\ \A t, u \in 1 .. Slots : owner[t] = owner[u] /\ owner[t] # Nothing => t = u
    BY <1>2 DEF AtlasOK
  <1>4. PICK others : others = [owner EXCEPT ![s] = card]
    OBVIOUS
  <1>5. PICK times : times = [stamps EXCEPT ![s] = time]
    OBVIOUS
  <1>6. PICK pictures : pictures = [paint EXCEPT ![s] = shown]
    OBVIOUS
  <1>7. b = [made |-> which, owner |-> others, lastSeen |-> times, paint |-> pictures]
    BY <1>1, <1>4, <1>5, <1>6 DEF Repainted
  <1>8. /\ b.made = which /\ b.owner = others /\ b.lastSeen = times /\ b.paint = pictures
        /\ b = [made |-> b.made, owner |-> b.owner, lastSeen |-> b.lastSeen, paint |-> b.paint]
    <2>1. b.made = which /\ b.owner = others /\ b.lastSeen = times /\ b.paint = pictures
      BY <1>7
    <2>2. QED
      BY <1>7, <2>1
  <1>9. /\ others \in [1 .. Slots -> Canvas!Cards \cup {Nothing}] /\ others[s] = card
        /\ times \in [1 .. Slots -> Nat] /\ times[s] = time
        /\ pictures \in [1 .. Slots -> Picture] /\ pictures[s] = shown
        /\ \A t \in 1 .. Slots : t # s => others[t] = owner[t] /\ times[t] = stamps[t] /\ pictures[t] = paint[t]
    BY <1>3, <1>4, <1>5, <1>6
  <1>10. \A t \in 1 .. Slots : owner[t] # card
    BY <1>2 DEF HasSlot
  <1>11. \A t, u \in 1 .. Slots : others[t] = others[u] /\ others[t] # Nothing => t = u
    BY <1>3, <1>9, <1>10
  <1>12. AtlasOK(b)
    BY <1>3, <1>8, <1>9, <1>11 DEF AtlasOK
  <1>13. QED
    BY <1>2, <1>8, <1>9, <1>12

\* While the cards in view have a slot each, the oldest slot is not one of this frame: else every
\* slot had another of the cards looked at before, and there were one card more.
LEMMA OldestIsFree ==
  ASSUME NEW a, AtlasOK(a), SeenBy(a, Canvas!Now), NEW card, ~HasSlot(a, card),
         NEW all, Fit(all), NEW cards, cards \cup {card} \subseteq all, Kept(a, cards), Nothing \notin all
  PROVE  a.lastSeen[Canvas!Oldest(a)] # Canvas!Now
  <1> SUFFICES ASSUME a.lastSeen[Canvas!Oldest(a)] = Canvas!Now
               PROVE  FALSE
    OBVIOUS
  <1>1. \A t \in 1 .. Slots : a.lastSeen[t] = Canvas!Now
    <2>1. PICK stamps \in [1 .. Slots -> Nat] : a.lastSeen = stamps
      BY DEF AtlasOK
    <2>2. \A t \in 1 .. Slots : Canvas!Now <= stamps[t] /\ stamps[t] <= Canvas!Now
      BY <2>1, OldestFacts DEF SeenBy
    <2>3. QED
      BY <2>1, <2>2, CanvasNumbers
  <1>2. \A t \in 1 .. Slots : a.owner[t] \in cards
    BY <1>1 DEF Kept
  <1>3. card \notin cards
    BY <1>1 DEF Kept, HasSlot
  <1>4. PICK rest : rest = all \ {card}
    OBVIOUS
  <1>5. IsFiniteSet(rest) /\ Cardinality(rest) = Cardinality(all) - 1 /\ Cardinality(all) \in Nat
    BY <1>4, FS_RemoveElement, FS_CardinalityType DEF Fit
  <1>6. PICK owner : owner = a.owner
    OBVIOUS
  <1>7. owner \in [1 .. Slots -> rest] /\ \A s, t \in 1 .. Slots : owner[s] = owner[t] => s = t
    <2>1. \A t \in 1 .. Slots : owner[t] \in rest /\ owner[t] # Nothing
      BY <1>2, <1>3, <1>4, <1>6
    <2>2. QED
      BY <1>6, <2>1 DEF AtlasOK
  <1>8. owner \in Injection(1 .. Slots, rest)
    BY <1>7 DEF Injection, IsInjective
  <1>9. Cardinality(1 .. Slots) <= Cardinality(rest)
    BY <1>5, <1>8, FS_Injection
  <1>10. Cardinality(1 .. Slots) = Slots
    BY CanvasNumbers, FS_Interval
  <1>11. QED
    BY <1>5, <1>9, <1>10, CanvasNumbers DEF Fit

LEMMA AcquireTakes ==
  ASSUME NEW f, FrameOK(f), NEW card \in Canvas!Cards, Canvas!SlotOf(f.atlas, card) = {}, theme \in {0, 1}
  PROVE  Follows(f, Canvas!acquire(f, card), card)
  <1>1. PICK a, loads : a = f.atlas /\ loads = f.loading
    OBVIOUS
  <1>2. AtlasOK(a) /\ SeenBy(a, Canvas!Now) /\ LoadsOK(loads) /\ Painted(a, loads, theme)
    BY <1>1 DEF FrameOK
  <1>3. ~HasSlot(a, card)
    BY <1>1 DEF HasSlot, Canvas!SlotOf
  <1>4. PICK s : s = Canvas!Oldest(a)
    OBVIOUS
  <1>5. s \in 1 .. Slots
    BY <1>2, <1>4, OldestFacts DEF AtlasOK
  <1>6. PICK shown : shown = Canvas!rasterCard(card, theme, FALSE)
    OBVIOUS
  <1>7. shown \in Picture /\ shown.card = card /\ shown.theme = theme
    BY <1>6 DEF Canvas!rasterCard, Picture
  <1>8. PICK now \in Nat : now = Canvas!Now
    BY CanvasNumbers
  <1>9. PICK b : b = Repainted(a, s, card, now, shown)
    OBVIOUS
  <1>10. /\ AtlasOK(b) /\ b.made = a.made
         /\ b.owner[s] = card /\ b.lastSeen[s] = now /\ b.paint[s] = shown
         /\ \A t \in 1 .. Slots : t # s =>
              b.owner[t] = a.owner[t] /\ b.lastSeen[t] = a.lastSeen[t] /\ b.paint[t] = a.paint[t]
    BY <1>2, <1>3, <1>5, <1>7, <1>9, RepaintOK
  <1>11. PICK more : more = loads \cup {<<card, s, a.made>>}
    OBVIOUS
  <1>12. PICK g : g = Canvas!acquire(f, card)
    OBVIOUS
  <1>13. g = [atlas |-> b, loading |-> more, fresh |-> TRUE]
    BY <1>1, <1>4, <1>6, <1>8, <1>9, <1>11, <1>12, Zenon DEF Canvas!acquire, Repainted
  <1>14. g.atlas = b /\ g.loading = more /\ g.fresh
    BY <1>13
  <1>15. LoadsOK(more)
    BY <1>2, <1>5, <1>11 DEF LoadsOK, AtlasOK
  <1>16. SeenBy(b, Canvas!Now)
    BY <1>2, <1>8, <1>10 DEF SeenBy
  <1>17. Painted(b, more, theme)
    <2> SUFFICES ASSUME NEW t \in 1 .. Slots, b.owner[t] # Nothing
                 PROVE  /\ b.paint[t].card = b.owner[t] /\ b.paint[t].theme = theme
                        /\ b.paint[t].images \/ <<b.owner[t], t, b.made>> \in more
      BY DEF Painted
    <2>1. CASE t = s
      <3>1. b.paint[t] = shown /\ b.owner[t] = card /\ b.made = a.made
        BY <1>10, <2>1
      <3>2. <<b.owner[t], t, b.made>> \in more
        BY <1>11, <2>1, <3>1
      <3>3. QED
        BY <1>7, <3>1, <3>2
    <2>2. CASE t # s
      <3>1. b.owner[t] = a.owner[t] /\ b.paint[t] = a.paint[t] /\ b.made = a.made
        BY <1>10, <2>2
      <3>2. /\ a.paint[t].card = a.owner[t] /\ a.paint[t].theme = theme
            /\ a.paint[t].images \/ <<a.owner[t], t, a.made>> \in loads
        BY <1>2, <3>1 DEF Painted
      <3>3. QED
        BY <1>11, <3>1, <3>2
    <2>3. QED
      BY <2>1, <2>2
  <1>18. FrameOK(g)
    <2>1. g = [atlas |-> g.atlas, loading |-> g.loading, fresh |-> g.fresh] /\ g.fresh \in BOOLEAN
      BY <1>13, <1>14
    <2>2. QED
      BY <1>10, <1>14, <1>15, <1>16, <1>17, <2>1 DEF FrameOK
  <1>19. ASSUME NEW cards, NEW all, Fit(all), cards \cup {card} \subseteq all, Nothing \notin all, Kept(a, cards)
         PROVE  Kept(b, cards \cup {card})
    <2>1. a.lastSeen[s] # now
      BY <1>2, <1>3, <1>4, <1>8, <1>19, OldestIsFree
    <2>2. ASSUME NEW c \in cards \cup {card}
          PROVE  \E t \in 1 .. Slots : b.owner[t] = c /\ b.lastSeen[t] = now
      <3>1. CASE c = card
        BY <1>5, <1>10, <3>1
      <3>2. CASE c # card
        <4>1. PICK t \in 1 .. Slots : a.owner[t] = c /\ a.lastSeen[t] = now
          BY <1>8, <1>19, <3>2 DEF Kept
        <4>2. QED
          BY <1>10, <2>1, <4>1
      <3>3. QED
        BY <3>1, <3>2
    <2>3. ASSUME NEW t \in 1 .. Slots, b.lastSeen[t] = now PROVE b.owner[t] \in cards \cup {card}
      BY <1>8, <1>10, <1>19, <2>3 DEF Kept
    <2>4. QED
      BY <1>8, <2>2, <2>3 DEF Kept
  <1>20. Follows(f, g, card)
    BY <1>1, <1>14, <1>18, <1>19 DEF Follows
  <1>21. QED
    BY <1>12, <1>20

LEMMA AcquireFollows ==
  ASSUME NEW f, FrameOK(f), NEW card \in Canvas!Cards, theme \in {0, 1}
  PROVE  Follows(f, Canvas!acquire(f, card), card)
  BY AcquireFinds, AcquireTakes

\* So does looking at a cell that is in view; others are not looked at.
InView(n) == Canvas!first(camera') + n <= Canvas!last(camera')
CardOf(n) == Canvas!cardIndexAt(Canvas!first(camera') + n)
LEMMA LookFollows ==
  ASSUME NEW f, FrameOK(f), NEW n \in {0, 1, 2}, theme \in {0, 1}, width \in {1, 3}, camera' \in Places
  PROVE  IF InView(n) THEN CardOf(n) \in Canvas!Cards /\ Follows(f, Canvas!Look(f, n), CardOf(n))
         ELSE Canvas!Look(f, n) = f
  <1>1. Canvas!first(camera') + n \in Int
    BY CellsInView
  <1>2. CardOf(n) \in Canvas!Cards
    BY <1>1, CanvasVisible DEF CardOf
  <1>3. Follows(f, Canvas!acquire(f, CardOf(n)), CardOf(n))
    BY <1>2, AcquireFollows
  <1>4. Canvas!Look(f, n) = IF InView(n) THEN Canvas!acquire(f, CardOf(n)) ELSE f
    BY Zenon DEF Canvas!Look, InView, CardOf
  <1>5. QED
    BY <1>2, <1>3, <1>4

-----------------------------------------------------------------------------
(* A frame. *)

\* What is in view after a frame.
LEMMA VisibleAfter ==
  ASSUME width \in {1, 3}, width' = width, camera' \in Places
  PROVE  /\ \A card : card \in Canvas!visibleCells' <=> \E n \in {0, 1, 2} : InView(n) /\ card = CardOf(n)
         /\ Canvas!visibleCells' \subseteq Canvas!Cards
  <1>1. PICK low, high : low = Canvas!first(camera') /\ high = Canvas!last(camera')
    OBVIOUS
  <1>2. /\ low \in Int /\ high \in Int
        /\ \A cell \in Int : cell \in low .. high <=> cell \in {low, low + 1, low + 2} /\ cell <= high
    BY <1>1, CellsInView
  <1>3. Canvas!visibleCells' = {Canvas!cardIndexAt(cell) : cell \in low .. high}
    BY <1>1 DEF Canvas!visibleCells, Canvas!first, Canvas!last
  <1>4. \A n : (InView(n) <=> low + n <= high) /\ CardOf(n) = Canvas!cardIndexAt(low + n)
    BY <1>1 DEF InView, CardOf
  <1>5. ASSUME NEW card
        PROVE  card \in Canvas!visibleCells' <=> \E n \in {0, 1, 2} : InView(n) /\ card = CardOf(n)
    <2>1. ASSUME card \in Canvas!visibleCells'
          PROVE  \E n \in {0, 1, 2} : InView(n) /\ card = CardOf(n)
      <3>1. PICK cell \in low .. high : card = Canvas!cardIndexAt(cell)
        BY <1>3, <2>1
      <3>2. PICK n \in {0, 1, 2} : cell = low + n /\ cell <= high
        BY <1>2
      <3>3. QED
        BY <1>4, <3>1, <3>2
    <2>2. ASSUME NEW n \in {0, 1, 2}, InView(n), card = CardOf(n)
          PROVE  card \in Canvas!visibleCells'
      <3>1. low + n \in low .. high
        BY <1>2, <1>4, <2>2
      <3>2. QED
        BY <1>3, <1>4, <2>2, <3>1
    <2>3. QED
      BY <2>1, <2>2
  <1>6. Canvas!visibleCells' \subseteq Canvas!Cards
    <2>1. \A cell \in low .. high : Canvas!cardIndexAt(cell) \in Canvas!Cards
      BY <1>2, CanvasVisible
    <2>2. QED
      BY <1>3, <2>1
  <1>7. QED
    BY <1>5, <1>6

With(cards, n) == IF InView(n) THEN cards \cup {CardOf(n)} ELSE cards

LEMMA LookKeeps ==
  ASSUME NEW f, FrameOK(f), NEW n \in {0, 1, 2}, theme \in {0, 1}, width \in {1, 3}, camera' \in Places,
         NEW g, g = Canvas!Look(f, n)
  PROVE  /\ FrameOK(g)
         /\ ~g.fresh => ~f.fresh /\ g.atlas.owner = f.atlas.owner /\ (InView(n) => HasSlot(f.atlas, CardOf(n)))
         /\ \A cards, all : Fit(all) /\ With(cards, n) \subseteq all /\ Nothing \notin all /\ Kept(f.atlas, cards) =>
              Kept(g.atlas, With(cards, n))
  <1>1. CASE InView(n)
    <2>1. Follows(f, g, CardOf(n))
      BY <1>1, LookFollows
    <2>2. \A cards : With(cards, n) = cards \cup {CardOf(n)}
      BY <1>1 DEF With
    <2>3. QED
      BY <2>1, <2>2 DEF Follows
  <1>2. CASE ~InView(n)
    <2>1. g = f
      BY <1>2, LookFollows
    <2>2. \A cards : With(cards, n) = cards
      BY <1>2 DEF With
    <2>3. QED
      BY <1>2, <2>1, <2>2
  <1>3. QED
    BY <1>1, <1>2

\* Where the grid is after a frame.
LEMMA AdvanceMoves ==
  ASSUME CanvasTypes, Canvas!Advance
  PROVE  /\ camera' \in Places /\ speed' \in Int /\ tween' \in Places \cup {Nothing}
         /\ tween = Nothing /\ speed = 0 => UNCHANGED Canvas!motion
  <1>1. camera \in Int /\ speed \in Int /\ camera \in Places /\ tween \in Places \cup {Nothing} /\ 0 \in Int
    BY PlacesFacts DEF CanvasTypes
  <1>2. \A by \in Int : Canvas!Moved(by) \in Places
    BY <1>1, PlacesFacts DEF Canvas!Moved
  <1>3. CASE tween # Nothing
    <2>1. Canvas!Toward(tween) \in Int
      BY DEF Canvas!Toward
    <2>2. camera' \in Places /\ tween' \in {Nothing, tween} /\ speed' = speed
      BY <1>1, <1>2, <1>3, <2>1 DEF Canvas!Advance
    <2>3. QED
      BY <1>1, <1>3, <2>2
  <1>4. CASE tween = Nothing /\ speed # 0
    <2>1. camera' \in Places
      BY <1>2, <1>4 DEF Canvas!Advance
    <2>2. speed' \in Int
      BY <1>1, <1>4 DEF Canvas!Advance, Canvas!Slower
    <2>3. tween' = tween
      BY <1>4 DEF Canvas!Advance
    <2>4. QED
      BY <1>1, <1>4, <2>1, <2>2, <2>3
  <1>5. CASE tween = Nothing /\ speed = 0
    BY <1>1, <1>5 DEF Canvas!Advance, Canvas!motion
  <1>6. QED
    BY <1>3, <1>4, <1>5

\* After a frame all cards in view have slots if there are enough, or if it took none for another.
LEMMA FrameDraws ==
  ASSUME CanvasInv, Canvas!render, camera' \in Places
  PROVE  /\ AtlasOK(atlas') /\ SeenBy(atlas', Slots) /\ LoadsOK(loading') /\ Painted(atlas', loading', theme)
         /\ raf' \in BOOLEAN
         /\ ~raf' \/ Canvas!Fits' => \A card \in Canvas!visibleCells' : HasSlot(atlas', card)
  <1>1. PICK f, g, h : /\ f = Canvas!Look(Canvas!Blank, 0) /\ g = Canvas!Look(f, 1) /\ h = Canvas!Look(g, 2)
                       /\ atlas' = Canvas!Renumbered(h.atlas) /\ loading' = h.loading
                       /\ raf' = (h.fresh \/ tween # Nothing \/ speed # 0 \/ ~eased)
    BY DEF Canvas!render
  <1>2. width' = width /\ width \in {1, 3} /\ theme \in {0, 1}
    BY DEF Canvas!render, CanvasInv, CanvasTypes
  <1>3. PICK blank : blank = [atlas |-> atlas, loading |-> loading, fresh |-> FALSE]
    OBVIOUS
  <1>4. blank.atlas = atlas /\ blank.loading = loading /\ ~blank.fresh /\ blank = Canvas!Blank
    BY <1>3 DEF Canvas!Blank
  <1>5. FrameOK(blank)
    <2>1. SeenBy(atlas, Canvas!Now)
      <3>1. PICK stamps \in [1 .. Slots -> Nat] : atlas.lastSeen = stamps
        BY DEF CanvasInv, CanvasTypes, AtlasOK
      <3>2. QED
        BY <3>1, CanvasNumbers DEF CanvasInv, CanvasTypes, SeenBy
    <2>2. blank = [atlas |-> blank.atlas, loading |-> blank.loading, fresh |-> blank.fresh]
          /\ blank.fresh \in BOOLEAN
      BY <1>3, <1>4
    <2>3. QED
      BY <1>4, <2>1, <2>2 DEF FrameOK, CanvasInv, CanvasTypes
  <1>6. /\ FrameOK(f)
        /\ ~f.fresh => f.atlas.owner = atlas.owner /\ (InView(0) => HasSlot(atlas, CardOf(0)))
        /\ \A cards, all : Fit(all) /\ With(cards, 0) \subseteq all /\ Nothing \notin all /\ Kept(atlas, cards) =>
             Kept(f.atlas, With(cards, 0))
    BY <1>1, <1>2, <1>4, <1>5, LookKeeps
  <1>7. /\ FrameOK(g)
        /\ ~g.fresh => ~f.fresh /\ g.atlas.owner = f.atlas.owner /\ (InView(1) => HasSlot(f.atlas, CardOf(1)))
        /\ \A cards, all : Fit(all) /\ With(cards, 1) \subseteq all /\ Nothing \notin all /\ Kept(f.atlas, cards) =>
             Kept(g.atlas, With(cards, 1))
    BY <1>1, <1>2, <1>6, LookKeeps
  <1>8. /\ FrameOK(h)
        /\ ~h.fresh => ~g.fresh /\ h.atlas.owner = g.atlas.owner /\ (InView(2) => HasSlot(g.atlas, CardOf(2)))
        /\ \A cards, all : Fit(all) /\ With(cards, 2) \subseteq all /\ Nothing \notin all /\ Kept(g.atlas, cards) =>
             Kept(h.atlas, With(cards, 2))
    BY <1>1, <1>2, <1>7, LookKeeps
  <1>9. /\ AtlasOK(atlas') /\ SeenBy(atlas', Slots) /\ LoadsOK(loading') /\ Painted(atlas', loading', theme)
        /\ atlas'.owner = h.atlas.owner
    <2>1. AtlasOK(h.atlas) /\ LoadsOK(h.loading) /\ Painted(h.atlas, h.loading, theme)
      BY <1>8 DEF FrameOK
    <2>2. QED
      BY <1>1, <2>1, RenumberedOK
  <1>10. raf' \in BOOLEAN
    BY <1>1, Zenon
  <1>11. PICK around : around = Canvas!visibleCells'
    OBVIOUS
  <1>12. /\ \A card : card \in around <=> \E n \in {0, 1, 2} : InView(n) /\ card = CardOf(n)
         /\ around \subseteq Canvas!Cards
    BY <1>2, <1>11, VisibleAfter
  <1>13. ASSUME ~raf' PROVE \A card \in around : HasSlot(atlas', card)
    <2>1. ~h.fresh
      BY <1>1, <1>13
    <2>2. \A n \in {0, 1, 2} : InView(n) => HasSlot(atlas', CardOf(n))
      BY <1>6, <1>7, <1>8, <1>9, <2>1 DEF HasSlot
    <2>3. QED
      BY <1>12, <2>2
  <1>14. ASSUME Canvas!Fits' PROVE \A card \in around : HasSlot(atlas', card)
    <2>1. Fit(around) /\ Nothing \notin around
      <3>1. IsFiniteSet(Canvas!Cards)
        BY FS_Interval, CanvasNumbers DEF Canvas!Cards
      <3>2. Canvas!Cardinality(around) <= Slots
        BY <1>11, <1>14 DEF Canvas!Fits
      <3>3. QED
        BY <1>12, <3>1, <3>2, CanvasNumber, FS_Subset, PlacesFacts DEF Fit
    <2>2. PICK one, two, three : one = With({}, 0) /\ two = With(one, 1) /\ three = With(two, 2)
      OBVIOUS
    <2>3. one \subseteq two /\ two \subseteq three /\ \A card : card \in around <=> card \in three
      <3>1. /\ \A card : card \in one <=> InView(0) /\ card = CardOf(0)
            /\ \A card : card \in two <=> card \in one \/ (InView(1) /\ card = CardOf(1))
            /\ \A card : card \in three <=> card \in two \/ (InView(2) /\ card = CardOf(2))
        BY <2>2 DEF With
      <3>2. QED
        BY <1>12, <3>1
    <2>4. Kept(atlas, {})
      <3>1. PICK stamps \in [1 .. Slots -> Nat] : atlas.lastSeen = stamps
        BY DEF CanvasInv, CanvasTypes, AtlasOK
      <3>2. \A s \in 1 .. Slots : stamps[s] # Canvas!Now
        BY <3>1, CanvasNumbers DEF CanvasInv, CanvasTypes, SeenBy
      <3>3. QED
        BY <3>1, <3>2 DEF Kept
    <2>5. Kept(f.atlas, one)
      BY <1>6, <2>1, <2>2, <2>3, <2>4
    <2>6. Kept(g.atlas, two)
      BY <1>7, <2>1, <2>2, <2>3, <2>5
    <2>7. Kept(h.atlas, three)
      BY <1>8, <2>1, <2>2, <2>3, <2>6
    <2>8. QED
      BY <1>9, <2>3, <2>7 DEF Kept, HasSlot
  <1>15. QED
    BY <1>9, <1>10, <1>11, <1>13, <1>14

LEMMA renderStep ==
  ASSUME CanvasInv, Canvas!render
  PROVE  CanvasInv'
  <1>0. Canvas!Advance /\ UNCHANGED <<width, theme, press, opened, allowed>>
    BY DEF Canvas!render, Canvas!user
  <1>1. /\ camera' \in Places /\ speed' \in Int /\ tween' \in Places \cup {Nothing}
        /\ tween = Nothing /\ speed = 0 => UNCHANGED Canvas!motion
    BY <1>0, AdvanceMoves DEF CanvasInv
  <1>2. /\ AtlasOK(atlas') /\ SeenBy(atlas', Slots) /\ LoadsOK(loading') /\ Painted(atlas', loading', theme)
        /\ raf' \in BOOLEAN
        /\ ~raf' => \A card \in Canvas!visibleCells' : HasSlot(atlas', card)
    BY <1>1, FrameDraws
  <1>3. CanvasTypes'
    BY <1>0, <1>1, <1>2 DEF CanvasInv, CanvasTypes
  <1>4. Drawn'
    BY <1>2 DEF Drawn
  <1>5. Held'
    <2>1. SUFFICES ASSUME press # Nothing, ~press.moved, ~press.long, allowed # Canvas!Cards
                   PROVE  tween' = Nothing /\ speed' = 0 /\ allowed = Canvas!CardsNear(press.at)'
      BY <1>0 DEF Held
    <2>2. tween = Nothing /\ speed = 0 /\ allowed = Canvas!CardsNear(press.at)
      BY <2>1 DEF CanvasInv, Held
    <2>3. camera' = camera /\ tween' = tween /\ speed' = speed
      BY <1>1, <2>2 DEF Canvas!motion
    <2>4. QED
      BY <1>0, <2>2, <2>3 DEF Canvas!CardsNear, Canvas!cardAt
  <1>6. QED
    BY <1>0, <1>2, <1>3, <1>4, <1>5 DEF CanvasInv

-----------------------------------------------------------------------------
(* The steps. *)

\* What the press says stays true while the grid does.
LEMMA HeldStays ==
  ASSUME Held, UNCHANGED <<Canvas!motion, Canvas!user>>
  PROVE  Held'
  BY DEF Held, Canvas!motion, Canvas!user, Canvas!CardsNear, Canvas!cardAt

LEMMA ImagesComeStep ==
  ASSUME CanvasInv, NEW load \in loading, Canvas!ImagesCome(load)
  PROVE  CanvasInv'
  <1>0. /\ loading' = loading \ {load}
        /\ UNCHANGED <<width, theme, eased, inputs, Canvas!motion, Canvas!user>>
        /\ UNCHANGED <<camera, speed, tween, press, opened, allowed>>
    BY DEF Canvas!ImagesCome, Canvas!motion, Canvas!user
  <1>1. PICK card \in Canvas!Cards, s \in 1 .. Slots, n \in {0, 1} : load = <<card, s, n>>
    BY DEF CanvasInv, CanvasTypes, LoadsOK
  <1>2. load[1] = card /\ load[2] = s /\ load[3] = n
    BY <1>1
  <1>3. LoadsOK(loading')
    BY <1>0 DEF CanvasInv, CanvasTypes, LoadsOK
  <1>4. Held'
    BY <1>0, HeldStays DEF CanvasInv
  <1>5. CASE Canvas!holds(atlas, load)
    <2>1. atlas.made = n /\ atlas.owner[s] = card
      BY <1>2, <1>5 DEF Canvas!holds
    <2>2. PICK shown : shown = Canvas!rasterCard(card, theme, TRUE)
      OBVIOUS
    <2>3. shown \in Picture /\ shown.card = card /\ shown.theme = theme /\ shown.images
      BY <2>2 DEF Canvas!rasterCard, Picture, CanvasInv, CanvasTypes
    <2>4. atlas' = [atlas EXCEPT !.paint[s] = shown] /\ raf' = TRUE
      BY <1>2, <1>5, <2>2, Zenon DEF Canvas!ImagesCome, Canvas!invalidate
    <2>5. PICK which, owner, stamps, paint :
            atlas = [made |-> which, owner |-> owner, lastSeen |-> stamps, paint |-> paint]
      BY DEF CanvasInv, CanvasTypes, AtlasOK
    <2>6. /\ which \in {0, 1} /\ stamps \in [1 .. Slots -> Nat]
          /\ owner \in [1 .. Slots -> Canvas!Cards \cup {Nothing}] /\ paint \in [1 .. Slots -> Picture]
          /\ \A t, u \in 1 .. Slots : owner[t] = owner[u] /\ owner[t] # Nothing => t = u
      BY <2>5 DEF CanvasInv, CanvasTypes, AtlasOK
    <2>7. PICK b : b = atlas'
      OBVIOUS
    <2>8. b = [made |-> which, owner |-> owner, lastSeen |-> stamps, paint |-> [paint EXCEPT ![s] = shown]]
      BY <2>4, <2>5, <2>7
    <2>9. /\ b.made = which /\ b.lastSeen = stamps /\ b.owner = owner
          /\ b.paint = [paint EXCEPT ![s] = shown]
      BY <2>8
    <2>10. b = [made |-> b.made, owner |-> b.owner, lastSeen |-> b.lastSeen, paint |-> b.paint]
      BY <2>8, <2>9
    <2>11. [paint EXCEPT ![s] = shown] \in [1 .. Slots -> Picture]
      BY <2>3, <2>6
    <2>12. AtlasOK(b)
      BY <2>6, <2>9, <2>10, <2>11 DEF AtlasOK
    <2>13. atlas.made = which /\ atlas.owner = owner /\ atlas.paint = paint
      BY <2>5
    <2>14. Painted(b, loading', theme)
      <3> SUFFICES ASSUME NEW t \in 1 .. Slots, b.owner[t] # Nothing
                   PROVE  /\ b.paint[t].card = b.owner[t] /\ b.paint[t].theme = theme
                          /\ b.paint[t].images \/ <<b.owner[t], t, b.made>> \in loading'
        BY DEF Painted
      <3>1. CASE t = s
        BY <2>1, <2>3, <2>6, <2>9, <2>13, <3>1
      <3>2. CASE t # s
        <4>1. b.owner[t] = atlas.owner[t] /\ b.paint[t] = atlas.paint[t] /\ b.made = atlas.made
          BY <2>6, <2>9, <2>13, <3>2
        <4>2. /\ atlas.paint[t].card = atlas.owner[t] /\ atlas.paint[t].theme = theme
              /\ atlas.paint[t].images \/ <<atlas.owner[t], t, atlas.made>> \in loading
          BY <4>1 DEF Painted, CanvasInv
        <4>3. <<atlas.owner[t], t, atlas.made>> # load
          BY <1>1, <3>2
        <4>4. QED
          BY <1>0, <4>1, <4>2, <4>3
      <3>3. QED
        BY <3>1, <3>2
    <2>15. CanvasTypes'
      <3>1. SeenBy(b, Slots)
        BY <2>5, <2>9 DEF SeenBy, CanvasInv, CanvasTypes
      <3>2. QED
        BY <1>0, <1>3, <2>4, <2>7, <2>12, <3>1 DEF CanvasInv, CanvasTypes
    <2>16. Drawn'
      BY <2>4 DEF Drawn
    <2>17. QED
      BY <1>0, <1>4, <2>7, <2>14, <2>15, <2>16 DEF CanvasInv
  <1>6. CASE ~Canvas!holds(atlas, load)
    <2>1. UNCHANGED <<atlas, raf>>
      BY <1>6 DEF Canvas!ImagesCome
    <2>2. CanvasTypes'
      BY <1>0, <1>3, <2>1 DEF CanvasInv, CanvasTypes
    <2>3. Painted(atlas, loading', theme)
      <3> SUFFICES ASSUME NEW t \in 1 .. Slots, atlas.owner[t] # Nothing
                   PROVE  /\ atlas.paint[t].card = atlas.owner[t] /\ atlas.paint[t].theme = theme
                          /\ atlas.paint[t].images \/ <<atlas.owner[t], t, atlas.made>> \in loading'
        BY DEF Painted
      <3>1. <<atlas.owner[t], t, atlas.made>> # load
        BY <1>2, <1>6 DEF Canvas!holds
      <3>2. QED
        BY <1>0, <3>1 DEF Painted, CanvasInv
    <2>4. Drawn'
      BY <1>0, <2>1 DEF Drawn, CanvasInv, Canvas!visibleCells, Canvas!first, Canvas!last, HasSlot
    <2>5. QED
      BY <1>0, <1>4, <2>1, <2>2, <2>3, <2>4 DEF CanvasInv
  <1>7. QED
    BY <1>5, <1>6

\* The whole texture is painted anew.
LEMMA rethemeStep ==
  ASSUME CanvasInv, Canvas!retheme
  PROVE  CanvasInv'
  <1>0. /\ theme' = 1 - theme /\ atlas' = Canvas!Empty(atlas.made) /\ raf' = TRUE
        /\ UNCHANGED <<width, loading, eased, Canvas!motion, Canvas!user>>
        /\ UNCHANGED <<camera, speed, tween, press, opened, allowed>>
    BY DEF Canvas!retheme, Canvas!reset, Canvas!invalidate, Canvas!motion, Canvas!user
  <1>1. theme' \in {0, 1}
    BY <1>0 DEF CanvasInv, CanvasTypes
  <1>2. atlas.made \in {0, 1}
    BY DEF CanvasInv, CanvasTypes, AtlasOK
  <1>3. /\ AtlasOK(Canvas!Empty(atlas.made)) /\ SeenBy(Canvas!Empty(atlas.made), Slots)
        /\ Painted(Canvas!Empty(atlas.made), loading', theme')
    BY <1>2, EmptyOK
  <1>4. CanvasTypes'
    BY <1>0, <1>1, <1>3 DEF CanvasInv, CanvasTypes
  <1>5. Held'
    BY <1>0, HeldStays DEF CanvasInv
  <1>6. QED
    BY <1>0, <1>3, <1>4, <1>5 DEF CanvasInv, Drawn

\* Anything may be opened once the grid has moved on its own.
LEMMA Unsettled ==
  ASSUME Held, Canvas!Unsettle, press' = press
  PROVE  Held'
  <1>1. Canvas!Cards # {}
    BY CanvasGiven DEF Canvas!AtlasAssumption, Canvas!Cards
  <1>2. SUFFICES ASSUME press # Nothing, ~press.moved, ~press.long
                 PROVE  allowed' = Canvas!Cards
    BY DEF Held
  <1>3. allowed # {}
    BY <1>1, <1>2 DEF Held, Canvas!CardsNear
  <1>4. QED
    BY <1>3 DEF Canvas!Unsettle

LEMMA resizeStep ==
  ASSUME CanvasInv, Canvas!resize
  PROVE  CanvasInv'
  <1>0. /\ raf' = TRUE /\ Canvas!Unsettle /\ width' \in {1, 3}
        /\ UNCHANGED <<theme, camera, speed, tween, press>>
    BY DEF Canvas!resize, Canvas!invalidate, Canvas!motion, Canvas!Widths
  <1>1. Held'
    BY <1>0, Unsettled DEF CanvasInv
  <1>2. Drawn'
    BY <1>0 DEF Drawn
  <1>3. PICK n \in {0, 1} : atlas' = Canvas!Empty(n)
    <2>1. atlas.made \in {0, 1} /\ 1 - atlas.made \in {0, 1}
      BY DEF CanvasInv, CanvasTypes, AtlasOK
    <2>2. atlas' = Canvas!Empty(1 - atlas.made) \/ atlas' = Canvas!Empty(atlas.made)
      BY DEF Canvas!resize, Canvas!reset
    <2>3. QED
      BY <2>1, <2>2
  <1>4. AtlasOK(atlas') /\ SeenBy(atlas', Slots) /\ Painted(atlas', loading', theme)
    BY <1>3, EmptyOK
  <1>5. LoadsOK(loading')
    BY DEF Canvas!resize, CanvasInv, CanvasTypes, LoadsOK
  <1>6. CanvasTypes'
    BY <1>0, <1>4, <1>5 DEF CanvasInv, CanvasTypes
  <1>7. QED
    BY <1>0, <1>1, <1>2, <1>4, <1>6 DEF CanvasInv

\* What leaves the texture alone and asks for a frame, or leaves the view alone, draws nothing wrong.
LEMMA PictureStays ==
  ASSUME CanvasInv, UNCHANGED <<width, theme, Canvas!picture>>, raf' \/ UNCHANGED <<raf, camera>>,
         raf' \in BOOLEAN, camera' \in Places, speed' \in Int, tween' \in Places \cup {Nothing},
         press' \in Presses \cup {Nothing}, Held'
  PROVE  CanvasInv'
  <1>1. CanvasTypes'
    BY DEF CanvasInv, CanvasTypes, Canvas!picture
  <1>2. Drawn'
    BY DEF CanvasInv, Drawn, Canvas!picture, Canvas!visibleCells, Canvas!first, Canvas!last, HasSlot
  <1>3. Painted(atlas, loading, theme)'
    BY DEF CanvasInv, Canvas!picture
  <1>4. QED
    BY <1>1, <1>2, <1>3 DEF CanvasInv

LEMMA UserFacts ==
  ASSUME CanvasInv
  PROVE  /\ raf \in BOOLEAN /\ camera \in Places /\ speed \in Int /\ tween \in Places \cup {Nothing}
         /\ press \in Presses \cup {Nothing} /\ camera \in Int /\ 0 \in Int
         /\ \A by \in Int : Canvas!Moved(by) \in Places
  <1>1. camera \in Places /\ camera \in Int
    BY PlacesFacts DEF CanvasInv, CanvasTypes
  <1>2. \A by \in Int : Canvas!Moved(by) \in Places
    BY <1>1, PlacesFacts DEF Canvas!Moved
  <1>3. QED
    BY <1>1, <1>2 DEF CanvasInv, CanvasTypes

LEMMA onPointerDownStep ==
  ASSUME CanvasInv, NEW point \in 0 .. width - 1, Canvas!onPointerDown(point)
  PROVE  CanvasInv'
  <1>1. point \in {0, 1, 2}
    BY DEF CanvasInv, CanvasTypes
  <1>2. press' = [at |-> point, moved |-> FALSE, long |-> FALSE]
    BY DEF Canvas!onPointerDown
  <1>3. press' \in Presses
    BY <1>1, <1>2 DEF Presses
  <1>4. /\ UNCHANGED <<width, theme, raf, camera, Canvas!picture>> /\ tween' = Nothing /\ speed' = 0
        /\ allowed' = Canvas!CardsNear(point)
    BY DEF Canvas!onPointerDown
  <1>5. press'.at = point
    BY <1>2
  <1>6. Held'
    BY <1>4, <1>5 DEF Held, Canvas!CardsNear, Canvas!cardAt
  <1>7. QED
    BY <1>3, <1>4, <1>6, UserFacts, PictureStays

LEMMA HoldLongStep ==
  ASSUME CanvasInv, Canvas!HoldLong
  PROVE  CanvasInv'
  <1>1. /\ UNCHANGED <<width, theme, raf, camera, speed, tween, Canvas!picture>>
        /\ press # Nothing /\ press' = [press EXCEPT !.long = TRUE]
    BY DEF Canvas!HoldLong, Canvas!motion
  <1>2. press \in Presses
    BY <1>1, UserFacts
  <1>3. press' \in Presses /\ press'.long
    BY <1>1, <1>2 DEF Presses
  <1>4. Held'
    BY <1>3 DEF Held
  <1>5. QED
    BY <1>1, <1>3, <1>4, UserFacts, PictureStays

LEMMA DragByStep ==
  ASSUME CanvasInv, NEW step \in {-1, 1}, Canvas!DragBy(step)
  PROVE  CanvasInv'
  <1>1. /\ UNCHANGED <<width, theme, tween, Canvas!picture>> /\ raf' = TRUE
        /\ press # Nothing /\ press' = [press EXCEPT !.moved = TRUE]
        /\ camera' = Canvas!Moved(-step) /\ speed' = 2 * step
    BY DEF Canvas!DragBy, Canvas!invalidate
  <1>2. press \in Presses
    BY <1>1, UserFacts
  <1>3. press' \in Presses /\ press'.moved
    BY <1>1, <1>2 DEF Presses
  <1>4. Held'
    BY <1>3 DEF Held
  <1>5. -step \in Int /\ speed' \in Int
    BY <1>1
  <1>6. camera' \in Places
    BY <1>1, <1>5, UserFacts
  <1>7. QED
    BY <1>1, <1>3, <1>4, <1>5, <1>6, UserFacts, PictureStays

LEMMA HoverStep ==
  ASSUME CanvasInv, Canvas!Hover
  PROVE  CanvasInv'
  <1>1. /\ UNCHANGED <<width, theme, Canvas!motion, Canvas!picture, Canvas!user>> /\ raf' = TRUE
        /\ UNCHANGED <<camera, speed, tween, press>>
    BY DEF Canvas!Hover, Canvas!invalidate, Canvas!motion, Canvas!user
  <1>2. Held'
    BY <1>1, HeldStays DEF CanvasInv
  <1>3. QED
    BY <1>1, <1>2, UserFacts, PictureStays

LEMMA onPointerUpStep ==
  ASSUME CanvasInv, NEW up \in BOOLEAN, Canvas!onPointerUp(up)
  PROVE  CanvasInv'
  <1>1. /\ UNCHANGED <<width, theme, camera, tween, Canvas!picture>> /\ raf' = TRUE /\ press' = Nothing
    BY DEF Canvas!onPointerUp, Canvas!invalidate
  <1>2. speed' \in {0, speed}
    BY DEF Canvas!onPointerUp
  <1>3. speed' \in Int
    BY <1>2, UserFacts
  <1>4. Held'
    BY <1>1 DEF Held
  <1>5. QED
    BY <1>1, <1>3, <1>4, UserFacts, PictureStays

LEMMA onWheelStep ==
  ASSUME CanvasInv, NEW step \in {-1, 1}, Canvas!onWheel(step)
  PROVE  CanvasInv'
  <1>1. /\ UNCHANGED <<width, theme, Canvas!picture, press>> /\ raf' = TRUE /\ tween' = Nothing /\ speed' = 0
        /\ camera' = Canvas!Moved(step) /\ Canvas!Unsettle
    BY DEF Canvas!onWheel, Canvas!invalidate
  <1>2. Held'
    BY <1>1, Unsettled DEF CanvasInv
  <1>3. camera' \in Places
    BY <1>1, UserFacts
  <1>4. QED
    BY <1>1, <1>2, <1>3, UserFacts, PictureStays

LEMMA focusCardStep ==
  ASSUME CanvasInv, NEW card \in Canvas!Cards, Canvas!focusCard(card)
  PROVE  CanvasInv'
  <1>1. /\ UNCHANGED <<width, theme, camera, Canvas!picture, press>> /\ raf' = TRUE /\ tween' = 2 * card
        /\ speed' = 0 /\ Canvas!Unsettle
    BY DEF Canvas!focusCard, Canvas!invalidate
  <1>2. Held'
    BY <1>1, Unsettled DEF CanvasInv
  <1>3. QED
    BY <1>1, <1>2, UserFacts, PlacesFacts, PictureStays

LEMMA InitCanvasInv == Canvas!Init => CanvasInv
  <1> SUFFICES ASSUME Canvas!Init PROVE CanvasInv
    OBVIOUS
  <1>1. /\ width = 3 /\ theme = 0 /\ camera = 0 /\ atlas = Canvas!Empty(0) /\ loading = {}
        /\ raf = TRUE /\ speed = 0 /\ tween = Nothing /\ press = Nothing
    BY DEF Canvas!Init
  <1>2. AtlasOK(Canvas!Empty(0)) /\ SeenBy(Canvas!Empty(0), Slots) /\ Painted(Canvas!Empty(0), {}, 0)
    BY EmptyOK
  <1>3. CanvasTypes
    BY <1>1, <1>2, PlacesFacts DEF CanvasTypes, LoadsOK
  <1>4. QED
    BY <1>1, <1>2, <1>3 DEF CanvasInv, Drawn, Held

LEMMA NextCanvasInv == CanvasInv /\ [Canvas!Next]_(Canvas!atlasVars) => CanvasInv'
  <1> SUFFICES ASSUME CanvasInv, [Canvas!Next]_(Canvas!atlasVars) PROVE CanvasInv'
    OBVIOUS
  <1>1. CASE UNCHANGED Canvas!atlasVars
    <2>1. /\ UNCHANGED <<width, theme, raf, camera, speed, tween, press, Canvas!picture, Canvas!motion, Canvas!user>>
      BY <1>1 DEF Canvas!atlasVars, Canvas!motion, Canvas!user
    <2>2. Held'
      BY <2>1, HeldStays DEF CanvasInv
    <2>3. QED
      BY <2>1, <2>2, UserFacts, PictureStays
  <1>2. CASE Canvas!Browser
    BY <1>2, renderStep, ImagesComeStep DEF Canvas!Browser
  <1>3. CASE Canvas!retheme \/ Canvas!resize \/ Canvas!Hover \/ Canvas!HoldLong
    BY <1>3, rethemeStep, resizeStep, HoverStep, HoldLongStep
  <1>4. CASE \E point \in 0 .. width - 1 : Canvas!onPointerDown(point)
    BY <1>4, onPointerDownStep
  <1>5. CASE \E step \in {-1, 1} : Canvas!onWheel(step) \/ Canvas!DragBy(step)
    BY <1>5, onWheelStep, DragByStep
  <1>6. CASE \E up \in BOOLEAN : Canvas!onPointerUp(up)
    BY <1>6, onPointerUpStep
  <1>7. CASE \E card \in Canvas!Cards : Canvas!focusCard(card)
    BY <1>7, focusCardStep
  <1>8. QED
    BY <1>1, <1>2, <1>3, <1>4, <1>5, <1>6, <1>7 DEF Canvas!Next

\* Where every card in view has a slot, the canvas shows it.
LEMMA RestShows == CanvasInv => (~raf => Canvas!Shown)
  <1> SUFFICES ASSUME CanvasInv, ~raf PROVE Canvas!Shown
    OBVIOUS
  <1>1. \A card \in Canvas!visibleCells : HasSlot(atlas, card)
    BY DEF CanvasInv, Drawn
  <1>2. Canvas!visibleCells \subseteq Canvas!Cards
    BY CanvasVisible DEF Canvas!visibleCells
  <1>3. QED
    BY <1>1, <1>2, PlacesFacts DEF CanvasInv, Painted, HasSlot, Canvas!Shown, Canvas!SlotOf

Frames == Canvas!render /\ Canvas!Fits' => Canvas!Shown'
LEMMA FrameShows == CanvasInv /\ [Canvas!Next]_(Canvas!atlasVars) => [Frames]_(Canvas!atlasVars)
  <1> SUFFICES ASSUME CanvasInv, Canvas!render, Canvas!Fits' PROVE Canvas!Shown'
    BY DEF Frames
  <1>1. camera' \in Places
    BY renderStep DEF CanvasInv, CanvasTypes
  <1>2. \A card \in Canvas!visibleCells' : HasSlot(atlas', card)
    BY <1>1, FrameDraws
  <1>3. Painted(atlas', loading', theme)
    BY <1>1, FrameDraws
  <1>4. theme' = theme /\ Canvas!visibleCells' \subseteq Canvas!Cards
    BY <1>1, VisibleAfter DEF Canvas!render, CanvasInv, CanvasTypes
  <1>5. QED
    BY <1>2, <1>3, <1>4, PlacesFacts DEF Painted, HasSlot, Canvas!Shown, Canvas!SlotOf

\* However the visitor moves, resizes and changes themes, and however late images come, the canvas
\* shows in every cell its own card: at rest, and in a frame that has a slot for each card in view.
LEMMA ShowsCards ==
  Canvas!Init /\ [][Canvas!Next]_(Canvas!atlasVars) =>
    Canvas!ShowsItsCards
  <1>1. Canvas!Init => CanvasInv
    BY InitCanvasInv
  <1>2. CanvasInv /\ [Canvas!Next]_(Canvas!atlasVars) => CanvasInv'
    BY NextCanvasInv
  <1>3. CanvasInv => (~raf => Canvas!Shown)
    BY RestShows
  <1>4. CanvasInv /\ [Canvas!Next]_(Canvas!atlasVars) => [Frames]_(Canvas!atlasVars)
    BY FrameShows
  <1>5. Canvas!Init /\ [][Canvas!Next]_(Canvas!atlasVars) =>
          [](~raf => Canvas!Shown) /\ [][Frames]_(Canvas!atlasVars)
    BY <1>1, <1>2, <1>3, <1>4, PTL
  <1>6. QED
    BY <1>5 DEF Canvas!ShowsItsCards, Frames

Pressed == opened' \notin {opened, Nothing} => opened' \in allowed

LEMMA PressedStep == CanvasInv /\ [Canvas!Next]_(Canvas!atlasVars) => [Pressed]_(Canvas!atlasVars)
  <1> SUFFICES ASSUME CanvasInv, [Canvas!Next]_(Canvas!atlasVars), opened' \notin {opened, Nothing}
               PROVE  opened' \in allowed
    BY DEF Pressed
  <1>1. PICK up \in BOOLEAN : Canvas!onPointerUp(up)
    BY DEF Canvas!Next, Canvas!Browser, Canvas!render, Canvas!ImagesCome, Canvas!retheme,
       Canvas!resize, Canvas!Hover, Canvas!HoldLong, Canvas!onPointerDown,
       Canvas!onWheel, Canvas!DragBy, Canvas!focusCard, Canvas!atlasVars, Canvas!user
  <1>2. press # Nothing /\ ~press.moved /\ ~press.long /\ opened' \in Canvas!CardsNear(press.at)
    BY <1>1 DEF Canvas!onPointerUp, Canvas!Opens, Canvas!dragging
  <1>3. press.at \in {0, 1, 2} /\ camera \in Places
    BY <1>2, UserFacts DEF Presses
  <1>4. opened' \in Canvas!Cards
    BY <1>2, <1>3, CardsNearOK
  <1>5. QED
    BY <1>2, <1>4 DEF CanvasInv, Held

\* A press opens the card it was on or near, unless the grid was moved under it.
LEMMA OpensPressed ==
  Canvas!Init /\ [][Canvas!Next]_(Canvas!atlasVars) =>
    Canvas!OpensTheCardPressed
  <1>1. Canvas!Init => CanvasInv
    BY InitCanvasInv
  <1>2. CanvasInv /\ [Canvas!Next]_(Canvas!atlasVars) => CanvasInv'
    BY NextCanvasInv
  <1>3. CanvasInv /\ [Canvas!Next]_(Canvas!atlasVars) => [Pressed]_(Canvas!atlasVars)
    BY PressedStep
  <1>4. Canvas!Init /\ [][Canvas!Next]_(Canvas!atlasVars) => [][Pressed]_(Canvas!atlasVars)
    BY <1>1, <1>2, <1>3, PTL
  <1>5. QED
    BY <1>4 DEF Canvas!OpensTheCardPressed, Pressed

-----------------------------------------------------------------------------
(* The explore grid. *)

\* What is assumed, and operators of the library under the instance's names.
LEMMA GridGiven == Grid!GridAssumption
  BY TabAssumption DEF TabAssumption

LEMMA GridFinite == \A S : Grid!IsFiniteSet(S) <=> IsFiniteSet(S)
  BY Zenon DEF Grid!IsFiniteSet, IsFiniteSet

LEMMA GridNumber == \A S : Grid!Cardinality(S) = Cardinality(S)
  BY Zenon DEF Grid!Cardinality, Cardinality

LEMMA GridOrdered == \A S, precedes : Grid!Ordered(S, precedes) = Ordered(S, precedes)
  BY GridNumber, Zenon DEF Grid!Ordered, Ordered

LEMMA GridEntries == \A s, places : Grid!EntriesAt(s, places) = EntriesAt(s, places)
  BY GridOrdered, Zenon DEF Grid!EntriesAt, EntriesAt

Pages == [cards : Seq(Grid!Cards), cursor : Grid!Cursors \cup {Nothing}]
Distinct(cards) == \A i, j \in DOMAIN cards : cards[i] = cards[j] => i = j

\* Whatever matches after the cursor, and is still the same, is on the page or after it.
Complete(query, cursor, cards, next, same) ==
  \A s \in same : Grid!filterConditions(query, s) /\ Grid!after(cursor, s) =>
    (\E i \in DOMAIN cards : cards[i].id = s) \/ (next # Nothing /\ Grid!after(next, s))

GridPageOK(query, cursor, leaf, same) ==
  leaf \in Pages /\ Distinct(leaf.cards) /\ Complete(query, cursor, leaf.cards, leaf.cursor, same)

RecOK == rec \in [Items -> [raised : {0, 1}, renamed : BOOLEAN, public : BOOLEAN]]

LEMMA Keys ==
  ASSUME RecOK, NEW sort, NEW s \in Items
  PROVE  Grid!SortKey(sort, s) \in Nat /\ s \in Nat
  <1>1. Added[s] \in Nat /\ s \in Nat
    BY GridGiven DEF Grid!GridAssumption
  <1>2. rec[s].raised \in Nat
    BY DEF RecOK
  <1>3. QED
    BY <1>1, <1>2 DEF Grid!SortKey

LEMMA CardsOK ==
  ASSUME RecOK, NEW s \in Items
  PROVE  Grid!Card(s) \in Grid!Cards /\ Grid!Card(s).id = s
  <1>1. rec[s].renamed \in BOOLEAN
    BY DEF RecOK
  <1>2. QED
    BY <1>1 DEF Grid!Card, Grid!Cards

\* A page of a list has the first rows after the cursor, and its own cursor the rest.
LEMMA ListOK ==
  ASSUME RecOK, NEW query \in Grid!Queries, NEW cursor \in Grid!Cursors \cup {Nothing}
  PROVE  GridPageOK(query, cursor, Grid!list(query, cursor), Items)
  <1> DEFINE matches == {s \in Items : Grid!filterConditions(query, s) /\ Grid!after(cursor, s)}
             key(s) == Grid!SortKey(query.sort, s)
             precedes == {p \in matches \X matches : Grid!Precedes(key(p[1]), p[1], key(p[2]), p[2])}
             sorted == Ordered(matches, precedes)
             n == Cardinality(matches)
             m == IF n < Limit + 1 THEN n ELSE Limit + 1
             k == IF m < Limit THEN m ELSE Limit
             upTo == SubSeq(sorted, 1, m)
             shown == SubSeq(upTo, 1, k)
             leaf == Grid!list(query, cursor)
  <1>1. IsFiniteSet(matches)
    BY FS_Subset, GridGiven, GridFinite DEF Grid!GridAssumption
  <1>2. \A s \in matches : key(s) \in Nat /\ s \in Nat
    BY Keys
  <1>3. Total(matches, precedes)
    <2>0. \A x, y \in matches : <<x, y>> \in precedes <=> Grid!Precedes(key(x), x, key(y), y)
      OBVIOUS
    <2> HIDE DEF matches, precedes, key
    <2>1. \A x \in matches : ~Grid!Precedes(key(x), x, key(x), x)
      BY <1>2 DEF Grid!Precedes
    <2>2. \A x, y \in matches : x # y => Grid!Precedes(key(x), x, key(y), y) \/ Grid!Precedes(key(y), y, key(x), x)
      BY <1>2 DEF Grid!Precedes
    <2>3. \A x, y, z \in matches :
            Grid!Precedes(key(x), x, key(y), y) /\ Grid!Precedes(key(y), y, key(z), z) => Grid!Precedes(key(x), x, key(z), z)
      BY <1>2 DEF Grid!Precedes
    <2>4. QED
      BY <2>0, <2>1, <2>2, <2>3 DEF Total
  <1>4. /\ n \in Nat /\ sorted \in [1 .. n -> matches]
        /\ \A i, j \in 1 .. n : i < j => <<sorted[i], sorted[j]>> \in precedes
        /\ \A i, j \in 1 .. n : sorted[i] = sorted[j] => i = j
        /\ \A s \in matches : \E i \in 1 .. n : sorted[i] = s
    <2> HIDE DEF matches, precedes
    <2>1. QED
      BY <1>1, <1>3, OrderedFacts
  <1>5. Limit \in Nat /\ Limit >= 1
    BY GridGiven DEF Grid!GridAssumption
  <1>6. \A i, j \in 1 .. n : i < j => Grid!Precedes(key(sorted[i]), sorted[i], key(sorted[j]), sorted[j])
    <2>1. \A x, y : <<x, y>> \in precedes => Grid!Precedes(key(x), x, key(y), y)
      OBVIOUS
    <2> HIDE DEF matches, precedes, sorted, key
    <2>2. QED
      BY <1>4, <2>1
  <1>7. matches \subseteq Items
    OBVIOUS
  <1>8. m \in Nat /\ m <= n /\ k \in Nat /\ k <= m /\ k <= Limit
    <2>1. n \in Nat
      BY <1>4
    <2> HIDE DEF n
    <2>2. QED
      BY <1>5, <2>1
  <1>9. leaf = Grid!toPage(query, IF cursor = Nothing THEN 1 ELSE cursor.page, upTo) /\ Len(sorted) = n
    <2>1. Len(sorted) = n /\ sorted \in Seq(matches)
      <3> HIDE DEF matches, sorted, n
      <3>1. QED
        BY <1>4
    <2>2. QED
      BY <2>1, GridOrdered DEF Grid!list
  <1>10. Len(upTo) = m /\ \A i \in 1 .. m : upTo[i] = sorted[i]
    <2> HIDE DEF matches, sorted, n, m
    <2>1. sorted \in Seq(matches) /\ Len(sorted) = n
      BY <1>4
    <2>2. QED
      BY <1>4, <1>8, <2>1, SubSeqProperties
  <1>11. Len(shown) = k /\ DOMAIN shown = 1 .. k /\ \A i \in 1 .. k : shown[i] = sorted[i]
    <2> HIDE DEF matches, sorted, n, m, k
    <2>1. upTo \in Seq(matches)
      BY <1>4, <1>8, SubSeqProperties
    <2> HIDE DEF upTo
    <2>2. QED
      BY <1>8, <1>10, <2>1, SubSeqProperties
  <1>12. \A i \in 1 .. k : shown[i] \in Items /\ shown[i] \in matches
    <2> HIDE DEF matches, sorted, n, m, k, shown
    <2>1. QED
      BY <1>4, <1>7, <1>8, <1>11
  <1>13. PICK p : p = leaf
    OBVIOUS
  <1>14. PICK depth : depth = IF cursor = Nothing THEN 1 ELSE cursor.page
    OBVIOUS
  <1>15. depth \in Nat
    BY <1>14 DEF Grid!Cursors
  <1>16. /\ p.cards = [i \in 1 .. k |-> Grid!Card(shown[i])]
         /\ p.cursor = IF m > Limit THEN [sort |-> query.sort, key |-> key(shown[k]), id |-> shown[k],
                                          page |-> depth + 1]
                       ELSE Nothing
         /\ p = [cards |-> p.cards, cursor |-> p.cursor]
    <2>1. Grid!toPage(query, depth, upTo) = p
      BY <1>9, <1>13, <1>14
    <2>2. shown = SubSeq(upTo, 1, IF Len(upTo) < Limit THEN Len(upTo) ELSE Limit)
      BY <1>10
    <2> HIDE DEF upTo, m, k, shown, leaf
    <2>3. QED
      BY <1>10, <1>11, <2>1, <2>2 DEF Grid!toPage
  <1>17. m > Limit => p.cursor \in Grid!Cursors /\ k \in 1 .. k /\ k = Limit
    <2>1. SUFFICES ASSUME m > Limit PROVE p.cursor \in Grid!Cursors /\ k \in 1 .. k /\ k = Limit
      OBVIOUS
    <2>2. k = Limit /\ k \in 1 .. k
      <3> HIDE DEF n, m
      <3>1. QED
        BY <1>5, <1>8, <2>1
    <2>3. query.sort \in Grid!Sorts
      BY DEF Grid!Queries
    <2>4. shown[k] \in Items /\ key(shown[k]) \in Nat
      BY <1>12, <2>2, Keys
    <2> HIDE DEF n, m, k, shown, key
    <2>5. depth + 1 \in Nat
      BY <1>15
    <2>6. QED
      BY <1>16, <2>1, <2>2, <2>3, <2>4, <2>5 DEF Grid!Cursors
  <1>18. p.cards \in Seq(Grid!Cards) /\ DOMAIN p.cards = 1 .. k
         /\ \A i \in 1 .. k : p.cards[i].id = shown[i] /\ p.cards[i] \in Grid!Cards
    <2> HIDE DEF n, m, k, shown
    <2>1. \A i \in 1 .. k : Grid!Card(shown[i]) \in Grid!Cards /\ Grid!Card(shown[i]).id = shown[i]
      BY <1>12, CardsOK
    <2>2. QED
      BY <1>8, <1>16, <2>1
  <1>19. Distinct(p.cards)
    <2> HIDE DEF n, m, k, shown, sorted
    <2>1. QED
      BY <1>4, <1>8, <1>11, <1>18 DEF Distinct
  <1>20. p \in Pages
    <2> HIDE DEF n, m, k, shown, sorted, key
    <2>1. p.cursor \in Grid!Cursors \cup {Nothing}
      BY <1>16, <1>17
    <2>2. QED
      BY <1>16, <1>18, <2>1 DEF Pages
  <1>21. Complete(query, cursor, p.cards, p.cursor, Items)
    <2> SUFFICES ASSUME NEW s \in Items, Grid!filterConditions(query, s), Grid!after(cursor, s),
                        \A i \in DOMAIN p.cards : p.cards[i].id # s
                 PROVE  p.cursor # Nothing /\ Grid!after(p.cursor, s)
      BY DEF Complete
    <2>1. s \in matches
      OBVIOUS
    <2>2. PICK i \in 1 .. n : sorted[i] = s
      <3> HIDE DEF matches, n, sorted
      <3>1. QED
        BY <1>4, <2>1
    <2>3. i > k
      <3>1. n \in Nat /\ i \in 1 .. n /\ sorted[i] = s
        BY <1>4, <2>2
      <3> HIDE DEF matches, n, m, k, sorted, shown
      <3>2. QED
        BY <1>8, <1>11, <1>18, <3>1
    <2>4. m > Limit
      <3>1. n \in Nat
        BY <1>4
      <3> HIDE DEF n
      <3>2. QED
        BY <1>5, <2>2, <2>3, <3>1
    <2>5. p.cursor \in Grid!Cursors /\ k \in 1 .. k
      BY <1>17, <2>4
    <2>6. p.cursor # Nothing
      BY <2>5, GridGiven DEF Grid!GridAssumption
    <2>7. /\ p.cursor.sort = query.sort /\ p.cursor.key = key(shown[k]) /\ p.cursor.id = shown[k]
      <3> HIDE DEF n, m, k, shown, key
      <3>1. QED
        BY <1>16, <2>4
    <2>8. Grid!Precedes(key(shown[k]), shown[k], key(s), s)
      <3> HIDE DEF matches, n, m, k, sorted, shown, key
      <3>1. QED
        BY <1>4, <1>6, <1>8, <1>11, <2>2, <2>3, <2>5
    <2>9. QED
      BY <2>6, <2>7, <2>8 DEF Grid!after
  <1>22. QED
    BY <1>13, <1>19, <1>20, <1>21 DEF GridPageOK

\* What is shown and what comes is shown once.
LEMMA AppendFacts ==
  ASSUME NEW shown \in Seq(Grid!Cards), Distinct(shown), NEW leaf \in Seq(Grid!Cards),
         Distinct(leaf),
         NEW all, all = Grid!appendUnique(shown, leaf)
  PROVE  /\ all \in Seq(Grid!Cards) /\ Distinct(all)
         /\ \A i \in DOMAIN shown : \E j \in DOMAIN all : all[j] = shown[i]
         /\ \A i \in DOMAIN leaf : \E j \in DOMAIN all : all[j] = leaf[i]
  <1> DEFINE places == {k \in DOMAIN leaf : \A i \in DOMAIN shown : shown[i] # leaf[k]}
  <1>1. PICK more : more = EntriesAt(leaf, places)
    OBVIOUS
  <1>2. /\ more \in Seq(Grid!Cards)
        /\ \A k \in DOMAIN more : \E i \in places : more[k] = leaf[i]
        /\ \A i \in places : \E k \in DOMAIN more : more[k] = leaf[i]
        /\ \A k, l \in DOMAIN more : k # l => \E i, j \in places : i # j /\ more[k] = leaf[i] /\ more[l] = leaf[j]
    <2>1. places \in SUBSET DOMAIN leaf
      OBVIOUS
    <2> HIDE DEF places
    <2>2. QED
      BY <1>1, <2>1, EntriesFacts
  <1>3. all = shown \o more
    BY <1>1, GridEntries DEF Grid!appendUnique
  <1>4. /\ all \in Seq(Grid!Cards) /\ Len(all) = Len(shown) + Len(more)
        /\ DOMAIN all = 1 .. Len(all) /\ DOMAIN shown = 1 .. Len(shown) /\ DOMAIN more = 1 .. Len(more)
        /\ Len(shown) \in Nat /\ Len(more) \in Nat
        /\ \A i \in 1 .. Len(shown) : all[i] = shown[i]
        /\ \A i \in 1 .. Len(more) : all[Len(shown) + i] = more[i]
    BY <1>2, <1>3
  <1>5. \A k \in DOMAIN more : \A i \in DOMAIN shown : shown[i] # more[k]
    <2> TAKE k \in DOMAIN more
    <2>1. PICK i \in places : more[k] = leaf[i]
      BY <1>2
    <2>2. QED
      BY <2>1
  <1>6. Distinct(more)
    <2> SUFFICES ASSUME NEW k \in DOMAIN more, NEW l \in DOMAIN more, k # l PROVE more[k] # more[l]
      BY DEF Distinct
    <2>1. PICK i, j \in places : i # j /\ more[k] = leaf[i] /\ more[l] = leaf[j]
      <3> HIDE DEF places
      <3>1. QED
        BY <1>2, Zenon
    <2>2. QED
      BY <2>1 DEF Distinct
  <1>7. Distinct(all)
    <2> SUFFICES ASSUME NEW i \in DOMAIN all, NEW j \in DOMAIN all, all[i] = all[j] PROVE i = j
      BY DEF Distinct
    <2>1. i \in 1 .. Len(shown) \/ \E k \in 1 .. Len(more) : i = Len(shown) + k
      <3>1. i > Len(shown) => i - Len(shown) \in 1 .. Len(more) /\ i = Len(shown) + (i - Len(shown))
        BY <1>4
      <3>2. QED
        BY <1>4, <3>1
    <2>2. j \in 1 .. Len(shown) \/ \E k \in 1 .. Len(more) : j = Len(shown) + k
      <3>1. j > Len(shown) => j - Len(shown) \in 1 .. Len(more) /\ j = Len(shown) + (j - Len(shown))
        BY <1>4
      <3>2. QED
        BY <1>4, <3>1
    <2>3. CASE i \in 1 .. Len(shown) /\ j \in 1 .. Len(shown)
      BY <1>4, <2>3 DEF Distinct
    <2>4. ASSUME NEW k \in 1 .. Len(more), NEW h \in 1 .. Len(shown) PROVE all[Len(shown) + k] # all[h]
      <3>1. shown[h] # more[k]
        BY <1>4, <1>5
      <3>2. QED
        BY <1>4, <3>1
    <2>5. ASSUME NEW k \in 1 .. Len(more), NEW h \in 1 .. Len(more), all[Len(shown) + k] = all[Len(shown) + h]
          PROVE  k = h
      <3>1. more[k] = more[h]
        BY <1>4, <2>5
      <3>2. QED
        BY <1>4, <1>6, <3>1 DEF Distinct
    <2>6. QED
      BY <2>1, <2>2, <2>3, <2>4, <2>5
  <1>8. \A i \in DOMAIN shown : \E j \in DOMAIN all : all[j] = shown[i]
    BY <1>4
  <1>9. \A i \in DOMAIN leaf : \E j \in DOMAIN all : all[j] = leaf[i]
    <2> TAKE i \in DOMAIN leaf
    <2>1. CASE i \in places
      <3>1. PICK k \in DOMAIN more : more[k] = leaf[i]
        BY <1>2, <2>1
      <3>2. Len(shown) + k \in DOMAIN all
        BY <1>4
      <3>3. QED
        BY <1>4, <3>1, <3>2
    <2>2. CASE i \notin places
      BY <1>4, <2>2
    <2>3. QED
      BY <2>1, <2>2
  <1>10. QED
    BY <1>4, <1>7, <1>8, <1>9

-----------------------------------------------------------------------------
(* What the visitor asked for. *)

Statuses == {"ready", "loading", "loading-more", "error", "error-more"}

AskOK ==
  /\ url \in Grid!Queries /\ nav \in Grid!Queries \cup {Nothing} /\ sheet \in Grid!Queries \cup {Nothing}
  /\ text \in Grid!Texts /\ timer \in Grid!Texts \cup {Nothing} /\ wanted \in Grid!Queries

\* The box waits for the pause to search for its own text.
Timing == timer # Nothing => timer = text /\ text # "a"

\* The query the page is on its way to.
Ahead == IF nav = Nothing THEN url ELSE nav
GridAsked == IF timer = Nothing THEN Ahead ELSE [Ahead EXCEPT !.q = timer]

GridChosen == ~crossed => GridAsked = wanted /\ Grid!Searched(text) \in {wanted.q, ""}

ChosenInv == AskOK /\ Timing /\ GridChosen

LEMMA NoQuery == \A query \in Grid!Queries \cup Grid!Texts : query # Nothing
  BY GridGiven DEF Grid!GridAssumption

LEMMA Fields ==
  ASSUME NEW query \in Grid!Queries
  PROVE  /\ query = [q |-> query.q, stage |-> query.stage, sort |-> query.sort]
         /\ query.q \in {"", "word"} /\ query.stage \in BOOLEAN /\ query.sort \in Grid!Sorts
  BY DEF Grid!Queries

LEMMA Rewritten ==
  ASSUME NEW query \in Grid!Queries, NEW v
  PROVE  /\ [query EXCEPT !.q = v] = [q |-> v, stage |-> query.stage, sort |-> query.sort]
         /\ [query EXCEPT !.stage = v] = [q |-> query.q, stage |-> v, sort |-> query.sort]
         /\ [query EXCEPT !.sort = v] = [q |-> query.q, stage |-> query.stage, sort |-> v]
  <1>1. PICK a, b, c : a = query.q /\ b = query.stage /\ c = query.sort
    OBVIOUS
  <1>2. query = [q |-> a, stage |-> b, sort |-> c]
    BY <1>1, Fields
  <1>3. /\ [query EXCEPT !.q = v] = [q |-> v, stage |-> b, sort |-> c]
        /\ [query EXCEPT !.stage = v] = [q |-> a, stage |-> v, sort |-> c]
        /\ [query EXCEPT !.sort = v] = [q |-> a, stage |-> b, sort |-> v]
    BY <1>2
  <1>4. QED
    BY <1>1, <1>3

LEMMA InitChosen == Grid!Init => ChosenInv
  <1> SUFFICES ASSUME Grid!Init PROVE ChosenInv
    OBVIOUS
  <1>1. /\ url \in Grid!Queries /\ nav = Nothing /\ timer = Nothing /\ sheet = Nothing
        /\ text = url.q /\ wanted = url
    BY DEF Grid!Init
  <1>2. text \in Grid!Texts /\ text # "a"
    BY <1>1, Fields DEF Grid!Texts
  <1>3. QED
    BY <1>1, <1>2 DEF ChosenInv, AskOK, Timing, GridChosen, GridAsked, Ahead, Grid!Searched

LEMMA TypeChosen ==
  ASSUME ChosenInv, NEW t \in Grid!Texts, Grid!Type(t)
  PROVE  ChosenInv'
  <1>1. /\ text' = t /\ timer' = Grid!Awaits(t, url) /\ UNCHANGED <<url, nav, sheet>>
        /\ wanted' = [wanted EXCEPT !.q = IF t = "a" THEN Ahead.q ELSE t]
        /\ crossed' = (crossed \/ Grid!Crossing)
    BY DEF Grid!Type, Ahead
  <1>2. url \in Grid!Queries /\ Ahead \in Grid!Queries /\ wanted \in Grid!Queries /\ timer' \in {Nothing, t}
    BY <1>1 DEF ChosenInv, AskOK, Ahead, Grid!Awaits
  <1>3. PICK q : q = IF t = "a" THEN Ahead.q ELSE t
    OBVIOUS
  <1>4. q \in {"", "word"}
    BY <1>2, <1>3, Fields DEF Grid!Texts
  <1>5. wanted' = [q |-> q, stage |-> wanted.stage, sort |-> wanted.sort]
    BY <1>1, <1>2, <1>3, Rewritten
  <1>6. wanted' \in Grid!Queries
    BY <1>2, <1>4, <1>5, Fields DEF Grid!Queries
  <1>7. AskOK'
    BY <1>1, <1>2, <1>6 DEF ChosenInv, AskOK
  <1>8. Timing'
    BY <1>1 DEF Timing, Grid!Awaits
  <1>9. GridChosen'
    <2> SUFFICES ASSUME ~crossed' PROVE GridAsked' = wanted' /\ Grid!Searched(text') \in {wanted'.q, ""}
      BY DEF GridChosen
    <2>1. nav = Nothing /\ ~crossed /\ Ahead = url /\ nav' = Nothing /\ Ahead' = url
      BY <1>1 DEF Grid!Crossing, Ahead
    <2>2. url.stage = wanted.stage /\ url.sort = wanted.sort
      <3>1. CASE timer = Nothing
        BY <2>1, <3>1 DEF ChosenInv, GridChosen, GridAsked
      <3>2. CASE timer # Nothing
        <4>1. [url EXCEPT !.q = timer] = wanted
          BY <2>1, <3>2 DEF ChosenInv, GridChosen, GridAsked
        <4>2. [url EXCEPT !.q = timer] = [q |-> timer, stage |-> url.stage, sort |-> url.sort]
          BY <1>2, Rewritten
        <4>3. QED
          BY <4>1, <4>2
      <3>3. QED
        BY <3>1, <3>2
    <2>3. url = [q |-> url.q, stage |-> url.stage, sort |-> url.sort]
      BY <1>2, Fields
    <2>4. CASE timer' = Nothing
      <3>1. q = url.q
        BY <1>1, <1>3, <2>1, <2>4, NoQuery DEF Grid!Awaits
      <3>2. GridAsked' = url /\ wanted' = url
        BY <1>5, <2>1, <2>2, <2>3, <2>4, <3>1 DEF GridAsked
      <3>3. Grid!Searched(t) \in {url.q, ""}
        BY <1>1, <2>4, NoQuery DEF Grid!Awaits, Grid!Searched
      <3>4. QED
        BY <1>1, <3>2, <3>3
    <2>5. CASE timer' # Nothing
      <3>1. timer' = t /\ t # "a"
        BY <1>1, <2>5 DEF Grid!Awaits
      <3>2. GridAsked' = [url EXCEPT !.q = t]
        BY <2>1, <2>5, <3>1 DEF GridAsked
      <3>3. GridAsked' = [q |-> t, stage |-> url.stage, sort |-> url.sort]
        BY <2>3, <3>2
      <3>4. q = t /\ wanted'.q = t
        BY <1>3, <1>5, <3>1
      <3>5. QED
        BY <1>1, <1>5, <2>2, <3>1, <3>3, <3>4 DEF Grid!Searched
    <2>6. QED
      BY <2>4, <2>5
  <1>10. QED
    BY <1>7, <1>8, <1>9 DEF ChosenInv

\* What a choice changes, it changes in the query asked for.
LEMMA Choose_ ==
  ASSUME ChosenInv, NEW query \in Grid!Queries, nav' = query, UNCHANGED <<url, text>>,
         timer' \in {timer, Nothing}, crossed' \in {TRUE, crossed \/ Grid!Crossing},
         sheet' \in Grid!Queries \cup {Nothing}, wanted' \in Grid!Queries,
         nav = Nothing /\ ~crossed' =>
           /\ wanted' = IF timer' = Nothing THEN query ELSE [query EXCEPT !.q = timer]
           /\ Grid!Searched(text) \in {wanted'.q, ""}
  PROVE  ChosenInv'
  <1>1. nav' # Nothing /\ Ahead' = query
    BY NoQuery DEF Ahead
  <1>2. AskOK'
    BY DEF ChosenInv, AskOK
  <1>3. Timing'
    BY DEF ChosenInv, Timing
  <1>4. GridChosen'
    <2> SUFFICES ASSUME ~crossed' PROVE GridAsked' = wanted' /\ Grid!Searched(text') \in {wanted'.q, ""}
      BY DEF GridChosen
    <2>1. nav = Nothing
      BY DEF Grid!Crossing
    <2>2. QED
      BY <1>1, <2>1 DEF GridAsked
  <1>5. QED
    BY <1>2, <1>3, <1>4 DEF ChosenInv

\* What a visitor who has crossed nothing wants is where the page is, or what the box waits to ask.
LEMMA Wish ==
  ASSUME ChosenInv, nav = Nothing, ~crossed
  PROVE  /\ wanted = [q |-> IF timer = Nothing THEN url.q ELSE timer, stage |-> url.stage, sort |-> url.sort]
         /\ Grid!Searched(text) \in {wanted.q, ""}
         /\ timer # Nothing => timer = text /\ Grid!Searched(text) = timer
  <1>1. url \in Grid!Queries /\ Ahead = url
    BY DEF ChosenInv, AskOK, Ahead
  <1>2. wanted = (IF timer = Nothing THEN url ELSE [url EXCEPT !.q = timer]) /\ Grid!Searched(text) \in {wanted.q, ""}
    BY <1>1 DEF ChosenInv, GridChosen, GridAsked
  <1>3. url = [q |-> url.q, stage |-> url.stage, sort |-> url.sort]
    BY <1>1, Fields
  <1>4. timer # Nothing => timer = text /\ Grid!Searched(text) = timer
    BY DEF ChosenInv, Timing, Grid!Searched
  <1>5. QED
    BY <1>2, <1>3, <1>4

LEMMA PauseChosen ==
  ASSUME ChosenInv, Grid!Pause
  PROVE  ChosenInv'
  <1>1. /\ timer # Nothing /\ nav' = [url EXCEPT !.q = timer] /\ timer' = Nothing
        /\ crossed' = (crossed \/ Grid!Crossing) /\ UNCHANGED <<url, text, sheet, wanted>>
    BY DEF Grid!Pause, Grid!navigate
  <1>2. url \in Grid!Queries /\ timer \in {"", "word"} /\ sheet \in Grid!Queries \cup {Nothing} /\ wanted \in Grid!Queries
    BY <1>1 DEF ChosenInv, AskOK, Timing, Grid!Texts
  <1>3. nav' = [q |-> timer, stage |-> url.stage, sort |-> url.sort]
    BY <1>1, <1>2, Rewritten
  <1>4. PICK query : query = [q |-> timer, stage |-> url.stage, sort |-> url.sort]
    OBVIOUS
  <1>5. query \in Grid!Queries
    BY <1>2, <1>4, Fields DEF Grid!Queries
  <1>6. nav = Nothing /\ ~crossed' => wanted = query /\ Grid!Searched(text) \in {wanted.q, ""}
    BY <1>1, <1>4, Wish
  <1>7. QED
    BY <1>1, <1>2, <1>3, <1>4, <1>5, <1>6, Choose_

LEMMA SubmitChosen ==
  ASSUME ChosenInv, Grid!Submit
  PROVE  ChosenInv'
  <1> DEFINE t == Grid!Searched(text)
  <1>1. /\ nav' = [url EXCEPT !.q = t] /\ wanted' = [wanted EXCEPT !.q = t]
        /\ crossed' = (crossed \/ Grid!Crossing) /\ UNCHANGED <<url, text, sheet, timer>>
    BY DEF Grid!Submit, Grid!navigate
  <1>2. url \in Grid!Queries /\ t \in {"", "word"} /\ sheet \in Grid!Queries \cup {Nothing} /\ wanted \in Grid!Queries
    BY DEF ChosenInv, AskOK, Grid!Texts, Grid!Searched
  <1>3. /\ nav' = [q |-> t, stage |-> url.stage, sort |-> url.sort]
        /\ wanted' = [q |-> t, stage |-> wanted.stage, sort |-> wanted.sort]
    BY <1>1, <1>2, Rewritten
  <1>4. PICK query : query = [q |-> t, stage |-> url.stage, sort |-> url.sort]
    OBVIOUS
  <1>5. query \in Grid!Queries /\ wanted' \in Grid!Queries
    BY <1>2, <1>3, <1>4, Fields DEF Grid!Queries
  <1>6. ASSUME nav = Nothing, ~crossed'
        PROVE  /\ wanted' = IF timer = Nothing THEN query ELSE [query EXCEPT !.q = timer]
               /\ t \in {wanted'.q, ""}
    <2>1. wanted.stage = url.stage /\ wanted.sort = url.sort /\ (timer # Nothing => timer = t)
      <3>1. ~crossed
        BY <1>1, <1>6
      <3>2. /\ wanted = [q |-> IF timer = Nothing THEN url.q ELSE timer, stage |-> url.stage, sort |-> url.sort]
            /\ timer # Nothing => Grid!Searched(text) = timer
        BY <1>6, <3>1, Wish
      <3>3. wanted.stage = url.stage /\ wanted.sort = url.sort
        BY <3>2
      <3>4. QED
        BY <3>2, <3>3
    <2>2. wanted' = query /\ wanted'.q = t
      BY <1>3, <1>4, <2>1
    <2>3. timer # Nothing => [query EXCEPT !.q = timer] = query
      BY <1>4, <2>1
    <2>4. QED
      BY <2>2, <2>3
  <1> HIDE DEF t
  <1>7. /\ nav' = query /\ timer' = timer /\ sheet' \in Grid!Queries \cup {Nothing}
    BY <1>1, <1>2, <1>3, <1>4
  <1>8. QED
    BY <1>1, <1>5, <1>6, <1>7, Choose_ DEF t

LEMMA ChooseSortChosen ==
  ASSUME ChosenInv, NEW sort \in Grid!Sorts, Grid!ChooseSort(sort)
  PROVE  ChosenInv'
  <1>1. /\ nav' = [url EXCEPT !.sort = sort] /\ wanted' = [wanted EXCEPT !.sort = sort]
        /\ crossed' = (crossed \/ Grid!Crossing) /\ UNCHANGED <<url, text, sheet, timer>>
    BY DEF Grid!ChooseSort, Grid!navigate
  <1>2. url \in Grid!Queries /\ sheet \in Grid!Queries \cup {Nothing} /\ wanted \in Grid!Queries
    BY DEF ChosenInv, AskOK
  <1>3. /\ nav' = [q |-> url.q, stage |-> url.stage, sort |-> sort]
        /\ wanted' = [q |-> wanted.q, stage |-> wanted.stage, sort |-> sort]
    BY <1>1, <1>2, Rewritten
  <1>4. PICK query : query = [q |-> url.q, stage |-> url.stage, sort |-> sort]
    OBVIOUS
  <1>5. query \in Grid!Queries /\ wanted' \in Grid!Queries
    BY <1>2, <1>3, <1>4, Fields DEF Grid!Queries
  <1>6. ASSUME nav = Nothing, ~crossed'
        PROVE  /\ wanted' = IF timer = Nothing THEN query ELSE [query EXCEPT !.q = timer]
               /\ Grid!Searched(text) \in {wanted'.q, ""}
    <2>1. /\ wanted = [q |-> IF timer = Nothing THEN url.q ELSE timer, stage |-> url.stage, sort |-> url.sort]
          /\ Grid!Searched(text) \in {wanted.q, ""}
      BY <1>1, <1>6, Wish
    <2>2. [query EXCEPT !.q = timer] = [q |-> timer, stage |-> url.stage, sort |-> sort]
      BY <1>4
    <2>3. wanted' = [q |-> IF timer = Nothing THEN url.q ELSE timer, stage |-> url.stage, sort |-> sort]
      BY <1>3, <2>1
    <2>4. wanted'.q = wanted.q
      BY <1>3
    <2>5. QED
      BY <1>4, <2>1, <2>2, <2>3, <2>4
  <1>7. QED
    BY <1>1, <1>2, <1>3, <1>4, <1>5, <1>6, Choose_

\* Stages: unticked with a chip, or turned over in the sheet.
LEMMA StageChosen ==
  ASSUME ChosenInv, NEW stage \in BOOLEAN, NEW query, query = [url EXCEPT !.stage = stage],
         nav = Nothing /\ ~crossed' => nav' = query,
         nav' \in Grid!Queries, UNCHANGED <<url, text, timer>>, crossed' \in {TRUE, crossed \/ Grid!Crossing},
         sheet' \in Grid!Queries \cup {Nothing}, wanted' = [wanted EXCEPT !.stage = stage]
  PROVE  ChosenInv'
  <1>1. url \in Grid!Queries /\ wanted \in Grid!Queries
    BY DEF ChosenInv, AskOK
  <1>2. /\ query = [q |-> url.q, stage |-> stage, sort |-> url.sort]
        /\ wanted' = [q |-> wanted.q, stage |-> stage, sort |-> wanted.sort]
    BY <1>1, Rewritten
  <1>3. wanted' \in Grid!Queries
    BY <1>1, <1>2, Fields DEF Grid!Queries
  <1>4. ASSUME nav = Nothing, ~crossed'
        PROVE  /\ wanted' = IF timer' = Nothing THEN nav' ELSE [nav' EXCEPT !.q = timer]
               /\ Grid!Searched(text) \in {wanted'.q, ""}
    <2>1. /\ wanted = [q |-> IF timer = Nothing THEN url.q ELSE timer, stage |-> url.stage, sort |-> url.sort]
          /\ Grid!Searched(text) \in {wanted.q, ""}
      BY <1>4, Wish
    <2>2. [query EXCEPT !.q = timer] = [q |-> timer, stage |-> stage, sort |-> url.sort]
      <3>1. query \in Grid!Queries
        BY <1>1, <1>2, Fields DEF Grid!Queries
      <3>2. query.stage = stage /\ query.sort = url.sort
        BY <1>2
      <3>3. [query EXCEPT !.q = timer] = [q |-> timer, stage |-> query.stage, sort |-> query.sort]
        BY <3>1, Rewritten
      <3>4. QED
        BY <3>2, <3>3
    <2>3. wanted' = [q |-> IF timer = Nothing THEN url.q ELSE timer, stage |-> stage, sort |-> url.sort]
      BY <1>2, <2>1
    <2>4. wanted'.q = wanted.q
      BY <1>2
    <2>5. QED
      BY <1>2, <1>4, <2>1, <2>2, <2>3, <2>4
  <1>5. QED
    BY <1>3, <1>4, Choose_

LEMMA RemoveChipChosen ==
  ASSUME ChosenInv, Grid!RemoveChip
  PROVE  ChosenInv'
  <1>1. /\ nav' = [url EXCEPT !.stage = FALSE] /\ wanted' = [wanted EXCEPT !.stage = FALSE]
        /\ crossed' = (crossed \/ Grid!Crossing) /\ UNCHANGED <<url, text, sheet, timer>>
    BY DEF Grid!RemoveChip, Grid!navigate
  <1>2. url \in Grid!Queries /\ sheet \in Grid!Queries \cup {Nothing}
    BY DEF ChosenInv, AskOK
  <1>3. nav' \in Grid!Queries
    BY <1>1, <1>2, Rewritten, Fields DEF Grid!Queries
  <1>4. FALSE \in BOOLEAN
    OBVIOUS
  <1>5. QED
    BY <1>1, <1>2, <1>3, <1>4, StageChosen

LEMMA ApplyChosen ==
  ASSUME ChosenInv, Grid!Apply
  PROVE  ChosenInv'
  <1>1. /\ sheet # Nothing /\ nav' = [sheet EXCEPT !.stage = ~@] /\ wanted' = [wanted EXCEPT !.stage = ~sheet.stage]
        /\ crossed' = (crossed \/ Grid!Crossing \/ sheet # url) /\ UNCHANGED <<url, text, timer>>
        /\ sheet' = Nothing
    BY DEF Grid!Apply, Grid!navigate
  <1>2. url \in Grid!Queries /\ sheet \in Grid!Queries
    BY <1>1 DEF ChosenInv, AskOK
  <1>3. PICK stage : stage = ~sheet.stage
    OBVIOUS
  <1>4. stage \in BOOLEAN
    BY <1>3, Zenon
  <1>5. nav' = [sheet EXCEPT !.stage = stage]
    BY <1>1, <1>3
  <1>6. nav' \in Grid!Queries
    BY <1>2, <1>4, <1>5, Rewritten, Fields DEF Grid!Queries
  <1>7. PICK query : query = [url EXCEPT !.stage = stage]
    OBVIOUS
  <1>8. ~crossed' => nav' = query
    BY <1>1, <1>5, <1>7
  <1>9. crossed' \in {TRUE, crossed \/ Grid!Crossing}
    BY <1>1
  <1>10. wanted' = [wanted EXCEPT !.stage = stage] /\ sheet' \in Grid!Queries \cup {Nothing}
    BY <1>1, <1>3
  <1>11. QED
    BY <1>1, <1>4, <1>6, <1>7, <1>8, <1>9, <1>10, StageChosen

\* The box after the URL has changed.
LEMMA FollowBox ==
  ASSUME AskOK, Timing, NEW query \in Grid!Queries, Grid!FollowUrl(query)
  PROVE  /\ url' = query /\ text' \in Grid!Texts /\ timer' \in Grid!Texts \cup {Nothing} /\ Timing'
         /\ query.q # url.q /\ query.q # text => text' = query.q /\ timer' = Nothing
         /\ ~(query.q # url.q /\ query.q # text) => UNCHANGED <<text, timer>>
  <1>1. query.q \in Grid!Texts
    BY Fields DEF Grid!Texts
  <1>2. QED
    BY <1>1 DEF Grid!FollowUrl, AskOK, Timing

LEMMA ArriveChosen ==
  ASSUME ChosenInv, Grid!Arrive
  PROVE  ChosenInv'
  <1>1. /\ nav # Nothing /\ Grid!FollowUrl(nav) /\ nav' = Nothing
        /\ crossed' = (crossed \/ (nav.q # url.q /\ nav.q # text)) /\ UNCHANGED <<sheet, wanted>>
    BY DEF Grid!Arrive
  <1>2. nav \in Grid!Queries /\ AskOK /\ Timing
    BY <1>1 DEF ChosenInv, AskOK
  <1>3. /\ url' = nav /\ text' \in Grid!Texts /\ timer' \in Grid!Texts \cup {Nothing} /\ Timing'
        /\ ~(nav.q # url.q /\ nav.q # text) => UNCHANGED <<text, timer>>
    BY <1>1, <1>2, FollowBox
  <1>4. AskOK'
    BY <1>1, <1>2, <1>3 DEF AskOK
  <1>5. GridChosen'
    <2> SUFFICES ASSUME ~crossed' PROVE GridAsked' = wanted' /\ Grid!Searched(text') \in {wanted'.q, ""}
      BY DEF GridChosen
    <2>1. ~crossed /\ UNCHANGED <<text, timer>>
      BY <1>1, <1>3
    <2>2. Ahead' = Ahead
      BY <1>1, <1>3 DEF Ahead
    <2>3. QED
      BY <1>1, <2>1, <2>2 DEF ChosenInv, GridChosen, GridAsked
  <1>6. QED
    BY <1>3, <1>4, <1>5 DEF ChosenInv

LEMMA TravelChosen ==
  ASSUME ChosenInv, NEW query \in Grid!Queries, Grid!Travel(query)
  PROVE  ChosenInv'
  <1>1. /\ Grid!FollowUrl(query) /\ nav' = Nothing /\ wanted' = query /\ UNCHANGED sheet
        /\ crossed' = (crossed \/ Grid!Crossing \/ (timer # Nothing /\ text' = text))
    BY DEF Grid!Travel
  <1>2. AskOK /\ Timing
    BY DEF ChosenInv
  <1>3. /\ url' = query /\ text' \in Grid!Texts /\ timer' \in Grid!Texts \cup {Nothing} /\ Timing'
        /\ query.q # url.q /\ query.q # text => text' = query.q /\ timer' = Nothing
        /\ ~(query.q # url.q /\ query.q # text) => UNCHANGED <<text, timer>>
    BY <1>1, <1>2, FollowBox
  <1>4. AskOK'
    BY <1>1, <1>2, <1>3 DEF AskOK
  <1>5. GridChosen'
    <2> SUFFICES ASSUME ~crossed' PROVE GridAsked' = wanted' /\ Grid!Searched(text') \in {wanted'.q, ""}
      BY DEF GridChosen
    <2>1. nav = Nothing /\ ~crossed /\ ~(timer # Nothing /\ text' = text)
      BY <1>1 DEF Grid!Crossing
    <2>2. timer' = Nothing
      BY <1>3, <2>1
    <2>3. GridAsked' = query
      BY <1>1, <1>3, <2>2 DEF GridAsked, Ahead
    <2>4. query.q \in {"", "word"}
      BY Fields
    <2>5. Grid!Searched(text') \in {query.q, ""}
      <3>1. CASE query.q # url.q /\ query.q # text
        BY <1>3, <2>4, <3>1 DEF Grid!Searched
      <3>2. CASE query.q = text
        BY <1>3, <2>4, <3>2 DEF Grid!Searched
      <3>3. CASE query.q = url.q /\ query.q # text
        <4>1. text' = text /\ timer = Nothing
          BY <1>3, <2>1, <3>3
        <4>2. wanted.q = url.q /\ Grid!Searched(text) \in {wanted.q, ""}
          <5>1. /\ wanted = [q |-> IF timer = Nothing THEN url.q ELSE timer, stage |-> url.stage, sort |-> url.sort]
                /\ Grid!Searched(text) \in {wanted.q, ""}
            BY <2>1, Wish
          <5>2. QED
            BY <4>1, <5>1
        <4>3. QED
          BY <3>3, <4>1, <4>2
      <3>4. QED
        BY <3>1, <3>2, <3>3
    <2>6. QED
      BY <1>1, <2>3, <2>5
  <1>6. QED
    BY <1>3, <1>4, <1>5 DEF ChosenInv

LEMMA ChosenStays ==
  ASSUME ChosenInv, UNCHANGED <<url, nav, text, timer, wanted, crossed>>,
         sheet' \in Grid!Queries \cup {Nothing}
  PROVE  ChosenInv'
  BY DEF ChosenInv, AskOK, Timing, GridChosen, GridAsked, Ahead

LEMMA NextChosen == ChosenInv /\ [Grid!Next]_(Grid!vars) => ChosenInv'
  <1> SUFFICES ASSUME ChosenInv, [Grid!Next]_(Grid!vars) PROVE ChosenInv'
    OBVIOUS
  <1>0. url \in Grid!Queries /\ sheet \in Grid!Queries \cup {Nothing}
    BY DEF ChosenInv, AskOK
  <1>1. CASE UNCHANGED Grid!askVars
    BY <1>0, <1>1, ChosenStays DEF Grid!askVars
  <1>2. CASE Grid!OpenFilters \/ Grid!CloseFilters
    <2>1. UNCHANGED <<url, nav, text, timer, wanted, crossed>> /\ sheet' \in {url, Nothing}
      BY <1>2 DEF Grid!OpenFilters, Grid!CloseFilters
    <2>2. QED
      BY <1>0, <2>1, ChosenStays
  <1>3. CASE \E t \in Grid!Texts : Grid!Type(t)
    BY <1>3, TypeChosen
  <1>4. CASE Grid!Submit \/ Grid!RemoveChip \/ Grid!Apply
    BY <1>4, SubmitChosen, RemoveChipChosen, ApplyChosen
  <1>5. CASE \E sort \in Grid!Sorts : Grid!ChooseSort(sort)
    BY <1>5, ChooseSortChosen
  <1>6. CASE \E query \in Grid!Queries : Grid!Travel(query)
    BY <1>6, TravelChosen
  <1>7. CASE Grid!Pause \/ Grid!Arrive
    BY <1>7, PauseChosen, ArriveChosen
  <1>8. CASE \E r \in requests : Grid!Serve(r) \/ Grid!Fail(r) \/ Grid!Receive(r)
    BY <1>1, <1>8 DEF Grid!Serve, Grid!Fail, Grid!Receive
  <1>9. CASE Grid!loadMore \/ Grid!TryAgain
    BY <1>1, <1>9 DEF Grid!loadMore, Grid!TryAgain
  <1>10. CASE \E s \in Items : Grid!Change(s)
    BY <1>1, <1>10 DEF Grid!Change
  <1>11. CASE UNCHANGED Grid!vars
    BY <1>1, <1>11 DEF Grid!vars, Grid!askVars
  <1>12. QED
    BY <1>2, <1>3, <1>4, <1>5, <1>6, <1>7, <1>8, <1>9, <1>10, <1>11 DEF Grid!Next, Grid!Visitor,
       Grid!Page

LEMMA QuietAgrees == ChosenInv => Grid!OnlyCrossingsLoseChoices
  BY DEF ChosenInv, GridChosen, GridAsked, Ahead, Grid!OnlyCrossingsLoseChoices, Grid!Quiet

\* Whatever order typing, filters, sorting and history come in: at rest the page has what the
\* visitor asked for, unless a choice crossed a navigation.
LEMMA ChoicesKept ==
  Grid!Init /\ [][Grid!Next]_(Grid!vars) =>
    []Grid!OnlyCrossingsLoseChoices
  BY InitChosen, NextChosen, QuietAgrees, PTL

-----------------------------------------------------------------------------
(* What the grid shows. *)

Grids ==
  [query : Grid!Queries, cards : Seq(Grid!Cards), nextCursor : Grid!Cursors \cup {Nothing}, hasMore : BOOLEAN,
   depthLimited : BOOLEAN, status : Statuses, same : SUBSET Items]
Requests ==
  [query : Grid!Queries, cursor : Grid!Cursors \cup {Nothing}, state : {"sent", "page", "deep", "failed"},
   page : Pages, same : SUBSET Items]
Lists == {"ready", "loading-more", "error-more"}

FirstOK(i) == i \in [page : Pages, same : SUBSET Items] /\ GridPageOK(Grid!Default, Nothing, i.page, i.same)

\* The cards end where the next cursor starts.
GridOK(g) ==
  /\ g \in Grids /\ Distinct(g.cards)
  /\ g.status \in Lists => Complete(g.query, Nothing, g.cards, g.nextCursor, g.same)

\* A request is for the grid's query, and one for more starts where its cards end; what the server
\* has answered since is true of whatever has not changed since.
RequestOK(r, g) ==
  /\ r \in Requests /\ r.query = g.query
  /\ r.state = "page" => GridPageOK(r.query, r.cursor, r.page, r.same)
  /\ r.cursor # Nothing => /\ g.status = "loading-more" /\ r.cursor = g.nextCursor
                           /\ r.state = "page" => g.same \subseteq r.same

ListsInv ==
  /\ RecOK /\ FirstOK(initial) /\ GridOK(grid) /\ grid.query = url
  /\ \A r \in requests : RequestOK(r, grid)
  /\ \A r, q \in requests : r = q

LEMMA CompleteSame ==
  ASSUME rec' = rec, NEW query, NEW cursor, NEW cards, NEW next, NEW same
  PROVE  Complete(query, cursor, cards, next, same)' <=> Complete(query, cursor, cards, next, same)
  BY DEF Complete, Grid!filterConditions, Grid!after, Grid!SortKey

LEMMA PageSame ==
  ASSUME rec' = rec, NEW query, NEW cursor, NEW leaf, NEW same
  PROVE  GridPageOK(query, cursor, leaf, same)' <=> GridPageOK(query, cursor, leaf, same)
  BY CompleteSame DEF GridPageOK

LEMMA GridSame ==
  ASSUME rec' = rec, NEW g
  PROVE  GridOK(g)' <=> GridOK(g)
  BY CompleteSame DEF GridOK

LEMMA RequestSame ==
  ASSUME rec' = rec, NEW r, NEW g
  PROVE  RequestOK(r, g)' <=> RequestOK(r, g)
  BY PageSame DEF RequestOK

LEMMA FirstSame ==
  ASSUME rec' = rec, NEW i
  PROVE  FirstOK(i)' <=> FirstOK(i)
  BY PageSame DEF FirstOK

\* A step that leaves the startups alone is judged by what they are.
LEMMA Judged ==
  ASSUME ListsInv, UNCHANGED <<rec, initial>>, GridOK(grid'), grid'.query = url',
         \A r \in requests' : RequestOK(r, grid'), \A r, q \in requests' : r = q
  PROVE  ListsInv'
  <1>1. PICK g, i, l : g = grid' /\ i = initial' /\ l = requests'
    OBVIOUS
  <1>2. GridOK(g)' /\ FirstOK(i)' /\ \A r \in l : RequestOK(r, g)'
    BY <1>1, GridSame, FirstSame, RequestSame DEF ListsInv
  <1>3. RecOK'
    BY DEF ListsInv, RecOK
  <1>4. QED
    BY <1>1, <1>2, <1>3 DEF ListsInv

\* The page the server has rendered, and what a grid makes of a first page.
LEMMA FirstPageOK ==
  ASSUME NEW query \in Grid!Queries, NEW leaf, NEW same \in SUBSET Items,
         GridPageOK(query, Nothing, leaf, same)
  PROVE  GridOK(Grid!fromPage(query, leaf, same)) /\ Grid!fromPage(query, leaf, same).query = query
  <1>1. PICK g : g = Grid!fromPage(query, leaf, same)
    OBVIOUS
  <1>2. leaf \in Pages /\ Distinct(leaf.cards) /\ Complete(query, Nothing, leaf.cards, leaf.cursor, same)
    BY DEF GridPageOK
  <1>3. PICK more : more = (leaf.cursor # Nothing)
    OBVIOUS
  <1>4. more \in BOOLEAN
    BY <1>3, Zenon
  <1>5. g = [query |-> query, cards |-> leaf.cards, nextCursor |-> leaf.cursor, hasMore |-> more,
             depthLimited |-> FALSE, status |-> "ready", same |-> same]
    BY <1>1, <1>3 DEF Grid!fromPage
  <1>6. leaf.cards \in Seq(Grid!Cards) /\ leaf.cursor \in Grid!Cursors \cup {Nothing}
    BY <1>2 DEF Pages
  <1>7. g \in Grids
    BY <1>4, <1>5, <1>6 DEF Grids, Statuses
  <1>8. /\ g.cards = leaf.cards /\ g.nextCursor = leaf.cursor /\ g.query = query /\ g.same = same
    BY <1>5
  <1>9. QED
    BY <1>1, <1>2, <1>7, <1>8 DEF GridOK

LEMMA DefaultQuery == Grid!Default \in Grid!Queries
  BY DEF Grid!Default, Grid!Queries, Grid!Sorts

LEMMA LoadOK ==
  ASSUME ListsInv, NEW query \in Grid!Queries, Grid!load(query)
  PROVE  /\ GridOK(grid') /\ grid'.query = query
         /\ \A r \in requests' : RequestOK(r, grid')
         /\ \A r, q \in requests' : r = q
  <1>1. CASE query = Grid!Default
    <2>1. grid' = Grid!fromPage(query, initial.page, initial.same) /\ requests' = {}
      BY <1>1 DEF Grid!load
    <2>2. GridPageOK(query, Nothing, initial.page, initial.same) /\ initial.same \in SUBSET Items
      BY <1>1 DEF ListsInv, FirstOK
    <2>3. QED
      BY <2>1, <2>2, FirstPageOK
  <1>2. CASE query # Grid!Default
    <2>1. /\ grid' = [grid EXCEPT !.query = query, !.cards = <<>>, !.status = "loading",
                                  !.depthLimited = FALSE, !.same = {}]
          /\ requests' = Grid!fetchPage(query, Nothing)
      BY <1>2 DEF Grid!load
    <2>2. PICK g : g = grid'
      OBVIOUS
    <2>3. g = [query |-> query, cards |-> <<>>, nextCursor |-> grid.nextCursor, hasMore |-> grid.hasMore,
               depthLimited |-> FALSE, status |-> "loading", same |-> {}]
      BY <2>1, <2>2 DEF ListsInv, GridOK, Grids
    <2>4. g \in Grids
      BY <2>3 DEF ListsInv, GridOK, Grids, Statuses
    <2>5. GridOK(g) /\ g.query = query
      BY <2>3, <2>4 DEF GridOK, Distinct, Lists
    <2>6. PICK r : r = [query |-> query, cursor |-> Nothing, state |-> "sent", page |-> initial.page, same |-> {}]
      OBVIOUS
    <2>7. requests' = {r}
      BY <2>1, <2>6 DEF Grid!fetchPage
    <2>8. r \in Requests /\ r.query = query /\ r.state = "sent" /\ r.cursor = Nothing
      BY <2>6 DEF ListsInv, FirstOK, Requests
    <2>9. RequestOK(r, g)
      BY <2>5, <2>8 DEF RequestOK
    <2>10. QED
      BY <2>2, <2>5, <2>7, <2>9
  <1>3. QED
    BY <1>1, <1>2

LEMMA loadMoreLists ==
  ASSUME ListsInv, url \in Grid!Queries, Grid!loadMore
  PROVE  ListsInv'
  <1>1. /\ Grid!LoadMoreOffered /\ grid.nextCursor # Nothing /\ UNCHANGED <<rec, url, initial>>
        /\ grid' = [grid EXCEPT !.status = "loading-more"]
        /\ requests' = Grid!fetchPage(url, grid.nextCursor)
    BY DEF Grid!loadMore, Grid!serverVars, Grid!askVars
  <1>2. grid.status \in Lists
    BY <1>1 DEF Grid!LoadMoreOffered, Lists
  <1>3. PICK g : g = grid'
    OBVIOUS
  <1>4. g = [query |-> grid.query, cards |-> grid.cards, nextCursor |-> grid.nextCursor,
             hasMore |-> grid.hasMore, depthLimited |-> grid.depthLimited, status |-> "loading-more",
             same |-> grid.same]
    BY <1>1, <1>3 DEF ListsInv, GridOK, Grids
  <1>5. g \in Grids
    BY <1>4 DEF ListsInv, GridOK, Grids, Statuses
  <1>6. /\ g.query = url /\ g.cards = grid.cards /\ g.nextCursor = grid.nextCursor /\ g.same = grid.same
        /\ g.status = "loading-more"
    BY <1>4 DEF ListsInv
  <1>7. GridOK(g)
    BY <1>2, <1>5, <1>6 DEF ListsInv, GridOK
  <1>8. PICK r : r = [query |-> url, cursor |-> grid.nextCursor, state |-> "sent",
                      page |-> initial.page, same |-> {}]
    OBVIOUS
  <1>9. requests' = {r}
    BY <1>1, <1>8 DEF Grid!fetchPage
  <1>10. r \in Requests /\ r.query = url /\ r.state = "sent" /\ r.cursor = grid.nextCursor
    BY <1>8 DEF ListsInv, FirstOK, GridOK, Grids, Requests
  <1>11. RequestOK(r, g)
    BY <1>6, <1>10 DEF RequestOK
  <1>12. QED
    BY <1>1, <1>3, <1>6, <1>7, <1>9, <1>11, Judged

LEMMA TryAgainLists ==
  ASSUME ListsInv, url \in Grid!Queries, Grid!TryAgain
  PROVE  ListsInv'
  <1>1. Grid!load(url) /\ UNCHANGED <<rec, url, initial>>
    BY DEF Grid!TryAgain, Grid!serverVars, Grid!askVars
  <1>2. QED
    BY <1>1, LoadOK, Judged

LEMMA FollowLists ==
  ASSUME ListsInv, NEW query \in Grid!Queries, Grid!FollowUrl(query), UNCHANGED <<rec, initial>>
  PROVE  ListsInv'
  <1>1. url' = query
    BY DEF Grid!FollowUrl
  <1>2. CASE query # grid.query
    <2>1. Grid!load(query)
      BY <1>2 DEF Grid!FollowUrl
    <2>2. QED
      BY <1>1, <2>1, LoadOK, Judged
  <1>3. CASE query = grid.query
    <2>1. UNCHANGED <<grid, requests>>
      BY <1>3 DEF Grid!FollowUrl
    <2>2. QED
      BY <1>1, <1>3, <2>1, Judged DEF ListsInv
  <1>4. QED
    BY <1>2, <1>3

\* The answer to a request is true of every startup at that moment.
LEMMA ServeLists ==
  ASSUME ListsInv, NEW r \in requests, Grid!Serve(r)
  PROVE  ListsInv'
  <1>1. r.state = "sent" /\ UNCHANGED <<rec, url, initial, grid>>
    BY DEF Grid!Serve, Grid!serverVars, Grid!askVars
  <1>2. PICK a : a = IF Grid!TooDeep(r.cursor) THEN [r EXCEPT !.state = "deep"]
                     ELSE [r EXCEPT !.state = "page", !.page = Grid!list(r.query, r.cursor), !.same = Items]
    OBVIOUS
  <1>3. requests' = {a}
    <2>1. requests' = (requests \ {r}) \cup {a}
      BY <1>2 DEF Grid!Serve
    <2>2. requests \ {r} = {}
      BY DEF ListsInv
    <2>3. QED
      BY <2>1, <2>2
  <1>4. PICK query, cursor, leaf, same :
          r = [query |-> query, cursor |-> cursor, state |-> "sent", page |-> leaf, same |-> same]
    <2>1. r \in Requests
      BY DEF ListsInv, RequestOK
    <2>2. r = [query |-> r.query, cursor |-> r.cursor, state |-> "sent", page |-> r.page, same |-> r.same]
      BY <1>1, <2>1 DEF Requests
    <2>3. QED
      BY <2>2, Zenon
  <1>5. /\ query \in Grid!Queries /\ cursor \in Grid!Cursors \cup {Nothing} /\ leaf \in Pages /\ same \in SUBSET Items
        /\ query = grid.query
        /\ cursor # Nothing => grid.status = "loading-more" /\ cursor = grid.nextCursor
    <2>1. RequestOK(r, grid)
      BY DEF ListsInv
    <2>2. QED
      BY <1>4, <2>1 DEF RequestOK, Requests
  <1>6. RequestOK(a, grid)
    <2>1. CASE Grid!TooDeep(cursor)
      <3>1. a = [query |-> query, cursor |-> cursor, state |-> "deep", page |-> leaf, same |-> same]
        BY <1>2, <1>4, <2>1
      <3>2. a \in Requests
        BY <1>5, <3>1 DEF Requests
      <3>3. QED
        BY <1>5, <3>1, <3>2 DEF RequestOK
    <2>2. CASE ~Grid!TooDeep(cursor)
      <3>1. PICK p : p = Grid!list(query, cursor)
        OBVIOUS
      <3>2. GridPageOK(query, cursor, p, Items)
        BY <1>5, <3>1, ListOK DEF ListsInv
      <3>3. a = [query |-> query, cursor |-> cursor, state |-> "page", page |-> p, same |-> Items]
        BY <1>2, <1>4, <2>2, <3>1
      <3>4. a \in Requests
        BY <1>5, <3>2, <3>3 DEF Requests, GridPageOK
      <3>5. grid.same \subseteq Items
        BY DEF ListsInv, GridOK, Grids
      <3>6. QED
        BY <1>5, <3>2, <3>3, <3>4, <3>5 DEF RequestOK
    <2>3. QED
      BY <2>1, <2>2
  <1>7. QED
    BY <1>1, <1>3, <1>6, Judged DEF ListsInv

LEMMA FailLists ==
  ASSUME ListsInv, NEW r \in requests, Grid!Fail(r)
  PROVE  ListsInv'
  <1>1. UNCHANGED <<rec, url, initial, grid>>
    BY DEF Grid!Fail, Grid!serverVars, Grid!askVars
  <1>2. PICK a : a = [r EXCEPT !.state = "failed"]
    OBVIOUS
  <1>3. requests' = {a}
    <2>1. requests' = (requests \ {r}) \cup {a}
      BY <1>2 DEF Grid!Fail
    <2>2. requests \ {r} = {}
      BY DEF ListsInv
    <2>3. QED
      BY <2>1, <2>2
  <1>4. r \in Requests /\ r.query = grid.query
        /\ (r.cursor # Nothing => grid.status = "loading-more" /\ r.cursor = grid.nextCursor)
    <2>1. RequestOK(r, grid)
      BY DEF ListsInv
    <2>2. QED
      BY <2>1 DEF RequestOK
  <1>5. a \in Requests /\ a.query = r.query /\ a.cursor = r.cursor /\ a.state = "failed"
    BY <1>2, <1>4 DEF Requests
  <1>6. RequestOK(a, grid)
    BY <1>4, <1>5 DEF RequestOK
  <1>7. QED
    BY <1>1, <1>3, <1>6, Judged DEF ListsInv

\* What an answer makes of the grid.
LEMMA AnsweredOK ==
  ASSUME ListsInv, NEW r, RequestOK(r, grid), r.state # "sent"
  PROVE  GridOK(Grid!Answered(r)) /\ Grid!Answered(r).query = grid.query
  <1>1. grid \in Grids /\ Distinct(grid.cards) /\ grid.query \in Grid!Queries
        /\ (grid.status \in Lists => Complete(grid.query, Nothing, grid.cards, grid.nextCursor, grid.same))
    BY DEF ListsInv, GridOK, Grids
  <1>2. r \in Requests /\ r.query = grid.query
        /\ (r.state = "page" => GridPageOK(r.query, r.cursor, r.page, r.same))
        /\ (r.cursor # Nothing => /\ grid.status = "loading-more" /\ r.cursor = grid.nextCursor
                                  /\ r.state = "page" => grid.same \subseteq r.same)
    BY DEF RequestOK
  <1>3. PICK g : g = Grid!Answered(r)
    OBVIOUS
  <1>4. CASE r.cursor = Nothing /\ r.state = "page"
    <2>1. g = Grid!fromPage(r.query, r.page, r.same) /\ r.same \in SUBSET Items /\ r.query \in Grid!Queries
      BY <1>2, <1>3, <1>4 DEF Grid!Answered, Requests
    <2>2. QED
      BY <1>2, <1>3, <1>4, <2>1, FirstPageOK
  <1>5. CASE r.cursor = Nothing /\ r.state # "page"
    <2>1. g = [grid EXCEPT !.status = "error"]
      BY <1>3, <1>5 DEF Grid!Answered
    <2>2. g \in Grids /\ g.cards = grid.cards /\ g.query = grid.query /\ g.status = "error"
      BY <1>1, <2>1 DEF Grids, Statuses
    <2>3. QED
      BY <1>1, <1>3, <2>2 DEF GridOK, Lists
  <1>6. CASE r.cursor # Nothing /\ r.state = "page"
    <2>1. PICK all : all = Grid!appendUnique(grid.cards, r.page.cards)
      OBVIOUS
    <2>2. PICK next, more : next = r.page.cursor /\ more = (next # Nothing)
      OBVIOUS
    <2>3. g = [grid EXCEPT !.cards = all, !.nextCursor = next, !.hasMore = more, !.status = "ready"]
      BY <1>3, <1>6, <2>1, <2>2 DEF Grid!Answered
    <2>4. GridPageOK(r.query, r.cursor, r.page, r.same)
      BY <1>2, <1>6
    <2>5. r.page.cards \in Seq(Grid!Cards) /\ Distinct(r.page.cards) /\ next \in Grid!Cursors \cup {Nothing}
      BY <2>2, <2>4 DEF GridPageOK, Pages
    <2>6. grid.cards \in Seq(Grid!Cards)
      BY <1>1 DEF Grids
    <2>7. /\ all \in Seq(Grid!Cards) /\ Distinct(all)
          /\ \A i \in DOMAIN grid.cards : \E j \in DOMAIN all : all[j] = grid.cards[i]
          /\ \A i \in DOMAIN r.page.cards : \E j \in DOMAIN all : all[j] = r.page.cards[i]
      BY <1>1, <2>1, <2>5, <2>6, AppendFacts
    <2>8. more \in BOOLEAN
      BY <2>2, Zenon
    <2>9. g = [query |-> grid.query, cards |-> all, nextCursor |-> next, hasMore |-> more,
               depthLimited |-> grid.depthLimited, status |-> "ready", same |-> grid.same]
      BY <1>1, <2>3 DEF Grids
    <2>10. g \in Grids
      BY <1>1, <2>5, <2>7, <2>8, <2>9 DEF Grids, Statuses
    <2>11. g.cards = all /\ g.nextCursor = next /\ g.query = grid.query /\ g.same = grid.same
      BY <2>9
    <2>12. Complete(grid.query, Nothing, all, next, grid.same)
      <3> SUFFICES ASSUME NEW s \in grid.same, Grid!filterConditions(grid.query, s),
                          \A j \in DOMAIN all : all[j].id # s
                   PROVE  next # Nothing /\ Grid!after(next, s)
        BY DEF Complete
      <3>1. Complete(grid.query, Nothing, grid.cards, r.cursor, grid.same)
        BY <1>1, <1>2, <1>6 DEF Lists
      <3>2. Grid!after(Nothing, s)
        BY DEF Grid!after
      <3>3. Grid!after(r.cursor, s)
        BY <2>7, <3>1, <3>2 DEF Complete
      <3>4. s \in r.same
        BY <1>2, <1>6
      <3>5. QED
        BY <1>2, <2>2, <2>4, <2>7, <3>3, <3>4 DEF GridPageOK, Complete
    <2>13. QED
      BY <1>3, <2>7, <2>10, <2>11, <2>12 DEF GridOK
  <1>7. CASE r.cursor # Nothing /\ r.state = "deep"
    <2>1. g = [grid EXCEPT !.hasMore = FALSE, !.depthLimited = TRUE, !.status = "ready"]
      BY <1>3, <1>7 DEF Grid!Answered
    <2>2. /\ g \in Grids /\ g.cards = grid.cards /\ g.query = grid.query /\ g.same = grid.same
          /\ g.nextCursor = grid.nextCursor
      BY <1>1, <2>1 DEF Grids, Statuses
    <2>3. QED
      BY <1>1, <1>2, <1>3, <1>7, <2>2 DEF GridOK, Lists
  <1>8. CASE r.cursor # Nothing /\ r.state = "failed"
    <2>1. g = [grid EXCEPT !.status = "error-more"]
      BY <1>3, <1>8 DEF Grid!Answered
    <2>2. /\ g \in Grids /\ g.cards = grid.cards /\ g.query = grid.query /\ g.same = grid.same
          /\ g.nextCursor = grid.nextCursor
      BY <1>1, <2>1 DEF Grids, Statuses
    <2>3. QED
      BY <1>1, <1>2, <1>3, <1>8, <2>2 DEF GridOK, Lists
  <1>9. r.state \in {"page", "deep", "failed"}
    BY <1>2 DEF Requests
  <1>10. QED
    BY <1>4, <1>5, <1>6, <1>7, <1>8, <1>9

LEMMA ReceiveLists ==
  ASSUME ListsInv, NEW r \in requests, Grid!Receive(r)
  PROVE  ListsInv'
  <1>1. r.state # "sent" /\ UNCHANGED <<rec, url, initial>> /\ requests' = requests \ {r}
        /\ grid' = IF grid.query = r.query THEN Grid!Answered(r) ELSE grid
    BY DEF Grid!Receive, Grid!serverVars, Grid!askVars
  <1>2. RequestOK(r, grid)
    BY DEF ListsInv
  <1>3. requests' = {}
    BY <1>1 DEF ListsInv
  <1>4. GridOK(grid') /\ grid'.query = url
    BY <1>1, <1>2, AnsweredOK DEF ListsInv
  <1>5. QED
    BY <1>1, <1>3, <1>4, Judged

\* What was on a page or after it is so still, but for the startup that has changed.
LEMMA CompleteStays ==
  ASSUME NEW query, NEW cursor, NEW cards, NEW next, NEW same, NEW less \in SUBSET same,
         \A t \in less : rec'[t] = rec[t], Complete(query, cursor, cards, next, same)
  PROVE  Complete(query, cursor, cards, next, less)'
  BY DEF Complete, Grid!filterConditions, Grid!after, Grid!SortKey

LEMMA ChangeLists ==
  ASSUME ListsInv, NEW s \in Items, Grid!Change(s)
  PROVE  ListsInv'
  <1>1. PICK x \in {[rec[s] EXCEPT !.raised = 1 - @], [rec[s] EXCEPT !.public = ~@],
                    [rec[s] EXCEPT !.renamed = TRUE]} : rec' = [rec EXCEPT ![s] = x]
    BY DEF Grid!Change
  <1>2. /\ initial' = [initial EXCEPT !.same = @ \ {s}]
        /\ grid' = [grid EXCEPT !.same = @ \ {s}]
        /\ requests' = {[r EXCEPT !.same = @ \ {s}] : r \in requests}
        /\ url' = url
    BY DEF Grid!Change, Grid!askVars
  <1>3. RecOK'
    <2>1. PICK raised \in {0, 1}, renamed \in BOOLEAN, public \in BOOLEAN :
            rec[s] = [raised |-> raised, renamed |-> renamed, public |-> public]
      BY DEF ListsInv, RecOK
    <2>2. 1 - raised \in {0, 1}
      OBVIOUS
    <2>3. PICK other : other = ~public
      OBVIOUS
    <2>4. other \in BOOLEAN
      BY <2>3, Zenon
    <2>5. x \in {[raised |-> 1 - raised, renamed |-> renamed, public |-> public],
                 [raised |-> raised, renamed |-> renamed, public |-> other],
                 [raised |-> raised, renamed |-> TRUE, public |-> public]}
      BY <1>1, <2>1, <2>3
    <2>6. x \in [raised : {0, 1}, renamed : BOOLEAN, public : BOOLEAN]
      <3>1. [raised |-> 1 - raised, renamed |-> renamed, public |-> public]
              \in [raised : {0, 1}, renamed : BOOLEAN, public : BOOLEAN]
        BY <2>2
      <3>2. [raised |-> raised, renamed |-> renamed, public |-> other]
              \in [raised : {0, 1}, renamed : BOOLEAN, public : BOOLEAN]
        BY <2>4
      <3>3. [raised |-> raised, renamed |-> TRUE, public |-> public]
              \in [raised : {0, 1}, renamed : BOOLEAN, public : BOOLEAN]
        OBVIOUS
      <3>4. QED
        BY <2>5, <3>1, <3>2, <3>3, Zenon
    <2>7. QED
      BY <1>1, <2>6 DEF ListsInv, RecOK
  <1>4. \A t \in Items : t # s => rec'[t] = rec[t]
    BY <1>1 DEF ListsInv, RecOK
  <1>5. ASSUME NEW query, NEW cursor, NEW cards, NEW next, NEW same \in SUBSET Items,
               Complete(query, cursor, cards, next, same)
        PROVE  Complete(query, cursor, cards, next, same \ {s})'
    <2>1. \A t \in same \ {s} : rec'[t] = rec[t]
      BY <1>4
    <2>2. same \ {s} \in SUBSET same
      OBVIOUS
    <2>3. QED
      BY <1>5, <2>1, <2>2, CompleteStays
  <1>6. ASSUME NEW query, NEW cursor, NEW leaf, NEW same \in SUBSET Items,
               GridPageOK(query, cursor, leaf, same)
        PROVE  GridPageOK(query, cursor, leaf, same \ {s})'
    <2>1. Complete(query, cursor, leaf.cards, leaf.cursor, same \ {s})'
      BY <1>5, <1>6 DEF GridPageOK
    <2>2. QED
      BY <1>6, <2>1 DEF GridPageOK
  <1>7. FirstOK(initial)'
    <2>1. PICK leaf, same : initial = [page |-> leaf, same |-> same]
      BY DEF ListsInv, FirstOK
    <2>2. leaf \in Pages /\ same \in SUBSET Items /\ GridPageOK(Grid!Default, Nothing, leaf, same)
      BY <2>1 DEF ListsInv, FirstOK
    <2>3. PICK i : i = initial'
      OBVIOUS
    <2>4. i = [page |-> leaf, same |-> same \ {s}]
      BY <1>2, <2>1, <2>3
    <2>5. GridPageOK(Grid!Default, Nothing, leaf, same \ {s})'
      BY <1>6, <2>2
    <2>6. i.page = leaf /\ i.same = same \ {s} /\ i \in [page : Pages, same : SUBSET Items]
      BY <2>2, <2>4
    <2>7. FirstOK(i)'
      BY <2>5, <2>6 DEF FirstOK
    <2>8. QED
      BY <2>3, <2>7
  <1>8. PICK g : g = grid'
    OBVIOUS
  <1>9. /\ g \in Grids /\ g.query = grid.query /\ g.cards = grid.cards /\ g.nextCursor = grid.nextCursor
        /\ g.status = grid.status /\ g.same = grid.same \ {s} /\ grid.same \in SUBSET Items
    BY <1>2, <1>8 DEF ListsInv, GridOK, Grids
  <1>10. GridOK(g)'
    <2>1. g.status \in Lists => Complete(g.query, Nothing, g.cards, g.nextCursor, g.same)'
      BY <1>5, <1>9 DEF ListsInv, GridOK
    <2>2. Distinct(g.cards)
      BY <1>9 DEF ListsInv, GridOK
    <2>3. QED
      BY <1>9, <2>1, <2>2 DEF GridOK
  <1>11. ASSUME NEW r \in requests' PROVE RequestOK(r, g)'
    <2>1. PICK q \in requests : r = [q EXCEPT !.same = @ \ {s}]
      BY <1>2
    <2>2. RequestOK(q, grid)
      BY DEF ListsInv
    <2>3. /\ r \in Requests /\ r.query = q.query /\ r.cursor = q.cursor /\ r.state = q.state
          /\ r.page = q.page /\ r.same = q.same \ {s} /\ q.same \in SUBSET Items
      BY <2>1, <2>2 DEF RequestOK, Requests
    <2>4. r.state = "page" => GridPageOK(r.query, r.cursor, r.page, r.same)'
      BY <1>6, <2>2, <2>3 DEF RequestOK
    <2>5. r.cursor # Nothing => /\ g.status = "loading-more" /\ r.cursor = g.nextCursor
                                /\ r.state = "page" => g.same \subseteq r.same
      BY <1>9, <2>2, <2>3 DEF RequestOK
    <2>6. r.query = g.query
      BY <1>9, <2>2, <2>3 DEF RequestOK
    <2>7. QED
      BY <2>3, <2>4, <2>5, <2>6 DEF RequestOK
  <1>12. \A r, q \in requests' : r = q
    BY <1>2, ZenonT(60) DEF ListsInv
  <1>13. PICK l : l = requests'
    OBVIOUS
  <1>14. \A r \in l : RequestOK(r, g)'
    BY <1>11, <1>13
  <1>15. QED
    BY <1>2, <1>3, <1>7, <1>8, <1>9, <1>10, <1>12, <1>13, <1>14 DEF ListsInv

LEMMA InitLists == Grid!Init => ListsInv
  <1> SUFFICES ASSUME Grid!Init PROVE ListsInv
    OBVIOUS
  <1>1. RecOK
    <2>1. rec = [s \in Items |-> [raised |-> Raised[s], renamed |-> FALSE, public |-> TRUE]]
      BY DEF Grid!Init
    <2>2. \A s \in Items : Raised[s] \in {0, 1}
      BY GridGiven DEF Grid!GridAssumption
    <2>3. QED
      BY <2>1, <2>2 DEF RecOK
  <1>2. PICK leaf : leaf = Grid!list(Grid!Default, Nothing)
    OBVIOUS
  <1>3. GridPageOK(Grid!Default, Nothing, leaf, Items)
    BY <1>1, <1>2, DefaultQuery, ListOK
  <1>4. url \in Grid!Queries /\ initial = [page |-> leaf, same |-> Items]
    BY <1>2 DEF Grid!Init
  <1>5. FirstOK(initial) /\ initial.page = leaf /\ leaf \in Pages
    BY <1>3, <1>4 DEF FirstOK, GridPageOK
  <1>6. CASE url = Grid!Default
    <2>1. grid = Grid!fromPage(url, leaf, Items) /\ requests = {}
      BY <1>5, <1>6 DEF Grid!Init
    <2>2. GridOK(grid) /\ grid.query = url
      BY <1>3, <1>4, <1>6, <2>1, FirstPageOK
    <2>3. QED
      BY <1>1, <1>5, <2>1, <2>2 DEF ListsInv
  <1>7. CASE url # Grid!Default
    <2>1. /\ grid = [Grid!fromPage(url, leaf, {}) EXCEPT !.cards = <<>>, !.status = "loading"]
          /\ requests = {[query |-> url, cursor |-> Nothing, state |-> "sent", page |-> leaf, same |-> {}]}
      BY <1>5, <1>7 DEF Grid!Init
    <2>2. PICK more : more = (leaf.cursor # Nothing)
      OBVIOUS
    <2>3. more \in BOOLEAN /\ leaf.cursor \in Grid!Cursors \cup {Nothing}
      BY <1>5, <2>2, Zenon DEF Pages
    <2>4. grid = [query |-> url, cards |-> <<>>, nextCursor |-> leaf.cursor, hasMore |-> more,
                  depthLimited |-> FALSE, status |-> "loading", same |-> {}]
      BY <2>1, <2>2 DEF Grid!fromPage
    <2>5. grid \in Grids
      BY <1>4, <2>3, <2>4 DEF Grids, Statuses
    <2>6. GridOK(grid) /\ grid.query = url
      BY <2>4, <2>5 DEF GridOK, Distinct, Lists
    <2>7. PICK r : r = [query |-> url, cursor |-> Nothing, state |-> "sent", page |-> leaf, same |-> {}]
      OBVIOUS
    <2>8. r \in Requests /\ r.query = url /\ r.state = "sent" /\ r.cursor = Nothing
      BY <1>4, <1>5, <2>7 DEF Requests
    <2>9. RequestOK(r, grid)
      BY <2>6, <2>8 DEF RequestOK
    <2>10. QED
      BY <1>1, <1>5, <2>1, <2>6, <2>7, <2>9 DEF ListsInv
  <1>8. QED
    BY <1>6, <1>7

LEMMA ListsStay ==
  ASSUME ListsInv, UNCHANGED <<rec, url, initial, grid, requests>>
  PROVE  ListsInv'
  BY Judged DEF ListsInv

LEMMA NextLists == ChosenInv /\ ListsInv /\ [Grid!Next]_(Grid!vars) => ListsInv'
  <1> SUFFICES ASSUME ChosenInv, ListsInv, [Grid!Next]_(Grid!vars) PROVE ListsInv'
    OBVIOUS
  <1>0. url \in Grid!Queries /\ nav \in Grid!Queries \cup {Nothing}
    BY DEF ChosenInv, AskOK
  <1>1. CASE Grid!OpenFilters \/ Grid!CloseFilters \/ Grid!Submit \/ Grid!RemoveChip \/ Grid!Apply \/ Grid!Pause
    BY <1>1, ListsStay DEF Grid!OpenFilters, Grid!CloseFilters, Grid!Submit, Grid!RemoveChip,
       Grid!Apply, Grid!Pause, Grid!serverVars
  <1>2. CASE \E t \in Grid!Texts : Grid!Type(t)
    BY <1>2, ListsStay DEF Grid!Type, Grid!serverVars
  <1>3. CASE \E sort \in Grid!Sorts : Grid!ChooseSort(sort)
    BY <1>3, ListsStay DEF Grid!ChooseSort, Grid!serverVars
  <1>4. CASE \E query \in Grid!Queries : Grid!Travel(query)
    BY <1>4, FollowLists DEF Grid!Travel, Grid!serverVars
  <1>5. CASE Grid!Arrive
    BY <1>0, <1>5, FollowLists DEF Grid!Arrive, Grid!serverVars
  <1>6. CASE \E r \in requests : Grid!Serve(r) \/ Grid!Fail(r) \/ Grid!Receive(r)
    BY <1>6, ServeLists, FailLists, ReceiveLists
  <1>7. CASE Grid!loadMore \/ Grid!TryAgain
    BY <1>0, <1>7, loadMoreLists, TryAgainLists
  <1>8. CASE \E s \in Items : Grid!Change(s)
    BY <1>8, ChangeLists
  <1>9. CASE UNCHANGED Grid!vars
    BY <1>9, ListsStay DEF Grid!vars
  <1>10. QED
    BY <1>1, <1>2, <1>3, <1>4, <1>5, <1>6, <1>7, <1>8, <1>9 DEF Grid!Next, Grid!Visitor, Grid!Page

LEMMA Whole == ListsInv => Grid!NothingSkipped /\ Grid!ShownOnce
  <1> SUFFICES ASSUME ListsInv PROVE Grid!NothingSkipped /\ Grid!ShownOnce
    OBVIOUS
  <1>1. Grid!NothingSkipped
    <2> SUFFICES ASSUME grid.status \in Lists, NEW s \in grid.same, Grid!filterConditions(grid.query, s)
                 PROVE  s \in Grid!Shown \/ (grid.nextCursor # Nothing /\ Grid!after(grid.nextCursor, s))
      BY DEF Grid!NothingSkipped, Lists
    <2>1. Grid!after(Nothing, s)
      BY DEF Grid!after
    <2>2. QED
      BY <2>1 DEF ListsInv, GridOK, Complete, Grid!Shown
  <1>2. Grid!ShownOnce
    <2> SUFFICES ASSUME NEW i \in DOMAIN grid.cards, NEW j \in DOMAIN grid.cards, i # j,
                        grid.cards[i].id = grid.cards[j].id, grid.cards[i].renamed = grid.cards[j].renamed
                 PROVE  FALSE
      BY DEF Grid!ShownOnce
    <2>1. grid.cards[i] \in Grid!Cards /\ grid.cards[j] \in Grid!Cards
      BY DEF ListsInv, GridOK, Grids
    <2>2. grid.cards[i] = grid.cards[j]
      BY <2>1 DEF Grid!Cards
    <2>3. QED
      BY <2>2 DEF ListsInv, GridOK, Distinct
  <1>3. QED
    BY <1>1, <1>2

\* However visitors page, retry and come back, and whatever changes meanwhile: a startup that has
\* not changed is not skipped, and none is shown twice under one slug.
LEMMA ListsAreWhole ==
  Grid!Init /\ [][Grid!Next]_(Grid!vars) =>
    [](Grid!NothingSkipped /\ Grid!ShownOnce)
  <1>1. Grid!Init => ChosenInv /\ ListsInv
    BY InitChosen, InitLists
  <1>2. ChosenInv /\ ListsInv /\ [Grid!Next]_(Grid!vars) => ChosenInv' /\ ListsInv'
    BY NextChosen, NextLists
  <1>3. ListsInv => Grid!NothingSkipped /\ Grid!ShownOnce
    BY Whole
  <1>4. QED
    BY <1>1, <1>2, <1>3, PTL
-----------------------------------------------------------------------------
(* The tab: each of its parts behaves as if it were alone. *)

LEMMA GridPart == TabSpec => Grid!Init /\ [][Grid!Next]_(Grid!vars)
  <1>1. TabInit => Grid!Init
    BY DEF TabInit
  <1>2. [TabNext]_tabVars => [Grid!Next]_(Grid!vars)
    BY DEF TabNext, tabVars, gridVars, searchVars, viewVars, canvasVars,
       Grid!vars
  <1>3. QED
    BY <1>1, <1>2, PTL DEF TabSpec

LEMMA PalettePart == TabSpec => Palette!Init /\ [][Palette!Next]_(Palette!vars)
  <1>1. TabInit => Palette!Init
    BY DEF TabInit
  <1>2. [TabNext]_tabVars => [Palette!Next]_(Palette!vars)
    BY DEF TabNext, tabVars, gridVars, searchVars, viewVars, canvasVars,
       Palette!vars, Palette!palette, Palette!page, Palette!history
  <1>3. QED
    BY <1>1, <1>2, PTL DEF TabSpec

LEMMA ViewsPart == TabSpec => Views!Init /\ [][Views!Next]_(Views!landingVars)
  <1>1. TabInit => Views!Init
    BY DEF TabInit
  <1>2. [TabNext]_tabVars => [Views!Next]_(Views!landingVars)
    BY DEF TabNext, tabVars, gridVars, searchVars, viewVars, canvasVars,
       Views!landingVars, Views!effect, Views!canvas, Views!shown, Views!history
  <1>3. QED
    BY <1>1, <1>2, PTL DEF TabSpec

LEMMA CanvasPart == TabSpec => Canvas!Init /\ [][Canvas!Next]_(Canvas!atlasVars)
  <1>1. TabInit => Canvas!Init
    BY DEF TabInit
  <1>2. [TabNext]_tabVars => [Canvas!Next]_(Canvas!atlasVars)
    BY DEF TabNext, tabVars, gridVars, searchVars, viewVars, canvasVars,
       Canvas!atlasVars, Canvas!motion, Canvas!picture, Canvas!user
  <1>3. QED
    BY <1>1, <1>2, PTL DEF TabSpec

\* However visitors page, retry and come back, and whatever changes meanwhile: a startup that has
\* not changed is not skipped, and none is shown twice under one slug.
THEOREM ListsAlwaysWhole == TabSpec => []ListsWhole
  BY GridPart, ListsAreWhole, PTL DEF ListsWhole

\* Whatever order typing, filters, tabs, history and answers come in: the grid and the search page
\* end where the visitor asked to be, but for wishes made on a URL that was about to be replaced.
THEOREM WishesAlwaysKept == TabSpec => []OnlyCrossingsLoseWishes
  BY GridPart, PalettePart, ChoicesKept, WishesKept, PTL DEF OnlyCrossingsLoseWishes

\* Enter opens what was pointed at, whatever suggestions came since; a press on the canvas opens
\* the card it was on or one beside it that it was near, unless something else moved the grid.
THEOREM OpensAsMeant == TabSpec => OpensWhatWasMeant
  BY PalettePart, CanvasPart, EnterOpens, OpensPressed, PTL DEF OpensWhatWasMeant

\* However often motion, the WebGL context and the views change: the list is hidden only behind a
\* canvas that draws, one renderer runs at most, and the way back stays.
THEOREM CanvasStaysInOrder == TabSpec => []CanvasInOrder
  BY ViewsPart, CanvasAlwaysInOrder, PTL DEF CanvasInOrder

\* However the visitor moves, resizes and changes themes, and however late images come: every cell
\* shows its own card at rest, and in each frame whose cards have a slot each.
THEOREM CardsShown == TabSpec => ShowsItsCards
  BY CanvasPart, ShowsCards, PTL DEF ShowsItsCards

=============================================================================
