---------------------------- MODULE PublicPages ----------------------------
(***************************************************************************)
(* What the public site shows of the directory (services/startups.ts,      *)
(* founders.ts, investors.ts, batches.ts, rounds.ts, taxonomy.ts,          *)
(* search.ts, db/queries) while editors create, link, publish, hide and    *)
(* delete (services/*-writes.ts, lifecycle.ts, relation-writes.ts).        *)
(*                                                                         *)
(* A write is one action: it locks every row it decides by.  A page is     *)
(* read in several statements, and what each sees is what is committed     *)
(* when it starts.  Every statement repeats the rule of what is public,    *)
(* for each record it joins; a record is published, and a round also       *)
(* needs a published startup.  The reader is a visitor: an editor's reads  *)
(* are not restricted.                                                     *)
(***************************************************************************)
EXTENDS Naturals, FiniteSets, Sequences, Functions

CONSTANTS
    Startup, Founder, Investor, Batch, Round,
    StartupOf,           \* [Round -> Startup]: a round never changes startups
    Role, Industry, City,
    CountryOf,           \* [City -> countries]
    Hits,                \* [{"fulltext", "trigram"} -> records]: what a searched text matches
    Seeds,               \* where a run may start: <<all records' status, links>>
    MaxWrites,           \* bound: transactions
    MaxNested,           \* bound: links created with a startup
    None

Record == Startup \cup Founder \cup Investor \cup Batch \cup Round
Country == Range(CountryOf)

ASSUME RecordsAssumption ==
    /\ StartupOf \in [Round -> Startup] /\ DOMAIN CountryOf = City
    /\ Hits \in [{"fulltext", "trigram"} -> SUBSET (Record \ Round)]
    /\ MaxWrites \in Nat /\ MaxNested \in Nat
    /\ IsFiniteSet(Startup) /\ None \notin Record

\* Every id is a UUID: of one record, and no role, industry or city, nor part of a row; a category's
\* page knows which of the three it is about.
ASSUME DistinctIds ==
    /\ Round \cap (Startup \cup Founder \cup Investor \cup Batch) = {}
    /\ Startup \cap (Founder \cup Investor \cup Batch) = {}
    /\ Record \cap (Role \cup Industry \cup City) = {} /\ Record \cap BOOLEAN = {}
    /\ Industry \cap City = {} /\ Country \cap (Industry \cup City) = {}
    /\ Record \cap {"founder", "backer", "batch", "acquirer", "industry", "city", "organizer"} = {}

VARIABLES
    status,     \* [Record -> absent, draft, published or archived]
    first,      \* records with a first_published_at
    tagline,    \* startups that have one
    links,      \* the rows of the join tables, and the columns that name another record
    page,       \* the page that is being read, or was read last
    writes,     \* transactions, for the bound
    live,       \* history: records that were published at some moment of the page's read
    rows,       \* history: links that were there at some moment of it
    still,      \* history: nothing was written since its first statement
    seen        \* history: records and rows that were ever public

db == <<status, first, tagline, links>>
vars == <<db, page, writes, live, rows, still, seen>>

-----------------------------------------------------------------------------
(* Rows.  A link is a tuple: its table or column, its startup (an          *)
(* organizer's batch), the other end, and what else it says.               *)

LinksOf(s) ==
    {<<"founder", s, f, role>> : f \in Founder, role \in Role}
      \cup {<<"backer", s, i, r, lead>> :
               i \in Investor, r \in {None} \cup {q \in Round : StartupOf[q] = s}, lead \in BOOLEAN}
      \cup {<<"batch", s, b>> : b \in Batch}
      \cup {<<"acquirer", s, a, on>> : a \in Startup \ {s}, on \in BOOLEAN}
      \cup {<<"industry", s, x, primary>> : x \in Industry, primary \in BOOLEAN}
      \cup {<<"city", s, c>> : c \in City}
Link ==
    {<<"organizer", b, i>> : b \in Batch, i \in Investor} \cup UNION {LinksOf(s) : s \in Startup}
Ends(l) == Range(l) \cap Record
Rows(kind) == {l \in links : l[1] = kind}

\* The unique keys: one lead column for a backing, one primary industry, one value of a column.
Keyed(ls) ==
    \A k, l \in ls : k # l /\ k[1] = l[1] /\ k[2] = l[2] =>
        /\ k[1] \notin {"acquirer", "city", "organizer"}
        /\ k[1] = "backer" => k[3] # l[3] \/ k[4] # l[4]
        /\ k[1] = "industry" => k[3] # l[3] /\ ~(k[4] /\ l[4])

Exists(r) == status[r] # "absent"
Visible(r) == status[r] = "published"

\* What the public may see: published records, rounds of published startups, and links all of
\* whose ends are published.
Facts(l) ==
    IF l[1] # "backer" THEN {l}
    ELSE {<<"backs", l[3], l[2]>>}
           \cup (IF l[5] THEN {<<"leads", l[3], l[2]>>} ELSE {})
           \cup (IF l[4] # None THEN {<<"in", l[4], l[3]>>} ELSE {})
\* Neither a row nor what it says is an id.
ASSUME RowsAreNoIds == (Link \cup UNION {Facts(l) : l \in Link}) \cap (Record \cup {None}) = {}

PublicRows(rs, ls) ==
    {r \in rs : r \in Round => StartupOf[r] \in rs} \cup {l \in ls : Ends(l) \subseteq rs}
Public(rs, ls) ==
    LET shown == PublicRows(rs, ls)
    IN  (shown \cap Record) \cup UNION {Facts(l) : l \in shown \ Record}
Published(st) == {r \in Record : st[r] = "published"}

TypeOK ==
    /\ status \in [Record -> {"absent", "draft", "published", "archived"}]
    /\ first \subseteq Record /\ tagline \subseteq Startup
    /\ links \subseteq Link /\ Keyed(links)
    /\ \A r \in Round : Exists(r) => Exists(StartupOf[r])
    /\ \A l \in links : \A r \in Ends(l) : Exists(r)
    /\ writes \in 0 .. MaxWrites /\ still \in BOOLEAN

\* Rows that the tables may hold: their ends exist.
ASSUME SeedsAssumption ==
    \A seed \in Seeds :
        /\ seed[1] \in {"draft", "published", "archived"}
        /\ seed[2] \subseteq Link /\ Keyed(seed[2])

NoPage == [kind |-> "none", of |-> None, todo |-> {}, ids |-> {}, facts |-> {}, count |-> 0,
           mode |-> "fulltext", end |-> "none"]

Init ==
    /\ \E seed \in Seeds : status = [r \in Record |-> seed[1]] /\ links = seed[2]
    /\ first = {r \in Record : Visible(r)}
    /\ tagline = Startup
    /\ page = NoPage
    /\ writes = 0
    /\ live = {} /\ rows = {} /\ still = TRUE
    /\ seen = PublicRows(first, links)

-----------------------------------------------------------------------------
(* Queries: each is one SQL text, with the visibility it states *)

\* selectStartupCards: a card names the startup's acquirer if that is public too.
SelectCards(ss) == {s \in ss : Visible(s)}
Card(s) == {s} \cup {l \in Rows("acquirer") : l[2] = s /\ Visible(l[3])}
Cards(ss) == UNION {Card(s) : s \in SelectCards(ss)}

\* The filters of a list of startups.
InBatch(b) == {l[2] : l \in {k \in Rows("batch") : k[3] = b /\ Visible(b)}}
\* A bug: backing through a hidden round counts.
BackedByAnyRound(i) == {l[2] : l \in {k \in Rows("backer") : k[3] = i /\ Visible(i)}}
BackedBy(i) ==
    {l[2] : l \in {k \in Rows("backer") :
        k[3] = i /\ Visible(i) /\ (k[4] = None \/ Visible(k[4]))}}
NotAcquired == {s \in Startup : \A l \in Rows("acquirer") : l[2] = s => ~l[4]}
InFacet(x) ==
    {l[2] : l \in {k \in Rows("industry") \cup Rows("city") :
        k[3] = x \/ (x \in Country /\ k[1] = "city" /\ CountryOf[k[3]] = x)}}

\* portfolioStartupIds and the count of rounds led, correlated on an investor's row.
PortfolioIds(i) ==
    {l[2] : l \in {k \in Rows("backer") :
        k[3] = i /\ Visible(k[2]) /\ (k[4] = None \/ Visible(k[4]))}}
RoundsLedCount(i) ==
    Cardinality({l[4] : l \in {k \in Rows("backer") :
        k[3] = i /\ k[5] /\ k[4] # None /\ Visible(k[4]) /\ Visible(StartupOf[k[4]])}})
LedRounds(i) == {l[4] : l \in {k \in Rows("backer") : k[3] = i /\ k[5] /\ k[4] # None}}

\* selectRounds: rounds with their investors.
SelectRounds(rs) == {r \in rs : Visible(r) /\ Visible(StartupOf[r])}
RoundFacts(rs) ==
    LET shown == SelectRounds(rs)
    IN  shown \cup {<<"in", l[4], l[3]>> : l \in {k \in Rows("backer") :
                       k[4] \in shown /\ Visible(k[3])}}

\* A bug: a draft batch is shown on the companies of its cohort.
DetailColumnsOfAnyBatch(s) ==
    {l \in Rows("industry") \cup Rows("batch") : l[2] = s}
      \cup {<<"backs", l[3], s>> : l \in {k \in Rows("backer") : k[2] = s /\ Visible(k[3])}}
\* The aggregates of a company's row: industries, batches, and each backer once.
DetailColumns(s) ==
    LET shown == {l \in Rows("backer") :
                    l[2] = s /\ Visible(l[3]) /\ (l[4] = None \/ Visible(l[4]))}
    IN  {l \in Rows("industry") : l[2] = s}
          \cup {l \in Rows("batch") : l[2] = s /\ Visible(l[3])}
          \cup {<<"backs", l[3], s>> : l \in shown}
          \cup {<<"leads", l[3], s>> : l \in {k \in shown : k[5]}}
SelectFounders(s) == {l \in Rows("founder") : l[2] = s /\ Visible(l[3])}
Stints(f) == {l \in Rows("founder") : l[3] = f /\ Visible(l[2])}

CompanyCount(b) == Cardinality({l \in Rows("batch") : l[3] = b /\ Visible(l[2])})

\* Category pages and their directory.
Count(x) == Cardinality(SelectCards(InFacet(x)))
DirectoryCount(x) ==
    CASE x \in Industry -> Cardinality({l \in Rows("industry") : l[3] = x /\ Visible(l[2])})
      [] x \in City -> Cardinality({l \in Rows("city") : l[3] = x /\ Visible(l[2])})
      [] OTHER -> Cardinality({s \in Startup : Visible(s) /\
                    \E l \in Rows("city") : l[2] = s /\ CountryOf[l[3]] = x})

\* listSimilar: companies that share the subject's primary industry or its city.
Similar(s, primaries, cities) ==
    {l[2] : l \in {k \in Rows("industry") : k[4] /\ k[3] \in primaries}
                    \cup {k \in Rows("city") : k[3] \in cities}} \ {s}

StatCounts ==
    [startups |-> Cardinality({s \in Startup : Visible(s)}),
     rounds |-> Cardinality({r \in Round : Visible(r) /\ Visible(StartupOf[r])})]
Landing == SelectCards(NotAcquired)
StartupCount(f) == Cardinality({l[2] : l \in Stints(f)})

-----------------------------------------------------------------------------
(* A page's statements.  `todo' are those that are not done: some run in   *)
(* parallel, some only after another, whose rows they use (`ids').         *)

Open(kind, of, todo, ids, facts, count) ==
    /\ page.end # "reading"
    /\ page' = [NoPage EXCEPT !.kind = kind, !.of = of, !.todo = todo, !.ids = ids,
                              !.facts = facts, !.count = count, !.end = "reading"]
    /\ live' = Published(status) /\ rows' = links /\ still' = TRUE
    /\ UNCHANGED <<db, writes, seen>>

\* A page of one statement, or one that is not there.
Answer(kind, of, facts, end) ==
    /\ page.end # "reading"
    /\ page' = [NoPage EXCEPT !.kind = kind, !.of = of, !.facts = facts, !.end = end]
    /\ live' = Published(status) /\ rows' = links /\ still' = TRUE
    /\ UNCHANGED <<db, writes, seen>>
NotFound(kind, of) == Answer(kind, of, {}, "notFound")

Step(statement, ids, facts, end) ==
    /\ page' = [page EXCEPT !.todo = @ \ {statement}, !.ids = ids, !.facts = @ \cup facts,
                            !.end = end]
    /\ UNCHANGED <<db, writes, live, rows, still, seen>>
Reads(kinds, statement) == page.end = "reading" /\ page.kind \in kinds /\ statement \in page.todo
Last == IF Cardinality(page.todo) = 1 THEN "found" ELSE "reading"

ReadCompany(s) ==
    IF Visible(s) THEN Open("company", s, {"founders", "rounds"}, {}, Card(s) \cup DetailColumns(s), 0)
    ELSE NotFound("company", s)
CompanyFounders ==
    /\ Reads({"company"}, "founders")
    /\ Step("founders", {}, SelectFounders(page.of), Last)
ReadTimeline(s) ==
    IF Visible(s) THEN Open("timeline", s, {"rounds"}, {}, {}, 0) ELSE NotFound("timeline", s)
CompanyRounds ==
    /\ Reads({"company", "timeline"}, "rounds")
    /\ Step("rounds", {}, RoundFacts({r \in Round : StartupOf[r] = page.of}), Last)

ReadFounder(f) ==
    IF Visible(f) THEN Open("founder", f, {"stints", "cards"}, {}, {f}, 0)
    ELSE NotFound("founder", f)
FounderStints ==
    /\ Reads({"founder"}, "stints")
    /\ Step("stints", Stints(page.of), {}, "reading")
\* toFounder drops the stints of startups that have no card any more.
FounderCards ==
    /\ Reads({"founder"}, "cards") /\ "stints" \notin page.todo
    /\ LET ss == SelectCards({l[2] : l \in page.ids})
       IN  Step("cards", page.ids, Cards(ss) \cup {l \in page.ids : l[2] \in ss}, "found")

ReadInvestor(i) ==
    IF Visible(i) THEN Open("investor", i, {"portfolio"}, {}, {i}, Cardinality(PortfolioIds(i)))
    ELSE NotFound("investor", i)
ReadPortfolio(i) ==
    IF Visible(i) THEN Open("portfolio", i, {"portfolio"}, {}, {}, 0) ELSE NotFound("portfolio", i)
InvestorPortfolio ==
    /\ Reads({"investor", "portfolio"}, "portfolio")
    /\ Step("portfolio", SelectCards(BackedBy(page.of)),
            Cards(BackedBy(page.of))
              \cup {<<"backs", page.of, s>> : s \in SelectCards(BackedBy(page.of))}, "found")

ReadBatch(b) ==
    IF Visible(b)
    THEN Open("batch", b, {"stats", "cohort"}, {},
              {b} \cup {l \in Rows("organizer") : l[2] = b /\ Visible(l[3])}, 0)
    ELSE NotFound("batch", b)
ReadStats(b) ==
    IF Visible(b) THEN Open("stats", b, {"stats"}, {}, {}, 0) ELSE NotFound("stats", b)
BatchStats ==
    /\ Reads({"batch", "stats"}, "stats")
    /\ page' = [page EXCEPT !.todo = @ \ {"stats"}, !.count = CompanyCount(page.of), !.end = Last]
    /\ UNCHANGED <<db, writes, live, rows, still, seen>>
BatchCohort ==
    /\ Reads({"batch"}, "cohort")
    /\ LET ss == SelectCards(InBatch(page.of))
       IN  Step("cohort", ss, Cards(ss) \cup {<<"batch", s, page.of>> : s \in ss}, Last)

ReadNews == Open("news", None, {"cards"}, SelectRounds(Round), RoundFacts(Round), 0)
ReadLed(i) ==
    IF Visible(i) THEN Open("led", i, {"rounds", "cards"}, {}, {i}, RoundsLedCount(i))
    ELSE NotFound("led", i)
LedRows ==
    /\ Reads({"led"}, "rounds")
    /\ Step("rounds", SelectRounds(LedRounds(page.of)), RoundFacts(LedRounds(page.of)), "reading")
\* toNewsItem throws when a round's startup has no card.
FeedCards ==
    /\ Reads({"news", "led"}, "cards") /\ "rounds" \notin page.todo
    /\ LET ss == {StartupOf[r] : r \in page.ids}
       IN  Step("cards", page.ids, Cards(ss), IF ss \subseteq SelectCards(ss) THEN "found" ELSE "error")

\* Copy and count are read together; the copy is text.
ReadCategory(x) ==
    IF Count(x) # 0 THEN Open("category", x, {"companies"}, {}, {}, Count(x))
    ELSE NotFound("category", x)
CategoryCompanies ==
    /\ Reads({"category"}, "companies")
    /\ Step("companies", SelectCards(InFacet(page.of)), Cards(InFacet(page.of)), "found")

ReadSimilar(s) ==
    IF Visible(s)
    THEN Open("similar", s, {"cards"},
              {l[3] : l \in {k \in Rows("industry") : k[2] = s /\ k[4]} \cup
                            {k \in Rows("city") : k[2] = s}}, {}, 0)
    ELSE NotFound("similar", s)
SimilarCards ==
    /\ Reads({"similar"}, "cards")
    /\ LET ss == SelectCards(Similar(page.of, page.ids \cap Industry, page.ids \cap City))
       IN  Step("cards", ss, Cards(ss), "found")

ReadLanding == Answer("landing", None, Cards(Landing), "found")

\* What is suggested as a text is typed: prefixes and misspellings at once.
Suggest ==
    Answer("suggest", None,
           {r \in Hits["fulltext"] \cup Hits["trigram"] : Visible(r)}, "found")

\* The four groups of a search; a second pass when the first found nothing.
Groups == {"startup", "founder", "investor", "batch"}
GroupOf(g) == CASE g = "startup" -> Startup [] g = "founder" -> Founder
                [] g = "investor" -> Investor [] OTHER -> Batch
Search(want) == Open("search", want, want, want, {}, 0)
SearchGroup(g) ==
    /\ Reads({"search"}, g)
    /\ LET found == {r \in GroupOf(g) \cap Hits[page.mode] : Visible(r)}
           facts == IF g = "startup" THEN Cards(found) ELSE found
           retry == Last = "found" /\ page.facts \cup facts = {} /\ page.mode = "fulltext"
       IN  page' = [page EXCEPT !.facts = @ \cup facts,
                                !.todo = IF retry THEN page.ids ELSE @ \ {g},
                                !.mode = IF retry THEN "trigram" ELSE @,
                                !.end = IF retry THEN "reading" ELSE Last]
    /\ UNCHANGED <<db, writes, live, rows, still, seen>>

-----------------------------------------------------------------------------
(* Writes *)

\* A transaction commits: the rows are new, a page under way is not read from one state, and one
\* that was read is forgotten.
Write(st, fs, ts, ls) ==
    /\ status' = st /\ first' = fs /\ tagline' = ts /\ links' = ls
    /\ writes' = writes + 1
    /\ seen' = seen \cup PublicRows(Published(st), ls)
    /\ IF page.end = "reading"
       THEN /\ live' = live \cup Published(st) /\ rows' = rows \cup ls /\ still' = FALSE
            /\ UNCHANGED page
       ELSE page' = NoPage /\ live' = {} /\ rows' = {} /\ still' = TRUE

Draft(rs) == [r \in Record |-> IF r \in rs THEN "draft" ELSE status[r]]

\* A startup with its links and rounds, or nothing: every end must exist.
CreateStartup(s) ==
    /\ ~Exists(s)
    /\ \E ls \in SUBSET LinksOf(s) :
         /\ Cardinality(ls) <= MaxNested /\ Keyed(ls)
         /\ LET rs == {l[4] : l \in {k \in ls : k[1] = "backer" /\ k[4] # None}}
            IN  /\ \A l \in ls : \A r \in Ends(l) \ ({s} \cup rs) : Exists(r)
                /\ \E ts \in {tagline \ {s}, tagline \cup {s}} :
                     Write(Draft({s} \cup rs), first, ts, links \cup ls)
CreateFounder(f) == ~Exists(f) /\ Write(Draft({f}), first, tagline, links)
CreateInvestor(i) == ~Exists(i) /\ Write(Draft({i}), first, tagline, links)
CreateBatch(b) ==
    /\ ~Exists(b)
    /\ \E organizers \in {{}} \cup {{<<"organizer", b, i>>} : i \in {j \in Investor : Exists(j)}} :
         Write(Draft({b}), first, tagline, links \cup organizers)
\* insertRound, with its participants.
CreateRound(r) ==
    /\ ~Exists(r) /\ Exists(StartupOf[r])
    /\ \E ls \in SUBSET {l \in LinksOf(StartupOf[r]) : l[1] = "backer" /\ l[4] = r} :
         /\ Keyed(ls) /\ \A l \in ls : Exists(l[3])
         /\ Write(Draft({r}), first, tagline, links \cup ls)

\* The columns of a startup that pages depend on; a change that changes nothing writes nothing.
UpdateStartup(s) ==
    /\ Exists(s)
    /\ \/ Write(status, first, IF s \in tagline THEN tagline \ {s} ELSE tagline \cup {s}, links)
       \/ \E column \in {"acquirer", "city"} :
            LET old == {l \in Rows(column) : l[2] = s}
            IN  \E new \in {{}} \cup {{l} : l \in {k \in LinksOf(s) : k[1] = column}} :
                  /\ new # old /\ \A l \in new : \A r \in Ends(l) : Exists(r)
                  /\ Write(status, first, tagline, (links \ old) \cup new)
UpdateBatch(b) ==
    /\ Exists(b)
    /\ LET old == {l \in Rows("organizer") : l[2] = b}
       IN  \E new \in {{}} \cup {{<<"organizer", b, i>>} : i \in {j \in Investor : Exists(j)}} :
             new # old /\ Write(status, first, tagline, (links \ old) \cup new)

\* A foreign key or a unique key that fails undoes it.
AddLink(s, table) ==
    /\ Exists(s)
    /\ \E l \in {k \in LinksOf(s) \ links : k[1] = table} :
         /\ \A r \in Ends(l) : Exists(r)
         /\ Keyed(links \cup {l})
         /\ Write(status, first, tagline, links \cup {l})
RemoveLink(s, table) ==
    \E l \in Rows(table) : l[2] = s /\ Write(status, first, tagline, links \ {l})
AddFounder(s) == AddLink(s, "founder")
RemoveFounder(s) == RemoveLink(s, "founder")
AddInvestor(s) == AddLink(s, "backer")
RemoveInvestor(s) == RemoveLink(s, "backer")
AddBatch(s) == AddLink(s, "batch")
RemoveBatch(s) == RemoveLink(s, "batch")
SetIndustries(s) ==
    /\ Exists(s)
    /\ \E new \in SUBSET {l \in LinksOf(s) : l[1] = "industry"} :
         /\ Keyed(new)
         /\ Write(status, first, tagline, {l \in links : ~(l[1] = "industry" /\ l[2] = s)} \cup new)

\* A startup needs a tagline and a location to be published.
MissingForPublish(r) ==
    r \in Startup /\ (r \notin tagline \/ \A l \in Rows("city") : l[2] # r)
Transitions ==
    [publish |-> [from |-> {"draft"}, to |-> "published"],
     unpublish |-> [from |-> {"published"}, to |-> "draft"],
     archive |-> [from |-> {"draft", "published"}, to |-> "archived"],
     restore |-> [from |-> {"archived"}, to |-> "draft"]]
\* A bug: taking a record back forgets that it was published.
TransitionForgets(r, action) ==
    /\ status[r] \in Transitions[action].from
    /\ action = "publish" => ~MissingForPublish(r)
    /\ Write([status EXCEPT ![r] = Transitions[action].to],
             IF action = "publish" THEN first \cup {r} ELSE first \ {r}, tagline, links)
Transition(r, action) ==
    /\ status[r] \in Transitions[action].from
    /\ action = "publish" => ~MissingForPublish(r)
    /\ Write([status EXCEPT ![r] = Transitions[action].to],
             IF action = "publish" THEN first \cup {r} ELSE first, tagline, links)

\* By cascade a startup's rounds go and every link goes; a link that is a column becomes null,
\* which an acquisition with a date does not allow.
HardDelete(r) ==
    /\ Exists(r) /\ r \notin first
    /\ \A l \in Rows("acquirer") : l[3] = r => ~l[4]
    /\ LET gone == {r} \cup {q \in Round : StartupOf[q] = r}
       IN  Write([q \in Record |-> IF q \in gone THEN "absent" ELSE status[q]],
                 first \ gone, tagline \ gone, {l \in links : Ends(l) \cap gone = {}})

Read ==
    \/ \E s \in Startup : ReadCompany(s) \/ ReadTimeline(s) \/ ReadSimilar(s)
    \/ CompanyFounders \/ CompanyRounds \/ SimilarCards
    \/ \E f \in Founder : ReadFounder(f)
    \/ FounderStints \/ FounderCards
    \/ \E i \in Investor : ReadInvestor(i) \/ ReadPortfolio(i) \/ ReadLed(i)
    \/ InvestorPortfolio \/ LedRows
    \/ \E b \in Batch : ReadBatch(b) \/ ReadStats(b)
    \/ BatchStats \/ BatchCohort
    \/ ReadNews \/ FeedCards \/ ReadLanding \/ Suggest
    \/ \E x \in Industry \cup City \cup Country : ReadCategory(x)
    \/ CategoryCompanies
    \/ \E want \in {Groups} \cup {{g} : g \in Groups} : Search(want)
    \/ \E g \in Groups : SearchGroup(g)

Edit ==
    /\ writes < MaxWrites
    /\ \/ \E s \in Startup :
            \/ CreateStartup(s) \/ UpdateStartup(s) \/ SetIndustries(s)
            \/ AddFounder(s) \/ RemoveFounder(s)
            \/ AddInvestor(s) \/ RemoveInvestor(s)
            \/ AddBatch(s) \/ RemoveBatch(s)
       \/ \E f \in Founder : CreateFounder(f)
       \/ \E i \in Investor : CreateInvestor(i)
       \/ \E b \in Batch : CreateBatch(b) \/ UpdateBatch(b)
       \/ \E r \in Round : CreateRound(r)
       \/ \E r \in Record : HardDelete(r)
       \/ \E r \in Record, action \in DOMAIN Transitions : Transition(r, action)

Next == Read \/ Edit
Spec == Init /\ [][Next]_vars

-----------------------------------------------------------------------------
(* Properties *)

\* The part of the public graph a page is about, as a visitor would draw it.
Startups(ls) == {l[2] : l \in ls}
About(kind, of) ==
    LET graph == Public(Published(status), links)
        ties == graph \ Record
        of3(tag) == {x \in ties : x[1] = tag /\ x[3] = of}
        cards(ss) == (ss \cap graph) \cup {x \in ties : x[1] = "acquirer" /\ x[2] \in ss}
        told(rs) == (rs \cap graph) \cup {x \in ties : x[1] = "in" /\ x[2] \in rs}
        theirs == {r \in Round : StartupOf[r] = of}
        led == {l[4] : l \in {k \in Rows("backer") : k[3] = of /\ k[5]}} \cap graph
    IN  CASE kind = "company" ->
               cards({of}) \cup told(theirs)
                 \cup {x \in ties : x[1] \in {"founder", "batch", "industry"} /\ x[2] = of}
                 \cup of3("backs") \cup of3("leads")
          [] kind = "timeline" -> told(theirs)
          [] kind = "founder" -> {of} \cup of3("founder") \cup cards(Startups(of3("founder")))
          [] kind \in {"investor", "portfolio"} ->
               LET backs == {x \in ties : x[1] = "backs" /\ x[2] = of}
               IN  (IF kind = "investor" THEN {of} ELSE {}) \cup backs \cup cards({x[3] : x \in backs})
          [] kind = "batch" ->
               {of} \cup of3("batch") \cup cards(Startups(of3("batch")))
                 \cup {x \in ties : x[1] = "organizer" /\ x[2] = of}
          [] kind = "stats" -> {}
          [] kind = "landing" ->
               cards({s \in Startup : ~\E l \in links : l[1] = "acquirer" /\ l[2] = s /\ l[4]})
          [] kind = "suggest" -> {r \in graph : \E mode \in DOMAIN Hits : r \in Hits[mode]}
          [] kind = "news" -> told(Round) \cup cards({StartupOf[r] : r \in Round \cap graph})
          [] kind = "led" -> {of} \cup told(led) \cup cards({StartupOf[r] : r \in led})
          [] kind = "category" ->
               cards(Startups({x \in ties : x[1] \in {"industry", "city"} /\
                   (x[3] = of \/ (x[1] = "city" /\ CountryOf[x[3]] = of))}))
          [] kind = "similar" ->
               cards({s \in Startup \ {of} : \E x, y \in ties :
                   /\ x[1] = y[1] /\ x[2] = of /\ y[2] = s /\ x[3] = y[3]
                   /\ x[1] = "city" \/ (x[1] = "industry" /\ x[4] /\ y[4])})
          [] kind = "search" ->
               LET wanted == UNION {GroupOf(g) : g \in of}
                   hits(mode) == cards(Startup \cap Hits[mode] \cap wanted)
                                   \cup ((Hits[mode] \cap wanted) \cap graph)
               IN  IF hits("fulltext") # {} THEN hits("fulltext") ELSE hits("trigram")

\* A page shows nothing that was hidden all the time it was read: every record it names was
\* published at some moment of the read, every link it draws was there, and so was the round a
\* backing depends on.  A statement that forgets visibility at one of its joins would show it.
NothingHidden == page.facts \subseteq Public(live, rows)

\* A page during whose read nothing was written is whole: it is found exactly if its subject is
\* public, it does not fail, it shows all of the public graph it is about and no more, and the
\* number in its heading is the number of what it lists.
QuietPagesWhole ==
    [][LET p == page'
           listed == IF p.kind = "led" THEN Round ELSE Startup
       IN  p # page /\ p.end # "reading" /\ still' =>
             /\ p.end = "found" => p.facts = About(p.kind, p.of)
             /\ p.end = "found" /\ p.kind \in {"investor", "batch", "led", "category"} =>
                  p.count = Cardinality(p.facts \cap listed)
             /\ p.end = "found" /\ p.kind = "stats" =>
                  p.count = Cardinality(Startup \cap About("batch", p.of))
             /\ p.end = "notFound" =>
                  IF p.kind = "category" THEN About(p.kind, p.of) = {} ELSE ~Visible(p.of)
             /\ p.end # "error"]_vars

\* Numbers that different queries count of one thing are equal: the directory of categories and
\* their pages, an investor's portfolio in a search, in its heading and as a list, a batch's
\* companies, a founder's startups as the search counts them and as companies name the founder.
CountsAgree ==
    /\ \A x \in Industry \cup City \cup Country : DirectoryCount(x) = Count(x)
    /\ \A i \in Investor : Visible(i) =>
          /\ PortfolioIds(i) = SelectCards(BackedBy(i))
          /\ RoundsLedCount(i) = Cardinality(SelectRounds(LedRounds(i)))
    /\ \A b \in Batch : Visible(b) => CompanyCount(b) = Cardinality(SelectCards(InBatch(b)))
    /\ \A f \in Founder : Visible(f) =>
          StartupCount(f) =
            Cardinality({s \in Startup : Visible(s) /\ \E l \in SelectFounders(s) : l[3] = f})
    /\ StatCounts.rounds = Cardinality(SelectRounds(Round))

\* What pages show, and the numbers they show of it.
ShownTruly == NothingHidden /\ CountsAgree

\* Deleting for good takes nothing with it that the public ever saw: not the record, and not the
\* rounds and rows that go by cascade, although rounds may have been published and withdrawn.
DeletedUnseen ==
    [][LET gone == {r \in Record : Exists(r) /\ status'[r] = "absent"}
       IN  gone # {} => seen \cap (gone \cup (links \ links')) = {}]_vars
=============================================================================
