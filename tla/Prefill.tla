------------------------------ MODULE Prefill ------------------------------
(***************************************************************************)
(* One prefill: the page an editor pasted is fetched and read; when it     *)
(* says nothing, a scraper is asked instead; then the images it names are  *)
(* fetched, logos and covers side by side, one candidate after the other,  *)
(* until one can be stored.  What comes back is a draft with warnings.     *)
(*                                                                         *)
(* A fetch follows redirects, each of which is checked like the first      *)
(* address; whatever goes wrong in it is told as an unsafe URL.            *)
(***************************************************************************)
EXTENDS Naturals

CONSTANTS
  MaxRedirects,  \* MAX_REDIRECTS
  MaxLogos,      \* MAX_LOGO_CANDIDATES
  MaxCovers      \* MAX_COVER_CANDIDATES

PrefillAssumption == MaxRedirects \in Nat /\ {MaxLogos, MaxCovers} \subseteq Nat \ {0}

VARIABLES
  stage,     \* "limit", "page", "firecrawl", "images", "done", "refused" or "failed"
  draft,     \* whether it has a name and a description, and who read them
  urls,      \* urls[p]: how many candidates there are for an image
  at, hops,  \* at[f]: the candidate a fetcher is at, or 0; hops[f]: redirects followed
  kept,      \* kept[p]: the candidate that was stored, or 0
  warned,    \* warned[w]: how many warnings of a kind the draft has
  tried,     \* history: the candidates that gave no image
  broken,    \* history: the images that our side failed to store
  requests   \* history: requests made to hosts of the page's choosing

vars == <<stage, draft, urls, at, hops, kept, warned, tried, broken, requests>>

Purpose == {"logo", "cover"}
Fetcher == Purpose \cup {"page"}
NoUrls == [p \in Purpose |-> 0]

\* The limiter, which refuses when it cannot count, and the look at the address come first.
Allow ==
  /\ stage = "limit"
  /\ \/ stage' = "page" /\ at' = [at EXCEPT !["page"] = 1] /\ requests' = 1
     \/ stage' = "refused" /\ UNCHANGED <<at, requests>>
  /\ UNCHANGED <<draft, urls, hops, kept, warned, tried, broken>>

\* An answer sends a fetcher on, to an address that passes the checks.
resolveRedirect(f) ==
  /\ at[f] # 0 /\ hops[f] < MaxRedirects
  /\ hops' = [hops EXCEPT ![f] = @ + 1]
  /\ requests' = requests + 1
  /\ UNCHANGED <<stage, draft, urls, at, kept, warned, tried, broken>>

\* How a fetch may end: one redirect too many, a private address, a body too large, a host that
\* is slow or down are all "unsafe".
Ends == {"body", "status", "unsafe"}

\* The images are fetched, beginning with the first candidates.
FetchImages(n) ==
  /\ stage' = "images" /\ urls' = n
  /\ at' = [f \in Fetcher |-> IF f \in Purpose /\ n[f] > 0 THEN 1 ELSE 0]
  /\ hops' = [f \in Fetcher |-> 0]
  /\ requests' = requests + (IF n["logo"] > 0 THEN 1 ELSE 0) + (IF n["cover"] > 0 THEN 1 ELSE 0)

\* What a page may say; it always names an icon, if only /favicon.ico.
Said == [name : BOOLEAN, description : BOOLEAN, jsonLd : BOOLEAN,
         logos : 1 .. MaxLogos, covers : 0 .. MaxCovers]

ReadPage ==
  /\ stage = "page"
  /\ \E end \in Ends, said \in Said :
       LET n == IF end = "body" THEN [logo |-> said.logos, cover |-> said.covers] ELSE NoUrls
           thin == end = "status" \/ ~(said.name \/ said.description)
       IN  /\ draft' = IF end = "body"
                       THEN [name |-> said.name, description |-> said.description, by |-> "page"]
                       ELSE draft
           /\ warned' = CASE end = "status" -> [warned EXCEPT !.status = @ + 1]
                          [] end = "body" /\ ~said.jsonLd -> [warned EXCEPT !.meta = @ + 1]
                          [] OTHER -> warned
           /\ IF end # "unsafe" /\ ~thin THEN FetchImages(n)
              ELSE /\ stage' = IF end = "unsafe" THEN "refused" ELSE "firecrawl"
                   /\ urls' = n /\ at' = [at EXCEPT !["page"] = 0] /\ UNCHANGED <<hops, requests>>
  /\ UNCHANGED <<kept, tried, broken>>

\* What the scraper may give: nothing, or metadata in which there may be nothing.
firecrawlScrape ==
  {"nothing"} \X {NoUrls} \cup {"metadata"} \X [name : BOOLEAN, description : BOOLEAN, cover : 0 .. 1]

\* Its cover replaces the page's.
Firecrawl ==
  /\ stage = "firecrawl"
  /\ \E m \in firecrawlScrape :
       IF m[1] = "nothing"
       THEN /\ warned' = [warned EXCEPT !.little = @ + 1] /\ draft' = draft
            /\ FetchImages(urls)
       ELSE /\ draft' = [name |-> m[2].name, description |-> m[2].description, by |-> "firecrawl"]
            /\ warned' = warned
            /\ FetchImages([urls EXCEPT !["cover"] = m[2].cover])
  /\ UNCHANGED <<kept, tried, broken>>

\* A candidate that gives no image is followed by the next; the last leaves its reason.
NextImage(p) ==
  LET more == at[p] < urls[p]
  IN  /\ tried' = [tried EXCEPT ![p] = @ \cup {at[p]}]
      /\ at' = [at EXCEPT ![p] = IF more THEN @ + 1 ELSE 0]
      /\ hops' = [hops EXCEPT ![p] = 0]
      /\ requests' = IF more THEN requests + 1 ELSE requests
      /\ warned' = IF more THEN warned ELSE [warned EXCEPT ![p] = @ + 1]
      /\ UNCHANGED <<kept, broken>>

\* It is stored, refused as no image, or our side fails, which ends the search at once; the row
\* may be there all the same.
fetchImage(p) ==
  /\ stage = "images" /\ at[p] # 0
  /\ \E end \in Ends :
       \/ NextImage(p)
       \/ /\ end = "body"
          /\ at' = [at EXCEPT ![p] = 0]
          /\ \/ kept' = [kept EXCEPT ![p] = at[p]] /\ UNCHANGED <<warned, broken>>
             \/ /\ warned' = [warned EXCEPT ![p] = @ + 1] /\ broken' = broken \cup {p}
                /\ UNCHANGED kept
          /\ UNCHANGED <<tried, hops, requests>>
  /\ UNCHANGED <<stage, draft, urls>>

\* The place the page names is looked up last; when that fails, so does the prefill, and images
\* that were stored are left to the collector.
guessLocation ==
  /\ stage = "images" /\ \A p \in Purpose : at[p] = 0
  /\ stage' \in {"done", "failed"}
  /\ UNCHANGED <<draft, urls, at, hops, kept, warned, tried, broken, requests>>

Init ==
  /\ stage = "limit"
  /\ draft = [name |-> FALSE, description |-> FALSE, by |-> "nobody"]
  /\ urls = NoUrls /\ at = [f \in Fetcher |-> 0] /\ hops = at
  /\ kept = NoUrls
  /\ warned = [w \in Purpose \cup {"status", "meta", "little"} |-> 0]
  /\ tried = [p \in Purpose |-> {}] /\ broken = {} /\ requests = 0

Next ==
  \/ Allow \/ ReadPage \/ Firecrawl \/ guessLocation
  \/ \E f \in Fetcher : resolveRedirect(f)
  \/ \E p \in Purpose : fetchImage(p)
Spec == Init /\ [][Next]_vars

-----------------------------------------------------------------------------

\* What is in the draft is the first candidate that could be stored.  When there is none and one
\* was named, exactly one warning says so, after all were tried unless our side failed.
ImagesAccounted ==
  stage = "done" =>
    \A p \in Purpose :
      IF kept[p] # 0 THEN tried[p] = 1 .. kept[p] - 1 /\ warned[p] = 0
      ELSE /\ warned[p] = (IF urls[p] = 0 THEN 0 ELSE 1)
           /\ p \notin broken => tried[p] = 1 .. urls[p]

\* A draft with neither name nor description has a warning, or the scraper answered with nothing.
ThinTold ==
  stage = "done" /\ ~draft.name /\ ~draft.description =>
    warned.little = 1 \/ draft.by = "firecrawl"

\* "Each fetch is a request to a host the page chose, so the list is short."
FewRequests == requests <= (MaxRedirects + 1) * (1 + MaxLogos + MaxCovers)

DraftTold == [][(ImagesAccounted /\ ThinTold /\ FewRequests)']_vars
=============================================================================
