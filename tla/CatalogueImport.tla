--------------------------- MODULE CatalogueImport ---------------------------
(***************************************************************************)
(* What a CSV import promises, with nothing said of how.  Editors change   *)
(* the catalogue one record at a time.  An import is first reviewed: the   *)
(* review names the records it may change and the slugs it may add.  Later *)
(* it happens in one step, at most once, and touches nothing else.         *)
(***************************************************************************)
CONSTANTS
    Record, Slug, Job,
    NoSlug             \* the slug of a record that does not exist

VARIABLES
    catalogue,  \* [Record -> [slug, by]]: by is the job that wrote the record last, "editor", or
              \* "nobody" while its id is unused
    review,     \* [Job -> SUBSET Record]: existing records the job may change
    reviewed,   \* jobs that have a review
    done        \* jobs that have happened

vars == <<catalogue, review, reviewed, done>>

Writers == Job \cup {"editor", "nobody"}
Exists(r) == catalogue[r].slug # NoSlug

Init ==
    /\ \A r \in Record : catalogue[r].by = IF Exists(r) THEN "editor" ELSE "nobody"
    /\ review = [j \in Job |-> {}]
    /\ reviewed = {} /\ done = {}

Edit(r) ==
    /\ catalogue' \in [Record -> [slug : Slug \cup {NoSlug}, by : Writers]]
    /\ catalogue'[r].by = IF catalogue'[r].slug = NoSlug THEN catalogue[r].by ELSE "editor"
    /\ \A s \in Record \ {r} : catalogue'[s] = catalogue[s]
    /\ UNCHANGED <<review, reviewed, done>>

Review(j) ==
    /\ j \notin reviewed
    /\ reviewed' = reviewed \cup {j}
    /\ review' \in [Job -> SUBSET Record]
    /\ \A i \in Job \ {j} : review'[i] = review[i]
    /\ UNCHANGED <<catalogue, done>>

\* Every change is the job's: records it was to change keep their slug, others are new.
Import(j) ==
    /\ j \in reviewed \ done
    /\ done' = done \cup {j}
    /\ catalogue' \in [Record -> [slug : Slug \cup {NoSlug}, by : Writers]]
    /\ \A r \in Record :
        IF Exists(r) /\ r \in review[j]
        THEN catalogue'[r] = [catalogue[r] EXCEPT !.by = j]
        ELSE \/ catalogue'[r] = catalogue[r]
             \/ /\ catalogue[r].by = "nobody"
                /\ catalogue'[r].slug # NoSlug /\ catalogue'[r].by = j
    /\ UNCHANGED <<review, reviewed>>

Next ==
    \/ \E r \in Record : Edit(r)
    \/ \E j \in Job : Review(j) \/ Import(j)

Spec == Init /\ [][Next]_vars
=============================================================================
