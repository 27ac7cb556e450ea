---------------------------- MODULE MCAdminTools ----------------------------
(***************************************************************************)
(* Import: two files that change the same startup and name the same        *)
(* founder.  Screens: two records of which one lacks what publishing       *)
(* demands, two dry runs of two files, one other member.  Forms: two       *)
(* categories of two texts, two founders or two requests; an image field   *)
(* with three images.  Prefill: one redirect, two candidates of each kind. *)
(***************************************************************************)
EXTENDS AdminTools, TLC

CONSTANTS r1, acme, nova, nova2, ada, j1, j2

\* acme is there; nova is what both files add, under its own slug or a generated one.
MCSeeds == [r \in Record |-> IF r = r1 THEN acme ELSE NoSlug]
MCSuffixed == [s \in Slug |-> nova2]

Change(s) == [slug |-> s, explicit |-> TRUE, person |-> NoName]
Add(s, n) == [slug |-> s, explicit |-> FALSE, person |-> n]

MCFile == (j1 :> <<Change(acme), Add(nova, ada)>>) @@ (j2 :> <<Add(nova, ada), Change(acme)>>)
MCAlike == (j1 :> {}) @@ (j2 :> {1})

\* The tools that are not in use stay in one of their initial states.
MCInit ==
    /\ ToolsInit
    /\ tool # "calls" => page = "account"
    /\ tool # "forms" => form = "image"
MCSpec == MCInit /\ [][ToolsNext]_toolVars

MCSymmetry == Permutations(Request)
=============================================================================
