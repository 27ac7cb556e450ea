--------------------------- MODULE MCMediaPipeline ---------------------------
(* MediaPipeline on small instances, each with the records its question is about. *)
EXTENDS MediaPipeline, TLC

CONSTANTS s1, f1, f2

\* Two founders that could share a photo, or one alone.
TwoFounders == (f1 :> {"photo"}) @@ (f2 :> {"photo"})
OneFounder == f1 :> {"photo"}

Symmetric == Permutations(Asset) \cup Permutations(Request)
=============================================================================
