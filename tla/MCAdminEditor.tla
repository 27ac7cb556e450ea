--------------------------- MODULE MCAdminEditor ---------------------------
(***************************************************************************)
(* The editor of a startup for TLC.  Its fields and industries, and the    *)
(* links to other records, change without each other: the admin works on   *)
(* one of the two.                                                         *)
(* Fields: three startups, one of them there already.                      *)
(* Links: one name of each kind, of which the investor is there already.   *)
(***************************************************************************)
EXTENDS StartupEditor, TLC

CONSTANTS ada, fund, w25

VARIABLE part

MCKind == [n \in Name |-> CASE n = ada -> "founder" [] n = fund -> "investor" [] n = w25 -> "batch"]

editorVars == <<part, vars, linkVars>>

MCInit ==
  /\ part \in {"fields", "links"}
  /\ Init /\ (part # "fields" => page = New)
  /\ Links!Init /\ (part # "links" => ~saved)

MCNext ==
  /\ UNCHANGED part
  /\ \/ part = "fields" /\ Next /\ UNCHANGED linkVars
     \/ part = "links" /\ Links!Next /\ UNCHANGED vars

MCSpec == MCInit /\ [][MCNext]_editorVars
=============================================================================
