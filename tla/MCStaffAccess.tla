---------------------------- MODULE MCStaffAccess ----------------------------
(***************************************************************************)
(* StaffAccess for TLC, its two parts each by itself.  Accounts: the admin *)
(* the seed script made, and an address to invite as a second.  Limits:    *)
(* two browsers, at an address each, and the writes of both accounts.      *)
(***************************************************************************)
EXTENDS StaffAccess, TLC

CONSTANTS a1, e1, b1, b2, i1, i2

Ask(op, target, as) == [op |-> op, target |-> target, role |-> as]

TwoAdmins ==
    {Ask("invite", e1, "admin"), Ask("changeRole", a1, "editor"), Ask("changeRole", e1, "editor"),
     Ask("resetTwoFactor", e1, "editor"), Ask("deactivate", e1, "editor"),
     Ask("reactivate", e1, "editor")}

MCAddressOf == (b1 :> i1) @@ (b2 :> i2)
MCLimit == (i1 :> 1) @@ (i2 :> 2) @@ (a1 :> 1) @@ (e1 :> 1)
MCWindowTicks == (i1 :> 3) @@ (i2 :> 6) @@ (a1 :> 3) @@ (e1 :> 3)

VARIABLE part   \* the one that moves: the other stays in its initial state

AccessInit == part \in {"accounts", "limits"} /\ Init /\ Login!Init
AccessNext ==
    \/ part = "accounts" /\ Next /\ UNCHANGED <<part, login>>
    \/ part = "limits" /\ Login!Next /\ UNCHANGED <<part, vars>>
AccessSpec == AccessInit /\ [][AccessNext]_<<part, vars, login>>

Interchangeable == Permutations(Request) \cup Permutations(Session)
=============================================================================
