---------------------------- MODULE StaffAccess ----------------------------
(***************************************************************************)
(* How the staff get in: their accounts, which admins manage               *)
(* (StaffAccounts), and the limits that one account's sign-ins and the     *)
(* staff's writes run into (SignIn).  The limits live in Redis and know    *)
(* neither roles nor sessions, the accounts know no limits; what the two   *)
(* share are the accounts whose writes are counted.                        *)
(***************************************************************************)
EXTENDS StaffAccounts, Integers

CONSTANTS
    Browser, Address, AddressOf, Second, Limit, WindowTicks,
    FreeFailures, MaxDelay, Memory,
    MaxClock, MaxAttempts       \* bounds: time, and what is tried in it

VARIABLES clock, window, failures, form, attempts, admitted, wrong, clean

Login == INSTANCE SignIn WITH Staff <- User
login == <<clock, window, failures, form, attempts, admitted, wrong, clean>>

ASSUME LimitsAssumption == Login!LimitsAssumption

\* A window lets through twice its limit at most, and the account's count is of wrong passwords in
\* a row (SignIn).
LimitsKept == Login!LimitsKept

\* Whoever waits as long as told is not refused again by what refused them (SignIn).
WaitIsEnough == Login!WaitIsEnough
=============================================================================
