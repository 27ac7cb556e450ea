------------------------------- MODULE SignIn -------------------------------
(***************************************************************************)
(* Signing in and its limits (auth/login-limits.ts, auth/better-auth.ts,   *)
(* lib/redis.ts, http/authed.ts, components/admin/auth/*.tsx).             *)
(*                                                                         *)
(* People sign in to one account from several browsers.  Each attempt hits *)
(* the fixed window of its address, reads the account's failures, has the  *)
(* password judged, and records the outcome: four calls of a store that    *)
(* may fail before or after it has done what it was asked, with other      *)
(* attempts in between.  Writes of signed-in staff hit a window of their   *)
(* own; one that the store does not answer is let through, counted or not. *)
(* Time is counted in ticks, Second of them each second, and the store's   *)
(* TTL rounds to seconds.                                                  *)
(***************************************************************************)
EXTENDS Integers, FiniteSets

CONSTANTS
    Browser, Address, Staff,
    AddressOf,        \* [Browser -> Address]
    Second,           \* ticks in one
    Limit,            \* [Address \cup Staff -> hits a window admits]
    WindowTicks,      \* [Address \cup Staff -> its length]
    FreeFailures,     \* the failure that is first followed by a delay
    MaxDelay,         \* seconds
    Memory,           \* ticks after which failures are forgotten
    MaxClock,         \* bound: ticks
    MaxAttempts       \* bound: attempts and writes

Key == Address \cup Staff

LimitsAssumption ==
    /\ AddressOf \in [Browser -> Address] /\ Address \cap Staff = {}
    /\ Second \in Nat \ {0} /\ MaxDelay \in Nat \ {0} /\ FreeFailures \in Nat \ {0}
    /\ Limit \in [Key -> Nat \ {0}]
    /\ \A k \in Key : WindowTicks[k] \in Nat \ {0} /\ WindowTicks[k] % Second = 0
    /\ Memory \in Nat /\ MaxDelay * Second <= Memory
    /\ MaxClock \in Nat /\ MaxAttempts \in Nat

VARIABLES
    clock,
    window,     \* [Key -> [count, until]]: a counter and its expiry, count 0 when there is none
    failures,   \* the account's [n, notBefore, until], n = 0 when there is none
    form,       \* [Browser -> the form it shows and the attempt under way]
    attempts,   \* for the bound
    admitted,   \* history: [Key -> hits the store let through in the last WindowTicks[k] ticks]
    wrong,      \* history: wrong passwords since the failures were last forgotten
    clean       \* history: since then no recording failed or overlapped another step on them

history == <<admitted, wrong, clean>>
vars == <<clock, window, failures, form, attempts, history>>

Ticks == 0 .. MaxClock
Forms == [step : {"password", "code", "enrol", "in"},
          pc : {"idle", "asked", "counted", "allowed", "wrong", "read", "right"},
          now : Ticks,                   \* Date.now() when the limiter's step began
          seen : Nat,                    \* the failures it read
          misled : BOOLEAN]              \* history: it was told to wait, and not long enough

\* A hit that was let through: when, under the counter that expires then, as which hit of it, and
\* after how many others.
Hits == [at : Ticks, until : Nat, nth : Nat \ {0}, after : Nat]

NoFailures == [n |-> 0, notBefore |-> 0, until |-> 0]
NoWindow == [count |-> 0, until |-> 0]

TypeOK ==
    /\ clock \in Ticks
    /\ window \in [Key -> [count : Nat, until : Nat]]
    /\ \A k \in Key : window[k].count > 0 => window[k].until > clock
    /\ failures \in [n : Nat, notBefore : Nat, until : Nat]
    /\ failures.n > 0 => failures.until > clock
    /\ failures.notBefore <= clock + MaxDelay * Second
    /\ form \in [Browser -> Forms]
    /\ attempts \in 0 .. MaxAttempts
    /\ admitted \in [Key -> SUBSET Hits]
    /\ wrong \in Nat /\ clean \in BOOLEAN

Opened == [step |-> "password", pc |-> "idle", now |-> 0, seen |-> 0, misled |-> FALSE]

Init ==
    /\ clock = 0 /\ window = [k \in Key |-> NoWindow] /\ failures = NoFailures
    /\ form = [b \in Browser |-> Opened]
    /\ attempts = 0
    /\ admitted = [k \in Key |-> {}] /\ wrong = 0 /\ clean = TRUE

-----------------------------------------------------------------------------
(* The store *)

\* INCR, EXPIRE on the first hit, in one script.
Hit(k) == IF window[k].count = 0
          THEN [count |-> 1, until |-> clock + WindowTicks[k]]
          ELSE [window[k] EXCEPT !.count = @ + 1]

\* The store's TTL, to the nearest second; 0 is answered as the whole window.
SecondsLeft(k, w) ==
    LET ttl == (2 * (w.until - clock) + Second) \div (2 * Second)
    IN  IF ttl > 0 THEN ttl ELSE WindowTicks[k] \div Second

Over(k, w) == w.count > Limit[k]

LetThrough(k, w) ==
    admitted' = [admitted EXCEPT ![k] = @ \cup
        {[at |-> clock, until |-> w.until, nth |-> w.count, after |-> Cardinality(@)]}]

\* Time passes, and keys expire.
Tick ==
    /\ clock < MaxClock
    /\ clock' = clock + 1
    /\ window' = [k \in Key |-> IF window[k].until <= clock + 1 THEN NoWindow ELSE window[k]]
    /\ LET expired == failures.n > 0 /\ failures.until <= clock + 1
       IN  /\ failures' = IF expired THEN NoFailures ELSE failures
           /\ wrong' = IF expired THEN 0 ELSE wrong
           /\ clean' = (expired \/ clean)
    /\ admitted' = [k \in Key |-> {h \in admitted[k] : h.at + WindowTicks[k] > clock + 1}]
    /\ UNCHANGED <<form, attempts>>

-----------------------------------------------------------------------------
(* An attempt *)

\* SUBMIT is disabled while one is under way.  A second factor is judged like a password, but its
\* attempt is held against the address only.
Submit(b) ==
    /\ form[b].pc = "idle" /\ form[b].step \in {"password", "code"}
    /\ attempts < MaxAttempts
    /\ form' = [form EXCEPT ![b].pc = "asked", ![b].now = clock, ![b].misled = FALSE]
    /\ attempts' = attempts + 1
    /\ UNCHANGED <<clock, window, failures, history>>

\* The form shows the answer and the next attempt may start.
Answered(f, step) == [f EXCEPT !.step = step, !.pc = "idle", !.now = 0, !.seen = 0]

\* The answer is 429, try again in so many seconds, for a limit that ends then.
Refuse(b, seconds, ends) ==
    form' = [form EXCEPT ![b] =
        [Answered(@, @.step) EXCEPT !.misled = ends > clock + seconds * Second + Second \div 2]]

\* A bug: only passwords are held against the address.
CountPasswords(b) ==
    LET k == AddressOf[b]
        w == IF form[b].step = "password" THEN Hit(k) ELSE window[k]
    IN  /\ form[b].pc = "asked"
        /\ window' = [window EXCEPT ![k] = w]
        /\ IF Over(k, w)
           THEN /\ Refuse(b, SecondsLeft(k, w), w.until)
                /\ UNCHANGED admitted
           ELSE /\ form' = IF form[b].step = "password"
                           THEN [form EXCEPT ![b].pc = "counted"]
                           ELSE [form EXCEPT ![b].pc = "allowed", ![b].now = 0]
                /\ LetThrough(k, w)
        /\ UNCHANGED <<clock, failures, attempts, wrong, clean>>

\* assertSignInAllowed, first half: the hit counts also when its answer is lost.
CountAttempt(b) ==
    LET k == AddressOf[b]
        w == Hit(k)
    IN  /\ form[b].pc = "asked"
        /\ window' = [window EXCEPT ![k] = w]
        /\ IF Over(k, w)
           THEN /\ Refuse(b, SecondsLeft(k, w), w.until)
                /\ UNCHANGED admitted
           ELSE /\ form' = IF form[b].step = "password"
                           THEN [form EXCEPT ![b].pc = "counted"]
                           ELSE [form EXCEPT ![b].pc = "allowed", ![b].now = 0]
                /\ LetThrough(k, w)
        /\ UNCHANGED <<clock, failures, attempts, wrong, clean>>

\* A bug: the delay is rounded down.
DelayLeftRoundedDown(b) == (failures.notBefore - form[b].now) \div Second

\* Math.ceil of the seconds until then.
DelayLeft(b) == (failures.notBefore - form[b].now + Second - 1) \div Second

\* The second half: the account's delay, by the clock of when the attempt began.
CheckDelay(b) ==
    /\ form[b].pc = "counted"
    /\ IF failures.n > 0 /\ failures.notBefore > form[b].now
       THEN Refuse(b, DelayLeft(b), failures.notBefore)
       ELSE form' = [form EXCEPT ![b].pc = "allowed", ![b].now = 0]
    /\ UNCHANGED <<clock, window, failures, attempts, history>>

\* The password or the code is judged; a deactivated account is answered like a wrong password, and
\* a challenge that has expired sends the form back to the password.
Judge(b) ==
    /\ form[b].pc = "allowed"
    /\ \/ /\ form[b].step = "password"
          /\ \/ form' = [form EXCEPT ![b].pc = "wrong", ![b].now = clock]
             \/ form' = [form EXCEPT ![b].pc = "right"]
       \/ /\ form[b].step = "code"
          /\ \E next \in {"code", "password", "in"} :
                form' = [form EXCEPT ![b] = Answered(@, next)]
    /\ UNCHANGED <<clock, window, failures, attempts, history>>

\* recordSignInFailure: a read, then a write of what was read and one more.
ReadFailures(b) ==
    /\ form[b].pc = "wrong"
    /\ form' = [form EXCEPT ![b].pc = "read", ![b].seen = failures.n]
    /\ UNCHANGED <<clock, window, failures, attempts, history>>

\* delayAfter: 1 s, doubling up to the cap.
DelayAfter(n) ==
    IF n < FreeFailures THEN 0
    ELSE LET doubled == 2 ^ (n - FreeFailures)
         IN  IF doubled \in 0 .. MaxDelay THEN doubled ELSE MaxDelay

Recorded(b) ==
    LET n == form[b].seen + 1
    IN  [n |-> n, notBefore |-> form[b].now + DelayAfter(n) * Second, until |-> clock + Memory]

WriteFailures(b) ==
    /\ form[b].pc = "read"
    /\ failures' = Recorded(b)
    /\ wrong' = wrong + 1
    /\ clean' = (clean /\ failures.n = form[b].seen)
    /\ form' = [form EXCEPT ![b] = Answered(@, "password")]
    /\ UNCHANGED <<clock, window, attempts, admitted>>

\* recordSignInSuccess, then the second factor or, on the first sign-in, its enrolment.
Forget(b) ==
    /\ form[b].pc = "right"
    /\ failures' = NoFailures /\ wrong' = 0 /\ clean' = TRUE
    /\ \E next \in {"code", "enrol"} :
          form' = [form EXCEPT ![b] = Answered(@, next)]
    /\ UNCHANGED <<clock, window, attempts, admitted>>

\* A call of the store fails, having done its work or not: the attempt is refused, also when the
\* password was right (fail closed).
StoreFails(b) ==
    /\ form[b].pc \in {"asked", "counted", "wrong", "read", "right"}
    /\ Refuse(b, 60, 0)
    /\ \/ form[b].pc = "asked" /\ window' = [window EXCEPT ![AddressOf[b]] = Hit(AddressOf[b])]
       \/ UNCHANGED window
    /\ \/ form[b].pc = "read" /\ failures' = Recorded(b) /\ wrong' = wrong + 1
                              /\ clean' = (clean /\ failures.n = form[b].seen)
       \/ form[b].pc = "right" /\ failures' = NoFailures /\ wrong' = 0 /\ clean' = TRUE
       \/ /\ UNCHANGED failures
          /\ wrong' = IF form[b].pc \in {"wrong", "read"} THEN wrong + 1 ELSE wrong
          /\ clean' = (clean /\ form[b].pc \notin {"wrong", "read", "right"})
    /\ UNCHANGED <<clock, attempts, admitted>>

\* verify-totp after the key was added: the panel opens.
Enrol(b) ==
    /\ form[b].step = "enrol" /\ form[b].pc = "idle"
    /\ form' = [form EXCEPT ![b].step = "in"]
    /\ UNCHANGED <<clock, window, failures, attempts, history>>

SignOut(b) ==
    /\ form[b].step \in {"enrol", "in"} /\ form[b].pc = "idle"
    /\ form' = [form EXCEPT ![b] = Opened]
    /\ UNCHANGED <<clock, window, failures, attempts, history>>

-----------------------------------------------------------------------------
(* assertWriteAllowed: the budget of a staff member's writes *)

\* A write of someone signed in.
Write == /\ \E b \in Browser : form[b].step = "in"
         /\ attempts < MaxAttempts /\ attempts' = attempts + 1
         /\ UNCHANGED <<clock, failures, form, wrong, clean>>

SpendWrite(s) ==
    LET w == Hit(s)
    IN  /\ Write
        /\ window' = [window EXCEPT ![s] = w]
        /\ IF Over(s, w) THEN UNCHANGED admitted ELSE LetThrough(s, w)

\* It fails open: when the store fails, having counted the write or not, the write goes on whatever
\* the count.  It is not a hit that the store let through.
WriteUnanswered(s) ==
    /\ Write
    /\ window' \in {window, [window EXCEPT ![s] = Hit(s)]}
    /\ UNCHANGED admitted

Next ==
    \/ Tick
    \/ \E b \in Browser :
          \/ Submit(b) \/ CountAttempt(b) \/ CheckDelay(b) \/ Judge(b)
          \/ ReadFailures(b) \/ WriteFailures(b) \/ Forget(b) \/ StoreFails(b)
          \/ Enrol(b) \/ SignOut(b)
    \/ \E s \in Staff : SpendWrite(s) \/ WriteUnanswered(s)

Spec == Init /\ [][Next]_vars

-----------------------------------------------------------------------------
(* Properties *)

\* Fixed windows: in any stretch of time as long as a window (the last one is looked at, at all
\* times), the store lets through at most twice its limit, also when it counted hits whose answer was
\* lost.  A sign-in that it did not answer is refused; a write that it did not answer is let through
\* beside this bound, as many as there are, which SEC-08 accepts.
AtMostTwoWindows == \A k \in Key : Cardinality(admitted[k]) <= 2 * Limit[k]

\* The account's count is the number of wrong passwords in a row, unless two attempts overlapped or
\* the store failed while one was recorded: refused attempts do not count, and a right password
\* starts over.
CountExact == clean => failures.n = wrong

\* Both of what limits attempts: the window of an address and the count of an account.
LimitsKept == AtMostTwoWindows /\ CountExact

\* Whoever waits as long as the 429 says is not refused again by what refused them, but for the
\* half second that the store's TTL rounds away.
WaitIsEnough == \A b \in Browser : ~form[b].misled
=============================================================================
