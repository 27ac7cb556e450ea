----------------------------- MODULE AdminCalls -----------------------------
(***************************************************************************)
(* Screens of the admin panel that send calls and report what came of      *)
(* them: the list of records with its bulk actions, the import screen, the *)
(* staff accounts, one's own account and the pages to reset a password.    *)
(* Other people, and other tabs, work on the same rows meanwhile.          *)
(*                                                                         *)
(* A screen has one call under way and keeps its buttons disabled until    *)
(* the answer.  The answer may be lost, the call done or not; and it may   *)
(* be cut off after its head, when the call throws and nobody catches: the *)
(* buttons then stay disabled until the page is loaded again.              *)
(***************************************************************************)
EXTENDS Naturals, FiniteSets

CONSTANTS
  Record,      \* records of a list
  Incomplete,  \* those that lack what publishing demands
  Job,         \* import jobs, numbered from 1
  Upload,      \* files to import
  Member,      \* addresses of other staff
  None         \* nothing chosen, shown or under way

\* Nothing is no call of the import screen and no account.
CallsAssumption ==
  /\ Job \subseteq Nat
  /\ None \notin [call : {"upload"}, file : Upload] \cup [call : {"commit"}, job : Job]
  /\ None \notin [role : {"editor", "admin"}, enrolled : BOOLEAN, active : BOOLEAN]

VARIABLES
  page,        \* the screen that is open
  pending,     \* what the screen waits for, or None
  stuck,       \* the answer it waits for was cut off
  status,      \* status[r]: a record's, in the database
  items,       \* the list as it was loaded: statuses of the records it shows
  selected,    \* the records ticked
  run,         \* a bulk run under way, or None
  outcome,     \* what the screen says of the last one, or None
  asked, did,  \* history: the records a run was to change, and those it changed
  jobs,        \* jobs[j]: an import's status, in the database
  source,      \* source[j]: the file it was made from
  file,        \* the file chosen
  report,      \* the dry run the screen shows, or None
  failure,     \* the screen shows an error
  imported,    \* it says the import is done
  mine,        \* history: the jobs this screen's calls committed
  staff,       \* staff[m]: an account, or None
  listed,      \* the accounts as they were loaded
  signedIn,    \* the members with a session
  notice,      \* what the screen says it did, or None
  link,        \* the emailed link to set a password: "none", "fresh", "old" or "used"
  password,    \* the password in force
  codes,       \* the recovery codes in force
  others,      \* the account has sessions elsewhere
  shown,       \* the recovery codes the page shows, or None
  told         \* what the page says: "", "sent", "done" or "error"

list == <<status, items, selected, run, outcome, asked, did>>
import == <<jobs, source, file, report, failure, imported, mine>>
users == <<staff, listed, signedIn, notice>>
account == <<link, password, codes, others, shown, told>>
vars == <<page, pending, stuck, list, import, users, account>>

Status == {"draft", "published", "archived"}

\* Where each action starts and where it leads, alike on the screen and in the service.
Moves ==
  [publish   |-> [from |-> {"draft"}, to |-> "published"],
   unpublish |-> [from |-> {"published"}, to |-> "draft"],
   archive   |-> [from |-> {"draft", "published"}, to |-> "archived"],
   restore   |-> [from |-> {"archived"}, to |-> "draft"]]
BulkAction == DOMAIN Moves

\* What may be heard of a call that got there, or did not, and would succeed, or be refused.
Heard(reached, succeeds) ==
  {"lost"} \cup (IF reached THEN {"cut", IF succeeds THEN "ok" ELSE "refused"} ELSE {})

On(screen) == page = screen /\ ~stuck
Waits(answer) ==
  /\ stuck' = (answer = "cut")
  /\ pending' = IF answer = "cut" THEN pending ELSE None

-----------------------------------------------------------------------------
(* The list of records *)

chosen == DOMAIN items \cap selected
Eligible(action) == {r \in chosen : items[r] \in Moves[action].from}

\* A box is ticked or cleared; the boxes work during a run too.
Toggle(r) ==
  /\ page = "records" /\ r \in DOMAIN items
  /\ selected' = IF r \in selected THEN selected \ {r} ELSE selected \cup {r}
  /\ UNCHANGED <<page, pending, stuck, status, items, run, outcome, asked, did, import, users, account>>

SelectAll ==
  /\ page = "records" /\ items # <<>>
  /\ selected' = IF chosen = DOMAIN items THEN {} ELSE DOMAIN items
  /\ UNCHANGED <<page, pending, stuck, status, items, run, outcome, asked, did, import, users, account>>

\* A bulk action starts: its targets are fixed by the statuses the list shows.
Run(action) ==
  /\ On("records") /\ pending = None /\ Eligible(action) # {}
  /\ pending' = action
  /\ outcome' = None
  /\ run' = [left |-> Eligible(action), succeeded |-> 0, failures |-> {}]
  /\ asked' = Eligible(action) /\ did' = {}
  /\ UNCHANGED <<page, stuck, status, items, selected, import, users, account>>

Succeeds(action, r) ==
  /\ status[r] \in Moves[action].from
  /\ action = "publish" => r \notin Incomplete

\* A bug: a failure ends the run.
CountedToFailure(r, answer) ==
  IF answer = "ok" THEN [run EXCEPT !.left = @ \ {r}, !.succeeded = @ + 1]
  ELSE [run EXCEPT !.left = {}, !.failures = @ \cup {r}]
\* What the run keeps of one answer.
Counted(r, answer) ==
  LET rest == [run EXCEPT !.left = @ \ {r}]
  IN  IF answer = "ok" THEN [rest EXCEPT !.succeeded = @ + 1]
      ELSE [rest EXCEPT !.failures = @ \cup {r}]

\* One record after the other, in the order of the list, which may be any.
Change(r) ==
  /\ On("records") /\ run # None /\ r \in run.left
  /\ \E reached \in BOOLEAN :
       LET does == reached /\ Succeeds(pending, r)
       IN  \E answer \in Heard(reached, does) :
             /\ status' = IF does THEN [status EXCEPT ![r] = Moves[pending].to] ELSE status
             /\ did' = IF does THEN did \cup {r} ELSE did
             /\ stuck' = (answer = "cut")
             /\ run' = IF answer = "cut" THEN run ELSE Counted(r, answer)
  /\ UNCHANGED <<page, pending, items, selected, outcome, asked, import, users, account>>

\* The run is over.  What was ticked meanwhile is cleared with the rest.
EndRun ==
  /\ On("records") /\ run # None /\ run.left = {}
  /\ pending' = None /\ run' = None /\ selected' = {}
  /\ outcome' = [succeeded |-> run.succeeded, failures |-> run.failures]
  /\ UNCHANGED <<page, stuck, status, items, asked, did, import, users, account>>

\* The list is loaded again: after a run, on another tab of statuses or on another page.
Listed ==
  /\ page = "records"
  /\ \E S \in {Status} \cup {{s} : s \in Status} :
       items' = [r \in {x \in Record : status[x] \in S} |-> status[r]]
  /\ UNCHANGED <<page, pending, stuck, status, selected, run, outcome, asked, did, import, users, account>>

\* Somebody else publishes, withdraws or restores a record.
Elsewhere(r, action) ==
  /\ page = "records" /\ Succeeds(action, r)
  /\ status' = [status EXCEPT ![r] = Moves[action].to]
  /\ UNCHANGED <<page, pending, stuck, items, selected, run, outcome, asked, did, import, users, account>>

-----------------------------------------------------------------------------
(* The import screen *)

\* Another file may be chosen at any time, while one is on its way too.
ChooseFile(f) ==
  /\ page = "import" /\ file' = f
  /\ UNCHANGED <<page, pending, stuck, list, jobs, source, report, failure, imported, mine, users, account>>

DryRun ==
  /\ On("import") /\ pending = None /\ file # None
  /\ pending' = [call |-> "upload", file |-> file]
  /\ failure' = FALSE /\ imported' = FALSE
  /\ UNCHANGED <<page, stuck, list, jobs, source, file, report, mine, users, account>>

Unused == {j \in Job : jobs[j] = "none"}

\* The report shown is replaced by a dry run that was made; a refusal leaves it there.
AnswerDryRun ==
  /\ On("import") /\ pending # None /\ pending.call = "upload"
  /\ \E reached, parses \in BOOLEAN, j \in Job :
       LET makes == reached /\ parses
       IN  /\ makes => j \in Unused /\ \A other \in Unused : j <= other
           /\ \E answer \in Heard(reached, makes) :
                /\ jobs' = IF makes THEN [jobs EXCEPT ![j] = "dry_run"] ELSE jobs
                /\ source' = IF makes THEN [source EXCEPT ![j] = pending.file] ELSE source
                /\ report' = IF answer = "ok"
                             THEN [job |-> j, status |-> "dry_run", file |-> pending.file]
                             ELSE report
                /\ failure' = (answer \in {"lost", "refused"})
                /\ Waits(answer)
  /\ UNCHANGED <<page, list, file, imported, mine, users, account>>

CommitJob ==
  /\ On("import") /\ pending = None /\ report # None /\ report.status = "dry_run"
  /\ pending' = [call |-> "commit", job |-> report.job]
  /\ failure' = FALSE
  /\ UNCHANGED <<page, stuck, list, jobs, source, file, report, imported, mine, users, account>>

\* What a commit makes of a job: a row that cannot be imported leaves it as it was.
Committed(state, applies) ==
  CASE state = "dry_run" /\ applies -> "committed"
    [] state = "old" -> "expired"
    [] OTHER -> state

\* An expired job is shown as such; one that is committed already stays "dry_run" on the screen.
AnswerCommit ==
  /\ On("import") /\ pending # None /\ pending.call = "commit"
  /\ \E reached, applies \in BOOLEAN :
       LET j == pending.job
           before == jobs[j]
           after == IF reached THEN Committed(before, applies) ELSE before
           does == before # "committed" /\ after = "committed"
       IN  \E answer \in Heard(reached, does) :
             /\ jobs' = [jobs EXCEPT ![j] = after]
             /\ mine' = IF does THEN mine \cup {j} ELSE mine
             /\ report' = CASE answer = "ok" -> [report EXCEPT !.status = "committed"]
                            [] answer = "refused" /\ after = "expired" ->
                                 [report EXCEPT !.status = "expired"]
                            [] OTHER -> report
             /\ imported' = (imported \/ answer = "ok")
             /\ failure' = (answer \in {"lost", "refused"})
             /\ Waits(answer)
  /\ UNCHANGED <<page, list, source, file, users, account>>

\* A dry run grows older than 24 hours, or somebody else commits it.
JobElsewhere(j) ==
  /\ page = "import" /\ jobs[j] = "dry_run"
  /\ \E s \in {"old", "committed"} : jobs' = [jobs EXCEPT ![j] = s]
  /\ UNCHANGED <<page, pending, stuck, list, source, file, report, failure, imported, mine, users, account>>

-----------------------------------------------------------------------------
(* Staff accounts *)

Role == {"editor", "admin"}
Op == {"role", "reset", "off", "on", "invite"}
Active(m) == staff[m] # None /\ staff[m].active

\* The controls of a row, by what was loaded of it.
Offered(op, m) ==
  IF op = "invite" THEN TRUE
  ELSE /\ listed[m] # None
       /\ CASE op = "on" -> ~listed[m].active
            [] op = "reset" -> listed[m].active /\ listed[m].enrolled
            [] OTHER -> listed[m].active

act(op, m, role) ==
  /\ On("users") /\ pending = None /\ Offered(op, m)
  /\ op = "role" => role # listed[m].role
  /\ pending' = [op |-> op, member |-> m, role |-> role]
  /\ notice' = None
  /\ UNCHANGED <<page, stuck, list, import, account, staff, listed, signedIn>>

\* What the services make of an account.  An invite to one that never enrolled is sent again,
\* with the role it had.
After(a, op, role) ==
  CASE op = "invite" /\ a = None -> [role |-> role, enrolled |-> FALSE, active |-> TRUE]
    [] op = "role" -> [a EXCEPT !.role = role]
    [] op = "reset" -> [a EXCEPT !.enrolled = FALSE]
    [] op \in {"on", "off"} -> [a EXCEPT !.active = (op = "on")]
    [] OTHER -> a
Refused(a, op) ==
  IF op = "invite" THEN a # None /\ (a.enrolled \/ ~a.active) ELSE a = None
\* A role that is set already and an account that is off already sign nobody out.
SignsOut(a, op, role) ==
  \/ op = "role" /\ a.role # role
  \/ op = "off" /\ a.active
  \/ op = "reset"

AnswerAct ==
  /\ On("users") /\ pending # None
  /\ LET m == pending.member  op == pending.op  role == pending.role
     IN  \E reached \in BOOLEAN :
           LET does == reached /\ ~Refused(staff[m], op)
           IN  \E answer \in Heard(reached, does) :
                 /\ staff' = IF does THEN [staff EXCEPT ![m] = After(@, op, role)] ELSE staff
                 /\ signedIn' = IF does /\ SignsOut(staff[m], op, role)
                                THEN signedIn \ {m} ELSE signedIn
                 /\ notice' = CASE answer = "ok" -> pending
                                [] answer = "cut" -> notice
                                [] OTHER -> [pending EXCEPT !.op = "error"]
                 /\ Waits(answer)
  /\ UNCHANGED <<page, list, import, account, listed>>

UsersListed ==
  /\ page = "users" /\ listed' = staff
  /\ UNCHANGED <<page, pending, stuck, list, import, account, staff, signedIn, notice>>

\* A member signs in and enrols, or another admin changes the account.
MemberSignsIn(m) ==
  /\ page = "users" /\ Active(m)
  /\ signedIn' = signedIn \cup {m} /\ staff' = [staff EXCEPT ![m].enrolled = TRUE]
  /\ UNCHANGED <<page, pending, stuck, list, import, account, listed, notice>>

OtherAdmin(m, op, role) ==
  /\ page = "users" /\ ~Refused(staff[m], op)
  /\ staff' = [staff EXCEPT ![m] = After(@, op, role)]
  /\ signedIn' = IF SignsOut(staff[m], op, role) THEN signedIn \ {m} ELSE signedIn
  /\ UNCHANGED <<page, pending, stuck, list, import, account, listed, notice>>

-----------------------------------------------------------------------------
(* One's own account, and the pages to reset a password *)

Send(op, new) ==
  /\ pending = None
  /\ pending' = [op |-> op, new |-> new]
  /\ told' = ""
  /\ UNCHANGED <<page, stuck, list, import, users, link, password, codes, others, shown>>

RequestReset == On("request") /\ told # "sent" /\ Send("request", 0)
SetPassword(new) == On("reset") /\ told # "done" /\ Send("set", new)
GenerateCodes(new) == On("account") /\ shown = None /\ Send("codes", new)
ChangePassword(new) == On("account") /\ Send("change", new)

\* Two new passwords that differ are not sent.  The two notices of one's account are one here.
Differ ==
  /\ On("reset") \/ On("account")
  /\ pending = None /\ told # "done" /\ told' = "error"
  /\ UNCHANGED <<page, pending, stuck, list, import, users, link, password, codes, others, shown>>

\* A link works once; the rest needs the password in force, which may be mistyped.
Works(op, right) == IF op = "set" THEN link = "fresh" ELSE right

\* A request is answered alike whether or not there is such an account; any failure but the
\* limit's, a lost call too, is told as sent.
Told(op, answer) ==
  CASE answer = "cut" -> told
    [] op = "request" -> IF answer = "refused" THEN "error" ELSE "sent"
    [] OTHER -> IF answer = "ok" THEN "done" ELSE "error"

AnswerAsk ==
  /\ (On("account") \/ On("reset") \/ On("request")) /\ pending # None
  /\ LET op == pending.op
     IN  \E reached, right, limited \in BOOLEAN :
           LET does == reached /\ ~limited /\ Works(op, right)
               accepted == IF op = "request" THEN ~limited ELSE does
           IN  \E answer \in Heard(reached, accepted) :
                 /\ link' = CASE does /\ op = "request" -> "fresh"
                              [] does /\ op = "set" -> "used"
                              [] OTHER -> link
                 /\ password' = IF does /\ op \in {"set", "change"} THEN pending.new
                                ELSE password
                 /\ others' = (others /\ ~(does /\ op \in {"set", "change"}))
                 /\ codes' = IF does /\ op = "codes" THEN pending.new ELSE codes
                 /\ shown' = IF answer = "ok" /\ op = "codes" THEN pending.new ELSE shown
                 /\ told' = Told(op, answer)
                 /\ Waits(answer)
  /\ UNCHANGED <<page, list, import, users>>

\* A link grows older than an hour; another tab signs in, or makes new codes.
OtherTab ==
  /\ page \in {"account", "reset", "request"}
  /\ \/ link = "fresh" /\ link' = "old" /\ UNCHANGED <<codes, others>>
     \/ others' = TRUE /\ UNCHANGED <<link, codes>>
     \/ codes' \in {1, 2} /\ UNCHANGED <<link, others>>
  /\ UNCHANGED <<page, pending, stuck, list, import, users, password, shown, told>>

-----------------------------------------------------------------------------

\* The page is loaded again: nothing of the screen is left but what the database says.
Reload ==
  /\ pending' = None /\ stuck' = FALSE
  /\ selected' = {} /\ run' = None /\ outcome' = None
  /\ file' = None /\ failure' = FALSE /\ imported' = FALSE /\ notice' = None
  /\ report' = IF report = None THEN None
               ELSE [report EXCEPT !.status =
                       IF jobs[report.job] = "old" THEN "dry_run" ELSE jobs[report.job]]
  /\ items' = [r \in Record |-> status[r]] /\ listed' = staff
  /\ shown' = None /\ told' = ""
  /\ UNCHANGED <<page, status, asked, did, jobs, source, mine, staff, signedIn,
                 link, password, codes, others>>

Init ==
  /\ page \in {"records", "import", "users", "account", "reset", "request"}
  /\ pending = None /\ stuck = FALSE
  /\ status = [r \in Record |-> "draft"] /\ items = status /\ selected = {}
  /\ run = None /\ outcome = None /\ asked = {} /\ did = {}
  /\ jobs = [j \in Job |-> "none"] /\ source = [j \in Job |-> None]
  /\ file = None /\ report = None /\ failure = FALSE /\ imported = FALSE /\ mine = {}
  /\ staff = [m \in Member |-> None] /\ listed = staff /\ signedIn = {} /\ notice = None
  /\ link = (IF page = "reset" THEN "fresh" ELSE "none")
  /\ password = 0 /\ codes = 0 /\ others = FALSE /\ shown = None /\ told = ""

Records ==
  \/ \E r \in Record : Toggle(r) \/ Change(r) \/ \E a \in BulkAction : Elsewhere(r, a)
  \/ SelectAll \/ EndRun \/ Listed \/ \E a \in BulkAction : Run(a)
Imports ==
  \/ \E f \in Upload \cup {None} : ChooseFile(f)
  \/ DryRun \/ AnswerDryRun \/ CommitJob \/ AnswerCommit
  \/ \E j \in Job : JobElsewhere(j)
Users ==
  \/ \E m \in Member, op \in Op, role \in Role : act(op, m, role) \/ OtherAdmin(m, op, role)
  \/ AnswerAct \/ UsersListed \/ \E m \in Member : MemberSignsIn(m)

Account ==
  \/ \E new \in {1, 2} : SetPassword(new) \/ GenerateCodes(new) \/ ChangePassword(new)
  \/ RequestReset \/ Differ \/ AnswerAsk \/ OtherTab

Next == Records \/ Imports \/ Users \/ Account \/ Reload
Spec == Init /\ [][Next]_vars

-----------------------------------------------------------------------------

\* One failure hides no other record of a bulk run: each record that was to be changed was
\* changed or is named as failed, nothing else was touched, and the number given counts the
\* records changed and not named.  A record may be both when its answer was lost.
RunTold ==
  outcome # None =>
    /\ did \subseteq asked /\ did \cup outcome.failures = asked
    /\ outcome.succeeded = Cardinality(did \ outcome.failures)

\* The import screen says "Imported" of the job it shows, which its own call committed; the file
\* it names is the one the job was made from, though another may be chosen by then; and it shows
\* a job it committed as a dry run only beside an error or while it waits.
ImportTold ==
  report # None =>
    /\ report.file = source[report.job]
    /\ imported => report.job \in mine /\ report.status = "committed"
    /\ report.status = "committed" => jobs[report.job] = "committed"
    /\ report.status = "dry_run" /\ report.job \in mine => failure \/ pending # None

\* "They have been signed out" is wrong only when somebody else had set that role first.
SignOutTold ==
  notice' # None /\ notice' # notice /\ notice'.op # "error" =>
    /\ staff'[notice'.member] # None
    /\ notice'.op = "role" =>
         \/ notice'.member \notin signedIn'
         \/ staff[notice'.member].role = notice'.role

\* Recovery codes that appear are those in force; a password told as set or changed is the one
\* sent, and other sessions have ended.
AccountTold ==
  /\ shown' # shown /\ shown' # None => shown' = codes'
  /\ told' = "done" /\ told # "done" /\ pending.op # "codes" =>
       password' = pending.new /\ ~others'

ToldTruly == [][RunTold' /\ ImportTold' /\ SignOutTold /\ AccountTold]_vars
=============================================================================
