------------------------------ MODULE TabJobs -------------------------------
(***************************************************************************)
(* Two jobs a register tab runs besides its session                        *)
(* (gui/cash_session_widget.py): the fix of a problem, which plans, asks   *)
(* the operator and writes into the database of the register, and the      *)
(* upload of dropped files over a connection of its own.  Meanwhile the    *)
(* address of the tab may change: reconnect_to replaces the session.       *)
(***************************************************************************)
EXTENDS Naturals, FiniteSets

CONSTANTS
  Checks,    \* the checks with a fix
  Registers, \* addresses
  HomeRegister, \* the address of the tab at first
  Uploads,   \* the drops of files
  Moves,     \* bound: changes of the address
  Nobody     \* no register

ASSUME TabJobsAssumption == HomeRegister \in Registers /\ Nobody \notin Registers /\ Moves \in Nat

VARIABLES
  tab,      \* _ip, the register of the session, and where reconnect_to is
  fixBusy,  \* _fix_busy
  plan,     \* _fix_plan with _fix_id, and what the dialog showed
  fixes,    \* for each check: where its coroutine or dialog is
  written,  \* the last fix that was written: what was confirmed, and where it went
  drops     \* for each drop: where its coroutine is, and its connections

tabJobsVars == <<tab, fixBusy, plan, fixes, written, drops>>

Maybe == Registers \cup {Nobody}
NoPlan == [id |-> Nobody, of |-> Nobody, shown |-> Nobody]
NoDrop == [at |-> "none", to |-> Nobody, probe |-> FALSE, conn |-> FALSE, service |-> FALSE]

TabJobsTypeOK ==
  /\ tab \in [ip: Registers, session: Maybe, next: Maybe, moves: 0..Moves, open: BOOLEAN]
  /\ fixBusy \in BOOLEAN
  /\ plan \in [id: Checks \cup {Nobody}, of: Maybe, shown: Maybe]
  /\ fixes \in [Checks -> {"none", "plan", "timer", "dialog", "apply", "write"}]
  /\ written \in [id: Checks, of: Maybe, shown: Maybe, to: Registers, asked: Checks] \cup {NoPlan}
  /\ drops \in [Uploads -> [at: {"none", "dial", "probed", "connected", "upload",
                                 "closing", "ended"},
                            to: Maybe, probe: BOOLEAN, conn: BOOLEAN, service: BOOLEAN]]

TabJobsInit ==
  /\ tab = [ip |-> HomeRegister, session |-> HomeRegister, next |-> Nobody, moves |-> 0, open |-> TRUE]
  /\ fixBusy = FALSE /\ plan = NoPlan /\ written = NoPlan
  /\ fixes = [c \in Checks |-> "none"]
  /\ drops = [d \in Uploads |-> NoDrop]

-----------------------------------------------------------------------------
(* The fix *)

FixGoes(c, at) == fixes' = [fixes EXCEPT ![c] = at]

\* One fix at a time.
OnFixRequested ==
  /\ tab.open /\ ~fixBusy /\ fixBusy' = TRUE
  /\ \E c \in Checks : fixes[c] = "none" /\ FixGoes(c, "plan")
  /\ UNCHANGED <<tab, plan, written, drops>>

\* Nothing to do, no connection, or a plan read from the register; a plan that
\* raises leaves the fix busy.
PrepareFix ==
  /\ \E c \in Checks :
       /\ fixes[c] = "plan"
       /\ \/ FixGoes(c, "none") /\ fixBusy' \in {FALSE, fixBusy} /\ UNCHANGED plan
          \/ /\ tab.session # Nobody /\ FixGoes(c, "timer") /\ UNCHANGED fixBusy
             /\ plan' = [id |-> c, of |-> tab.session, shown |-> Nobody]
  /\ UNCHANGED <<tab, written, drops>>

\* The dialog names the address the tab has now; a tab that was closed has none.
ConfirmFix ==
  /\ \E c \in Checks :
       /\ fixes[c] = "timer"
       /\ \/ plan = NoPlan /\ FixGoes(c, "none") /\ fixBusy' = FALSE /\ UNCHANGED plan
          \/ /\ plan # NoPlan /\ tab.open /\ FixGoes(c, "dialog")
             /\ plan' = [plan EXCEPT !.shown = tab.ip] /\ UNCHANGED fixBusy
          \/ plan # NoPlan /\ ~tab.open /\ FixGoes(c, "none") /\ UNCHANGED <<fixBusy, plan>>
  /\ UNCHANGED <<tab, written, drops>>

FixAnswered ==
  /\ \E c \in Checks :
       /\ fixes[c] = "dialog"
       /\ \/ FixGoes(c, "apply") /\ UNCHANGED <<fixBusy, plan>>
          \/ FixGoes(c, "none") /\ fixBusy' = FALSE /\ plan' = NoPlan
  /\ UNCHANGED <<tab, written, drops>>

\* Written to the register the tab is connected to now.
ApplyFix ==
  /\ \E c \in Checks :
       /\ fixes[c] = "apply" /\ tab.session # Nobody /\ plan.id # Nobody
       /\ FixGoes(c, "write")
       /\ written' = [id |-> plan.id, of |-> plan.of, shown |-> plan.shown,
                      to |-> tab.session, asked |-> c]
  /\ UNCHANGED <<tab, fixBusy, plan, drops>>

\* It answered, raised, or there is no session any more.
FixEnds ==
  /\ \E c \in Checks :
       /\ fixes[c] \in {"apply", "write"}
       /\ fixes[c] = "apply" => tab.session = Nobody
       /\ FixGoes(c, "none")
  /\ fixBusy' = FALSE /\ plan' = NoPlan
  /\ UNCHANGED <<tab, written, drops>>

-----------------------------------------------------------------------------
(* Dropped files *)

DropGoes(d, new) == drops' = [drops EXCEPT ![d] = new]

UploadDropped ==
  /\ tab.session # Nobody
  /\ \E d \in Uploads : drops[d].at = "none" /\ DropGoes(d, [NoDrop EXCEPT !.at = "dial"])
  /\ UNCHANGED <<tab, fixBusy, plan, fixes, written>>

\* A host without a recorded key is dialled twice: the first connection is
\* closed before the second.
ConnectWithTofu(d) ==
  \/ /\ drops[d].at = "dial"
     /\ DropGoes(d, [drops[d] EXCEPT !.at = "probed", !.probe = TRUE])
  \/ /\ drops[d].at \in {"dial", "probed"}
     /\ DropGoes(d, [drops[d] EXCEPT !.at = "connected", !.probe = FALSE,
                                     !.conn = TRUE, !.to = tab.ip])
  \/ /\ drops[d].at \in {"dial", "probed"}
     /\ DropGoes(d, [drops[d] EXCEPT !.at = "closing", !.probe = FALSE])

\* Every failure comes translated, which the loop over the delays does not catch.
DialForDrop ==
  /\ \E d \in Uploads : ConnectWithTofu(d)
  /\ UNCHANGED <<tab, fixBusy, plan, fixes, written>>

\* The transport: SFTP, whose service closes the connection, or a shell.
ChooseBackend ==
  /\ \E d \in Uploads :
       /\ drops[d].at = "connected"
       /\ \/ DropGoes(d, [drops[d] EXCEPT !.at = "closing"])
          \/ \E sftp \in BOOLEAN :
               DropGoes(d, [drops[d] EXCEPT !.at = "upload", !.service = sftp])
  /\ UNCHANGED <<tab, fixBusy, plan, fixes, written>>

\* The upload ends, or the program cancels its tasks.
UploadEnds ==
  /\ \E d \in Uploads :
       drops[d].at = "upload" /\ DropGoes(d, [drops[d] EXCEPT !.at = "closing"])
  /\ UNCHANGED <<tab, fixBusy, plan, fixes, written>>

\* The service is closed, then the connection if it still is open.
CloseDrop ==
  /\ \E d \in Uploads :
       drops[d].at = "closing" /\ DropGoes(d, [drops[d] EXCEPT !.at = "ended", !.conn = FALSE])
  /\ UNCHANGED <<tab, fixBusy, plan, fixes, written>>

-----------------------------------------------------------------------------
(* The tab *)

jobs == <<fixBusy, plan, fixes, written, drops>>

\* The operator changes the address; a dialog is modal.
ChangeAddress ==
  /\ tab.open /\ tab.moves < Moves /\ tab.next = Nobody
  /\ \A c \in Checks : fixes[c] # "dialog"
  /\ \E r \in Registers \ {tab.ip} :
       tab' = [tab EXCEPT !.next = r, !.moves = @ + 1]
  /\ UNCHANGED jobs

\* reconnect_to goes on when the old session is down.
Retargeted ==
  /\ tab.next # Nobody
  /\ tab' = [tab EXCEPT !.ip = tab.next, !.next = Nobody, !.session = Nobody]
  /\ UNCHANGED jobs

TabConnects ==
  /\ tab.open /\ tab.session = Nobody /\ tab' = [tab EXCEPT !.session = tab.ip]
  /\ UNCHANGED jobs

TabCloses ==
  /\ tab.open /\ \A c \in Checks : fixes[c] # "dialog"
  /\ tab' = [tab EXCEPT !.open = FALSE, !.session = Nobody]
  /\ UNCHANGED jobs

FixStep == PrepareFix \/ ConfirmFix \/ FixAnswered \/ ApplyFix \/ FixEnds
DropStep == DialForDrop \/ ChooseBackend \/ UploadEnds \/ CloseDrop

TabJobsNext ==
  \/ OnFixRequested \/ FixStep \/ UploadDropped \/ DropStep
  \/ ChangeAddress \/ Retargeted \/ TabConnects \/ TabCloses

TabJobsSpec == TabJobsInit /\ [][TabJobsNext]_tabJobsVars

-----------------------------------------------------------------------------
(* Properties *)

\* Only one fix is past its plan, and what is written is what was asked for,
\* planned and confirmed: a second press would replace the plan under the dialog.
OneFix ==
  /\ \A c, d \in Checks : fixes[c] # "none" /\ fixes[d] # "none" => c = d
  /\ written # NoPlan => written.asked = written.id

\* A drop leaves no connection behind: TinyCore accepts only a few.
DropsAreClosed == \A d \in Uploads : drops[d].at = "ended" => ~drops[d].conn /\ ~drops[d].probe

\* What the dialog said of one register is written to that register.
WrittenWhereShown ==
  written # NoPlan => written.to = written.shown /\ written.of = written.shown
=============================================================================
