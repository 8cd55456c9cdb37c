------------------------------ MODULE Programs ------------------------------
(***************************************************************************)
(* Programs that are opened for the register of a tab (gui/toolbar.py,     *)
(* builtin/ssh_terminal_launcher.py, builtin/file_manager_launcher.py and  *)
(* file_manager/gui/window.py): which password they get, which window of   *)
(* the file manager is shown, and the type of the register, found or       *)
(* chosen.  A handler is a task: the tab may change before it runs.        *)
(***************************************************************************)
EXTENDS Naturals, FiniteSets

CONSTANTS
  Places,   \* addresses
  FirstAt,  \* the address of the tab at first
  Windows,  \* windows of the file manager
  Types,    \* cash types
  Sessions, \* bound: sessions of the tab
  Clicks    \* bound: programs asked for

ASSUME ProgramsAssumption == FirstAt \in Places /\ {Sessions, Clicks} \subseteq Nat \ {0}

VARIABLES
  cash,     \* the tab: its address, and whether reconnect_to waits for abort
  session,  \* its CashSession: of which address, connected, and its type
  clicked,  \* tasks of clicks that have not run; how many clicks
  started,  \* programs started: what for, with whose password
  windows,  \* the windows of the file manager
  registry  \* _windows: the window of an address
programVars == <<cash, session, clicked, started, windows, registry>>

NoPlace == "no place"
NoWindow == "no window"
Unknown == "unknown"
NoSession == [of |-> NoPlace, on |-> FALSE, type |-> Unknown, source |-> Unknown, detects |-> FALSE]
Tools == {"ssh", "files"}

ProgramsTypeOK ==
  /\ cash \in [at: Places, moves: Places \cup {NoPlace}, sessions: 0..Sessions]
  /\ session \in [of: Places \cup {NoPlace}, on: BOOLEAN, type: Types \cup {Unknown},
                  source: {Unknown, "auto", "manual"}, detects: BOOLEAN]
  /\ clicked.tasks \in [Tools -> 0..Clicks] /\ clicked.clicks \in 0..Clicks
  /\ started \subseteq [tool: Tools \cup {"database"}, at: Places, password: Places \cup {NoPlace}]
  /\ windows \in [Windows -> [state: {"new", "open", "closed", "gone"},
                              at: Places \cup {NoPlace}, password: Places \cup {NoPlace}]]
  /\ registry \in [Places -> Windows \cup {NoWindow}]

ProgramsInit ==
  /\ cash = [at |-> FirstAt, moves |-> NoPlace, sessions |-> 0] /\ session = NoSession
  /\ clicked = [tasks |-> [t \in Tools |-> 0], clicks |-> 0] /\ started = {}
  /\ windows = [w \in Windows |-> [state |-> "new", at |-> NoPlace, password |-> NoPlace]]
  /\ registry = [p \in Places |-> NoWindow]

-----------------------------------------------------------------------------
(* The session of the tab *)

\* The connect task: the session of its address, and the type is looked for.
Connects ==
  /\ session = NoSession /\ cash.moves = NoPlace /\ cash.sessions < Sessions
  /\ session' = [NoSession EXCEPT !.of = cash.at, !.on = TRUE, !.detects = TRUE]
  /\ cash' = [cash EXCEPT !.sessions = @ + 1]
  /\ UNCHANGED <<clicked, started, windows, registry>>

LinkIsLost ==
  /\ session.on /\ session' = [session EXCEPT !.on = FALSE]
  /\ UNCHANGED <<cash, clicked, started, windows, registry>>

\* reconnect_to cancels its tasks and waits for abort of the old session ...
MoveStarts ==
  /\ session # NoSession /\ cash.moves = NoPlace
  /\ \E p \in Places : cash' = [cash EXCEPT !.moves = p]
  /\ session' = [session EXCEPT !.detects = FALSE]
  /\ UNCHANGED <<clicked, started, windows, registry>>

\* ... which is gone before the address changes.
MoveEnds ==
  /\ cash.moves # NoPlace
  /\ cash' = [cash EXCEPT !.at = cash.moves, !.moves = NoPlace]
  /\ session' = NoSession
  /\ UNCHANGED <<clicked, started, windows, registry>>

\* CashTypeCollector.collect: the session keeps what was found in the end.
TypeIsFound ==
  /\ session.detects
  /\ \E t \in Types \cup {Unknown} :
       session' = [session EXCEPT !.detects = FALSE, !.type = t,
                                  !.source = IF t = Unknown THEN Unknown ELSE "auto"]
  /\ UNCHANGED <<cash, clicked, started, windows, registry>>

\* _on_select_cash_type; a collection that runs is started anew, the look for
\* the type that the connection made is not.
SelectType ==
  /\ session # NoSession
  /\ \E t \in Types : session' = [session EXCEPT !.type = t, !.source = "manual"]
  /\ UNCHANGED <<cash, clicked, started, windows, registry>>

-----------------------------------------------------------------------------
(* Clicks *)

Click(t) ==
  /\ clicked.clicks < Clicks
  /\ clicked' = [tasks |-> [clicked.tasks EXCEPT ![t] = @ + 1], clicks |-> clicked.clicks + 1]
  /\ UNCHANGED <<cash, session, started, windows, registry>>

StartProgram(t, password) ==
  started' = started \cup {[tool |-> t, at |-> cash.at, password |-> password]}

\* _launch_program: the client of the database is started at once, and without
\* a password.
LaunchProgram ==
  /\ clicked.clicks < Clicks /\ clicked' = [clicked EXCEPT !.clicks = @ + 1]
  /\ StartProgram("database", NoPlace) \/ UNCHANGED started
  /\ UNCHANGED <<cash, session, windows, registry>>

TaskRuns(t) == clicked.tasks[t] > 0 /\ clicked' = [clicked EXCEPT !.tasks[t] = @ - 1]

\* successful_password, of a session that is connected.
Accepted == IF session.on THEN session.of ELSE NoPlace

\* _launch_kitty and _open_builtin_ssh_terminal: the program that is set, or
\* the built-in terminal; both start without a password as well, which the
\* built-in one then takes from the stored ones.
LaunchSsh ==
  /\ TaskRuns("ssh")
  /\ \/ StartProgram("ssh", Accepted)
     \/ ~session.on /\ StartProgram("ssh", cash.at)
     \/ UNCHANGED started
  /\ UNCHANGED <<cash, session, windows, registry>>

\* _launch_winscp with a program that is set and there.
LaunchWinscp ==
  /\ TaskRuns("files")
  /\ IF session.on THEN StartProgram("files", Accepted) ELSE UNCHANGED started
  /\ UNCHANGED <<cash, session, windows, registry>>

\* open_file_manager: the window there is, or a new one.
OpenFileManager ==
  /\ TaskRuns("files") /\ session.on
  /\ LET w == registry[cash.at] IN
     IF w # NoWindow
     THEN windows' = [windows EXCEPT ![w].state = IF @ = "gone" THEN @ ELSE "open"]
          /\ UNCHANGED registry
     ELSE \E n \in Windows :
            /\ windows[n].state = "new"
            /\ windows' = [windows EXCEPT ![n] = [state |-> "open", at |-> cash.at,
                                                  password |-> Accepted]]
            /\ registry' = [registry EXCEPT ![cash.at] = n]
  /\ UNCHANGED <<cash, session, started>>

\* Mutant: a closed window stays the window of its address.
CloseWindowKeeps(w) ==
  /\ windows[w].state = "open"
  /\ windows' = [windows EXCEPT ![w].state = "closed"]
  /\ UNCHANGED <<cash, session, clicked, started, registry>>

\* closeEvent: its sessions are shut down, the entry goes, deleteLater.
CloseProgram(w) ==
  /\ windows[w].state = "open"
  /\ windows' = [windows EXCEPT ![w].state = "closed"]
  /\ registry' = [registry EXCEPT ![windows[w].at] = NoWindow]
  /\ UNCHANGED <<cash, session, clicked, started>>

\* destroyed: the entry of its address goes, whichever window it names.
Destroyed(w) ==
  /\ windows[w].state = "closed"
  /\ windows' = [windows EXCEPT ![w].state = "gone"]
  /\ registry' = [registry EXCEPT ![windows[w].at] = NoWindow]
  /\ UNCHANGED <<cash, session, clicked, started>>

-----------------------------------------------------------------------------
ProgramsNext ==
  \/ Connects \/ LinkIsLost \/ MoveStarts \/ MoveEnds \/ TypeIsFound \/ SelectType
  \/ \E t \in Tools : Click(t)
  \/ LaunchProgram \/ LaunchSsh \/ LaunchWinscp \/ OpenFileManager
  \/ \E w \in Windows : CloseProgram(w) \/ Destroyed(w)

ProgramsSpec == ProgramsInit /\ [][ProgramsNext]_programVars

-----------------------------------------------------------------------------
\* A program never gets the password of another register, however the tab was
\* moved between the click and the start; nor does a file manager window.
PasswordsAreOwn ==
  /\ \A s \in started : s.password \in {s.at, NoPlace}
  /\ \A w \in Windows : windows[w].password = windows[w].at

\* A window that was closed is not the one that is opened again: its executor
\* is stopped and it would stay empty for good (closeEvent).
ReopenedIsFresh ==
  \A p \in Places : registry[p] # NoWindow => windows[registry[p]].state = "open"

\* "One window is reused per host/port pair" (open_file_manager).
OneWindow ==
  \A p \in Places : Cardinality({w \in Windows : windows[w].state = "open" /\ windows[w].at = p}) <= 1

\* A type chosen by hand "is saved by hand" (_on_select_cash_type): nothing
\* but another choice replaces it.
ManualIsKept ==
  [][session.source = "manual" /\ session'.source # "manual" => FALSE]_session

=============================================================================
