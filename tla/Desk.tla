-------------------------------- MODULE Desk --------------------------------
(***************************************************************************)
(* The tabs of the program: gui/tab_manager.py, gui/session_manager.py,    *)
(* gui/tab_bar.py, the actions of gui/toolbar.py and the status bar.  The  *)
(* handlers run in the GUI thread, one after the other; a ping loop of     *)
(* each tab, the actions on a register and a tab's change of address are   *)
(* coroutines.  What a tab does with its register is module SessionTab.    *)
(***************************************************************************)
EXTENDS Naturals, SequencesExt

CONSTANTS
  Addresses,  \* the addresses of the registers
  MaxTabs,    \* general.max_tabs
  Actions,    \* the actions of the toolbar the operator can start
  Steps       \* bound: what the operator does

ASSUME DeskAssumption == MaxTabs \in Nat \ {0} /\ Steps \in Nat

VARIABLES
  tabs,      \* SessionManager._sessions, in the order of insertion
  place,     \* the current widget, active_ip, and the address of the status bar
  pings,     \* SessionManager._ping_tasks
  execs,     \* the coroutines _exec_action
  busy,      \* whether the buttons are disabled
  vncs,      \* external viewers: where each is registered; whether one is lost
  widgetIp,  \* the address each tab's widget has, which reconnect_to changes
  saves,     \* the file of sessions, and what is left to restore
  acted      \* what the operator did so far

deskVars == <<tabs, place, pings, execs, busy, vncs, widgetIp, saves, acted>>

NoTab == "none"
DeskPlaces == Addresses \cup {NoTab}
Open == ToSet(tabs)
NoExec == [ip |-> NoTab, kept |-> FALSE, at |-> "none"]

DeskTypeOK ==
  /\ Open \subseteq Addresses /\ IsInjective(tabs) /\ Len(tabs) <= MaxTabs
  /\ place \in [current: DeskPlaces, active: DeskPlaces, shown: DeskPlaces]
  /\ pings \subseteq Addresses
  /\ execs \in [Actions -> [ip: DeskPlaces, kept: BOOLEAN, at: {"none", "spawned", "runs"}]]
  /\ busy \in BOOLEAN
  /\ vncs \in [known: SUBSET Addresses, astray: BOOLEAN]
  /\ widgetIp \in [Addresses -> DeskPlaces]
  /\ IsInjective(saves.file) /\ ToSet(saves.todo) \subseteq Addresses
  /\ acted \in 0..Steps

DeskInit ==
  /\ tabs = <<>> /\ pings = {} /\ busy = FALSE /\ acted = 0
  /\ place = [current |-> NoTab, active |-> NoTab, shown |-> NoTab]
  /\ execs = [e \in Actions |-> NoExec]
  /\ vncs = [known |-> {}, astray |-> FALSE]
  /\ widgetIp = [a \in Addresses |-> NoTab]
  /\ saves = [file |-> <<>>, todo |-> <<>>]

\* The operator acts when the window is open and no tab is being restored.
Act == saves.todo = <<>> /\ acted < Steps /\ acted' = acted + 1

-----------------------------------------------------------------------------
(* Tabs *)

\* start_ping, stop_ping: one loop for an address, which goes on until it is
\* cancelled, whatever the register answers.
StartPing(P, a) == P \cup {a}
StopPing(P, a) == P \ {a}

\* set_active: the widget is shown, is the active one, and everyone is told.
Selected(a) == [current |-> a, active |-> a, shown |-> a]

\* add_tab for an address without a tab: its ping starts, the file is written.
Added(a) ==
  /\ tabs' = Append(tabs, a)
  /\ place' = Selected(a)
  /\ pings' = StartPing(pings, a)
  /\ widgetIp' = [widgetIp EXCEPT ![a] = a]

AddTab ==
  /\ Act
  /\ \E a \in Addresses :
       \/ /\ a \in Open
          /\ place' = Selected(a) /\ pings' = StartPing(pings, a)
          /\ UNCHANGED <<tabs, widgetIp, saves>>
       \/ /\ a \notin Open /\ Len(tabs) < MaxTabs
          /\ Added(a)
          /\ saves' = [saves EXCEPT !.file = tabs']
  /\ UNCHANGED <<execs, busy, vncs>>

\* Mutant: the ping of a tab starts with the tab only.
SelectWithoutPing ==
  /\ Act
  /\ \E a \in Open : place' = Selected(a)
  /\ UNCHANGED <<tabs, pings, execs, busy, vncs, widgetIp, saves>>

SelectTab ==
  /\ Act
  /\ \E a \in Open : place' = Selected(a) /\ pings' = StartPing(pings, a)
  /\ UNCHANGED <<tabs, execs, busy, vncs, widgetIp, saves>>

\* The tab bar selects a remaining tab when it removes the current one, or none;
\* the stack shows some remaining widget.  A last tab leaves the status bar as it is.
CloseTabOf(a) ==
  LET rest == Open \ {a}
      left == IF place.active = a THEN NoTab ELSE place.active
      quiet == [current |-> IF place.current = a THEN NoTab ELSE place.current,
                active |-> left, shown |-> place.shown]
  IN /\ tabs' = RemoveFirst(tabs, a)
     /\ \/ /\ \E c \in (IF rest = {} THEN {NoTab}
                          ELSE IF place.current = a THEN rest ELSE {place.current}) :
                place' = [quiet EXCEPT !.current = c]
           /\ pings' = StopPing(pings, a)
        \/ \E b \in rest : /\ place.current = a /\ place' = Selected(b)
                           /\ pings' = StartPing(StopPing(pings, a), b)
     /\ vncs' = [vncs EXCEPT !.known = @ \ {a}]
     /\ widgetIp' = [widgetIp EXCEPT ![a] = NoTab]
     /\ saves' = [saves EXCEPT !.file = tabs']

CloseTab ==
  /\ Act
  /\ \E a \in Open : CloseTabOf(a)
  /\ UNCHANGED <<execs, busy>>

\* The session, the ping of an active tab and its viewer move to the new key;
\* the widget keeps its address until reconnect_to sets it.
Change(a, b) ==
  LET was == place.active = a
  IN /\ tabs' = Append(RemoveFirst(tabs, a), b)
     /\ pings' = IF was THEN StartPing(StopPing(pings, a), b) ELSE StopPing(pings, a)
     /\ place' = [current |-> IF place.current = a THEN b ELSE place.current,
                  active |-> IF was THEN b ELSE place.active,
                  shown |-> IF was THEN b ELSE place.shown]
     /\ vncs' = [vncs EXCEPT !.known = IF a \in @ THEN (@ \ {a}) \cup {b} ELSE @]
     /\ widgetIp' = [widgetIp EXCEPT ![b] = widgetIp[a], ![a] = NoTab]
     /\ saves' = [saves EXCEPT !.file = tabs']

\* The editor of the widget asks for the address the widget has.
ChangeTabIp ==
  /\ Act
  /\ \E a \in Open, b \in Addresses \ Open : widgetIp[a] = a /\ Change(a, b)
  /\ UNCHANGED <<execs, busy>>

\* reconnect_to, after it awaited the end of the old connection.
Reconnected ==
  /\ \E a \in Open : widgetIp[a] # a /\ widgetIp' = [widgetIp EXCEPT ![a] = a]
  /\ UNCHANGED <<tabs, place, pings, execs, busy, vncs, saves, acted>>

\* An external viewer was started: it is registered under the widget's address.
RegisterVnc ==
  /\ \E a \in Open :
       vncs' = IF widgetIp[a] \in Open
                 THEN [vncs EXCEPT !.known = @ \cup {widgetIp[a]}]
                 ELSE [vncs EXCEPT !.astray = TRUE]
  /\ vncs' # vncs
  /\ UNCHANGED <<tabs, place, pings, execs, busy, widgetIp, saves, acted>>

-----------------------------------------------------------------------------
(* Actions on a register: buttons and hot keys; a hot key works on a disabled *)
(* button *)

PressAction ==
  /\ Act
  /\ \E e \in Actions :
       /\ execs[e] = NoExec /\ place.current # NoTab
       /\ execs' = [execs EXCEPT ![e] = [ip |-> widgetIp[place.current],
                                         kept |-> FALSE, at |-> "spawned"]]
  /\ UNCHANGED <<tabs, place, pings, busy, vncs, widgetIp, saves>>

\* The ping of the active tab stops while a command runs on its register.
ExecStarts ==
  /\ \E e \in Actions :
       LET a == execs[e].ip
           kept == place.active = a
       IN /\ execs[e].at = "spawned"
          /\ \/ /\ a \in Open
                /\ execs' = [execs EXCEPT ![e] = [ip |-> a, kept |-> kept, at |-> "runs"]]
                /\ busy' = TRUE
                /\ pings' = IF kept THEN StopPing(pings, a) ELSE pings
             \/ /\ execs' = [execs EXCEPT ![e] = NoExec]
                /\ UNCHANGED <<busy, pings>>
  /\ UNCHANGED <<tabs, place, vncs, widgetIp, saves, acted>>

\* Whatever it returned: the toolbar is free, the ping starts again.
ExecEnds ==
  /\ \E e \in Actions :
       /\ execs[e].at = "runs"
       /\ execs' = [execs EXCEPT ![e] = NoExec]
       /\ busy' = FALSE
       /\ pings' = IF execs[e].kept THEN StartPing(pings, execs[e].ip) ELSE pings
  /\ UNCHANGED <<tabs, place, vncs, widgetIp, saves, acted>>

-----------------------------------------------------------------------------
(* The program ends, or is killed, and starts again *)

\* closeEvent closes the external viewers it knows and saves the sessions; a
\* killed program does neither.
ProgramEnds ==
  /\ acted < Steps /\ acted' = acted + 1
  /\ \/ saves.todo = <<>> /\ saves' = [file |-> tabs, todo |-> tabs]
     \/ saves' = [saves EXCEPT !.todo = saves.file]
  /\ tabs' = <<>> /\ pings' = {} /\ busy' = FALSE
  /\ place' = [current |-> NoTab, active |-> NoTab, shown |-> NoTab]
  /\ execs' = [e \in Actions |-> NoExec]
  /\ vncs' = [known |-> {}, astray |-> vncs.astray]
  /\ widgetIp' = [a \in Addresses |-> NoTab]

\* restore_sessions: add_tab for one address after the other, each of which
\* writes the file.
RestoreTab ==
  /\ saves.todo # <<>>
  /\ IF Len(tabs) < MaxTabs THEN Added(Head(saves.todo))
                            ELSE UNCHANGED <<tabs, place, pings, widgetIp>>
  /\ saves' = [file |-> tabs', todo |-> Tail(saves.todo)]
  /\ UNCHANGED <<execs, busy, vncs, acted>>

DeskNext ==
  \/ AddTab \/ SelectTab \/ CloseTab \/ ChangeTabIp \/ Reconnected \/ RegisterVnc
  \/ PressAction \/ ExecStarts \/ ExecEnds \/ ProgramEnds \/ RestoreTab

DeskSpec == DeskInit /\ [][DeskNext]_deskVars

-----------------------------------------------------------------------------
(* Properties *)

\* The active tab is pinged, or an action on its register is under way that
\* starts the ping again: otherwise its dot, and the restoration of its viewer,
\* would stand still.
ActiveIsPinged ==
  place.active = NoTab \/ place.active \in pings
    \/ \E e \in Actions : execs[e].ip = place.active /\ execs[e].kept

\* The status bar and the journal follow the active tab.
ShownIsActive == place.active # NoTab => place.shown = place.active

\* The buttons are never left disabled with no action under way, of whichever
\* tab it was and whichever tab was closed meanwhile.
BusyEnds == busy => \E e \in Actions : execs[e].at = "runs"

\* "A ping loop must always be stopped, not only for the active tab" (close_tab).
PingsAreOfTabs == pings \subseteq Open

\* "Remember an external viewer to close it with its tab" (register_vnc).
ViewersEnd == ~vncs.astray

\* The buttons are disabled while an action runs.
BusyWhileRunning == (\E e \in Actions : execs[e].at = "runs") => busy
=============================================================================
