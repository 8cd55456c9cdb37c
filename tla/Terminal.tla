------------------------------ MODULE Terminal ------------------------------
(***************************************************************************)
(* The sessions of the terminal program: builtin/terminal/core/session.py, *)
(* core/connection.py, core/pty.py, and the tabs of ui/main_window.py.     *)
(* Each session has a coroutine that connects and opens the PTY, a reader  *)
(* of its output, and the coroutines that close it: the menu's Disconnect  *)
(* awaits them, the closing of the tab does not.  One counter stops the    *)
(* garbage collector for the readers of all sessions.                      *)
(***************************************************************************)
EXTENDS Naturals, FiniteSets

CONSTANTS
  Terminals,  \* the tabs that are opened
  Losses      \* bound: how often a link is lost

ASSUME TerminalAssumption == IsFiniteSet(Terminals) /\ Losses \in Nat

VARIABLES
  dial,     \* _connect_task: where the coroutine waits
  line,     \* the SSHConnection: session._conn, and the connection itself
  pty,      \* the PtyStream: session._pty, its channel, its reader
  closer,   \* close(), of the menu, and what abort() left to the loop
  ttab,     \* the tab of the window
  notice,   \* whether _on_closed is in the queue of the loop
  grid,     \* the size: of the widget, the one asked for, the channel's
  collector \* _gc_guard, whether the collector is on

termVars == <<dial, line, pty, closer, ttab, notice, grid, collector>>

NoLine == [kept |-> FALSE, up |-> FALSE]
NoPty == [kept |-> FALSE, channel |-> FALSE, reader |-> "none"]
Grids == {"small", "large"}
Flooding == {"flood", "flood cancelled"}

TerminalTypeOK ==
  /\ dial \in [Terminals -> {"none", "first", "pause", "second", "create", "done"}]
  /\ line \in [Terminals -> [kept: BOOLEAN, up: BOOLEAN]]
  /\ pty \in [Terminals -> [kept: BOOLEAN, channel: BOOLEAN,
                            reader: {"none", "reading", "cancelled", "ended"} \cup Flooding]]
  /\ closer \in [Terminals -> {"none", "stops", "abort", "over"}]
  /\ ttab \in [Terminals -> {"none", "open", "marked", "closed"}]
  /\ notice \in [Terminals -> BOOLEAN]
  /\ grid \in [Terminals -> [widget: Grids, asked: Grids, remote: Grids]]
  /\ collector \in [guard: 0..Cardinality(Terminals), on: BOOLEAN, lost: 0..Losses]

TerminalInit ==
  /\ dial = [s \in Terminals |-> "none"]
  /\ line = [s \in Terminals |-> NoLine]
  /\ pty = [s \in Terminals |-> NoPty]
  /\ closer = [s \in Terminals |-> "none"]
  /\ ttab = [s \in Terminals |-> "none"]
  /\ notice = [s \in Terminals |-> FALSE]
  /\ grid = [s \in Terminals |-> [widget |-> "small", asked |-> "small", remote |-> "small"]]
  /\ collector = [guard |-> 0, on |-> TRUE, lost |-> 0]

TabOpen(s) == ttab[s] \in {"open", "marked"}

-----------------------------------------------------------------------------
(* The collector: _gc_acquire, _gc_release *)

Acquire == collector' = [collector EXCEPT !.guard = @ + 1, !.on = FALSE]

Release == collector' = [collector EXCEPT !.guard = @ - 1,
                                          !.on = @ \/ collector.guard = 1]

-----------------------------------------------------------------------------
(* Closing *)

\* What is left of a reader that is told to stop.
Cancelled(r) ==
  CASE r = "reading" -> "cancelled"
    [] r = "flood" -> "flood cancelled"
    [] OTHER -> r

\* SSHConnection.close: what the connection carries ends with it.
Shut(s, kept) ==
  line' = [line EXCEPT ![s] = [kept |-> kept, up |-> @.up /\ ~@.kept]]

\* Mutant: a dial that is under way is not cancelled.
AbortLeavesDial(s) ==
  /\ dial' = [dial EXCEPT ![s] = IF @ \in {"first", "pause", "second"} THEN @ ELSE "done"]
  /\ closer' = [closer EXCEPT ![s] = "abort"]

\* abort: the coroutine is cancelled; the loop stops the reader, closes the
\* channel and the connection after the tab has gone.
Abort(s) ==
  /\ dial' = [dial EXCEPT ![s] = "done"]
  /\ closer' = [closer EXCEPT ![s] = "abort"]

CloseSession(s) ==
  /\ TabOpen(s)
  /\ Abort(s)
  /\ ttab' = [ttab EXCEPT ![s] = "closed"]
  /\ UNCHANGED <<line, pty, notice, grid, collector>>

\* _abort_pty and _close_quietly, three seconds at most for each.
AbortRuns(s) ==
  /\ closer[s] = "abort"
  /\ closer' = [closer EXCEPT ![s] = "over"]
  /\ Shut(s, line[s].kept)
  /\ pty' = [pty EXCEPT ![s] = [kept |-> FALSE, channel |-> FALSE,
                                reader |-> Cancelled(pty[s].reader)]]
  /\ UNCHANGED <<dial, ttab, notice, grid, collector>>

\* _disconnect_current: close() of the session, whatever its coroutine does.
Disconnect(s) ==
  /\ TabOpen(s) /\ closer[s] = "none"
  /\ \/ /\ pty[s].reader \in {"reading", "flood"} /\ pty[s].kept
        /\ closer' = [closer EXCEPT ![s] = "stops"]
        /\ pty' = [pty EXCEPT ![s].reader = Cancelled(@)]
        /\ UNCHANGED line
     \/ /\ ~(pty[s].reader \in {"reading", "flood"} /\ pty[s].kept)
        /\ pty' = [pty EXCEPT ![s].kept = FALSE, ![s].channel = FALSE]
        /\ Shut(s, FALSE)
        /\ UNCHANGED closer
  /\ UNCHANGED <<dial, ttab, notice, grid, collector>>

\* The reader has ended: stop() closes the channel, close() the connection.
CloserGoesOn(s) ==
  /\ closer[s] = "stops" /\ pty[s].reader = "ended"
  /\ closer' = [closer EXCEPT ![s] = "none"]
  /\ pty' = [pty EXCEPT ![s].kept = FALSE, ![s].channel = FALSE]
  /\ Shut(s, FALSE)
  /\ UNCHANGED <<dial, ttab, notice, grid, collector>>

-----------------------------------------------------------------------------
(* Connecting: _connect_and_open_pty *)

NewConnection(s) ==
  /\ ttab[s] = "none"
  /\ ttab' = [ttab EXCEPT ![s] = "open"]
  /\ dial' = [dial EXCEPT ![s] = "first"]
  /\ line' = [line EXCEPT ![s].kept = TRUE]
  /\ UNCHANGED <<pty, closer, notice, grid, collector>>

\* connectionFailed: _on_conn_failed closes the tab, so abort() runs.
ConnectionFailed(s) ==
  /\ Abort(s)
  /\ ttab' = [ttab EXCEPT ![s] = "closed"]
  /\ UNCHANGED <<line, pty, notice, grid, collector>>

\* An attempt fails: a refused host key ends it, else there is one more.
AttemptFails(s) ==
  /\ dial[s] \in {"first", "second"}
  /\ \/ ConnectionFailed(s)
     \/ /\ dial[s] = "first"
        /\ dial' = [dial EXCEPT ![s] = "pause"]
        /\ UNCHANGED <<line, pty, closer, ttab, notice, grid, collector>>

PauseEnds(s) ==
  /\ dial[s] = "pause"
  /\ dial' = [dial EXCEPT ![s] = "second"]
  /\ UNCHANGED <<line, pty, closer, ttab, notice, grid, collector>>

\* Connected.  After close() session._conn is None: acquire() raises, and the
\* coroutine ends with its connection.
Connected(s) ==
  /\ dial[s] \in {"first", "second"}
  /\ line' = [line EXCEPT ![s].up = TRUE]
  /\ \/ /\ line[s].kept
        /\ dial' = [dial EXCEPT ![s] = "create"]
        /\ pty' = [pty EXCEPT ![s].kept = TRUE]
        /\ grid' = [grid EXCEPT ![s].asked = grid[s].widget]
     \/ /\ ~line[s].kept
        /\ dial' = [dial EXCEPT ![s] = "done"]
        /\ UNCHANGED <<pty, grid>>
  /\ UNCHANGED <<closer, ttab, notice, collector>>

\* create_process answers: the reader starts, of a closed connection too.
PtyStarts(s) ==
  /\ dial[s] = "create"
  /\ dial' = [dial EXCEPT ![s] = "done"]
  /\ pty' = [pty EXCEPT ![s].channel = line[s].up, ![s].reader = "reading"]
  /\ grid' = [grid EXCEPT ![s].remote = grid[s].asked]
  /\ UNCHANGED <<line, closer, ttab, notice, collector>>

PtyFails(s) == dial[s] = "create" /\ ConnectionFailed(s)

-----------------------------------------------------------------------------
(* The reader: _read_loop and _emit_output *)

\* More than one slice: the collector is off until all slices are given.
FloodStarts(s) ==
  /\ pty[s].reader = "reading" /\ pty[s].channel
  /\ pty' = [pty EXCEPT ![s].reader = "flood"]
  /\ Acquire
  /\ UNCHANGED <<dial, line, closer, ttab, notice, grid>>

FloodEnds(s) ==
  /\ pty[s].reader = "flood"
  /\ pty' = [pty EXCEPT ![s].reader = "reading"]
  /\ Release
  /\ UNCHANGED <<dial, line, closer, ttab, notice, grid>>

\* The reader ends, cancelled or at the end of the stream, and says so.
ReaderEnds(s) ==
  /\ \/ pty[s].reader \in {"cancelled", "flood cancelled"}
     \/ pty[s].reader = "reading" /\ ~pty[s].channel
  /\ pty' = [pty EXCEPT ![s].reader = "ended"]
  /\ notice' = [notice EXCEPT ![s] = TRUE]
  /\ IF pty[s].reader \in Flooding THEN Release ELSE UNCHANGED collector
  /\ UNCHANGED <<dial, line, closer, ttab, grid>>

\* _on_pty_closed: the tab says that it is disconnected.
OnPtyClosed(s) ==
  /\ notice[s]
  /\ notice' = [notice EXCEPT ![s] = FALSE]
  /\ ttab' = [ttab EXCEPT ![s] = IF @ = "open" THEN "marked" ELSE @]
  /\ UNCHANGED <<dial, line, pty, closer, grid, collector>>

\* resize_pty: without a channel only the size to come is noted, and the one
\* create_process was given stays.
Resize(s) ==
  /\ TabOpen(s) /\ grid[s].widget = "small"
  /\ grid' = [grid EXCEPT ![s].widget = "large",
                          ![s].remote = IF pty[s].channel THEN "large" ELSE @]
  /\ UNCHANGED <<dial, line, pty, closer, ttab, notice, collector>>

\* The shell ends, or the link is lost (keepalive).
ShellEnds(s) ==
  /\ pty[s].channel /\ collector.lost < Losses
  /\ pty' = [pty EXCEPT ![s].channel = FALSE]
  /\ \E up \in {line[s].up, FALSE} : line' = [line EXCEPT ![s].up = up]
  /\ collector' = [collector EXCEPT !.lost = @ + 1]
  /\ UNCHANGED <<dial, closer, ttab, notice, grid>>

-----------------------------------------------------------------------------
Operate(s) == NewConnection(s) \/ CloseSession(s) \/ Disconnect(s) \/ Resize(s)

Dialling(s) == AttemptFails(s) \/ PauseEnds(s) \/ Connected(s)

Loop(s) ==
  \/ AbortRuns(s) \/ CloserGoesOn(s)
  \/ FloodEnds(s) \/ ReaderEnds(s) \/ OnPtyClosed(s)

TerminalNext ==
  \E s \in Terminals :
    \/ Operate(s) \/ Dialling(s) \/ Loop(s)
    \/ PtyStarts(s) \/ PtyFails(s) \/ FloodStarts(s) \/ ShellEnds(s)

TerminalSpec == TerminalInit /\ [][TerminalNext]_termVars

\* The loop runs what is ready; an attempt has connect_timeout.
TerminalFairSpec ==
  /\ TerminalSpec
  /\ \A s \in Terminals :
       /\ WF_termVars(AbortRuns(s)) /\ WF_termVars(CloserGoesOn(s))
       /\ WF_termVars(FloodEnds(s)) /\ WF_termVars(ReaderEnds(s))
       /\ WF_termVars(OnPtyClosed(s)) /\ WF_termVars(Dialling(s))

-----------------------------------------------------------------------------
\* The collector is off exactly while a reader of some session is in the
\* middle of a flood, however its emission ends.
CollectorFollows ==
  LET n == Cardinality({s \in Terminals : pty[s].reader \in Flooding}) IN
  collector.guard = n /\ (collector.on <=> n = 0)

\* The closing of a tab, at any time of its connecting, leaves neither channel
\* nor connection of the session behind (abort), and a session whose reader has
\* ended does not stay open on the screen.
SessionsEnd ==
  /\ \A s \in Terminals :
       (ttab[s] = "closed") ~> (~pty[s].channel /\ ~(line[s].up /\ line[s].kept))
  /\ \A s \in Terminals : (pty[s].reader = "ended") ~> (ttab[s] # "open")

\* close() closes for good: it leaves no connection that nobody can close.
ClosedForGood == \A s \in Terminals : line[s].up => line[s].kept

\* The channel has the size of the widget (resize_pty).
SizeIsKnown ==
  \A s \in Terminals : pty[s].channel => grid[s].remote = grid[s].widget
=============================================================================
