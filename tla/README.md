# A TLA+ model of CashControl

CashControl is a desktop program (PySide6 + asyncio) with which a support
engineer looks after cash registers: one tab per register, with the information
collected from it over SSH, a file manager, a VNC viewer, a terminal and a
database console.  This directory holds TLA+ modules translated from its source,
the TLC configurations that check them on small instances, and proofs checked by
TLAPS.  Paths below are relative to `src/src/cashcontrol/`.

## 1. The system

### Components, state, operations

| component | source | state | operations |
|---|---|---|---|
| transfer queue | `builtin/file_manager/service.py` (`TransferQueue`) | jobs, cancel events, runners, the pending deque, worker tasks | start, stop, enqueue, cancel, retry, remove_job, the worker loop |
| file manager window | `builtin/file_manager/gui/runtime.py`, `session.py`, `widgets.py`, `dialogs.py` | the executor thread and its loop, the connection, two directory models with their caches, editors | submit, shutdown, connect, refresh, navigate, open and save a text |
| remote files | `builtin/file_manager/service.py`, `backends.py` | one connection: SFTP, or a shell under a lock with SCP; part files | list, upload, download, move, save, remove |
| information collector | `core/info/info_manager.py` | the deque of sections, the queue of results, worker tasks, the snapshot, the cache per host | collect_all in three waves, clear_cache |
| section collectors, fixes | `core/info/collectors/`, `fixes.py`, `diagnostics.py` | none between calls | one collect per section; plan and apply of a fix |
| register tab | `gui/cash_session_widget.py` | the session, the connect and collect tasks, loading / loaded flags, the reconnect button, the fix track, the sections shown | connect, reconnect, load, background refresh, ping events, drop upload, fix, close |
| session, SSH, database | `core/session.py`, `core/ssh.py`, `core/db.py` | connections, the successful password, the background database task | connect, disconnect, abort, execute |
| tabs and pings | `gui/tab_manager.py`, `gui/session_manager.py`, `gui/toolbar.py` | tabs by address, ping tasks, external viewers, busy buttons, the file of sessions | add, close, change address, restore in waves of three, ping, run an action |
| log collection | `core/collect.py`, `gui/toolbar.py` | the archive on the register, the button, the line of progress | measure, pack, download, remove |
| VNC | `builtin/vnc/` | worker threads, sockets, the framebuffer, keys held, the client window | connect, decode, paint, press, restore |
| terminal | `builtin/terminal/` | a connection and a PTY per session, the decoder, the screen with its history | dial, read, resize, select, close |
| database viewer | `builtin/db_viewer/` | a thread per question, the grid, the list of tables, the console | load, write, export, import, execute |
| security | `core/security/` | the master key and what seals it, encrypted passwords, the password that worked per host | unlock, encrypt, iterate, cache |
| configuration, commands, programs | `infrastructure/`, `actions_registry.py`, `gui/dialogs/`, launchers | settings, files of commands, windows of programs | load, save, edit, reload, run |
| history, notices, keyboard | `gui/history_manager.py`, `notification_manager.py`, `feedback.py`, `widgets/virtual_keyboard.py` | files and in-memory copies, bars, layouts | add, flush, show, clear, send keys |
| presentation | `gui/` windows, dialogs, themes, widgets | widgets | drawing |

### How they interact

The GUI, the tabs, the collectors and the sessions share one asyncio loop (qasync):
they interleave only at awaits, through the fields of the tab and of the session.
The file manager runs its coroutines on a second thread with a loop of its own; its
queue is shared with the GUI thread without a lock, its answers come back as queued
signals.  The VNC viewer and the database viewer use plain threads, whose events and answers
wait in the queue of the GUI thread.  What runs on a register (`tar`, shell commands, an SFTP
server) goes on when the program has given it up.  The tab creates a
`CashSession`, gives it to the collector, and lets a background task connect the
database that some collectors wait for.  `TabManager` creates and closes tabs,
restores them in waves, and moves a tab to another address by `reconnect_to`.

### What is hard

* two threads on the dictionaries of `TransferQueue`; ids that are in the deque twice;
* a collection that is cancelled at any await while its workers hold channels of a
  server that accepts few of them; retries; a cache shared by overlapping runs;
* coroutines of a tab that read `self._session` and `self._loading` again after each
  await while clicks, pings and a close change them; connections with no owner left;
* part files, moves and saves over servers that can rename over a file, cannot, or are only a
  shell, with the connection lost before or after the server obeyed;
* answers of threads and coroutines that arrive after the window, the address, the selected
  row or the database they were asked for has changed;
* settings, keys, layouts, commands and histories on disk, with two editors, a crash or an
  unreadable file between the reading and the writing;
* failures at each step: a password, a timeout, a lost link, a widget already deleted.

The list of single hazards, with their lines, is in `PROJECT.json`.

### What makes each component correct

* transfer queue: no job is lost or shown running without a worker; every waiting job
  is served; a job ends once.
* collector: what it returns is what it showed; it always ends, and leaves no worker
  behind; the cache holds finished snapshots only.
* tab and session: each open connection is reachable from its tab; a closed tab holds
  none; the loading flag is true exactly while a collection runs; a refresh reads again.
* remote files: a file changes only as a whole, to a whole content; a move removes only what
  it has downloaded; a part file stays only where the link or the server keeps it from being
  removed; a removal takes its entry only.
* log-in: a connection in use was verified; "all passwords failed" is true; no failure leaves a
  connection open that nobody holds.
* VNC viewer: one worker thread at a time; nothing of an old connection is shown; pixels are
  decoded and painted as they were made; no event waits without a wake-up; what it counts as pressed
  is what is down at the register.
* terminal: what is decoded is what was sent, the history keeps its order, a closed session
  leaves no channel.
* files of the program: what is broken off changes nothing, a password stays readable, nothing
  of one register, keyboard or collection is used for another.
* windows: what is shown answers the last question about what is active; nothing stays disabled
  or loading when its work is over; what was stopped stays stopped.

## 2. Modules

Each action is what one coroutine or thread does without another being able to run:
from one await to the next on the event loop, one access at a time for the two
threads of `TransferQueue`.  Texts, logs and widgets are left out; statuses, flags,
tasks and connections are kept.  An operator named in a comment "Mutant" is not part
of any specification: it is a plausible defect, against which a property is tried.

### `TransferQueue.tla`

The queue of the file manager.  State: `started`, `jobs`, `events`, `cancelSet`,
`status`, `pending` are the object's fields; `wpc`/`wjob` say where each worker
coroutine is, `gpc`/`gjob`/`gnew`/`gpos`/`gmutated` where the GUI thread is inside
`cancel`, `retry` or `remove_job`, whose generator over the deque is modelled element by
element (it can see a mutation and raise, or rebuild a popped id).  Workers take turns
at awaits (`LoopFree`); the GUI thread runs between any two accesses.

Checked: `NoLostJob`, `RunningHasWorker` and the liveness property `WaitingIsServed`.

### `InfoCollector.tla`

`collect_all`: wave 1 alone, wave 2 with worker coroutines over a deque and a result
queue, wave 3 sequential retries, cancellation at any await with the `finally` that
cancels and gathers the workers, and the snapshot cache that overlapping runs share.
`rpc` is where the main coroutine of a run is; `held` is the section of a worker.

A section collector returns its failures; the program's own collector of the cash type turns
them into a COMPLETE section "unknown" (`TypeOutcomes`, `OwnType`).

Checked: `ReturnedIsShown`, `WavesHandOver` (the loop that counts results is always answered,
retries run alone, no worker outlives its wave, two attempts at most), `RunEnds`,
`CollectedStays` (what was collected is neither asked for again nor overwritten) and
`CacheIsFinished` (whoever takes the cached snapshot takes one that no run still works on or has
given up).  Shown violated: `FailedIsNotCached`.

### `SessionTab.tla`

A tab with its sessions.  `tab` holds the widget's fields; every `connect_coro`
instance names the session it creates, so `sess[c]`, `job[c]`, `dbs[c]` are that
session's SSH transport, its database task and the connections its DBSession opened.
`cancelled` is the set of tasks with a pending cancel().  `reconnect_to` is the three
waits of `ref`, written as one operator per part (`StopInfo`, `Abort`, `Reconnect`), each of which
continues with the next when there is nothing to wait for.  A restored tab is dialled by
`RestoreTurn`, in a task the tab does not hold.  After `Close` comes `Delete`: then every
step that touches a widget raises.

Checked with one operation at a time: `ConnectionsHaveOwner` (`SshHasOwner` and `DbHasOwner`),
`CollectionIsFlagged`, and under fairness `PanelSettles` and `RefreshReadsAgain`.  Checked with
everything overlapping: `TypeOK` and `LoadingHasTask`.  Shown violated: `ClosedTabHoldsNoSsh`.
Which overlaps the ownership of connections survives, section 5 says (`Calm`).

### `Login.tla`

`SSHSession.connect`, `DBSession.connect` and the `PasswordManager` they share.  `pc` is
the await of a connect(): the dial, the close of the first contact, the second dial;
`first` is its local `first_contact`, `gen` the suspended generator of passwords (the list
it read, the cached password, its place).  `known` is the lines of `known_hosts` for the
host, `cache` the password that worked last.  Any number of sessions log in to the same
register at once, and between two awaits the settings are saved, the cache is cleared, the
register gets another key, or the operator removes its lines from `known_hosts`.  Where that
file cannot be read, a line is written without looking for it (`MaxLines` bounds them).  A password
that cannot be decrypted counts as not configured, as in `decrypt_list`.  `exhausted` and
`untried` are only there to state a property.

Checked: `OpenIsOwned`, `OpenIsVerified` (an SSH connection in use was made with verification,
after a first contact too), `RefusedTriedAll` and the liveness property `LoginEnds`.

### `VncViewer.tla`

One viewer of `builtin/vnc/vnc_preview.py`: the widget in the GUI thread, the worker threads
it starts, and the server each talks to.  The operator's calls (`ConnectVnc`,
`DisconnectVnc`, `SetDepth`, `Cleanup`) and the timers (`ReapWorkers`, `ApplyUpdates`) are
one step each; a drain of the deque is `Drain`, one `DrainEvent` per event, and `DrainEnds`.
A worker, named by the generation it was started for, steps from one blocking call to the
next: `Connected`, `Setup`, the loop (`Waits`, `KeepsAlive`, `RecvUpdate`), one `Rect` at a
time, `UpdateDone`, and the end (`Breaks`, `Stopped`, `Finish`, `Dies`).  Adding an event to
the deque and emitting the signal are two steps (`Enqueue`, `Emit`), as the lock is released
between them.  `rfb[g]` holds what both sides of the protocol know.  The answer of the server
(`ServerAnswers`) and the size of the remote desktop are modelled from what the client relies on.

Checked: `OneWorker`, `UpdatesFit`, `EventsAreCurrent` (waiting events have one wake-up, and
"connected" is shown for the worker in use only), `DecodedAsSent` and the liveness properties
`ConnectingEnds` and `DepthIsApplied`.

### `RemoteFiles.tla` and `FileStore.tla`

`FileStore` is the promise: a file keeps its content until another whole content takes its
place in one step, or a move takes it away after a copy was made; `copied` are the files whose
copy is of their present content, `stale` those that were replaced since, which a move removes all
the same; only a store that cannot rename over a file (`Degrade`) may lose it on the way (`Gap`).
`RemoteFiles` is the code: the jobs of `upload`, `download` and move with their conflict policies,
and the saves of the editor, which interleave with the job at every await.  `pc[p]` is the request
a process waits for (look, put the part file, remove or rename, clean up), one action per request
and outcome; `server` is an SFTP server with posix-rename, one without, or a shell, whose commands
(`command`, `late`) run on when they are given up; `refused`, `link` and `closing` are the faults.
`part[p]` is the part file of a process: a partial or a whole content, or one the server refused to
remove (`"stuck"`).  A rename gives a name what
the part file holds, partial contents included (`Replace`), so that only whole contents take a
name is something to check; a local copy becomes `"old"` when its file is replaced.
`FilesAsPromised` maps the two directories to one store of names and says that every step is a
step of `FileStore`; `PartsRemoved` that over SFTP, while the link lives, a process that is done has
no part file but one whose removal was refused, or was itself broken off by a cancellation.

Checked: `TypeOK`, `PartsRemoved`, `FilesAsPromised`.

### The parts

Each of these modules is the state of one part with its own `...Init` and `...Next`, and names
its variables so that several can be extended together.  `MCParts` and `MCWindows` extend them
and let TLC take one part at a time (`part`, `front`): they share no state, and interleaving
them would only multiply states.  A property of these two modules is a conjunction of properties
of the parts; a mutation of each part was tried against each conjunct.

| module | the code and its state | checked |
|---|---|---|
| `FilesSession` | a window of the file manager.  `link` is where `_connect_coro` is, `panel` the `RemoteFileModel` with its cache, `editor` a dialog, `tasks` the coroutines of the executor, `inbox` the queued signals, `executor` its shutdown.  Every payload and error reaches every slot, as in the code | `RowsBelong`, `OwnTextIsSaved`, `EditorSettles` |
| `ShellRunner` | `SSHShellRunner` and the probing of `ScpShellBackend`: the shell with its two streams, the lock, the numbered tokens, the restart after a timeout or an end, SCP transfers under the same lock | `OutputIsOwn`, `TransferIsAlone`, `ModeIsHosts` |
| `RemoteTree` | listing a directory and removing an entry, over SFTP and each kind of shell, while the register changes between two requests | `UntouchedIsShown`, `RemovalIsBounded` |
| `TabJobs` | the fix of a problem (plan, dialog, apply) and the upload of dropped files, while `reconnect_to` changes the address | `OneFix`, `DropsAreClosed` |
| `InfoPanel` | the sections shown: groups, placeholders, rows, notes, problems; the type of the register, forced and cached collections, repeated sections | `PanelIsCollected` |
| `Programs` | the programs opened for a tab and their passwords, the windows of the file manager by address, the type found or chosen | `PasswordsAreOwn`, `ReopenedIsFresh` |
| `Desk` | `TabManager`, `SessionManager`, the actions of the toolbar: tabs, ping loops, busy buttons, external viewers, the file of sessions | `ShownIsActive`, `ActiveIsPinged`, `BusyEnds` |
| `LogCollect` | the collection of logs and the commands that go on at the register | `ArchiveIsOwn`, `ButtonReturns` |
| `Journal` | the history of a register with its file and list, notices from any thread, repeats, bars | `HistoryIsOwn`, `NoFalseRepeat` |
| `Keyboard` | layouts on disk, editors, the keyboard window, clicks sent with xdotool | `LayoutsAreOwn`, `ClosedSendsNothing` |
| `Settings` | the key, what seals it, `settings.json`, the dialog, the wizard and its check, a crash between two writes | `PasswordsReadable`, `CheckIsUndone`, `ClearedOnPurpose` |
| `Commands` | files of commands, the loader and registry, the editor, a command that runs | `FormIsFile`, `BreakIsFailure` |
| `Screen` | the decoder, the two screens with the history, selection, scrolling, mouse modes of a terminal | `DecodedAsSent`, `LinesInOrder`, `ViewIsInHistory` |
| `VncKeys` | keys and buttons held, the queue of commands with joined moves, what is down at the register | `RemoteIsCounted` |
| `DbConsole` | the list of tables with its card, the SQL console | `CardIsLast`, `ButtonComesBack` |
| `DbPanel` | an open table: a thread per load, write, export; tracked workers; the closing that waits for them | `ShutdownStopsAll`, the progress bar in `WindowsSettle` |
| `VncPreview` | the tasks of a tab's viewers: start of the server, the client window, external clients, restoration after a lost link | `DisconnectHolds`, `ViewerComesBack` |
| `Terminal` | the sessions: dialling, the PTY, the reader, the flood, the two ways of closing, the garbage collector they stop | `CollectorFollows`, `SessionsEnd` |

## 3. Runs and bounds

| run | instance | what it shows |
|---|---|---|
| `queue` | 2 jobs, 2 workers, all operations, at most 3 ids in the deque | safety and service of the queue under both threads |
| `collector` | 2 sections, 2 workers, 2 runs | overlapping collections with cancellation, timeouts, retries and the cache they share |
| `collector_failed` | 2 sections, 2 workers, 1 run | a disagreement of section 4 |
| `login` | 2 SSH sessions and 1 of the database, 2 attempts in all, 2 host keys, no password or 2 with one entered twice | first contacts that overlap, the order of passwords, settings that change during an attempt |
| `vnc` | 2 sizes, 2 depths, 2 generations, 2 changes of the depth, 1 of the size, 2 events per tick | a reconnection or disconnection while the first worker ends late and its events wait; a depth and a size that change while an update is on its way |
| `tab` | 3 connections, 1 refresh, 4 collections, database, no overlap | ownership of connections, flags, progress |
| `tab_overlap` | 3 connections, 2 refreshes, 4 collections, all operations, restored tabs | types and the loading flag under any overlap |
| `tab_close_wave` | 2 connections, 1 refresh, 3 collections, restored tabs | a disagreement of section 4 |
| `files` | a file, a directory and its file, renamed copies of both, a job of one item and a save, three kinds of server | every fault at every request of a transfer and a save that meet on one file (5.9 million states) |
| `parts` | the 16 parts of `MCParts`, 2 or 3 of everything (1.1 million states) | the safety of each part |
| `windows` | the 4 windows of `MCWindows`, 3 or 4 orders of the operator (0.2 million states) | the safety and liveness of what loads, saves, reconnects or closes |
| `settings_key` | a keyring, 2 starts | a disagreement of section 4 |

The bounds are enough for the cases they are about.  With two jobs and a deque of
three, an id is in the deque twice together with another job's.  Two sections and two
workers give a worker that collects both while the other has ended or was cancelled, and two that
answer in either order.  Two runs are the cancelled one and its successor.  In `collector` a section
that answers is COMPLETE: an ERROR takes the same steps, and the proofs cover every outcome;
`collector_failed` has them all.  Two attempts are
two first contacts at once, or a log-in that fills the cache and one that uses it.  Two
generations are a viewer and its successor, or none; `MaxEvents` only holds the server back
when two events wait.  Three connections are the replaced one, the current one and the one a
late coroutine starts; an action that starts a connection or a collection needs an instance
that is left (`FreshConns # {}`, `FreshInfos # {}`), which is the bound of these two.  In
`files` one item of a job meets one save on the same name: a conflict takes two writers of one
file.  In `parts` two registers, keyboards, editors, tables or browsers are what one could be
taken for the other; the counters (`Clicks`, `Steps`, `Calls`, ...) bound what the operator
does, and were chosen so that each part's mutations are found.

The program uses one worker per queue (`gui/session.py`) and allows more
(`concurrency`); two are checked.  Nothing makes the operator act, so a state with
nothing left to do is no error: `CHECK_DEADLOCK FALSE` everywhere.

`tab` leaves out the "reconnect" button and overlapping refreshes, because the code
does lose connections there: a reload pressed while the tab dials shows the button
(the session is not connected yet), and the button pressed after the dial replaces a connected
session without closing it; two overlapping refreshes can do the same.  `tab_overlap`
includes both.

### Fairness

Weak fairness per worker, coroutine and thread: the event loop runs every ready task,
and a dial, a collector or a close ends because of the timeout around it (`TASK_TIMEOUT`,
`connect_timeout`).  That a transfer ends is an assumption on the link: an SFTP put or an SCP
has no timeout, and `RemoteFiles` states no liveness.  `MCWindows` gives each coroutine, thread
and queued signal weak fairness while its window is in front; `ViewerComesBack` takes the
pings to go on and the register to answer one of them again.  In `Login` it is per connect():
each dial has its `wait_for`, the close of a first contact the one of `CashSession.connect`.  In
`VncViewer` the threads run, the event loop serves its queued calls and timers, and a worker
that keeps looping sends its keep-alive request sooner or later (strong fairness: the loop
turns many times within 0.2 s, the request is sent in the first turn after them).  That the
server answers is an assumption on the register: while its screen does not change, an
incremental request stays outstanding and a new depth waits with it.  The operator's actions
have none.

## 4. Disagreements found

Three are runs, which end with the violation of one property:

* `tab_close_wave`: a restored tab that is closed before or during its wave is connected
  afterwards by a coroutine nobody can cancel.
* `collector_failed`: a register whose sections all failed is cached for the whole time to live,
  although the comment above the write says that such a snapshot is not: the section of the cash
  type is COMPLETE whatever the register answers, and counts as usable.
* `settings_key`: with an OS keyring the key goes there and its file is removed, and the next
  start, which looks for the file, makes another key: the stored passwords cannot be read.

The others are statements that a module keeps next to its properties and that TLC refutes when
it is asked; where the repository states it, the comment quotes it.

| module | statement | what the code does |
|---|---|---|
| `TransferQueue` | `CompletedIsFinal` | cancelling a waiting job and retrying it puts its id into the deque twice: it runs again after it completed |
| `SessionTab` | `ClosedTabHoldsNoDb`, `ReconnectOffered` | `cleanup()` does not close the database; after a second failure in a row the panel has no "reconnect" button; and with overlapping operations a reload during a refresh makes the refreshed tab collect nothing (`RefreshReadsAgain`) |
| `Login` | `LineOnce` | where `known_hosts` cannot be read, the key is appended without looking whether it is there |
| `RemoteFiles` | `MovedWasCopied` | the editor saves a file, or a command given up takes effect, between the download of a move and its `remove`: the newer content is removed uncopied |
| `FilesSession` | `PanelSettles`, `ExecutorEnds` | a directory chosen while another loads is never loaded, and the panel goes on loading; work submitted after the shutdown starts another thread and loop, which nobody stops |
| `ShellRunner` | `EndIsTold` | the end of the stream is `b""`, not `None`: a dead shell is noticed at the deadline only |
| `RemoteTree` | `VanishedIsGone`, `ElsewhereIsSafe` | an entry that vanished is listed as "other"; looking and removing are two steps, and over SFTP a link put in between is followed |
| `InfoPanel` | `NothingLoads`, `OldDataStays` | the placeholder of the group "other", which the public build does not collect, never ends; a background refresh clears what it shows |
| `TabJobs` | `WrittenWhereShown` | a fix confirmed for one register is written to the one the tab has moved to |
| `Desk` | `PingsAreOfTabs`, `ViewersEnd`, `BusyWhileRunning` | a moved tab is pinged under both addresses, viewers outlive it, and two actions share one busy flag |
| `LogCollect` | `DoneIsSuccess` | a removal that fails after the complete download reports the collection as failed |
| `Programs` | `OneWindow`, `ManualIsKept` | an old window, deleted late, takes the entry of its successor out of the register of windows; a type chosen by hand is replaced by the one the connection was still looking for |
| `Journal` | `ClearedIsGone`, `HistoryIsWritten`, `ShownIsKept`, `ListIsJournal` | clearing in the mode without files leaves the file, whose lines come back with that mode; lines that wait are lost when the program ends; what is shown and what is kept part ways over a change of mode and over notices of which one is given up |
| `Keyboard` | `KeysInOrder`, `UnreadableIsKept`, `ChoiceIsKept` | clicks are tasks of their own and overtake each other; a window that only shows an unreadable layout saves the default over it; a chosen layout is replaced by the model found |
| `Settings` | `SavedIsUsed` | settings the wizard saves while its check runs are undone in memory by the check's `finally` |
| `Commands` | `SavedIsOffered`, `BuiltinsStay` | the editor saves `.json`, which the loader does not read; a command of the operator with the name of a built-in one takes its place |
| `Terminal` | `ClosedForGood`, `SizeIsKnown` | Disconnect during a dial drops the connection object, and the dial goes on to open it; a size set while the PTY is being created is lost |
| `Screen` | `CopiedAsMarked`, `CursorIsOnScreen`, `DragsAreHeld` | output moves the lines under a selection; the saved cursor may be outside the screen; a program is told of a drag after the button was released |
| `VncPreview` | `HiddenIsOff`, `ComesBackAnyway` | a client window hidden while its server starts is connected afterwards; a refresh while the link is down leaves a viewer that does not come back |
| `VncKeys` | `NothingLeaks`, `PressIsSent` | keys counted as pressed survive a reconnection; a key released with other modifiers stays counted as it was pressed, and its next press is not sent |
| `DbPanel` | `WorkersEndBefore`, `ShowsAsked` | a worker started after the closing still runs when its panel is deleted, and Qt aborts; a request that fails leaves the rows of an older one |
| `DbConsole` | `ListIsOfDatabase`, `ResultIsLast`, `ChangesAreKept` | answers of another database or of an older statement are shown; the console keeps the database it was opened with |

Found while reading, and not stated as properties: the renaming policy of a conflict never
checks the new name, so `x (1)` may be overwritten; the prompter of conflicts waits with
`wait(0.05)`, a `TypeError`, so a conflict that is asked about fails; a job whose files partly
failed ends as completed; a put has no timeout, and over SCP one that hangs holds the lock of
the shell, so that browsing waits with it; errors of `SftpBackend.remove` after its `lstat` end
the removal of a selection; a plan of a fix that raises leaves the fix buttons off; a committed
write of the table whose reload follows at once is never reported; two programs overwrite each
other's log archive, history and layouts; `settings.json` that cannot be read is replaced by
defaults at the next save; a broken `.py` command hides all commands of the operator.

## 5. Proofs

TLAPS checks the following for every value of the constants that satisfies the named
assumption of the module, hence for any number of jobs, workers, sections, runs, sessions
and passwords.  Each proof has the same shape: an inductive invariant, a lemma that
the initial states satisfy it, one lemma per conjunct (or per action) that a step keeps it,
and a theorem per property.  Every safety property of a passing run is stated by a theorem; the
two of `tab` along the behaviours described below.

| module | theorems | from |
|---|---|---|
| `TransferQueueProofs` | `QueueTypes`, `NoJobIsLost`, `RunningIsTrue`, `WorkersDieByRemoval` | `QueueAssumption` |
| `InfoCollectorProofs` | `CollectorTypes`, `ReturnedWasShown`, `GetIsAnswered`, `WorkersAreStopped`, `TwoAttempts`, `WavesAreClean`, `CacheHoldsFinished`, `CollectedIsKept` | `CollectorAssumption` (the sections are a finite set) |
| `VncViewerProofs` | `ViewerTypes`, `OneWorkerAtATime`, `ConnectedIsTrue`, `DecodingIsRight`, `OneWakeUp`, `GuiIsTold`, `PaintedFits` | `ViewerAssumption` |
| `LoginProofs` | `LoginTypes`, `ConnectionsAreOwned`, `ConnectionsAreVerified`, `FailureIsComplete` | `LoginAssumption` |
| `RemoteFilesProofs` | `FilesTypes`, `PartsAreRemoved`, `StoreIsImplemented` | `FilesAssumption` |
| `SessionTabProofs` | `TabTypes`, `LoadingIsServed` | `TabAssumption` |
| | `EveryConnectionHasOwner`, `RunningCollectionIsFlagged` | `TabAssumption`; along behaviours whose steps are `Calm` |
| `WindowsProofs` | `WindowsTypes`, `StoppedForGood` | the assumptions of `FilesSession`, `VncPreview`, `Terminal`, `DbPanel` |
| `PartsProofs` | `PartsTypes`, `ThingsAreOwn`, `EndedHoldsNothing`, `EndsAgree`, `NothingIsStuck`, `ShownFilesAreOwn`, `SettingsSurvive`, `LastIsShown` | the assumptions of the fifteen components |

*The queue.*  `NoLostJob` is not inductive, because `remove_job` replaces the whole deque
by one it built element by element while workers could run.  `CopyInv` says what the new
deque holds at each point of that loop; `KeysInv` that the job it leaves out is no longer in
`_jobs`; `BornInv` that ids held by workers, the deque and the GUI thread belong to jobs that
were created, so that a new job's id is nowhere yet.

*The collector.*  The main coroutine only counts results.  That what it returns is complete
rests on no section being counted twice: a section is in the deque, with one worker, in the
queue once, or in the snapshot (`Disjoint`), and in one of them (`Covered`); the counter
equals the number of sections in the snapshot (`Counted`).  `Tried` ties the number of attempts to
that place, `Stopped` the workers to the phase of the run.  An action of one run leaves the
others' state alone (`Frame`), so the invariant is stated per run; only the cache is shared.
`CollectedIsKept` is an action property: no step asks for a collected section again or
overwrites it.

*The log-in.*  `OpenIsOwned` needs that an object holds no open connection while its
connect() runs (`Closed`), otherwise accepting one would lose the other.  `RefusedTriedAll`
needs that what is untried is what the generator has still to yield (`Ahead`), which
survives changed settings and a cleared cache because the list is read once, before the first
attempt.

*The viewer.*  `OneWorker` follows from `Owned`: every running thread is the one in use or a
retired one, and a start waits for both.  `ConnectedIsCurrent` needs that the event "connected"
is the first of its thread (`First`) and finds that thread in use if it is of the current
generation (`InUse`, `Unstarted`): another event of that generation would have dropped it.
`DecodedAsSent` needs `Agreed`: one request at most is under way, written, answered or being
read, and both sides agree on its format.  `WakeUpOnce` counts; `OneCall` says where the
wake-up is.  `UpdatesFit` needs sizes to be followed from the server to what is painted:
`FramesFit` says that when a frame in the deque gets its turn, the events before it have brought
the picture to its size, and `RestFits` that what the worker has still to read is a frame of the
size the GUI was told, or a new size and then its frame.

*The files.*  `StoreIsImplemented` is a refinement: the initial states satisfy `StoreInit`, and
every step is a step of `FileStore` or leaves the store alone.  That what is renamed is whole is not
in the definitions: `WholeInv` says that a part file is whole from the end of its put on, as long as
its process, or a command it gave up, may still rename it.  `Movable` says that a file of
a move that has left the queue has a copy, `Once` that a job has no path twice, so that no later
download spoils a copy, and `Leaving` that every file a move has still to remove is there: what is
removed is in `copied` or, replaced meanwhile, in `stale`.  `PartsAreRemoved` needs `SftpInv`: over
SFTP there is a part file only while its process is between the put and the rename or the clean-up, or
where the server refused to remove it, which the code passes over (`suppress(OSError, ...)`).

*The tab.*  `LoadingHasTask` alone is not inductive: it says that some collection runs, and the
step that ends that one has to know that it is the tab's.  `Flagged` names it: between refreshes
a set flag has the task `_info_task`, which runs and is not cancelled.  A new task satisfies it
because nothing is cancelled before it was started (`Fresh`); a refresh may break it on its way,
and has cleared the flag when it ends.

*Owners of the connections.*  The code does lose connections, so no theorem says that it never
does.  `Calm` names the steps after which it may, and the theorems hold up to the first of them, for
any set of operations, with overlap and with restored tabs:

* during a refresh, another operation: a second refresh, a reload, a background refresh, the reconnect
  button, a restored ping, the tab's turn in its wave or its closing;
* while a restored tab connects in a task it does not hold (`Unheld`), a refresh, the button, a restored
  ping or a closing, which would have to stop that task;
* the turn of a restored tab that was closed, or is connected or connects already;
* the reconnect button on a tab that is connected or collects.

Each of the four lets a connection or a collection escape: TLC finds it when that condition is left
out of `Calm` (the first case of the third is run `tab_close_wave`).  Within `Calm`,
`TaskInv` says that one connect_coro at most goes on, that no refresh is under way beside it and
that from its first step on the session is its own; `SessInv` and `JobInv` that a session has a
database only when its connect_coro has ended, and that a database task that runs is the one this
session would cancel; `RefreshInv` what `reconnect_to` may rely on at each await.  A refresh that
waits has stopped every connect_coro, so what it aborts is all there is.

*The settings.*  `SettingsSurvive` is about a key in the file, sealed or not: with a keyring the
passwords become unreadable (run `settings_key`), and `PasswordsReadable` leaves it out.
`ClearedOnPurpose` leaves out the end of a check that the wizard did not wait for (`SavedIsUsed`).

*The windows and the parts.*  `MCWindows` and `MCParts` put components side by side that share
no variable.  `WindowsStep` and `PartsStep` say what that gives: a step of the whole is, for each
component, a step of it or leaves it alone.  The invariant of the whole is the conjunction of the
invariants of the components, each of which has its lemmas `...Initial`, `...Kept` and `...Safe`
(it gives the types and the properties).  What these invariants add to the properties:

| invariant | what it adds, and why |
|---|---|
| `FilesInv` | editors that are open, being probed and queued to open are counted together, and their number with the tokens given never exceeds the calls; a save, and an answer about one, has the text its dialog has read |
| `PreviewInv` | `FlowIsWanted`: a flow for the embedded viewer is under way only while it is wanted, so a disconnect leaves nothing that turns it on |
| `TerminalInv` | `NotYetReading`: before its dial is over a terminal has no reader; the guard of the garbage collector is the number of terminals that flood, a cardinality that a step changes by one |
| `PanelInv` | `RunningIsTracked`: while the table is open a worker that runs is under account; `DeletionIsAsked`: no deletion is queued while the table is open |
| `TabJobsInv` | a fix that is under way is alone, keeps the busy flag and, from its plan on, the plan is its own; a probe is open only until its answer |
| `ScreenInv` | past and screen are in the order of printing, below the next line |
| `KeyboardInv` | the buttons in each file, each editor and the open keyboard were made for its layout |
| `ProgramsInv` | no more tasks run than were clicked; a session that is on is of the address of its tab; an entry of the registry is an open window of its address |
| `SettingsInv` | `KeyIsInFile`: the key in the file is the key of the running program, and what was saved needs it; `WizardUndoes`: what an unfinished wizard would restore is what the file has |
| `CommandsInv` | `EditorHasFile`: what is viewed or edited has a file, and a form that can be saved a name |
| `JournalInv` | lines rise in each history and what was flushed is before what waits; no count of a notice exceeds what was given, and what is counted without a bar, its bar has missed |
| `CollectInv` | `PackIsOwn`: the archive of the fixed name is that of the collection under way, whole once its packing ended well |
| `DeskInv` | an address has one tab, is once in the file, and what is left to restore has no tab yet |
| `KeysInv` | what is not counted as pressed is up once the queue is sent: the last of its presses and releases there is a release, or it is up and has none |
| `InfoInv` | while sections come, each that is in the snapshot is shown, under the type that is known |

Two proofs changed the model.  `RemoteTree` had a `CASE` whose guards overlapped for a link, so
that TLA+ left open which arm is taken; they are apart now, as the branches of the code are.
`DbPanel` had to say that there is a worker at all, and that the name for none is not one of them.

Only model-checked: the liveness properties, which the prover cannot reach (`WaitingIsServed`,
`RunEnds`, `PanelSettles`, `RefreshReadsAgain`, `LoginEnds`, `ConnectingEnds`, `DepthIsApplied`,
`WindowsSettle`, `ViewerComesBack`, `SessionsEnd`).  The properties of section 4 do not hold, and
TLC shows a counterexample of each.

## 6. Not modelled

* What programs print and how it is parsed: the section collectors, the diagnosis rules, the
  aliases and the rule tables of the cash types are functions of text with no state.
* Drawing: the main window, themes, the view of rows and cells, colours and the palette of the
  terminal, the pixels of the VNC viewer, dialogs that only show or ask.
* The channels of SSH (`core/ssh.py`: a semaphore of four) and the lock around queries
  (`core/db.py`): each call takes one and gives it back in a `finally`; no state is left.
* The cipher, the content of settings and of statements, modes, sizes and checksums of files:
  data that no property tells apart.
* Of the file manager: the conflict prompter (its waiting raises, see section 4), uploads of whole
  trees, resume with checksums, local operations, copies on the register, search and properties.
* The command line of the file manager, the audit log and the paths: they keep no state.
* Build scripts, vendored data, tests.

Large as `parts` is, two parts never run in it at once.  Where parts do meet, a module of its
own has both: the transfers with the editor (`RemoteFiles`), the tab with its refresh and
closing (`SessionTab`), the viewer with its tab (`VncPreview`).
