------------------------------ MODULE DbPanel -------------------------------
(***************************************************************************)
(* An open table of the database viewer: builtin/db_viewer/data_panel.py,  *)
(* with workers.py, data_grid.py and the closing of its tab in widget.py.  *)
(* Every load, write, export and import is a thread of its own; its answer *)
(* waits in the queue of the GUI thread.  Rows are abstracted to the       *)
(* request they answer.                                                    *)
(***************************************************************************)
EXTENDS Naturals, SequencesExt

CONSTANTS
  Workers,  \* bound: the threads there are at a time
  Requests, \* bound: how often filter, search, order or page change
  Jobs      \* bound: how many writes, exports and imports are started

ASSUME PanelAssumption ==
  Workers # {} /\ "nothing" \notin Workers /\ Requests \in Nat \ {0} /\ Jobs \in Nat

VARIABLES
  threads,   \* each worker: what it does, for which request, how far it is
  current,   \* _worker
  tracked,   \* _workers
  queued,    \* what waits for the GUI thread: answers and the deletion
  asked,     \* the request: _filter_text, _search_text, _order, _page
  rows,      \* the grid: the request its rows answer (0: empty)
  progress,  \* whether the progress bar is shown
  table      \* the tab: open, closed or deleted; whether _meta is known; the jobs
panelVars == <<threads, current, tracked, queued, asked, rows, progress, table>>

WorkKinds == {"load", "write", "export", "import"}
Nothing == "nothing"
Unused == [kind |-> "load", of |-> 0, at |-> "idle", late |-> FALSE]
Running(w) == threads[w].at = "runs"
\* A worker that can be started: none with its name is left of an earlier one.
Free(w) == ~Running(w) /\ w \notin tracked /\ \A m \in ToSet(queued') : m.from # w

PanelTypeOK ==
  /\ threads \in [Workers -> [kind: WorkKinds, of: 0..Requests,
                              at: {"idle", "runs", "over"}, late: BOOLEAN]]
  /\ current \in Workers \cup {Nothing} /\ tracked \subseteq Workers
  /\ asked \in 1..Requests
  /\ rows \in 0..Requests
  /\ progress \in BOOLEAN
  /\ table \in [tab: {"open", "closed", "deleted"}, meta: BOOLEAN, aborted: BOOLEAN, jobs: 0..Jobs]

-----------------------------------------------------------------------------
(* Workers *)

\* _start_worker, with the progress bar: the worker is under account.
Start(ths, kind, of) ==
  /\ \E w \in Workers : Free(w)
  /\ current' = CHOOSE w \in Workers : Free(w)
  /\ threads' = [ths EXCEPT ![current'] = [kind |-> kind, of |-> of, at |-> "runs",
                                           late |-> table.tab # "open"]]
  /\ tracked' = tracked \cup {current'}
  /\ progress' = TRUE

\* cancel: the worker ends within its time and does not answer any more.
Stopped(ws) == [w \in Workers |-> IF w \in ws /\ Running(w)
                                  THEN [threads[w] EXCEPT !.at = "over"]
                                  ELSE threads[w]]

Busy == {w \in Workers : w = current /\ Running(w)}

\* reload: the last worker is cancelled, whatever it does; an empty grid.
LoadTable(of) ==
  /\ Start(Stopped(Busy), "load", of)
  /\ rows' = 0
  /\ UNCHANGED table

PanelInit ==
  /\ current = CHOOSE w \in Workers : TRUE
  /\ threads = [w \in Workers |-> IF w = current THEN [Unused EXCEPT !.of = 1, !.at = "runs"]
                                  ELSE Unused]
  /\ tracked = {current}
  /\ queued = <<>> /\ asked = 1 /\ rows = 0 /\ progress = TRUE
  /\ table = [tab |-> "open", meta |-> FALSE, aborted |-> FALSE, jobs |-> 0]

\* A worker ends: done or failed goes to the GUI thread.
WorkerEnds(w) ==
  /\ Running(w)
  /\ threads' = [threads EXCEPT ![w].at = "over"]
  /\ \E ok \in BOOLEAN : queued' = Append(queued, [from |-> w, ok |-> ok])
  /\ UNCHANGED <<current, tracked, asked, rows, progress, table>>

\* finished: out of the account.
Finished(w) ==
  /\ w \in tracked /\ threads[w].at = "over"
  /\ tracked' = tracked \ {w}
  /\ UNCHANGED <<threads, current, queued, asked, rows, progress, table>>

-----------------------------------------------------------------------------
(* Answers *)

\* Mutant: a load that fails leaves the progress bar.
OnLoadBusy(m) ==
  /\ threads[m.from].kind = "load"
  /\ rows' = IF m.ok THEN threads[m.from].of ELSE 0
  /\ table' = [table EXCEPT !.meta = @ \/ m.ok]
  /\ progress' = (progress /\ ~m.ok)
  /\ UNCHANGED <<threads, current, tracked, asked>>

\* _on_loaded and _on_failed.
OnLoad(m) ==
  /\ threads[m.from].kind = "load"
  /\ rows' = IF m.ok THEN threads[m.from].of ELSE 0
  /\ table' = [table EXCEPT !.meta = @ \/ m.ok]
  /\ progress' = FALSE
  /\ UNCHANGED <<threads, current, tracked, asked>>

\* What was written is read again, whatever became of the tab.
OnWritten(m) ==
  /\ threads[m.from].kind \in {"write", "import"} /\ m.ok
  /\ LoadTable(asked)
  /\ UNCHANGED asked

OnOther(m) ==
  /\ ~(threads[m.from].kind \in {"write", "import"} /\ m.ok)
  /\ threads[m.from].kind # "load"
  /\ progress' = FALSE
  /\ UNCHANGED <<threads, current, tracked, asked, rows, table>>

\* The workers are children of the panel: with one that runs, Qt aborts.
OnDelete ==
  /\ table' = [table EXCEPT !.tab = "deleted",
                            !.aborted = \E w \in Workers : Running(w)]
  /\ UNCHANGED <<threads, current, tracked, asked, rows, progress>>

HandleNext ==
  /\ queued # <<>> /\ table.tab # "deleted"
  /\ queued' = Tail(queued)
  /\ LET m == Head(queued) IN
     IF m.from = Nothing THEN OnDelete
     ELSE OnLoad(m) \/ OnWritten(m) \/ OnOther(m)

-----------------------------------------------------------------------------
(* The operator *)

\* Another filter, order or page; a search, when its timer has fired.
Ask ==
  /\ table.tab = "open" /\ asked < Requests
  /\ asked' = asked + 1 /\ UNCHANGED queued
  /\ LoadTable(asked + 1)

\* A wrong filter is kept and not read: the rows are those of the one before.
WrongFilter ==
  /\ table.tab = "open" /\ asked < Requests /\ table.meta
  /\ asked' = asked + 1
  /\ UNCHANGED <<threads, current, tracked, queued, rows, progress, table>>

\* save_edits and delete_selected cancel what runs; export and import do not.
Work ==
  /\ table.tab = "open" /\ table.meta /\ table.jobs < Jobs
  /\ UNCHANGED <<queued, asked, rows>>
  /\ \E kind \in WorkKinds \ {"load"} :
       /\ kind = "write" => rows > 0
       /\ Start(Stopped(IF kind = "write" THEN Busy ELSE {}), kind, asked)
  /\ table' = [table EXCEPT !.jobs = @ + 1]

\* _close_tab: shutdown, and the deletion waits behind what is in the queue.
CloseTable ==
  /\ table.tab = "open"
  /\ table' = [table EXCEPT !.tab = "closed"]
  /\ threads' = Stopped(tracked)
  /\ tracked' = {} /\ current' = Nothing
  /\ queued' = Append(queued, [from |-> Nothing, ok |-> TRUE])
  /\ UNCHANGED <<asked, rows, progress>>

-----------------------------------------------------------------------------
PanelNext ==
  \/ \E w \in Workers : WorkerEnds(w) \/ Finished(w)
  \/ HandleNext \/ Ask \/ WrongFilter \/ Work \/ CloseTable

PanelSpec == PanelInit /\ [][PanelNext]_panelVars

\* A query ends or its connection does; the GUI thread takes what is queued.
PanelFairSpec ==
  /\ PanelSpec /\ WF_panelVars(HandleNext)
  /\ \A w \in Workers : WF_panelVars(WorkerEnds(w)) /\ WF_panelVars(Finished(w))

-----------------------------------------------------------------------------
\* No worker that was started before the closing of its tab outlives it,
\* whichever one was the last (shutdown).
ShutdownStopsAll ==
  table.tab # "open" => \A w \in Workers : Running(w) => threads[w].late

\* The progress bar goes when what is asked of the table has been answered.
ProgressEnds == progress ~> (~progress \/ table.tab # "open")

\* No worker runs when its panel is deleted: Qt would abort the program.
WorkersEndBefore == ~table.aborted

\* When nothing is under way the grid shows the rows that are asked for.
ShowsAsked ==
  queued = <<>> /\ (\A w \in Workers : ~Running(w)) => rows \in {0, asked}
=============================================================================
