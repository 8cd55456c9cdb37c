---------------------------- MODULE FilesSession ----------------------------
(***************************************************************************)
(* One session of the file manager (builtin/file_manager/gui/session.py,   *)
(* runtime.py, widgets.py, dialogs.py): the connection to a register, the  *)
(* remote panel and an editor.                                             *)
(*                                                                         *)
(* Two threads.  The GUI thread handles the operator and the signals of    *)
(* the executor, one at a time and in the order they were emitted          *)
(* (`inbox`).  The loop of the executor runs coroutines (`tasks`), which   *)
(* interleave at their awaits; the answer of each is a payload or an       *)
(* error.  Every payload and every error reaches every slot: an error of   *)
(* any coroutine resets the loading flag of the panel.  What a directory   *)
(* or a file contains is left out, except which dialog read a text.        *)
(***************************************************************************)
EXTENDS Naturals, Sequences, FiniteSets

CONSTANTS
  Dirs,      \* remote directories
  Home,      \* start_dir
  Calls,     \* bound: what the operator does before closing the tab
  Pending,   \* bound: the requests and answers under way when he does it
  None       \* no directory

ASSUME FilesAssumption ==
  /\ Home \in Dirs /\ None \notin Dirs
  /\ Calls \in Nat /\ Pending \in Nat \ {0}

VARIABLES
  link,      \* the connection: stage of _connect_coro, protocol, _conn, _service
  panel,     \* the RemoteFileModel: _directory, _loading, the listing, _cache
  editor,    \* a FileEditorDialog
  tasks,     \* coroutines of the executor
  inbox,     \* payloads and errors emitted and not yet handled
  executor,  \* the loop of the AsyncExecutor
  called     \* what the operator did so far

filesVars == <<link, panel, editor, tasks, inbox, executor, called>>

Stages == {"none", "dial", "sftp", "sftpStat", "scpStat", "over"}
Unread == 0
Kinds == {"load", "change", "probe", "read", "write"}
Messages == {"connected", "refused", "error", "changed", "openEditor", "cd",
             "listing", "read", "unreadable", "saved", "unsaved"}

FilesTypeOK ==
  /\ link \in [stage: Stages, protocol: {"auto", "sftp", "scp"},
               conn: {"none", "open", "closed"}, service: {"none", "sftp", "scp"}]
  /\ panel \in [dir: Dirs \cup {None}, loading: BOOLEAN,
                shown: Dirs \cup {None}, cached: SUBSET Dirs]
  /\ editor \in [token: 0..Calls, open: BOOLEAN, locked: BOOLEAN,
                 savable: BOOLEAN, text: 0..Calls,
                 status: {"loading", "saving", "idle", "error"}]
  /\ \A t \in tasks : t.kind \in Kinds /\ t.step \in {"begin", "wait"}
  /\ \A i \in 1..Len(inbox) : inbox[i].msg \in Messages
  /\ executor \in {"running", "finalizing", "stopped", "revived"}
  /\ called \in 0..Calls

\* A new panel, and a new editor before its first answer.
NoPanel == [dir |-> None, loading |-> FALSE, shown |-> None, cached |-> {}]

NoEditor == [token |-> 0, open |-> FALSE, locked |-> TRUE, savable |-> FALSE,
             text |-> Unread, status |-> "loading"]

FilesInit ==
  /\ link = [stage |-> "none", protocol |-> "auto", conn |-> "none", service |-> "none"]
  /\ panel = NoPanel
  /\ editor = NoEditor
  /\ tasks = {} /\ inbox = <<>>
  /\ executor = "running" /\ called = 0

-----------------------------------------------------------------------------
(* Coroutines and signals *)

Task(kind, dir, token, text) ==
  [kind |-> kind, dir |-> dir, token |-> token, text |-> text, step |-> "begin",
   id |-> CHOOSE n \in 1..(Cardinality(tasks) + 1) : \A t \in tasks : t.id # n]

\* submit() on an executor that was shut down starts another thread and loop.
Submit(t) ==
  /\ tasks' = tasks \cup {t}
  /\ executor' = IF executor = "stopped" THEN "revived" ELSE executor

Message(msg, dir, token) == [msg |-> msg, dir |-> dir, token |-> token]
Emit(m) == inbox' = Append(inbox, m)

LoopRuns == executor \in {"running", "finalizing", "revived"}

\* The coroutine t ends and its result is emitted.
Ends(t, m) == tasks' = tasks \ {t} /\ Emit(m)

-----------------------------------------------------------------------------
(* The connection: open_connection and _connect_coro *)

OpenConnection ==
  /\ link.stage = "none" /\ executor = "running"
  /\ \E p \in {"auto", "sftp", "scp"} :
       link' = [link EXCEPT !.stage = "dial", !.protocol = p]
  /\ UNCHANGED <<panel, editor, tasks, inbox, executor, called>>

Refused ==
  /\ link' = [link EXCEPT !.stage = "over",
                          !.conn = IF @ = "open" THEN "closed" ELSE @]
  /\ Emit(Message("refused", None, 0))

\* Mutant: the service is named after the protocol that was asked for.
EstablishedAsAsked(service) ==
  /\ link' = [link EXCEPT !.stage = "over", !.service = link.protocol]
  /\ Emit(Message("connected", Home, 0))

\* The probe succeeded: the service is the one that answered.
Established(service) ==
  /\ link' = [link EXCEPT !.stage = "over", !.service = service]
  /\ Emit(Message("connected", Home, 0))

\* connect_with_tofu within 15 seconds.
Dials ==
  /\ link.stage = "dial"
  /\ \/ Refused
     \/ /\ link' = [link EXCEPT !.conn = "open",
                      !.stage = IF link.protocol = "scp" THEN "scpStat" ELSE "sftp"]
        /\ UNCHANGED inbox

\* The SFTP subsystem starts, or not: then "auto" goes on with a shell.
StartsSftp ==
  /\ link.stage = "sftp"
  /\ \/ link' = [link EXCEPT !.stage = "sftpStat"] /\ UNCHANGED inbox
     \/ link.protocol = "sftp" /\ Refused
     \/ /\ link.protocol = "auto"
        /\ link' = [link EXCEPT !.stage = "scpStat"] /\ UNCHANGED inbox

ProbesSftp ==
  /\ link.stage = "sftpStat"
  /\ \/ Established("sftp")
     \/ link.protocol = "sftp" /\ Refused
     \/ /\ link.protocol = "auto"
        /\ link' = [link EXCEPT !.stage = "scpStat"] /\ UNCHANGED inbox

ProbesScp ==
  /\ link.stage = "scpStat"
  /\ Established("scp") \/ Refused

ConnectStep ==
  /\ LoopRuns /\ executor # "revived"
  /\ Dials \/ StartsSftp \/ ProbesSftp \/ ProbesScp
  /\ UNCHANGED <<panel, editor, tasks, executor, called>>

-----------------------------------------------------------------------------
(* The remote panel *)

\* Mutant: a new directory keeps the listing of the old one until it is loaded.
RefreshKeepsRows(p) ==
  IF p.dir # None /\ (~p.loading \/ ~LoopRuns)
    THEN /\ panel' = [p EXCEPT !.loading = TRUE]
         /\ Submit(Task("load", p.dir, 0, Unread))
    ELSE panel' = p /\ UNCHANGED <<tasks, executor>>

\* refresh(): nothing while a load is under way.
Refresh(p) ==
  IF p.dir # None /\ (~p.loading \/ ~LoopRuns)
    THEN /\ panel' = [p EXCEPT !.loading = TRUE, !.shown = None]
         /\ Submit(Task("load", p.dir, 0, Unread))
    ELSE panel' = p /\ UNCHANGED <<tasks, executor>>

ChangeDirectory(d) == Refresh([panel EXCEPT !.dir = d])

Reread == Refresh([panel EXCEPT !.cached = {}])

\* _load looks into the cache, then asks the service.
LoadStep(t) ==
  \/ /\ t.step = "begin" /\ t.dir \in panel.cached
     /\ Ends(t, Message("listing", t.dir, 0)) /\ UNCHANGED panel
  \/ /\ t.step = "begin" /\ t.dir \notin panel.cached /\ link.service # "none"
     /\ tasks' = (tasks \ {t}) \cup {[t EXCEPT !.step = "wait"]}
     /\ UNCHANGED <<panel, inbox>>
  \/ /\ t.step = "begin" /\ t.dir \notin panel.cached /\ link.service = "none"
     /\ Ends(t, Message("error", None, 0)) /\ UNCHANGED panel
  \/ /\ t.step = "wait"
     /\ panel' = [panel EXCEPT !.cached = @ \cup {t.dir}]
     /\ Ends(t, Message("listing", t.dir, 0))
  \/ /\ t.step = "wait"
     /\ Ends(t, Message("error", None, 0)) /\ UNCHANGED panel

\* mkdir, rename, chmod and chown: an answer or an exception.
ChangeStep(t) ==
  \E m \in {"changed", "error"} : Ends(t, Message(m, None, 0))

\* _remote_probe_coro: a directory or a link is entered, anything else edited.
ProbeStep(t) ==
  \/ \E m \in {"openEditor", "error"} : Ends(t, Message(m, None, 0))
  \/ Ends(t, Message("cd", t.dir, 0))

\* _editor_load_coro and _editor_save_coro answer with a payload in any case.
EditorStep(t) ==
  IF t.kind = "read"
    THEN \E m \in {"read", "unreadable"} : Ends(t, Message(m, None, t.token))
    ELSE \E m \in {"saved", "unsaved"} : Ends(t, Message(m, None, t.token))

TaskStep ==
  /\ LoopRuns
  /\ \E t \in tasks :
       \/ t.kind = "load" /\ LoadStep(t)
       \/ t.kind = "change" /\ ChangeStep(t) /\ UNCHANGED panel
       \/ t.kind = "probe" /\ ProbeStep(t) /\ UNCHANGED panel
       \/ t.kind \in {"read", "write"} /\ EditorStep(t) /\ UNCHANGED panel
  /\ UNCHANGED <<link, editor, executor, called>>

-----------------------------------------------------------------------------
(* The editor *)

\* request_load()
Loading(e) == [e EXCEPT !.locked = TRUE, !.status = "loading"]

\* apply_load(): the text is replaced, which _on_text_changed takes for an edit.
Loaded(e, token) == [e EXCEPT !.locked = FALSE, !.text = token, !.savable = TRUE,
                              !.status = "idle"]
NotLoaded(e) == [e EXCEPT !.locked = TRUE, !.savable = FALSE, !.status = "error"]

\* show_save_result(), for a success and for a failure
SaveShown(e) == [e EXCEPT !.locked = FALSE, !.savable = TRUE, !.status = "idle"]

\* open_editor(): a dialog with a token of its own, which loads at once.
OpenEditor ==
  IF link.service = "none" \/ editor.open
    THEN UNCHANGED <<editor, tasks, executor>>
    ELSE /\ editor' = [NoEditor EXCEPT !.token = editor.token + 1, !.open = TRUE]
         /\ Submit(Task("read", None, editor.token + 1, Unread))

-----------------------------------------------------------------------------
(* Signals handled by the GUI thread: _route_finished, _on_finished, _on_error *)

\* The editor an answer is for: the dialog with its token, if it is still open.
For(m) == editor.open /\ editor.token = m.token

OnListing(m) ==
  /\ panel' = IF m.dir = panel.dir
                THEN [panel EXCEPT !.shown = m.dir, !.loading = FALSE]
                ELSE panel
  /\ UNCHANGED <<editor, tasks, executor>>

OnError ==
  /\ panel' = [panel EXCEPT !.loading = FALSE]
  /\ UNCHANGED <<editor, tasks, executor>>

OnEditor(m) ==
  /\ editor' = IF ~For(m) THEN editor
               ELSE IF m.msg = "read" THEN Loaded(editor, m.token)
               ELSE IF m.msg = "unreadable" THEN NotLoaded(editor)
               ELSE SaveShown(editor)
  /\ IF For(m) /\ m.msg = "saved" /\ link.service # "none"
       THEN Reread
       ELSE UNCHANGED <<panel, tasks, executor>>

Handle(m) ==
  \/ m.msg \in {"connected", "cd"} /\ ChangeDirectory(m.dir) /\ UNCHANGED editor
  \/ m.msg = "refused" /\ UNCHANGED <<panel, editor, tasks, executor>>
  \/ m.msg = "changed" /\ Reread /\ UNCHANGED editor
  \/ m.msg = "openEditor" /\ OpenEditor /\ UNCHANGED panel
  \/ m.msg = "listing" /\ OnListing(m)
  \/ m.msg = "error" /\ OnError
  \/ m.msg \in {"read", "unreadable", "saved", "unsaved"} /\ OnEditor(m)

HandleSignal ==
  /\ inbox # <<>>
  /\ inbox' = Tail(inbox)
  /\ Handle(Head(inbox))
  /\ UNCHANGED <<link, called>>

-----------------------------------------------------------------------------
(* The operator *)

Operates ==
  /\ executor = "running" /\ called < Calls
  /\ Cardinality(tasks) + Len(inbox) < Pending
  /\ called' = called + 1
  /\ UNCHANGED <<link, inbox>>

\* The transfer queue reports that a job ended: _on_job_changed.
JobEnds ==
  /\ Operates
  /\ IF link.service # "none" THEN Reread ELSE UNCHANGED <<panel, tasks, executor>>
  /\ UNCHANGED editor

\* The address bar, "up" and a double click on a directory.
Cd(d) == Operates /\ ChangeDirectory(d) /\ UNCHANGED editor

\* The refresh button and "hidden files" keep the cache, the menu clears it.
PressRefresh == Operates /\ Refresh(panel) /\ UNCHANGED editor
MenuRefresh == Operates /\ Reread /\ UNCHANGED editor

\* New folder, rename, properties.
ChangeEntry ==
  /\ Operates
  /\ link.service # "none"
  /\ Submit(Task("change", None, 0, Unread)) /\ UNCHANGED <<panel, editor>>

\* F4 or a double click on a file: what is it?
OpenEntry(d) ==
  /\ Operates
  /\ link.service # "none"
  /\ Submit(Task("probe", d, 0, Unread)) /\ UNCHANGED <<panel, editor>>

\* The reload action is never disabled.
Reload ==
  /\ Operates
  /\ editor.open
  /\ editor' = Loading(editor)
  /\ Submit(Task("read", None, editor.token, Unread)) /\ UNCHANGED panel

Save ==
  /\ Operates
  /\ editor.open /\ editor.savable /\ ~editor.locked
  /\ editor' = [editor EXCEPT !.locked = TRUE, !.savable = FALSE, !.status = "saving"]
  /\ Submit(Task("write", None, editor.token, editor.text)) /\ UNCHANGED panel

CloseEditor ==
  /\ Operates
  /\ editor.open
  /\ editor' = [editor EXCEPT !.open = FALSE]
  /\ UNCHANGED <<panel, tasks, executor>>

-----------------------------------------------------------------------------
(* Closing the tab: the shutdown runs in a thread of its own *)

CloseFilesTab ==
  /\ executor = "running"
  /\ executor' = "finalizing"
  /\ UNCHANGED <<link, panel, editor, tasks, inbox, called>>

\* _finalize closes the service and the connection within two seconds, or is
\* given up; then the loop stops, with the coroutines that still wait.
StopLoop ==
  /\ executor = "finalizing"
  /\ \/ link' = [link EXCEPT !.service = "none",
                   !.conn = IF link.service # "none" THEN "closed" ELSE @]
     \/ UNCHANGED link
  /\ executor' = "stopped"
  /\ tasks' = {}
  /\ UNCHANGED <<panel, editor, inbox, called>>

Operator ==
  \/ OpenConnection \/ CloseFilesTab
  \/ \E d \in Dirs : Cd(d) \/ OpenEntry(d)
  \/ PressRefresh \/ MenuRefresh \/ ChangeEntry
  \/ Reload \/ Save \/ CloseEditor

FilesNext == Operator \/ JobEnds \/ ConnectStep \/ TaskStep \/ HandleSignal \/ StopLoop

FilesSpec == FilesInit /\ [][FilesNext]_filesVars

\* Both threads run, and every request is answered or times out.
FilesFairness ==
  WF_filesVars(ConnectStep) /\ WF_filesVars(TaskStep) /\ WF_filesVars(HandleSignal)

FilesFairSpec == FilesSpec /\ FilesFairness

-----------------------------------------------------------------------------
(* Properties *)

\* The rows are those of the directory in the address bar, and there are none
\* while they are fetched: whatever answers late, for a directory that was
\* left or after the error of another request.
RowsBelong == panel.shown # None => panel.shown = panel.dir /\ ~panel.loading

\* A file is never overwritten with a text that is not its own: what is saved
\* was read by the same dialog, and edited in it.
OwnTextIsSaved == \A t \in tasks : t.kind = "write" => t.text = t.token

\* "Loading" and "saving" of an editor end, whatever else fails meanwhile.
EditorSettles ==
  editor.status \in {"loading", "saving"} /\ editor.open ~>
    editor.status \in {"idle", "error"} \/ ~editor.open \/ executor # "running"

\* "Shows one directory at a time; listings are loaded asynchronously": a
\* directory that loads is shown, or the reason why not.
PanelSettles == panel.loading ~> ~panel.loading \/ executor # "running"

\* "Nothing hangs in the background after a tab is closed": README.
ExecutorEnds == executor # "revived"
=============================================================================
