------------------------------ MODULE MCWindows ------------------------------
(***************************************************************************)
(* The windows in which something that was begun has to end: the file      *)
(* manager, the VNC viewers of a tab, the terminals and the tabs of the    *)
(* database viewer.  They share a process and nothing else, so TLC takes   *)
(* one at a time, with the fairness of its module.                         *)
(***************************************************************************)
EXTENDS FilesSession, VncPreview, Terminal, DbPanel

VARIABLE front \* the window that runs

windowVars == <<front, filesVars, previewVars, termVars, panelVars>>

WindowsInit ==
  /\ front \in {"files", "preview", "terminal", "table"}
  /\ FilesInit /\ PreviewInit /\ TerminalInit /\ PanelInit

FilesFront ==
  /\ front = "files" /\ FilesNext /\ UNCHANGED <<front, previewVars, termVars, panelVars>>
PreviewFront ==
  /\ front = "preview" /\ PreviewNext /\ UNCHANGED <<front, filesVars, termVars, panelVars>>
TerminalFront ==
  /\ front = "terminal" /\ TerminalNext /\ UNCHANGED <<front, filesVars, previewVars, panelVars>>
TableFront ==
  /\ front = "table" /\ PanelNext /\ UNCHANGED <<front, filesVars, previewVars, termVars>>

WindowsNext == FilesFront \/ PreviewFront \/ TerminalFront \/ TableFront

WindowsFairness ==
  /\ WF_filesVars(front = "files" /\ ConnectStep)
  /\ WF_filesVars(front = "files" /\ TaskStep)
  /\ WF_filesVars(front = "files" /\ HandleSignal)
  /\ WF_previewVars(front = "preview" /\ FlowStep)
  /\ WF_previewVars(front = "preview" /\ ViewerAnswers)
  /\ WF_previewVars(front = "preview" /\ LinkStep)
  /\ \A s \in Terminals :
       /\ WF_termVars(front = "terminal" /\ AbortRuns(s))
       /\ WF_termVars(front = "terminal" /\ CloserGoesOn(s))
       /\ WF_termVars(front = "terminal" /\ FloodEnds(s))
       /\ WF_termVars(front = "terminal" /\ ReaderEnds(s))
       /\ WF_termVars(front = "terminal" /\ OnPtyClosed(s))
       /\ WF_termVars(front = "terminal" /\ Dialling(s))
  /\ WF_panelVars(front = "table" /\ HandleNext)
  /\ \A w \in Workers :
       /\ WF_panelVars(front = "table" /\ WorkerEnds(w))
       /\ WF_panelVars(front = "table" /\ Finished(w))

WindowsSpec == WindowsInit /\ [][WindowsNext]_windowVars /\ WindowsFairness

-----------------------------------------------------------------------------
WindowsTypeOK == FilesTypeOK /\ PreviewTypeOK /\ TerminalTypeOK /\ PanelTypeOK

\* What was stopped stays stopped: no viewer comes back after a disconnect, no
\* worker outlives the closing of its tab, the garbage collector is off only
\* for as long as some session is flooded.
StoppedStays == DisconnectHolds /\ ShutdownStopsAll /\ CollectorFollows

\* A window that loads or saves settles: the file editor and the table.
WindowsSettle ==
  /\ EditorSettles
  /\ (front = "table" /\ progress) ~> (~progress \/ table.tab # "open")
=============================================================================
