------------------------------- MODULE MCParts -------------------------------
(***************************************************************************)
(* Parts of the program that share nothing with each other but the         *)
(* process: the fixes and drops of a tab, the screen of a terminal, the    *)
(* virtual keyboard, the programs opened for a tab, settings, commands,    *)
(* the journal, the collection of logs, the tabs, the lists and the        *)
(* console of the database viewer, the keys of a VNC viewer, the file      *)
(* manager with its shell and its listings, and the information of a       *)
(* register.  TLC takes one at a time: to interleave them would only       *)
(* multiply their states.                                                  *)
(***************************************************************************)
EXTENDS TabJobs, Screen, Keyboard, Programs, Settings, Commands, Journal,
        LogCollect, Desk, DbConsole, VncKeys, FilesSession, InfoPanel,
        ShellRunner, RemoteTree

VARIABLE part \* the part that runs

partVars == <<part, tabJobsVars, screenVars, keyboardVars, programVars,
              settingsVars, commandVars, journalVars, collectVars, deskVars,
              consoleVars, keyVars, filesVars, infoPanelVars, shellVars,
              treeVars>>

Parts == {"tab jobs", "screen", "keyboard", "programs", "settings", "commands",
          "history", "notices", "logs", "desk", "console", "keys",
          "files", "information", "shell", "tree"}

\* A character of one byte and one of three.
MCEnds == {0, 1, 4}

\* Two types, one of which has a customer display; the groups of the sections.
MCFeatures == [t1 |-> {"display"}, t2 |-> {}]
MCGroups == [cash_type |-> "system", os |-> "system", display |-> "equipment"]

PartsInit ==
  /\ part \in Parts
  /\ TabJobsInit /\ ScreenInit /\ KeyboardInit /\ ProgramsInit
  /\ SettingsInit /\ CommandsInit /\ JournalInit /\ CollectInit /\ DeskInit
  /\ ConsoleInit /\ KeysInit /\ FilesInit /\ InfoPanelInit
  /\ ShellInit /\ TreeInit
  /\ part # "keyboard" => files = [l \in Layouts |-> {0}]
  /\ part # "settings" => keystore.seal = "file"
  /\ part # "shell" => shellHost = [mode |-> "nothing", readlink |-> FALSE]
  /\ part # "tree" => way = "sftp" /\ tree.kind = [e \in EntryNames |-> "absent"]

TabJobsPart ==
  /\ part = "tab jobs" /\ TabJobsNext
  /\ UNCHANGED <<part, screenVars, keyboardVars, programVars, settingsVars,
                 commandVars, journalVars, collectVars, deskVars, consoleVars,
                 keyVars, filesVars, infoPanelVars,
                 shellVars, treeVars>>
ScreenPart ==
  /\ part = "screen" /\ ScreenNext
  /\ UNCHANGED <<part, tabJobsVars, keyboardVars, programVars, settingsVars,
                 commandVars, journalVars, collectVars, deskVars, consoleVars,
                 keyVars, filesVars, infoPanelVars,
                 shellVars, treeVars>>
KeyboardPart ==
  /\ part = "keyboard" /\ KeyboardNext
  /\ UNCHANGED <<part, tabJobsVars, screenVars, programVars, settingsVars,
                 commandVars, journalVars, collectVars, deskVars, consoleVars,
                 keyVars, filesVars, infoPanelVars,
                 shellVars, treeVars>>
ProgramsPart ==
  /\ part = "programs" /\ ProgramsNext
  /\ UNCHANGED <<part, tabJobsVars, screenVars, keyboardVars, settingsVars,
                 commandVars, journalVars, collectVars, deskVars, consoleVars,
                 keyVars, filesVars, infoPanelVars,
                 shellVars, treeVars>>
SettingsPart ==
  /\ part = "settings" /\ SettingsNext
  /\ UNCHANGED <<part, tabJobsVars, screenVars, keyboardVars, programVars,
                 commandVars, journalVars, collectVars, deskVars, consoleVars,
                 keyVars, filesVars, infoPanelVars,
                 shellVars, treeVars>>
CommandsPart ==
  /\ part = "commands" /\ CommandsNext
  /\ UNCHANGED <<part, tabJobsVars, screenVars, keyboardVars, programVars,
                 settingsVars, journalVars, collectVars, deskVars, consoleVars,
                 keyVars, filesVars, infoPanelVars,
                 shellVars, treeVars>>
HistoryPart ==
  /\ part = "history" /\ HistoryNext
  /\ UNCHANGED <<part, tabJobsVars, screenVars, keyboardVars, programVars,
                 settingsVars, commandVars, collectVars, deskVars, consoleVars,
                 keyVars, filesVars, infoPanelVars,
                 shellVars, treeVars>>
NoticesPart ==
  /\ part = "notices" /\ NoticeNext
  /\ UNCHANGED <<part, tabJobsVars, screenVars, keyboardVars, programVars,
                 settingsVars, commandVars, collectVars, deskVars, consoleVars,
                 keyVars, filesVars, infoPanelVars,
                 shellVars, treeVars>>
LogsPart ==
  /\ part = "logs" /\ CollectNext
  /\ UNCHANGED <<part, tabJobsVars, screenVars, keyboardVars, programVars,
                 settingsVars, commandVars, journalVars, deskVars, consoleVars,
                 keyVars, filesVars, infoPanelVars,
                 shellVars, treeVars>>
DeskPart ==
  /\ part = "desk" /\ DeskNext
  /\ UNCHANGED <<part, tabJobsVars, screenVars, keyboardVars, programVars,
                 settingsVars, commandVars, journalVars, collectVars,
                 consoleVars, keyVars, filesVars, infoPanelVars, shellVars,
              treeVars>>
ConsolePart ==
  /\ part = "console" /\ ConsoleNext
  /\ UNCHANGED <<part, tabJobsVars, screenVars, keyboardVars, programVars,
                 settingsVars, commandVars, journalVars, collectVars, deskVars,
                 keyVars, filesVars, infoPanelVars,
                 shellVars, treeVars>>
KeysPart ==
  /\ part = "keys" /\ KeysNext
  /\ UNCHANGED <<part, tabJobsVars, screenVars, keyboardVars, programVars,
                 settingsVars, commandVars, journalVars, collectVars, deskVars,
                 consoleVars, filesVars, infoPanelVars,
                 shellVars, treeVars>>
FilesPart ==
  /\ part = "files" /\ FilesNext
  /\ UNCHANGED <<part, tabJobsVars, screenVars, keyboardVars, programVars,
                 settingsVars, commandVars, journalVars, collectVars, deskVars,
                 consoleVars, keyVars, infoPanelVars,
                 shellVars, treeVars>>
InformationPart ==
  /\ part = "information" /\ InfoPanelNext
  /\ UNCHANGED <<part, tabJobsVars, screenVars, keyboardVars, programVars,
                 settingsVars, commandVars, journalVars, collectVars, deskVars,
                 consoleVars, keyVars, filesVars, shellVars, treeVars>>
ShellPart ==
  /\ part = "shell" /\ ShellNext
  /\ UNCHANGED <<part, tabJobsVars, screenVars, keyboardVars, programVars,
                 settingsVars, commandVars, journalVars, collectVars, deskVars,
                 consoleVars, keyVars, filesVars, infoPanelVars, treeVars>>
TreePart ==
  /\ part = "tree" /\ TreeNext
  /\ UNCHANGED <<part, tabJobsVars, screenVars, keyboardVars, programVars,
                 settingsVars, commandVars, journalVars, collectVars, deskVars,
                 consoleVars, keyVars, filesVars, infoPanelVars, shellVars>>

PartsNext ==
  \/ TabJobsPart \/ ScreenPart \/ KeyboardPart \/ ProgramsPart
  \/ SettingsPart \/ CommandsPart \/ HistoryPart \/ NoticesPart \/ LogsPart
  \/ DeskPart \/ ConsolePart \/ KeysPart \/ FilesPart \/ InformationPart
  \/ ShellPart \/ TreePart

PartsSpec == PartsInit /\ [][PartsNext]_partVars

-----------------------------------------------------------------------------
PartsTypeOK ==
  /\ TabJobsTypeOK /\ ScreenTypeOK /\ KeyboardTypeOK /\ ProgramsTypeOK
  /\ SettingsTypeOK /\ CommandsTypeOK /\ JournalTypeOK /\ CollectTypeOK
  /\ DeskTypeOK /\ ConsoleTypeOK /\ KeysTypeOK /\ FilesTypeOK /\ InfoPanelTypeOK
  /\ ShellTypeOK /\ TreeTypeOK

\* What is of one register, keyboard or collection is never used for another:
\* the buttons of a layout, the password of a program, the lines of a history,
\* the archive that is reported, the output of a command.
OwnThings ==
  /\ LayoutsAreOwn /\ PasswordsAreOwn /\ HistoryIsOwn /\ ArchiveIsOwn
  /\ OutputIsOwn /\ TransferIsAlone

\* What has ended holds nothing and does nothing: fixes, drops, the virtual
\* keyboard, the windows of the file manager.
EndedIsOver == OneFix /\ DropsAreClosed /\ ClosedSendsNothing /\ ReopenedIsFresh

\* What the file manager shows, saves and removes is what was asked for: the
\* rows are of the directory in the address bar and show what nobody touched as
\* it is, a saved text is of its own file, a removal takes its entry only.
FilesAreOwn == [](RowsBelong /\ OwnTextIsSaved /\ UntouchedIsShown) /\ RemovalIsBounded

\* Both ends agree: what the host sent is what the screen holds, in order, and
\* what the viewer counts as pressed is what is down at the register, and the
\* commands used are those the register has.
BothEndsAgree ==
  /\ DecodedAsSent /\ LinesInOrder /\ ViewIsInHistory /\ RemoteIsCounted
  /\ ModeIsHosts

\* Settings survive what the operator breaks off: passwords stay readable where
\* the file holds the key, a wizard that is left changes nothing, and passwords
\* vanish only with the save of a dialog in which they were cleared.
SettingsHold == [](PasswordsReadable /\ CheckIsUndone) /\ ClearedOnPurpose

\* What is shown is of what is active and of the last question: the tab, the
\* form of a command, the card of a table, the sections of a register; a repeat
\* or a broken command is never told as what it is not.
ShownIsCurrent ==
  /\ [](ShownIsActive /\ FormIsFile /\ BreakIsFailure /\ PanelIsCollected)
  /\ CardIsLast /\ NoFalseRepeat

\* Nothing waits for what has ended: the buttons of the toolbar, of the log
\* collection and of the console are not left disabled without work under way,
\* and the active tab is pinged unless an action is to start its ping.
NothingStuck == ButtonReturns /\ BusyEnds /\ ButtonComesBack /\ ActiveIsPinged
=============================================================================
