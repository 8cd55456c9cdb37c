------------------------------ MODULE Commands ------------------------------
(***************************************************************************)
(* Commands of the operator: the files of the directory commands, the      *)
(* loader and the registry (infrastructure/command_loader.py,              *)
(* actions_registry.py), the editor (gui/dialogs/command_editor.py), and   *)
(* how a command is run step by step.  A command is its name and a body    *)
(* that an edit changes; body 0 is a file that cannot be loaded.           *)
(***************************************************************************)
EXTENDS Naturals, FiniteSets

CONSTANTS
  CommandNames, \* names of commands
  Builtin,      \* the names of those that come with the program
  Bodies,       \* bound: bodies made in the editor
  CommandSteps         \* steps of a command

ASSUME CommandsAssumption == Builtin \subseteq CommandNames /\ {Bodies, CommandSteps} \subseteq Nat \ {0}

VARIABLES
  dir,        \* the files: for a name and a suffix the body, NoBody without one
  actions,    \* ActionsRegistry._actions: the body, and whether it is a builtin
  cmdEditor,  \* the dialog: mode, _file, _orig_name, _is_new, the form
  bodies,     \* bodies made so far
  run         \* a command that runs: its body, the step, how it went
commandVars == <<dir, actions, cmdEditor, bodies, run>>

FileSuffixes == {"json", "py", "toml"}
CommandFiles == CommandNames \X FileSuffixes
NoBody == Bodies + 3
Unloadable == 0
Skipped == Bodies + 2  \* a script without the block or the function of a command
Shipped == Bodies + 1  \* the body of what came with the program
NoFile == <<"no file">>
NoAction == [body |-> NoBody, builtin |-> FALSE]
EmptyForm == [name |-> "no name", suffix |-> "json", body |-> NoBody]
NoCmdEditor == [mode |-> "closed", file |-> NoFile, orig |-> "no name", new |-> FALSE, form |-> EmptyForm]
NoRun == [body |-> NoBody, step |-> 0, broke |-> FALSE, result |-> "none"]

CommandsTypeOK ==
  /\ dir \in [CommandFiles -> 0..NoBody]
  /\ actions \in [CommandNames -> [body: 0..NoBody, builtin: BOOLEAN]]
  /\ cmdEditor.mode \in {"closed", "idle", "view", "edit", "new"}
  /\ cmdEditor.file \in CommandFiles \cup {NoFile} /\ cmdEditor.new \in BOOLEAN
  /\ cmdEditor.form.suffix \in FileSuffixes /\ cmdEditor.form.body \in 0..NoBody
  /\ bodies \in 0..Bodies
  /\ run \in [body: 0..NoBody, step: 0..CommandSteps, broke: BOOLEAN,
              result: {"none", "runs", "success", "failure"}]

CommandsInit ==
  /\ dir = [f \in CommandFiles |-> IF f[1] \in Builtin /\ f[2] = "toml" THEN Shipped ELSE NoBody]
  /\ actions = [n \in CommandNames |-> IF n \in Builtin
                                       THEN [body |-> Shipped, builtin |-> TRUE] ELSE NoAction]
  /\ cmdEditor = NoCmdEditor /\ bodies = 0 /\ run = NoRun

-----------------------------------------------------------------------------
(* The registry *)

There(f) == dir[f] # NoBody

\* _load_toml: a file that cannot be parsed is left out.
LoadedToml(n) ==
  IF There(<<n, "toml">>) /\ dir[<<n, "toml">>] # Unloadable
  THEN [body |-> dir[<<n, "toml">>], builtin |-> n \in Builtin] ELSE NoAction

\* _parse_py_metadata: the block of comments that makes a script a command.
HasMetadata(b) == b \notin {NoBody, Skipped}

\* _load_python
LoadedScript(n) ==
  IF HasMetadata(dir[<<n, "py">>]) THEN [body |-> dir[<<n, "py">>], builtin |-> FALSE] ELSE NoAction

\* It runs the script: what that raises ends load_all.
LoaderRaises == \E n \in CommandNames : dir[<<n, "py">>] = Unloadable

\* load_all: .py and .toml only, of two with one name the later one.
LoadedCommand(n) == IF LoadedToml(n) # NoAction THEN LoadedToml(n) ELSE LoadedScript(n)

\* reload_commands: the builtins stay, the others are read again; a builtin
\* in the directory is left aside, a command with its name takes its place.
ReloadCommands ==
  /\ cmdEditor.mode = "closed"
  /\ actions' = [n \in CommandNames |->
       LET kept == IF actions[n].builtin THEN actions[n] ELSE NoAction
           own == IF LoadedToml(n).builtin THEN LoadedScript(n) ELSE LoadedCommand(n) IN
       IF LoaderRaises \/ own = NoAction THEN kept ELSE own]
  /\ UNCHANGED <<dir, cmdEditor, bodies, run>>

-----------------------------------------------------------------------------
(* The editor; it is modal, and lists .json and .py files *)

OpenCommandEditor ==
  /\ cmdEditor.mode = "closed" /\ run.result # "runs" /\ cmdEditor' = [NoCmdEditor EXCEPT !.mode = "idle"]
  /\ UNCHANGED <<dir, actions, bodies, run>>

CloseCommandEditor ==
  /\ cmdEditor.mode # "closed" /\ cmdEditor' = NoCmdEditor
  /\ UNCHANGED <<dir, actions, bodies, run>>

FormOf(f) == [name |-> f[1], suffix |-> f[2], body |-> dir[f]]

\* _on_select: the file is taken before it is read.
Select ==
  /\ cmdEditor.mode \in {"idle", "view"}
  /\ \E f \in CommandFiles :
       /\ There(f) /\ f[2] # "toml"
       /\ cmdEditor' = IF dir[f] = Unloadable /\ f[2] = "json" THEN [cmdEditor EXCEPT !.file = f]
                    ELSE [cmdEditor EXCEPT !.file = f, !.orig = f[1], !.form = FormOf(f), !.mode = "view"]
  /\ UNCHANGED <<dir, actions, bodies, run>>

New ==
  /\ cmdEditor.mode \in {"idle", "view"}
  /\ cmdEditor' = [NoCmdEditor EXCEPT !.mode = "new", !.new = TRUE]
  /\ UNCHANGED <<dir, actions, bodies, run>>

Edit ==
  /\ cmdEditor.mode = "view" /\ cmdEditor' = [cmdEditor EXCEPT !.mode = "edit"]
  /\ UNCHANGED <<dir, actions, bodies, run>>

\* The form is filled in; a script may be one that is skipped or raises.
TypeForm ==
  /\ cmdEditor.mode \in {"edit", "new"} /\ bodies < Bodies /\ bodies' = bodies + 1
  /\ \E n \in CommandNames, s \in {"json", "py"}, b \in {bodies + 1, Unloadable, Skipped} :
       /\ b # bodies + 1 => s = "py"
       /\ cmdEditor' = [cmdEditor EXCEPT !.form = [name |-> n, suffix |-> s, body |-> b]]
  /\ UNCHANGED <<dir, actions, run>>

\* _on_cancel: the form of the file again, if it can be read.
CancelEdit ==
  /\ cmdEditor.mode \in {"edit", "new"}
  /\ cmdEditor' = IF cmdEditor.new THEN [NoCmdEditor EXCEPT !.mode = "idle"]
               ELSE IF There(cmdEditor.file) /\ (dir[cmdEditor.file] # Unloadable \/ cmdEditor.file[2] = "py")
               THEN [cmdEditor EXCEPT !.mode = "view", !.form = FormOf(cmdEditor.file)]
               ELSE [cmdEditor EXCEPT !.mode = "view"]
  /\ UNCHANGED <<dir, actions, bodies, run>>

\* Another name or suffix is another file: the old one is removed first.
Target ==
  IF ~cmdEditor.new /\ cmdEditor.orig = cmdEditor.form.name /\ cmdEditor.file[2] = cmdEditor.form.suffix
  THEN cmdEditor.file ELSE <<cmdEditor.form.name, cmdEditor.form.suffix>>

\* _on_save, and what is left of it when the file cannot be written.
SaveCommand ==
  /\ cmdEditor.mode \in {"edit", "new"} /\ cmdEditor.form.body # NoBody
  /\ \E written, removed \in BOOLEAN :
       LET old == ~cmdEditor.new /\ Target # cmdEditor.file /\ removed IN
       /\ dir' = [f \in CommandFiles |->
            IF f = Target /\ written THEN cmdEditor.form.body
            ELSE IF old /\ f = cmdEditor.file THEN NoBody ELSE dir[f]]
       /\ cmdEditor' = IF ~written THEN cmdEditor
                    ELSE [cmdEditor EXCEPT !.file = Target, !.orig = cmdEditor.form.name,
                                        !.new = FALSE, !.mode = "view"]
  /\ UNCHANGED <<actions, bodies, run>>

\* _on_delete, confirmed.
Delete ==
  /\ cmdEditor.mode = "view" /\ There(cmdEditor.file)
  /\ dir' = [dir EXCEPT ![cmdEditor.file] = NoBody]
  /\ cmdEditor' = [NoCmdEditor EXCEPT !.mode = "idle"]
  /\ UNCHANGED <<actions, bodies, run>>

\* Somebody puts a file there, or breaks one.
FileIsPut ==
  /\ cmdEditor.mode = "closed" /\ bodies < Bodies /\ bodies' = bodies + 1
  /\ \E f \in CommandFiles, b \in {bodies + 1, Unloadable} :
       f[1] \notin Builtin /\ dir' = [dir EXCEPT ![f] = b]
  /\ UNCHANGED <<actions, cmdEditor, run>>

-----------------------------------------------------------------------------
(* A command runs *)

\* execute_action: what the registry has under the name.
RunCommand ==
  /\ cmdEditor.mode = "closed" /\ run.result # "runs"
  /\ \E n \in CommandNames :
       run' = [body |-> actions[n].body, step |-> 0, broke |-> FALSE,
               result |-> IF actions[n] = NoAction THEN "failure" ELSE "runs"]
  /\ UNCHANGED <<dir, actions, cmdEditor, bodies>>

\* A step; its exit code is not looked at, a break ends the command unless the
\* command said that it has to be expected.
Step ==
  /\ run.result = "runs" /\ run.step < CommandSteps
  /\ \E breaks, expected \in BOOLEAN :
       run' = IF breaks /\ ~expected
              THEN [run EXCEPT !.step = @ + 1, !.broke = TRUE, !.result = "failure"]
              ELSE [run EXCEPT !.step = @ + 1]
  /\ UNCHANGED <<dir, actions, cmdEditor, bodies>>

Finish ==
  /\ run.result = "runs" /\ run.step = CommandSteps
  /\ run' = [run EXCEPT !.result = "success"]
  /\ UNCHANGED <<dir, actions, cmdEditor, bodies>>

-----------------------------------------------------------------------------
CommandsNext ==
  \/ ReloadCommands \/ OpenCommandEditor \/ CloseCommandEditor \/ Select \/ New \/ Edit \/ TypeForm
  \/ CancelEdit \/ SaveCommand \/ Delete \/ FileIsPut \/ RunCommand \/ Step \/ Finish

CommandsSpec == CommandsInit /\ [][CommandsNext]_commandVars

-----------------------------------------------------------------------------
\* A command that broke off unexpectedly is not told to have been executed.
BreakIsFailure == run.broke => run.result = "failure"

\* What the form shows of a file is what is in it, after every save and every
\* cancelled edit.
FormIsFile ==
  cmdEditor.mode = "view" /\ cmdEditor.file # NoFile /\ dir[cmdEditor.file] \notin {NoBody, Unloadable}
    => cmdEditor.form.body = dir[cmdEditor.file]

\* "No commands: make some in the editor" (_on_commands_clicked): what the
\* editor saved is offered after the next reload.
SavedIsOffered ==
  [][actions' # actions /\ ~LoaderRaises
       => \A f \in CommandFiles : There(f) => actions'[f[1]] # NoAction]_actions

\* "Reload only non-builtin commands (builtin ones survive)" (reload_commands).
BuiltinsStay == \A n \in Builtin : actions[n].builtin
=============================================================================
