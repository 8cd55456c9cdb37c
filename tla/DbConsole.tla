----------------------------- MODULE DbConsole ------------------------------
(***************************************************************************)
(* The two other parts of the database viewer: the list of tables with its *)
(* card (builtin/db_viewer/tables_panel.py) and the SQL console            *)
(* (sql_console.py), under the window that closes them (widget.py).  Each  *)
(* question to the database is a thread; answers come in any order.        *)
(***************************************************************************)
EXTENDS Naturals

CONSTANTS
  Databases,  \* what the combo box has
  First,      \* the one the viewer was opened with
  Questions   \* bound: how often the operator asks, of each part

ASSUME ConsoleAssumption == First \in Databases /\ Questions \in Nat

VARIABLES
  base,     \* TablesPanel: _database, the database of the list, loads under way
  card,     \* _info_seq, the debounce timer, answers under way, the one shown
  console,  \* the last statement, those that run, an export, the button
  result,   \* the statement whose result is shown, whether it was kept
  opened    \* whether the window is open
consoleVars == <<base, card, console, result, opened>>

Asked == 0..Questions
Statements == {"select", "change", "returning"}
NoExport == "none"

ConsoleTypeOK ==
  /\ base \in [now: Databases, list: Databases, loads: SUBSET Databases, asked: Asked]
  /\ card \in [seq: Asked, timer: BOOLEAN, open: SUBSET Asked, shown: Asked]
  /\ console \in [last: Asked, runs: SUBSET (Asked \X Statements),
                  export: {NoExport, "runs", "over"}, button: BOOLEAN, current: 0..(Questions + 1)]
  /\ result \in [of: Asked, kept: BOOLEAN]
  /\ opened \in BOOLEAN

ConsoleInit ==
  /\ base = [now |-> First, list |-> First, loads |-> {First}, asked |-> 0]
  /\ card = [seq |-> 0, timer |-> FALSE, open |-> {}, shown |-> 0]
  /\ console = [last |-> 0, runs |-> {}, export |-> NoExport, button |-> TRUE, current |-> 0]
  /\ result = [of |-> 0, kept |-> TRUE]
  /\ opened = TRUE

-----------------------------------------------------------------------------
(* The list of tables *)

\* _on_db and refresh: the loads that are under way go on.
SelectDatabase ==
  /\ opened /\ base.asked < Questions
  /\ \E d \in Databases :
       base' = [base EXCEPT !.now = d, !.loads = @ \cup {d}, !.asked = @ + 1]
  /\ UNCHANGED <<card, console, result, opened>>

\* The answer is the list, whichever database it comes from; or a message.
TablesAnswer ==
  /\ \E d \in base.loads, ok \in BOOLEAN :
       base' = [base EXCEPT !.loads = @ \ {d}, !.list = IF ok THEN d ELSE @]
  /\ UNCHANGED <<card, console, result, opened>>

\* _on_click starts the timer; _load_info asks with the next number.
ClickTable ==
  /\ opened /\ ~card.timer
  /\ card.seq < Questions
  /\ card' = [card EXCEPT !.timer = TRUE]
  /\ UNCHANGED <<base, console, result, opened>>

LoadInfo ==
  /\ card.timer
  /\ card' = [card EXCEPT !.timer = FALSE, !.seq = @ + 1, !.open = @ \cup {card.seq + 1}]
  /\ UNCHANGED <<base, console, result, opened>>

\* Mutant: the answer is shown whatever its number.
InfoAnswerAny ==
  /\ \E n \in card.open :
       card' = [card EXCEPT !.open = @ \ {n}, !.shown = n]
  /\ UNCHANGED <<base, console, result, opened>>

\* An answer with an older number is left aside.
InfoAnswer ==
  /\ \E n \in card.open :
       card' = [card EXCEPT !.open = @ \ {n}, !.shown = IF n = card.seq THEN n ELSE @]
  /\ UNCHANGED <<base, console, result, opened>>

-----------------------------------------------------------------------------
(* The console *)

CurrentRuns ==
  \/ console.current \in {r[1] : r \in console.runs}
  \/ console.current = Questions + 1 /\ console.export = "runs"

\* execute: not while the last worker runs.
Execute ==
  /\ opened /\ console.last < Questions /\ ~CurrentRuns
  /\ \E s \in Statements :
       console' = [console EXCEPT !.last = @ + 1, !.runs = @ \cup {<<console.last + 1, s>>},
                                  !.button = FALSE, !.current = console.last + 1]
  /\ UNCHANGED <<base, card, result, opened>>

\* The result of a statement: rows are read and not committed, so what a
\* statement with rows has changed goes with its connection.
ConsoleAnswer ==
  /\ \E r \in console.runs :
       /\ console' = [console EXCEPT !.runs = @ \ {r}, !.button = TRUE]
       /\ \/ result' = [of |-> r[1], kept |-> r[2] # "returning"]
          \/ UNCHANGED result
  /\ UNCHANGED <<base, card, opened>>

\* _export of the rows that are shown: it is the last worker from now on.
ExportResult ==
  /\ opened /\ result.of > 0 /\ console.export = NoExport
  /\ console' = [console EXCEPT !.export = "runs", !.current = Questions + 1]
  /\ UNCHANGED <<base, card, result, opened>>

ExportEnds ==
  /\ console.export = "runs"
  /\ console' = [console EXCEPT !.export = "over"]
  /\ UNCHANGED <<base, card, result, opened>>

\* shutdown of the window: every worker is cancelled, none answers any more.
CloseViewer ==
  /\ opened
  /\ opened' = FALSE
  /\ base' = [base EXCEPT !.loads = {}]
  /\ card' = [card EXCEPT !.timer = FALSE, !.open = {}]
  /\ console' = [console EXCEPT !.runs = {}, !.export = IF @ = "runs" THEN "over" ELSE @]
  /\ UNCHANGED result

-----------------------------------------------------------------------------
ConsoleNext ==
  \/ SelectDatabase \/ TablesAnswer \/ ClickTable \/ LoadInfo \/ InfoAnswer
  \/ Execute \/ ConsoleAnswer \/ ExportResult \/ ExportEnds \/ CloseViewer

ConsoleSpec == ConsoleInit /\ [][ConsoleNext]_consoleVars

-----------------------------------------------------------------------------
\* The card never goes back to the answer of an earlier click (_info_seq).
CardIsLast == [][card'.shown # card.shown => card'.shown = card'.seq]_card

\* The button of the console is disabled only while a statement runs that will
\* still answer, whatever is exported meanwhile.
ButtonComesBack == ~console.button /\ opened => console.runs # {}

\* With nothing under way the list is that of the database selected.
ListIsOfDatabase == opened /\ base.loads = {} => base.list = base.now

\* The result that is shown is never replaced by that of an earlier statement.
ResultIsLast == [][result'.of >= result.of]_result

\* What a statement that is shown as done has changed is kept.
ChangesAreKept == result.kept
=============================================================================
