------------------------------ MODULE Keyboard ------------------------------
(***************************************************************************)
(* The programmable keyboard (gui/widgets/virtual_keyboard.py, and its     *)
(* handlers in gui/toolbar.py): the layout files, the windows that edit    *)
(* them and the window whose buttons are sent to the register with         *)
(* xdotool.  Windows are not modal, so two editors may be open.  Buttons   *)
(* are the set of the edits that made them, edit 0 what the file came with.*)
(***************************************************************************)
EXTENDS Naturals, SequencesExt

CONSTANTS
  Layouts,  \* LAYOUTS
  Default,  \* the first of them
  Editors,  \* editor windows
  Edits,    \* bound: buttons edited
  KeyClicks    \* bound: buttons clicked in the operator's window

ASSUME KeyboardAssumption == Default \in Layouts /\ {Edits, KeyClicks} \subseteq Nat

VARIABLES
  files,    \* the layout files, Unreadable when they cannot be parsed
  made,     \* for each edit, the layout it was made for
  editors,  \* the editor windows
  board,    \* the operator's window
  known,    \* the model the collector found; _kb_layout_by_ip of the register
  sends     \* clicks: waiting for the loop, on their way, done in this order
keyboardVars == <<files, made, editors, board, known, sends>>

Unreadable == {Edits + 1}  \* buttons of no edit: a file that cannot be parsed
NoLayout == "no layout"
Buttons == SUBSET (0..Edits)
ClosedEditor == [open |-> FALSE, layout |-> Default, buttons |-> {}]
NoBoard == [open |-> FALSE, layout |-> Default, buttons |-> {}, ready |-> FALSE, checks |-> FALSE]
NoSends == [waiting |-> {}, out |-> {}, done |-> <<>>, clicked |-> 0]

KeyboardTypeOK ==
  /\ files \in [Layouts -> Buttons \cup {Unreadable}]
  /\ made \in Seq(Layouts) /\ Len(made) <= Edits
  /\ editors \in [Editors -> [open: BOOLEAN, layout: Layouts, buttons: Buttons]]
  /\ board \in [open: BOOLEAN, layout: Layouts, buttons: Buttons, ready: BOOLEAN, checks: BOOLEAN]
  /\ known \in [model: Layouts \cup {NoLayout}, remembered: Layouts \cup {NoLayout}]
  /\ sends.waiting \cup sends.out \cup ToSet(sends.done) \subseteq 1..KeyClicks
  /\ sends.clicked \in 0..KeyClicks

KeyboardInit ==
  /\ files \in [Layouts -> {{0}, Unreadable}] /\ made = <<>>
  /\ editors = [e \in Editors |-> ClosedEditor] /\ board = NoBoard
  /\ known = [model |-> NoLayout, remembered |-> NoLayout] /\ sends = NoSends

-----------------------------------------------------------------------------
(* The files *)

\* load_layout: blank buttons for a file that is missing or cannot be read.
LoadLayout(l) == IF files[l] = Unreadable THEN {} ELSE files[l]

\* save_layout: the file is opened for writing and then written.
SaveLayout(l, buttons) ==
  \/ files' = [files EXCEPT ![l] = buttons]
  \/ files' = [files EXCEPT ![l] = Unreadable]
  \/ UNCHANGED files

\* _resolve_keyboard_layout: the model, else what was chosen, else the first.
Resolve ==
  IF known.model # NoLayout THEN known.model
  ELSE IF known.remembered # NoLayout THEN known.remembered ELSE Default

Remember(l) == known' = [known EXCEPT !.remembered = l]

-----------------------------------------------------------------------------
(* The editor *)

\* A new window reads the buttons of its layout.
Editor(l) == [open |-> TRUE, layout |-> l, buttons |-> LoadLayout(l)]

\* _on_keyboard_editor
OpenLayoutEditor(e) ==
  /\ ~editors[e].open /\ editors' = [editors EXCEPT ![e] = Editor(Resolve)]
  /\ Remember(Resolve)
  /\ UNCHANGED <<files, made, board, sends>>

\* Mutant: the buttons stay when the layout is switched.
SwitchKeepsButtons(e) ==
  /\ editors[e].open
  /\ \E l \in Layouts \ {editors[e].layout} :
       editors' = [editors EXCEPT ![e].layout = l] /\ Remember(l)
  /\ UNCHANGED <<files, made, board, sends>>

\* _switch_layout: the other file is loaded, this one is not saved.
SwitchEditor(e) ==
  /\ editors[e].open
  /\ \E l \in Layouts \ {editors[e].layout} :
       /\ editors' = [editors EXCEPT ![e].layout = l, ![e].buttons = LoadLayout(l)]
       /\ Remember(l)
  /\ UNCHANGED <<files, made, board, sends>>

\* The dialog of a button, accepted.
EditButton(e) ==
  /\ editors[e].open /\ Len(made) < Edits
  /\ made' = Append(made, editors[e].layout)
  /\ editors' = [editors EXCEPT ![e].buttons = @ \cup {Len(made) + 1}]
  /\ UNCHANGED <<files, board, known, sends>>

\* A right click clears the button.
ClearButton(e) ==
  /\ editors[e].open
  /\ \E n \in editors[e].buttons : editors' = [editors EXCEPT ![e].buttons = @ \ {n}]
  /\ UNCHANGED <<files, made, board, known, sends>>

SaveEditor(e) ==
  /\ editors[e].open /\ SaveLayout(editors[e].layout, editors[e].buttons)
  /\ UNCHANGED <<made, editors, board, known, sends>>

\* closeEvent saves, whether it was edited or not.
CloseLayoutEditor(e) ==
  /\ editors[e].open /\ SaveLayout(editors[e].layout, editors[e].buttons)
  /\ editors' = [editors EXCEPT ![e] = ClosedEditor]
  /\ UNCHANGED <<made, board, known, sends>>

-----------------------------------------------------------------------------
(* The operator's window *)

\* A new window reads the buttons now and has xdotool looked for.
Board(l) == [open |-> TRUE, layout |-> l, buttons |-> LoadLayout(l), ready |-> FALSE, checks |-> TRUE]

\* _on_keyboard
OpenBoard ==
  /\ ~board.open /\ board' = Board(Resolve)
  /\ Remember(Resolve)
  /\ UNCHANGED <<files, made, editors, sends>>

SwitchBoard ==
  /\ board.open
  /\ \E l \in Layouts \ {board.layout} :
       /\ board' = [board EXCEPT !.layout = l, !.buttons = LoadLayout(l)]
       /\ Remember(l)
  /\ UNCHANGED <<files, made, editors, sends>>

BoardCheckEnds ==
  /\ board.checks
  /\ \E ok \in BOOLEAN : board' = [board EXCEPT !.checks = FALSE, !.ready = ok]
  /\ UNCHANGED <<files, made, editors, known, sends>>

\* _on_button_click: a task of its own for each click.
ClickButton ==
  /\ board.open /\ board.ready /\ board.buttons # {} /\ sends.clicked < KeyClicks
  /\ sends' = [sends EXCEPT !.waiting = @ \cup {sends.clicked + 1}, !.clicked = @ + 1]
  /\ UNCHANGED <<files, made, editors, board, known>>

\* The task opens a channel for the command.
SendGoesOut ==
  /\ sends.waiting # {}
  /\ \E n \in sends.waiting :
       sends' = [sends EXCEPT !.waiting = @ \ {n}, !.out = @ \cup {n}]
  /\ UNCHANGED <<files, made, editors, board, known>>

\* The register runs what has its own channel in any order, or it is lost.
SendEnds ==
  /\ sends.out # {}
  /\ \E n \in sends.out, ok \in BOOLEAN :
       sends' = [sends EXCEPT !.out = @ \ {n}, !.done = IF ok THEN Append(@, n) ELSE @]
  /\ UNCHANGED <<files, made, editors, board, known>>

\* closeEvent: every task is cancelled.
CloseBoard ==
  /\ board.open /\ board' = NoBoard
  /\ sends' = [sends EXCEPT !.waiting = {}]
  /\ UNCHANGED <<files, made, editors, known>>

-----------------------------------------------------------------------------
\* The collector names the keyboard of the register; it may be wrong.
ModelIsFound ==
  /\ known.model = NoLayout
  /\ \E l \in Layouts : known' = [known EXCEPT !.model = l]
  /\ UNCHANGED <<files, made, editors, board, sends>>

KeyboardNext ==
  \/ \E e \in Editors :
       \/ OpenLayoutEditor(e) \/ SwitchEditor(e) \/ EditButton(e) \/ ClearButton(e)
       \/ SaveEditor(e) \/ CloseLayoutEditor(e)
  \/ OpenBoard \/ SwitchBoard \/ BoardCheckEnds \/ ClickButton \/ SendGoesOut \/ SendEnds
  \/ CloseBoard \/ ModelIsFound

KeyboardSpec == KeyboardInit /\ [][KeyboardNext]_keyboardVars

-----------------------------------------------------------------------------
\* A layout file never gets the buttons of another keyboard, whichever windows
\* are open and however they are switched: what the operator's window sends
\* was made for the keyboard it shows.
LayoutsAreOwn ==
  /\ \A l \in Layouts : \A n \in LoadLayout(l) \ {0} : made[n] = l
  /\ \A n \in board.buttons \ {0} : made[n] = board.layout

\* A closed window sends nothing to the register (closeEvent).
ClosedSendsNothing == ~board.open => sends.waiting = {}

\* What the operator clicks arrives in the order of the clicks.
KeysInOrder ==
  \A i, j \in DOMAIN sends.done : i < j => sends.done[i] < sends.done[j]

\* A file that cannot be read is not overwritten by a window that only shows it.
UnreadableIsKept ==
  [][\A l \in Layouts : files[l] = Unreadable => files'[l] # {}]_files

\* "If the model was found wrong, it can be corrected at once" (_init_ui of the
\* operator's window): a window opened again shows what was chosen.
ChoiceIsKept ==
  [][~board.open /\ board'.open /\ known.remembered # NoLayout
       => board'.layout = known.remembered]_board
=============================================================================
