------------------------------- MODULE Screen -------------------------------
(***************************************************************************)
(* What a terminal session shows: the decoder of core/pty.py, the emulator *)
(* of builtin/terminal/terminal/emulator.py and the selection, scrolling   *)
(* and mouse of ui/terminal_widget.py.  The host sends characters of one   *)
(* to three bytes in chunks that end anywhere, lines, and the modes for    *)
(* the alternate screen and the mouse.  A line is a number, in the order   *)
(* of printing; the cells of a line, colours and keys are left out.        *)
(***************************************************************************)
EXTENDS Naturals, Sequences

CONSTANTS
  History,  \* maxlen of the scrollback
  Bytes,    \* how many bytes of text the host prints
  CharacterEnds, \* after how many of these bytes one of its characters ends
  Lines,    \* bound: how many lines are printed
  Gestures  \* bound: what the operator does

ASSUME ScreenAssumption ==
  /\ History \in Nat \ {0} /\ Lines \in Nat /\ Gestures \in Nat
  /\ Bytes \in Nat /\ CharacterEnds \subseteq 0..Bytes /\ 0 \in CharacterEnds
  \* No character is longer than three bytes.
  /\ \A n \in 0..Bytes : \E e \in CharacterEnds : e <= n /\ n <= e + 2

VARIABLES
  wire,    \* the decoder: bytes read, how many are held back, a wrong reading
  paper,   \* scrollback, the primary screen, the next line, the cursor's row
  view,    \* in_alternate, scroll_offset, the saved row of the cursor
  mark,    \* the selection: its row, and the line that was under it
  mouse,   \* mouse_mode, _mouse_button_down, the button
  gestures
screenVars == <<wire, paper, view, mark, mouse, gestures>>

Rows == Len(paper.screen)
NoMark == [row |-> 0, line |-> 0]

\* line_at, in the numbering of the selection; 0 when there is no such line.
\* The lines of the alternate screen all have one number, Lines + 4.
LineAt(row) ==
  LET all == paper.past \o paper.screen IN
  IF view.alt THEN IF row \in 1..Rows THEN Lines + 4 ELSE 0
  ELSE IF row \in 1..Len(all) THEN all[row] ELSE 0

\* Where the last character of the first n bytes ends.
LastEnd(n) == CHOOSE e \in CharacterEnds : e <= n /\ \A f \in CharacterEnds : f <= n => f <= e

ScreenTypeOK ==
  /\ wire \in [read: 0..Bytes, held: 0..2, spoilt: BOOLEAN]
  /\ Len(paper.past) <= History /\ Rows \in {2, 3}
  /\ paper.next \in 1..(Lines + 4) /\ paper.row \in 1..3
  /\ view \in [alt: BOOLEAN, offset: 0..History, saved: 0..3]
  /\ mark \in [row: 0..(History + 3), line: 0..(Lines + 4)]
  /\ mouse \in [mode: BOOLEAN, down: BOOLEAN, button: BOOLEAN]
  /\ gestures \in 0..Gestures

ScreenInit ==
  /\ wire = [read |-> 0, held |-> 0, spoilt |-> FALSE]
  /\ paper = [past |-> <<>>, screen |-> <<1, 2, 3>>, next |-> 4, row |-> 3]
  /\ view = [alt |-> FALSE, offset |-> 0, saved |-> 0]
  /\ mark = NoMark
  /\ mouse = [mode |-> FALSE, down |-> FALSE, button |-> FALSE]
  /\ gestures = 0

Gesture == gestures < Gestures /\ gestures' = gestures + 1

-----------------------------------------------------------------------------
(* The host *)

\* _decode: the bytes held back and the chunk.  A character that the end of the
\* chunk cuts is held back; when the first byte is in the middle of one, all is
\* taken for the other encoding.
Decode(n) ==
  LET to == wire.read + n IN
  IF wire.read - wire.held \in CharacterEnds
  THEN [read |-> to, held |-> to - LastEnd(to), spoilt |-> wire.spoilt]
  ELSE [read |-> to, held |-> 0, spoilt |-> TRUE]

ReadChunk ==
  /\ \E n \in 1..(Bytes - wire.read) : wire' = Decode(n)
  /\ UNCHANGED <<paper, view, mark, mouse, gestures>>

\* Mutant: the screen moves up before its first line goes into the history.
ScrolledUpLate ==
  LET moved == Append(Tail(paper.screen), paper.next)
      out == Append(paper.past, Head(moved)) IN
  [paper EXCEPT !.past = IF Len(out) > History THEN Tail(out) ELSE out,
                !.screen = moved,
                !.next = @ + 1]

\* index, at the last row: the first line goes into the history, and then the
\* screen moves up.
ScrolledUp ==
  LET out == Append(paper.past, Head(paper.screen)) IN
  [paper EXCEPT !.past = IF Len(out) > History THEN Tail(out) ELSE out,
                !.screen = Append(Tail(@), paper.next),
                !.next = @ + 1]

\* A line feed; a cursor below the last row comes back to it.
LineFeed ==
  /\ ~view.alt /\ paper.next < Lines + 4
  /\ paper' = IF paper.row = Rows THEN ScrolledUp
              ELSE [paper EXCEPT !.row = IF @ < Rows THEN @ + 1 ELSE Rows]
  /\ UNCHANGED <<wire, view, mark, mouse, gestures>>

\* DECSET 1049: the cursor of the primary screen is saved each time.
EnterAlternate ==
  /\ view' = IF view.alt THEN [view EXCEPT !.saved = paper.row]
             ELSE [alt |-> TRUE, offset |-> 0, saved |-> paper.row]
  /\ UNCHANGED <<wire, paper, mark, mouse, gestures>>

\* DECRST 1049: the saved row is the cursor's, whatever the size is by now.
ExitAlternate ==
  /\ view' = IF view.alt THEN [view EXCEPT !.alt = FALSE, !.offset = 0] ELSE view
  /\ paper' = [paper EXCEPT !.row = IF view.saved = 0 THEN @ ELSE view.saved]
  /\ UNCHANGED <<wire, mark, mouse, gestures>>

MouseMode ==
  /\ mouse' = [mouse EXCEPT !.mode = ~@]
  /\ UNCHANGED <<wire, paper, view, mark, gestures>>

-----------------------------------------------------------------------------
(* The operator *)

\* resize: both screens lose their first rows or get empty ones below.
ResizeScreen ==
  /\ Gesture
  /\ paper' = IF Rows = 3 THEN [paper EXCEPT !.screen = Tail(@)]
              ELSE [paper EXCEPT !.screen = Append(@, paper.next), !.next = @ + 1]
  /\ paper'.next <= Lines + 4
  /\ UNCHANGED <<wire, view, mark, mouse>>

\* scroll_view (not in the alternate screen) and scroll_to of the scroll bar.
Scroll ==
  /\ Gesture
  /\ \E n \in 0..Len(paper.past) : view' = [view EXCEPT !.offset = n]
  /\ UNCHANGED <<wire, paper, mark, mouse>>

\* A key that is sent brings the live screen back.
Key ==
  /\ Gesture
  /\ view' = [view EXCEPT !.offset = 0]
  /\ UNCHANGED <<wire, paper, mark, mouse>>

ClearScrollback ==
  /\ Gesture
  /\ paper' = [paper EXCEPT !.past = <<>>]
  /\ view' = [view EXCEPT !.offset = 0]
  /\ UNCHANGED <<wire, mark, mouse>>

\* reset: empty screens, the history and the modes go; the saved row stays.
Reset ==
  /\ Gesture
  /\ paper.next + Rows <= Lines + 4
  /\ paper' = [past |-> <<>>, screen |-> [i \in 1..Rows |-> paper.next + i - 1],
               next |-> paper.next + Rows, row |-> 1]
  /\ view' = [view EXCEPT !.alt = FALSE, !.offset = 0]
  /\ mouse' = [mouse EXCEPT !.mode = FALSE]
  /\ UNCHANGED <<wire, mark>>

\* The left button: the program's when it asked for the mouse, else it marks
\* the line under it (_global_cell_at).
Press ==
  /\ Gesture /\ ~mouse.button
  /\ \/ /\ mouse.mode
        /\ mouse' = [mouse EXCEPT !.button = TRUE, !.down = TRUE]
        /\ UNCHANGED mark
     \/ /\ ~mouse.mode
        /\ mouse' = [mouse EXCEPT !.button = TRUE]
        /\ \E y \in 1..Rows :
             LET row == Len(paper.past) - view.offset + y IN
             mark' = [row |-> row, line |-> LineAt(row)]
  /\ UNCHANGED <<wire, paper, view>>

\* The release is the program's only if it still has the mouse.
ReleaseButton ==
  /\ mouse.button
  /\ mouse' = [mouse EXCEPT !.button = FALSE,
                            !.down = @ /\ ~mouse.mode]
  /\ UNCHANGED <<wire, paper, view, mark, gestures>>

-----------------------------------------------------------------------------
Host == ReadChunk \/ LineFeed \/ EnterAlternate \/ ExitAlternate \/ MouseMode

ScreenOperator ==
  \/ ResizeScreen \/ Scroll \/ Key \/ ClearScrollback \/ Reset
  \/ Press \/ ReleaseButton

ScreenNext == Host \/ ScreenOperator
ScreenSpec == ScreenInit /\ [][ScreenNext]_screenVars

-----------------------------------------------------------------------------
\* Valid UTF-8 is given character by character as it was sent, wherever the
\* chunks end: nothing lost, doubled or taken for another encoding (_decode).
DecodedAsSent == ~wire.spoilt /\ wire.read - wire.held \in CharacterEnds

\* The history and the screen below it are in the order of printing: no line
\* twice, none before an earlier one, after any scrolling, resize and reset.
LinesInOrder ==
  LET all == paper.past \o paper.screen IN
  \A i, j \in 1..Len(all) : i < j => all[i] < all[j]

\* The view never begins before the first line of the history.
ViewIsInHistory == view.offset <= Len(paper.past)

\* What would be copied is the line that was marked.
CopiedAsMarked == mark # NoMark => LineAt(mark.row) = mark.line

\* The cursor is on the screen.
CursorIsOnScreen == paper.row <= Rows

\* The program is told of a drag only while the button is down.
DragsAreHeld == mouse.down => mouse.button
=============================================================================
