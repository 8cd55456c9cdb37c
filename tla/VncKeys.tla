------------------------------ MODULE VncKeys -------------------------------
(***************************************************************************)
(* Keys and mouse of the embedded viewer (builtin/vnc/vnc_preview.py): the *)
(* handlers of the widget count what is pressed and queue commands, the    *)
(* worker sends them, and joins moves of the mouse.  A letter has another  *)
(* keysym with Shift than without; the register presses and releases the   *)
(* key of a keysym.  Threads and events of the worker: module VncViewer.   *)
(***************************************************************************)
EXTENDS Naturals, SequencesExt

CONSTANTS
  Letters,  \* keys with a keysym that depends on Shift
  Shifts,   \* the Shift keys of the keyboard, which have one keysym
  Waiting,  \* bound: commands that wait for the worker
  Count     \* bound: how often one keysym is counted as pressed

ASSUME KeysAssumption ==
  {Waiting, Count} \subseteq Nat \ {0} /\ Letters \cap Shifts = {} /\ IsFiniteSet(Letters)

VARIABLES
  worker,  \* the connection, as is_connected and the events have it
  pressed,  \* _pressed_keysyms
  button,   \* _btn_mask, of one button, and the button itself
  hands,    \* the keys that are down, and whether the widget has the focus
  commands, \* _q, and the move of the mouse _drain_queue holds back
  remote    \* what is down at the register, for this connection
keyVars == <<worker, pressed, button, hands, commands, remote>>

ShiftSym == <<"shift", FALSE>>
Keysyms == (Letters \X BOOLEAN) \cup {ShiftSym}
KeyboardKeys == Letters \cup Shifts
NothingDown == [keys |-> {}, button |-> FALSE]
NothingQueued == [queue |-> <<>>, move |-> {}]
NothingPressed == [s \in Keysyms |-> 0]

KeysTypeOK ==
  /\ worker \in {"off", "dials", "on", "ended"}
  /\ pressed \in [Keysyms -> 0..Count]
  /\ button \in [mask: BOOLEAN, down: BOOLEAN]
  /\ hands \in [keys: SUBSET KeyboardKeys, focus: BOOLEAN]
  /\ commands.move \in SUBSET BOOLEAN
  /\ remote \in [keys: SUBSET (Letters \cup {"shift"}), button: BOOLEAN]

KeysInit ==
  /\ worker = "off" /\ pressed = NothingPressed
  /\ button = [mask |-> FALSE, down |-> FALSE]
  /\ hands = [keys |-> {}, focus |-> FALSE]
  /\ commands = NothingQueued /\ remote = NothingDown

KeyCommand(s, down) == [type |-> "key", sym |-> s, down |-> down]
PointerCommand(mask, motion) == [type |-> "pointer", down |-> mask, motion |-> motion]

\* What is put into a queue that nobody reads is gone with it.
Queue(cmds) == commands' = [commands EXCEPT !.queue = IF worker = "on" THEN @ \o cmds ELSE @]
Room == Len(commands.queue) < Waiting

-----------------------------------------------------------------------------
(* The keyboard *)

\* _qt_to_keysym, with the modifiers there are now.
Keysym(k) ==
  IF k \in Shifts THEN ShiftSym ELSE <<k, hands.keys \cap Shifts # {}>>

\* keyPressEvent: only the first press of a keysym is sent.
KeyPress(k) ==
  LET s == Keysym(k) IN
  /\ k \notin hands.keys /\ Room
  /\ hands' = [hands EXCEPT !.keys = @ \cup {k}]
  /\ IF hands.focus /\ worker = "on"
     THEN /\ pressed[s] < Count
          /\ pressed' = [pressed EXCEPT ![s] = @ + 1]
          /\ Queue(IF pressed[s] = 0 THEN <<KeyCommand(s, TRUE)>> ELSE <<>>)
     ELSE UNCHANGED <<pressed, commands>>
  /\ UNCHANGED <<worker, button, remote>>

\* keyReleaseEvent: the keysym is that of the modifiers at the release.
KeyRelease(k) ==
  LET s == Keysym(k) IN
  /\ k \in hands.keys /\ Room
  /\ hands' = [hands EXCEPT !.keys = @ \ {k}]
  /\ IF hands.focus /\ worker = "on"
     THEN /\ pressed' = [pressed EXCEPT ![s] = IF @ = 0 THEN 0 ELSE @ - 1]
          /\ Queue(IF pressed[s] <= 1 THEN <<KeyCommand(s, FALSE)>> ELSE <<>>)
     ELSE UNCHANGED <<pressed, commands>>
  /\ UNCHANGED <<worker, button, remote>>

\* _release_remote_input
ReleasesInput ==
  /\ Queue((IF button.mask THEN <<PointerCommand(FALSE, FALSE)>> ELSE <<>>)
           \o SetToSeq({KeyCommand(s, FALSE) : s \in {r \in Keysyms : pressed[r] > 0}}))
  /\ button' = [button EXCEPT !.mask = FALSE] /\ pressed' = NothingPressed

FocusOut ==
  /\ hands.focus /\ Room
  /\ hands' = [hands EXCEPT !.focus = FALSE]
  /\ ReleasesInput
  /\ UNCHANGED <<worker, remote>>

-----------------------------------------------------------------------------
(* The mouse *)

MousePress ==
  /\ ~button.down /\ Room /\ button' = [mask |-> button.mask \/ worker = "on", down |-> TRUE]
  /\ hands' = [hands EXCEPT !.focus = @ \/ worker = "on"]
  /\ Queue(<<PointerCommand(TRUE, FALSE)>>)
  /\ UNCHANGED <<worker, pressed, remote>>

MouseRelease ==
  /\ button.down /\ Room
  /\ button' = [mask |-> button.mask /\ worker # "on", down |-> FALSE]
  /\ Queue(<<PointerCommand(FALSE, FALSE)>>)
  /\ UNCHANGED <<worker, pressed, hands, remote>>

MouseMove ==
  /\ Room /\ worker = "on"
  /\ Queue(<<PointerCommand(button.mask, TRUE)>>)
  /\ UNCHANGED <<worker, pressed, button, hands, remote>>

-----------------------------------------------------------------------------
(* The worker *)

Pressed(cmd, was) ==
  IF cmd.type = "pointer" THEN [was EXCEPT !.button = cmd.down]
  ELSE [was EXCEPT !.keys = IF cmd.down THEN @ \cup {cmd.sym[1]} ELSE @ \ {cmd.sym[1]}]

\* flush_motion
Moved(was) == [was EXCEPT !.button = IF commands.move = {} THEN @ ELSE TRUE \in commands.move]

\* _drain_queue: of moves in a row only the last one, before what follows.
Sends ==
  IF commands.queue = <<>>
  THEN commands' = NothingQueued /\ remote' = Moved(remote)
  ELSE LET cmd == Head(commands.queue)
           rest == [commands EXCEPT !.queue = Tail(@)] IN
       IF cmd.type = "pointer" /\ cmd.motion
       THEN commands' = [rest EXCEPT !.move = {cmd.down}] /\ UNCHANGED remote
       ELSE commands' = [rest EXCEPT !.move = {}] /\ remote' = Pressed(cmd, Moved(remote))

Drain ==
  /\ worker = "on" /\ Sends
  /\ UNCHANGED <<worker, pressed, button, hands>>

-----------------------------------------------------------------------------
(* The connection *)

Forgotten == commands' = NothingQueued /\ remote' = NothingDown

\* connect_vnc, of a connected viewer as well: what is counted stays.
Reconnect ==
  /\ worker # "dials" /\ worker' = "dials" /\ Forgotten
  /\ UNCHANGED <<pressed, button, hands>>

WorkerConnects ==
  /\ worker = "dials" /\ worker' \in {"on", "ended"}
  /\ UNCHANGED <<pressed, button, hands, commands, remote>>

LinkBreaks ==
  /\ worker = "on" /\ worker' = "ended" /\ Forgotten
  /\ UNCHANGED <<pressed, button, hands>>

\* The event "disconnected" clears what is counted.
EndIsHandled ==
  /\ worker = "ended" /\ worker' = "off"
  /\ pressed' = NothingPressed /\ button' = [button EXCEPT !.mask = FALSE]
  /\ UNCHANGED <<hands, commands, remote>>

\* disconnect_vnc: the releases are queued, and the worker is stopped at once.
Disconnects ==
  /\ worker # "off" /\ worker' = "off" /\ Forgotten
  /\ pressed' = NothingPressed /\ button' = [button EXCEPT !.mask = FALSE]
  /\ UNCHANGED hands

-----------------------------------------------------------------------------
KeysNext ==
  \/ \E k \in KeyboardKeys : KeyPress(k) \/ KeyRelease(k)
  \/ FocusOut \/ MousePress \/ MouseRelease \/ MouseMove \/ Drain
  \/ Reconnect \/ WorkerConnects \/ LinkBreaks \/ EndIsHandled \/ Disconnects

KeysSpec == KeysInit /\ [][KeysNext]_keyVars

-----------------------------------------------------------------------------
\* With nothing on its way, no key and no button is down at the register that
\* the viewer does not count as pressed, so a lost focus releases all of them.
RemoteIsCounted ==
  commands = NothingQueued =>
    /\ \A k \in remote.keys : \E s \in Keysyms : s[1] = k /\ pressed[s] > 0
    /\ remote.button => button.mask

\* "Local bookkeeping must not leak a pressed modifier/button into a later
\* reconnect" (_handle_worker_event).
NothingLeaks == worker = "dials" => pressed = NothingPressed /\ ~button.mask

\* A key that is pressed in a connected viewer is pressed at the register.
PressIsSent ==
  [][\A k \in Letters :
       k \notin hands.keys /\ k \in hands'.keys /\ hands.focus /\ worker = "on"
         => commands' # commands]_keyVars
=============================================================================
