----------------------------- MODULE VncPreview -----------------------------
(***************************************************************************)
(* The viewers of one register tab (builtin/vnc/vnc_preview.py:            *)
(* VncPreviewWidget, VncClientWindow) and what the tab does with them      *)
(* (gui/cash_session_widget.py): one asyncio task that starts the server   *)
(* on the register and then connects a viewer or runs an external client,  *)
(* and the restoration after the link was lost.  A viewer is the           *)
(* EmbeddedVNCWidget of module VncViewer, reduced to its state.            *)
(***************************************************************************)
EXTENDS Naturals

CONSTANTS
  Orders,    \* bound: what the operator does
  Drops      \* bound: how often the link is lost

ASSUME PreviewAssumption == Orders \in Nat /\ Drops \in Nat

VARIABLES
  flow,      \* _task: which coroutine, and where it waits
  viewer,    \* the state of the embedded viewer and of the one in the window
  window,    \* the client window: not created, shown or hidden
  ssh,       \* the session of the tab, and whether the register answers:
             \* up, lost (it may survive), gone (neither), down, dialling
  restore,   \* _vnc_was_open, _vnc_resume, _ssh_was_down
  clients,   \* whether an external client was started for this tab
  wanted,    \* a flow was started for the embedded viewer after the last disconnect
  steps      \* orders and drops so far

previewVars == <<flow, viewer, window, ssh, restore, clients, wanted, steps>>

Viewers == {"embedded", "window"}
Flows == {"embedded", "window", "external"}
Idle == [of |-> "none", at |-> "none"]
On == {"connecting", "connected"}

PreviewTypeOK ==
  /\ flow \in {Idle} \cup [of: Flows, at: {"start", "wait", "delay"}]
  /\ viewer \in [Viewers -> {"idle", "connecting", "connected", "error"}]
  /\ window \in {"none", "shown", "hidden"}
  /\ ssh \in {"up", "lost", "gone", "dialling", "down"}
  /\ restore \in [open: BOOLEAN, resume: BOOLEAN, down: BOOLEAN]
  /\ clients \in BOOLEAN /\ wanted \in BOOLEAN
  /\ steps \in [orders: 0..Orders, drops: 0..Drops, refreshed: BOOLEAN]

PreviewInit ==
  /\ flow = Idle
  /\ viewer = [v \in Viewers |-> "idle"]
  /\ window = "none" /\ ssh = "up"
  /\ restore = [open |-> FALSE, resume |-> FALSE, down |-> FALSE]
  /\ clients = FALSE /\ wanted = FALSE
  /\ steps = [orders |-> 0, drops |-> 0, refreshed |-> FALSE]

-----------------------------------------------------------------------------
(* The state of a viewer, and what the tab concludes from it *)

\* Every viewer reports to the same slot, which only looks at the state.
Reported(r, state) ==
  CASE state = "idle" -> [r EXCEPT !.open = FALSE]
    [] state = "connected" -> [r EXCEPT !.open = TRUE]
    [] OTHER -> r

\* Viewer v enters a state and reports it.
Enters(v, state) ==
  /\ viewer' = [viewer EXCEPT ![v] = state]
  /\ restore' = Reported(restore, state)

-----------------------------------------------------------------------------
(* The task: only one, a new one cancels the old one *)

Spawn(kind) == flow' = [of |-> kind, at |-> "start"]

\* _connect_client_window shows the window and returns when it is connected.
ShowsWindow ==
  /\ flow = [of |-> "window", at |-> "start"] /\ window # "shown"
  /\ window' = "shown"
  /\ flow' = IF viewer["window"] = "connected" THEN Idle ELSE flow
  /\ UNCHANGED <<viewer, ssh, restore, clients, wanted, steps>>

\* x11vnc is stopped and started again: every viewer loses its server.
StartsServer ==
  /\ flow.at = "start" /\ (flow.of = "window" => window = "shown")
  /\ IF ssh = "up" THEN flow' = [flow EXCEPT !.at = "wait"] ELSE flow' = Idle
  /\ viewer' = [v \in Viewers |->
                  IF ssh = "up" /\ viewer[v] \in On THEN "error" ELSE viewer[v]]
  /\ UNCHANGED <<window, ssh, restore, clients, wanted, steps>>

\* The port listens, or the command failed, or it did not listen in time.
ServerAnswers ==
  /\ flow.at = "wait"
  /\ \/ flow' = Idle
     \/ ssh = "up" /\ flow' = [flow EXCEPT !.at = "delay"]
  /\ UNCHANGED <<viewer, window, ssh, restore, clients, wanted, steps>>

\* After the delay the viewer connects, or the external client is started.
FlowEnds ==
  /\ flow.at = "delay"
  /\ flow' = Idle
  /\ IF flow.of = "external"
       THEN /\ clients' \in {clients, TRUE}
            /\ UNCHANGED <<viewer, restore>>
       ELSE Enters(flow.of, "connecting") /\ UNCHANGED clients
  /\ UNCHANGED <<window, ssh, wanted, steps>>

FlowStep == ShowsWindow \/ StartsServer \/ ServerAnswers \/ FlowEnds

\* The worker of a viewer: its handshake succeeds, or it fails.
ViewerAnswers ==
  /\ \E v \in Viewers :
       /\ viewer[v] = "connecting"
       /\ \/ ssh = "up" /\ Enters(v, "connected")
          \/ Enters(v, "error")
  /\ UNCHANGED <<flow, window, ssh, clients, wanted, steps>>

-----------------------------------------------------------------------------
(* The operator *)

Orders1 == steps.orders < Orders /\ steps' = [steps EXCEPT !.orders = @ + 1]

ConnectVnc ==
  /\ Orders1
  /\ Spawn("embedded") /\ wanted' = TRUE
  /\ UNCHANGED <<viewer, window, ssh, restore, clients>>

\* Mutant: the task goes on.
DisconnectLeavesTask ==
  /\ Orders1
  /\ wanted' = FALSE
  /\ viewer' = [viewer EXCEPT !["embedded"] = "idle"]
  /\ restore' = [restore EXCEPT !.open = FALSE, !.resume = FALSE]
  /\ UNCHANGED <<flow, window, ssh, clients>>

\* An explicit disconnect: no intention, no task, no viewer.
DisconnectVnc ==
  /\ Orders1
  /\ flow' = Idle /\ wanted' = FALSE
  /\ viewer' = [viewer EXCEPT !["embedded"] = "idle"]
  /\ restore' = [restore EXCEPT !.open = FALSE, !.resume = FALSE]
  /\ UNCHANGED <<window, ssh, clients>>

\* The toolbar: an external client if one is configured, else the window.
OpenClient ==
  /\ Orders1
  /\ \/ Spawn("external") /\ UNCHANGED window
     \/ Spawn("window") /\ window' = IF window = "none" THEN "hidden" ELSE window
  /\ UNCHANGED <<viewer, ssh, restore, clients, wanted>>

\* The window is hidden and its viewer disconnected; the task is not touched.
CloseWindow ==
  /\ Orders1
  /\ window = "shown" /\ window' = "hidden"
  /\ Enters("window", "idle")
  /\ UNCHANGED <<flow, ssh, clients, wanted>>

-----------------------------------------------------------------------------
(* The link: the ping of the tab and its connection *)

LinkLost ==
  /\ ssh \in {"up", "down"} /\ steps.drops < Drops
  /\ steps' = [steps EXCEPT !.drops = @ + 1]
  /\ ssh' = IF ssh = "up" THEN "lost" ELSE "gone"
  /\ UNCHANGED <<flow, viewer, window, restore, clients, wanted>>

\* A viewer notices it: an error, then the end of its worker.
ViewerFails ==
  /\ ssh # "up"
  /\ \E v \in Viewers : viewer[v] = "connected" /\ Enters(v, "error")
  /\ UNCHANGED <<flow, window, ssh, clients, wanted, steps>>

\* _on_ping_status with an unreachable register.
PingFails ==
  /\ ssh \in {"lost", "gone"} /\ ~restore.down
  /\ restore' = [restore EXCEPT !.down = TRUE]
  /\ UNCHANGED <<flow, viewer, window, ssh, clients, wanted, steps>>

\* The connection of the session: it survived, or a new one is dialled.
Survives == ssh = "lost" /\ Spawn("embedded") /\ wanted' = TRUE /\ ssh' = "up"
Redials == ssh' = "dialling" /\ UNCHANGED <<flow, wanted>>

\* Mutant: the session is dialled, the intention is forgotten.
PingReturnsForgets ==
  /\ ssh \in {"lost", "gone"} /\ restore.down
  /\ restore' = [restore EXCEPT !.down = FALSE]
  /\ IF restore.open
       THEN Survives \/ Redials
       ELSE /\ ssh' \in {"down"} \cup (IF ssh = "lost" THEN {"up"} ELSE {})
            /\ UNCHANGED <<flow, wanted>>
  /\ UNCHANGED <<viewer, window, clients, steps>>

\* The register answers again: a viewer that was open is restored.
PingReturns ==
  /\ ssh \in {"lost", "gone"} /\ restore.down
  /\ restore' = [restore EXCEPT !.down = FALSE, !.resume = restore.open \/ @]
  /\ IF restore.open
       THEN Survives \/ Redials
       ELSE /\ ssh' \in {"down"} \cup (IF ssh = "lost" THEN {"up"} ELSE {})
            /\ UNCHANGED <<flow, wanted>>
  /\ UNCHANGED <<viewer, window, clients, steps>>

\* reconnect_to: the viewer is disconnected before the session is replaced.
RefreshTab ==
  /\ steps.orders < Orders
  /\ steps' = [steps EXCEPT !.orders = @ + 1, !.refreshed = TRUE]
  /\ LET resumes == viewer["embedded"] = "connected"
     IN /\ viewer' = IF resumes THEN [viewer EXCEPT !["embedded"] = "idle"] ELSE viewer
        /\ flow' = IF resumes THEN Idle ELSE flow
        /\ restore' = [open |-> resumes \/ restore.open, resume |-> resumes,
                       down |-> FALSE]
  /\ ssh' = "dialling"
  /\ UNCHANGED <<window, clients, wanted>>

\* connect_coro: the session is up and the viewer is resumed, or it failed.
Dialled ==
  /\ ssh = "dialling"
  /\ \/ /\ ssh' = "up"
        /\ IF restore.resume
             THEN /\ restore' = [restore EXCEPT !.resume = FALSE, !.open = TRUE]
                  /\ Spawn("embedded") /\ wanted' = TRUE
             ELSE UNCHANGED <<restore, flow, wanted>>
     \/ ssh' = "down" /\ UNCHANGED <<restore, flow, wanted>>
  /\ UNCHANGED <<viewer, window, clients, steps>>

LinkStep == ViewerFails \/ PingFails \/ PingReturns \/ Dialled

PreviewNext ==
  \/ FlowStep \/ ViewerAnswers \/ LinkStep \/ LinkLost
  \/ ConnectVnc \/ DisconnectVnc \/ OpenClient \/ CloseWindow \/ RefreshTab

PreviewSpec == PreviewInit /\ [][PreviewNext]_previewVars

\* Every await ends: commands and handshakes have timeouts, pings go on.
PreviewFairSpec ==
  /\ PreviewSpec
  /\ WF_previewVars(FlowStep) /\ WF_previewVars(ViewerAnswers) /\ WF_previewVars(LinkStep)

-----------------------------------------------------------------------------
(* Properties *)

\* "A pending _connect_flow sleep must not reconnect after an explicit
\* disconnect": the embedded viewer is on only for a flow that began later.
DisconnectHolds == viewer["embedded"] \in On => wanted

\* A viewer that was open when the link was lost comes back with the link:
\* a flow is started for it, unless the session cannot be made again or the
\* operator closes or refreshes meanwhile.
ViewerComesBack ==
  restore.open /\ restore.down ~>
    \/ flow.of = "embedded" \/ viewer["embedded"] \in On
    \/ ~restore.open \/ ssh = "down" \/ steps.refreshed

\* The same, whatever the operator does besides: "after the link is restored
\* VNC did not come up on the same tab" is the regression the tests describe.
ComesBackAnyway ==
  restore.open /\ restore.down ~>
    \/ flow.of = "embedded" \/ viewer["embedded"] \in On
    \/ ~restore.open \/ ssh = "down"

\* "closing only hides the window and disconnects the viewer": VncClientWindow.
HiddenIsOff == window = "hidden" => viewer["window"] \notin On
=============================================================================
