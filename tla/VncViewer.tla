----------------------------- MODULE VncViewer -----------------------------
(***************************************************************************)
(* One viewer of builtin/vnc/vnc_preview.py: the widget EmbeddedVNCWidget, *)
(* which lives in the GUI thread, the _VNCWorker threads it starts, one    *)
(* per connection, and the RFB server each of them talks to.               *)
(*                                                                         *)
(* The widget sends commands through a queue; a worker sends events back   *)
(* through a deque guarded by a lock, and wakes the GUI thread up only     *)
(* when the flag `scheduled` was clear.  Each connect and disconnect of    *)
(* the operator starts a new generation; events of older ones are dropped. *)
(* A worker is named by the generation it was started for:                 *)
(* _pending_connect allows one start per generation.                       *)
(*                                                                         *)
(* A handler of the GUI thread is one step, one event of a drain is one    *)
(* step, and a worker steps from one blocking call or callback to the      *)
(* next.  Pixels and texts are left out; an update holds the desktop size  *)
(* and the colour depth it was made with.  Left out are keys and the mouse *)
(* (they add commands to the queue, nothing here reads them) and the       *)
(* commands DISCONNECT and FULL_UPDATE, which the program never queues.    *)
(***************************************************************************)
EXTENDS Naturals, Sequences, FiniteSets

CONSTANTS
  Sizes,       \* sizes of the remote desktop
  Depths,      \* colour depths (_DEPTH_PRESETS)
  FirstSize,   \* the size at the beginning
  FirstDepth,  \* the depth from the settings
  None,        \* no framebuffer, no pending depth
  MaxPerTick,  \* _MAX_EVENTS_PER_TICK
  MaxCalls,    \* bound: calls of connect_vnc and disconnect_vnc
  MaxDepths,   \* bound: calls of set_depth
  MaxResizes,  \* bound: changes of the size
  MaxEvents    \* bound: events waiting when the server answers

ASSUME ViewerAssumption ==
  /\ {MaxPerTick, MaxCalls, MaxDepths, MaxResizes, MaxEvents}
       \subseteq Nat
  /\ MaxPerTick > 0
  /\ FirstSize \in Sizes /\ FirstDepth \in Depths
  /\ None \notin Sizes \cup Depths

Gens == 1..MaxCalls
NoWorker == 0

VARIABLES
  \* The connection, in the widget
  worker,          \* _worker: its generation, or NoWorker
  retiring,        \* _retiring_workers
  generation,      \* _generation
  pendingConnect,  \* _pending_connect
  closing,         \* _closing
  state,           \* _state
  reapTimer,       \* _retire_timer is active
  \* What it shows
  fb,              \* the size of _fb, or None
  updates,         \* _pending_updates: the generation and size of each
  depthIdx,        \* _depth_idx
  depthCalls,      \* how often it was set
  q,               \* the depth commands in the queue of each worker
  \* The bridge from the workers
  events,          \* _worker_events
  scheduled,       \* _event_scheduled
  wakeups,         \* queued calls of _drain_worker_events
  draining,        \* events the running drain may still take, 0 if none runs
  \* The workers
  pc,              \* where each thread is
  stop,            \* its _stop_event
  emit,            \* it has to emit events_ready
  rfb,             \* its view of the protocol, and the server's
  size,            \* the size of the remote desktop
  resizes          \* how often it changed

link == <<worker, retiring, generation, pendingConnect, closing, state, reapTimer>>
screen == <<fb, updates>>
depths == <<depthIdx, depthCalls>>
bridge == <<events, scheduled, wakeups, draining>>
threads == <<pc, stop, emit, rfb>>
desktop == <<size, resizes>>
vars == <<link, screen, depths, q, bridge, threads, desktop>>

States == {"disconnected", "connecting", "connected", "error"}
Kinds == {"connected", "disconnected", "error", "frame", "resize"}
Blocked == {"dial", "setup", "loop", "recv", "update"}
Talking == {"loop", "recv", "update"}

Events == [gen : Gens, kind : Kinds, size : Sizes \cup {None}]

\* What the worker writes: a FramebufferUpdateRequest, after a SetPixelFormat or
\* not.
Requests == Depths \cup {None}
Rects == [kind : {"frame", "resize"}, size : Sizes]

\* depth .. rects are the worker's: _depth_idx, _pending_depth_idx,
\* _update_outstanding, the format of the update it reads and the rectangles
\* still to read.  wire is what it wrote and the server has not answered; format
\* and told are the server's: the pixel format and the size the client knows;
\* inbox is what the server wrote.
Protocol ==
  [depth : Depths, pending : Depths \cup {None}, outstanding : BOOLEAN,
   reading : Depths, rects : Seq(Rects), wire : Seq(Requests),
   format : Depths, told : Sizes,
   inbox : Seq([format : Depths, rects : Seq(Rects)])]

Fresh(d, s) ==
  [depth |-> d, pending |-> None, outstanding |-> FALSE, reading |-> d,
   rects |-> <<>>, wire |-> <<>>, format |-> d, told |-> s, inbox |-> <<>>]

TypeOK ==
  /\ worker \in Gens \cup {NoWorker}
  /\ retiring \subseteq Gens
  /\ generation \in 0..MaxCalls + 1
  /\ pendingConnect \in BOOLEAN /\ closing \in BOOLEAN /\ reapTimer \in BOOLEAN
  /\ state \in States
  /\ fb \in Sizes \cup {None}
  /\ updates \subseteq [gen : Gens, size : Sizes]
  /\ depthIdx \in Depths
  /\ depthCalls \in 0..MaxDepths
  /\ q \in [Gens -> Seq(Depths)]
  /\ events \in Seq(Events)
  /\ scheduled \in BOOLEAN
  /\ wakeups \in Nat
  /\ draining \in 0..MaxPerTick
  /\ pc \in [Gens -> {"none", "final", "ended", "dead"} \cup Blocked]
  /\ stop \in [Gens -> BOOLEAN]
  /\ emit \in [Gens -> BOOLEAN]
  /\ rfb \in [Gens -> Protocol]
  /\ size \in Sizes
  /\ resizes \in 0..MaxResizes

Init ==
  /\ worker = NoWorker /\ retiring = {} /\ generation = 0
  /\ pendingConnect = FALSE /\ closing = FALSE /\ reapTimer = FALSE
  /\ state = "disconnected"
  /\ fb = None /\ updates = {}
  /\ depthIdx = FirstDepth /\ depthCalls = 0
  /\ q = [g \in Gens |-> <<>>]
  /\ events = <<>> /\ scheduled = FALSE /\ wakeups = 0 /\ draining = 0
  /\ pc = [g \in Gens |-> "none"]
  /\ stop = [g \in Gens |-> FALSE]
  /\ emit = [g \in Gens |-> FALSE]
  /\ size = FirstSize /\ resizes = 0
  /\ rfb = [g \in Gens |-> Fresh(FirstDepth, FirstSize)]

Alive(g) == pc[g] \notin {"none", "dead"}

\* The GUI thread is between two handlers.
GuiFree == draining = 0

-----------------------------------------------------------------------------
(* Connecting: the GUI thread *)

\* Mutant: a retired worker is not waited for.
StartAnyway(g, old) ==
  /\ retiring' = old
  /\ pendingConnect' = FALSE
  /\ worker' = g
  /\ state' = "connecting"
  /\ pc' = [pc EXCEPT ![g] = "dial"]
  /\ rfb' = [rfb EXCEPT ![g] = Fresh(depthIdx, size)]

\* _start_pending_connection for generation g, with the workers of `old` retiring:
\* wait for them, start, or fail to start.
StartPending(g, old) ==
  \/ /\ \E w \in old : Alive(w)
     /\ worker' = NoWorker
     /\ retiring' = old
     /\ pendingConnect' = TRUE
     /\ state' = "connecting"
     /\ UNCHANGED <<pc, rfb>>
  \/ /\ \A w \in old : ~Alive(w)
     /\ retiring' = {}
     /\ pendingConnect' = FALSE
     /\ \/ /\ worker' = g
           /\ state' = "connecting"
           /\ pc' = [pc EXCEPT ![g] = "dial"]
           /\ rfb' = [rfb EXCEPT ![g] = Fresh(depthIdx, size)]
        \/ /\ worker' = NoWorker
           /\ state' = "error"
           /\ UNCHANGED <<pc, rfb>>

\* _retire_active_worker: the worker it leaves in _retiring_workers.
Active == {worker} \ {NoWorker}
StopActive == stop' = [g \in Gens |-> stop[g] \/ g = worker]

ConnectVnc ==
  /\ GuiFree /\ ~closing /\ generation < MaxCalls
  /\ generation' = generation + 1
  /\ fb' = None /\ updates' = {}
  /\ StopActive
  /\ StartPending(generation + 1, retiring \cup Active)
  /\ reapTimer' = (reapTimer \/ Active # {} \/ \E w \in retiring : Alive(w))
  /\ UNCHANGED <<closing, depths, q, bridge, emit, desktop>>

DisconnectVnc ==
  /\ GuiFree /\ ~closing /\ generation < MaxCalls
  /\ generation' = generation + 1
  /\ pendingConnect' = FALSE
  /\ StopActive
  /\ worker' = NoWorker
  /\ retiring' = retiring \cup Active
  /\ reapTimer' = (reapTimer \/ Active # {})
  /\ fb' = None /\ updates' = {}
  /\ state' = "disconnected"
  /\ UNCHANGED <<closing, depths, q, bridge, pc, emit, rfb, desktop>>

\* Mutant: a connection that had to wait is forgotten.
ReapForgets ==
  /\ GuiFree /\ reapTimer /\ ~closing
  /\ retiring' = {w \in retiring : Alive(w)}
  /\ reapTimer' = (retiring' # {})
  /\ UNCHANGED <<worker, generation, pendingConnect, closing, state, screen,
                 depths, q, bridge, threads, desktop>>

\* _reap_workers, called by its timer
ReapWorkers ==
  /\ GuiFree /\ reapTimer /\ ~closing
  /\ LET alive == {w \in retiring : Alive(w)} IN
     /\ reapTimer' = (alive # {})
     /\ IF alive = {} /\ pendingConnect /\ worker = NoWorker
          THEN StartPending(generation, {})
          ELSE /\ retiring' = alive
               /\ UNCHANGED <<worker, pendingConnect, state, pc, rfb>>
  /\ UNCHANGED <<generation, closing, screen, depths, q, bridge, stop,
                 emit, desktop>>

\* The tab is closed.
Cleanup ==
  /\ GuiFree /\ ~closing
  /\ closing' = TRUE
  /\ generation' = generation + 1
  /\ pendingConnect' = FALSE
  /\ reapTimer' = FALSE
  /\ worker' = NoWorker
  /\ retiring' = retiring \cup Active
  /\ stop' = [g \in Gens |-> stop[g] \/ g \in retiring \cup Active]
  /\ fb' = None /\ updates' = {}
  /\ events' = <<>> /\ scheduled' = FALSE
  /\ UNCHANGED <<state, depths, q, wakeups, draining, pc, emit, rfb,
                 desktop>>

-----------------------------------------------------------------------------
\* The depth buttons
SetDepth(d) ==
  /\ GuiFree /\ d # depthIdx /\ depthCalls < MaxDepths
  /\ depthCalls' = depthCalls + 1
  /\ depthIdx' = d
  /\ q' = IF worker # NoWorker /\ Alive(worker)
            THEN [q EXCEPT ![worker] = Append(@, d)]
            ELSE q
  /\ UNCHANGED <<link, screen, bridge, threads, desktop>>

-----------------------------------------------------------------------------
(* Events of the workers: the GUI thread *)

\* Mutant: what waits to be painted survives a change of the size.
ShownOver(e) ==
  /\ fb' = e.size
  /\ state' = IF e.kind = "connected" THEN "connected" ELSE state
  /\ UNCHANGED <<worker, retiring, stop, reapTimer, updates>>

\* _handle_worker_event for an event of the current generation.
Shown(e) ==
  /\ \/ /\ fb' = e.size
        /\ state' = IF e.kind = "connected" THEN "connected" ELSE state
        /\ UNCHANGED <<worker, retiring, stop, reapTimer>>
     \/ \* the QImage cannot be allocated: _fb is a null image
        /\ fb' = None
        /\ state' = "error"
        /\ worker' = NoWorker
        /\ retiring' = retiring \cup Active
        /\ StopActive
        /\ reapTimer' = (reapTimer \/ Active # {})
  /\ updates' = {}

Failed ==
  /\ state' = "error"
  /\ UNCHANGED <<worker, retiring, stop, reapTimer, screen>>

Ended ==
  /\ worker' = NoWorker
  /\ retiring' = retiring \cup Active
  /\ reapTimer' = (reapTimer \/ Active # {})
  /\ state' = IF state = "error" THEN "error" ELSE "disconnected"
  /\ UNCHANGED <<stop, screen>>

Drawn(e) ==
  /\ updates' = IF state = "connected" /\ fb # None
                  THEN updates \cup {[gen |-> e.gen, size |-> e.size]}
                  ELSE updates
  /\ UNCHANGED <<worker, retiring, stop, reapTimer, state, fb>>

\* Mutant: events of other generations are handled too.
HandleAny(e) ==
  \/ e.kind \in {"connected", "resize"} /\ Shown(e)
  \/ e.kind = "error" /\ Failed
  \/ e.kind = "disconnected" /\ Ended
  \/ e.kind = "frame" /\ Drawn(e)

Handle(e) ==
  \/ /\ e.gen # generation
     /\ UNCHANGED <<worker, retiring, stop, reapTimer, state, screen>>
  \/ /\ e.gen = generation
     /\ \/ e.kind \in {"connected", "resize"} /\ Shown(e)
        \/ e.kind = "error" /\ Failed
        \/ e.kind = "disconnected" /\ Ended
        \/ e.kind = "frame" /\ Drawn(e)

\* A queued call of _drain_worker_events begins.
Drain ==
  /\ GuiFree /\ wakeups > 0
  /\ wakeups' = wakeups - 1
  /\ draining' = IF closing THEN 0 ELSE MaxPerTick
  /\ UNCHANGED <<link, screen, depths, q, events, scheduled, threads, desktop>>

\* It finds the deque empty.
DrainEnds ==
  /\ draining > 0 /\ events = <<>>
  /\ scheduled' = FALSE
  /\ draining' = 0
  /\ UNCHANGED <<link, screen, depths, q, events, wakeups, threads, desktop>>

\* It takes one event; after the last one of the tick it calls itself again.
DrainEvent ==
  /\ draining > 0 /\ events # <<>>
  /\ events' = Tail(events)
  /\ draining' = draining - 1
  /\ wakeups' = IF draining = 1 THEN wakeups + 1 ELSE wakeups
  /\ Handle(Head(events))
  /\ UNCHANGED <<generation, pendingConnect, closing, depths, q, scheduled,
                 pc, emit, rfb, desktop>>

\* The paint timer
ApplyUpdates ==
  /\ GuiFree /\ updates # {}
  /\ updates' = {}
  /\ UNCHANGED <<link, fb, depths, q, bridge, threads, desktop>>

-----------------------------------------------------------------------------
(* The worker thread of generation g *)

Goto(g, p) == pc' = [pc EXCEPT ![g] = p]

\* _enqueue_worker_event, up to the emission of the signal
Enqueue(g, kind, s) ==
  IF closing
    THEN UNCHANGED <<events, scheduled, emit>>
    ELSE /\ events' = Append(events, [gen |-> g, kind |-> kind, size |-> s])
         /\ scheduled' = TRUE
         /\ emit' = [emit EXCEPT ![g] = ~scheduled]

Emit(g) ==
  /\ emit[g]
  /\ emit' = [emit EXCEPT ![g] = FALSE]
  /\ wakeups' = wakeups + 1
  /\ UNCHANGED <<link, screen, depths, q, events, scheduled, draining, pc,
                 stop, rfb, desktop>>

At(g, p) == pc[g] = p /\ ~emit[g]

\* What a worker step leaves alone
Elsewhere == UNCHANGED <<link, screen, depths, wakeups, draining, stop, desktop>>
Quiet == UNCHANGED <<events, scheduled, emit>>

\* _connect and _handshake, and the event with the size it learnt
Connected(g) ==
  /\ At(g, "dial") /\ ~stop[g]
  /\ rfb' = [rfb EXCEPT ![g].told = size]
  /\ Enqueue(g, "connected", size)
  /\ Goto(g, "setup")
  /\ Elsewhere /\ UNCHANGED q

\* The first pixel format and request
Setup(g) ==
  /\ At(g, "setup") /\ ~stop[g]
  /\ rfb' = [rfb EXCEPT ![g].wire = <<rfb[g].depth>>, ![g].outstanding = TRUE]
  /\ Goto(g, "loop")
  /\ Elsewhere /\ Quiet /\ UNCHANGED q

\* Mutant: choosing the present depth again does not cancel a pending one.
WantedStays(depth, pending, cmds) ==
  IF cmds = <<>> \/ cmds[Len(cmds)] = depth THEN pending ELSE cmds[Len(cmds)]

\* _request_depth for every command: the last one decides.
Wanted(depth, pending, cmds) ==
  IF cmds = <<>> THEN pending
  ELSE IF cmds[Len(cmds)] = depth THEN None ELSE cmds[Len(cmds)]

\* Mutant: a depth is applied while a response is on its way.
AppliedAtOnce(r) ==
  IF r.pending = None THEN r
  ELSE [r EXCEPT !.depth = r.pending, !.pending = None, !.outstanding = TRUE,
                 !.wire = Append(@, r.pending)]

\* _maybe_apply_pending_control
Applied(r) ==
  IF r.outstanding \/ r.pending = None THEN r
  ELSE [r EXCEPT !.depth = r.pending, !.pending = None, !.outstanding = TRUE,
                 !.wire = Append(@, r.pending)]

\* The top of _main_loop, reached after a message or when SOCK_TIMEOUT passed
\* without one: the queue is drained, a pending depth applied.
Drained(g) == Applied([rfb[g] EXCEPT !.pending = Wanted(rfb[g].depth, @, q[g])])

LoopTop(g) ==
  /\ At(g, "loop") \/ (At(g, "recv") /\ rfb[g].inbox = <<>>)
  /\ ~stop[g]
  /\ q' = [q EXCEPT ![g] = <<>>]
  /\ Goto(g, "recv")
  /\ Elsewhere /\ Quiet

\* KEEP_ALIVE has not passed, or an answer is outstanding.
Waits(g) ==
  /\ LoopTop(g)
  /\ rfb' = [rfb EXCEPT ![g] = Drained(g)]

KeepsAlive(g) ==
  /\ LoopTop(g)
  /\ ~Drained(g).outstanding
  /\ rfb' = [rfb EXCEPT ![g] = [Drained(g) EXCEPT !.wire = Append(@, None),
                                                  !.outstanding = TRUE]]

RecvUpdate(g) ==
  /\ At(g, "recv") /\ ~stop[g] /\ rfb[g].inbox # <<>>
  /\ rfb' = [rfb EXCEPT ![g].inbox = Tail(@),
                        ![g].reading = Head(rfb[g].inbox).format,
                        ![g].rects = Head(rfb[g].inbox).rects]
  /\ Goto(g, "update")
  /\ Elsewhere /\ Quiet /\ UNCHANGED q

\* One rectangle of _handle_update; bytes that are already in the buffer are
\* read even after stop().
Rect(g) ==
  /\ At(g, "update") /\ rfb[g].rects # <<>>
  /\ Enqueue(g, Head(rfb[g].rects).kind, Head(rfb[g].rects).size)
  /\ rfb' = [rfb EXCEPT ![g].rects = Tail(@)]
  /\ Elsewhere /\ UNCHANGED <<q, pc>>

UpdateDone(g) ==
  /\ At(g, "update") /\ rfb[g].rects = <<>> /\ ~stop[g]
  /\ rfb' = [rfb EXCEPT ![g] = Applied([@ EXCEPT !.outstanding = FALSE])]
  /\ Goto(g, "loop")
  /\ Elsewhere /\ Quiet /\ UNCHANGED q

\* The server, the network or the protocol fails at a blocking call.
Breaks(g) ==
  /\ pc[g] \in Blocked /\ ~emit[g] /\ ~stop[g]
  /\ Enqueue(g, "error", None)
  /\ Goto(g, "final")
  /\ Elsewhere /\ UNCHANGED <<q, rfb>>

\* stop() closed the socket: no error is reported.
Stopped(g) ==
  /\ pc[g] \in Blocked /\ ~emit[g] /\ stop[g]
  /\ Goto(g, "final")
  /\ Elsewhere /\ Quiet /\ UNCHANGED <<q, rfb>>

\* run(): finally
Finish(g) ==
  /\ At(g, "final")
  /\ Enqueue(g, "disconnected", None)
  /\ Goto(g, "ended")
  /\ Elsewhere /\ UNCHANGED <<q, rfb>>

\* The thread has ended; only that is looked at from now on.
Dies(g) ==
  /\ At(g, "ended")
  /\ Goto(g, "dead")
  /\ q' = [q EXCEPT ![g] = <<>>]
  /\ rfb' = [rfb EXCEPT ![g] = Fresh(FirstDepth, FirstSize)]
  /\ stop' = [stop EXCEPT ![g] = FALSE]
  /\ Quiet
  /\ UNCHANGED <<link, screen, depths, wakeups, draining, desktop>>

-----------------------------------------------------------------------------
(* The RFB server (x11vnc): it answers requests in order, each when something *)
(* on the screen changed, in the pixel format it was told last.               *)

OnlyRfb == UNCHANGED <<link, screen, depths, q, bridge, pc, stop, emit>>

ServerAnswers(g) ==
  /\ pc[g] \in Talking /\ rfb[g].wire # <<>> /\ Len(events) < MaxEvents
  /\ LET request == Head(rfb[g].wire)
         format == IF request = None THEN rfb[g].format ELSE request
         resize == IF rfb[g].told = size THEN <<>>
                   ELSE <<[kind |-> "resize", size |-> size]>>
         frame == <<[kind |-> "frame", size |-> size]>>
     IN  rfb' = [rfb EXCEPT ![g].wire = Tail(@), ![g].format = format,
                            ![g].told = size,
                            ![g].inbox = Append(@, [format |-> format,
                                                    rects |-> resize \o frame])]
  /\ OnlyRfb /\ UNCHANGED desktop

ScreenResizes ==
  /\ resizes < MaxResizes
  /\ resizes' = resizes + 1
  /\ size' \in Sizes \ {size}
  /\ OnlyRfb /\ UNCHANGED rfb

-----------------------------------------------------------------------------
(* The specification *)

Thread(g) ==
  \/ Emit(g) \/ Connected(g) \/ Setup(g)
  \/ Waits(g) \/ KeepsAlive(g) \/ RecvUpdate(g) \/ Rect(g) \/ UpdateDone(g)
  \/ Breaks(g) \/ Stopped(g) \/ Finish(g) \/ Dies(g)

Gui ==
  \/ Drain \/ DrainEnds \/ DrainEvent \/ ApplyUpdates
  \/ ReapWorkers

Operator ==
  \/ ConnectVnc \/ DisconnectVnc \/ Cleanup
  \/ \E d \in Depths : SetDepth(d)

Server ==
  \/ \E g \in Gens : ServerAnswers(g)
  \/ ScreenResizes

Next ==
  \/ \E g \in Gens : Thread(g)
  \/ Gui \/ Operator \/ Server

Spec == Init /\ [][Next]_vars

\* Threads run and the event loop serves its queued calls and timers.  A
\* request is sent when KEEP_ALIVE has passed, however often the loop turned
\* before.  That the server answers is an assumption on the register.
Fairness ==
  /\ WF_vars(Drain) /\ WF_vars(DrainEnds \/ DrainEvent) /\ WF_vars(ApplyUpdates)
  /\ WF_vars(ReapWorkers)
  /\ \A g \in Gens :
       WF_vars(Thread(g)) /\ SF_vars(KeepsAlive(g)) /\ WF_vars(ServerAnswers(g))

FairSpec == Spec /\ Fairness

-----------------------------------------------------------------------------
(* Properties *)

\* However often the operator reconnects, at most one worker thread of the
\* preview runs: _start_pending_connection waits for the retired ones.
OneWorker == \A g, h \in Gens : Alive(g) /\ Alive(h) => g = h

\* What is about to be painted came from the current connection and was made
\* for the framebuffer of its size, although both change while frames wait in
\* the deque.
UpdatesFit ==
  \A u \in updates : u = [gen |-> generation, size |-> fb]

\* "Connected" is only shown while the worker of the current generation is the
\* one in use and has completed its handshake.
ConnectedIsCurrent ==
  state = "connected" /\ ~closing =>
    /\ worker = generation /\ fb # None
    /\ pc[worker] \notin {"none", "dial"}

\* An update is decoded with the colour depth the server encoded it with, also
\* when the depth was changed after it was requested.
DecodedAsSent ==
  \A g \in Gens : pc[g] = "update" => rfb[g].reading = rfb[g].depth

\* Events in the deque have exactly one wake-up under way: a worker about to emit
\* it, a queued call or a running drain.  So none is forgotten or doubled.
Emitting == {g \in Gens : emit[g]}
WakeUpOnce ==
  ~closing =>
    /\ events # <<>> => scheduled
    /\ wakeups + Cardinality(Emitting) + (IF draining > 0 THEN 1 ELSE 0)
         = (IF scheduled THEN 1 ELSE 0)

\* The GUI is told what its worker does: every event once, none of an old one.
EventsAreCurrent == ConnectedIsCurrent /\ WakeUpOnce

\* "Connecting" is left: a connection that waits for a retired worker is
\* started, and one that was started succeeds or fails.
ConnectingEnds == state = "connecting" ~> state # "connecting" \/ closing

\* If the viewer stays connected, the server ends up sending the depth that the
\* operator chose last.
DepthIsApplied ==
  <>[](state = "connected" /\ ~closing) =>
    <>[](worker # NoWorker /\ rfb[worker].format = depthIdx)
=============================================================================
