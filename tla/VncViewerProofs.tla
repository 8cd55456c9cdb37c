-------------------------- MODULE VncViewerProofs --------------------------
(***************************************************************************)
(* TLAPS proofs about VncViewer, for any sizes and depths and any number   *)
(* of connections, changes and events.                                     *)
(*                                                                         *)
(* OneWorker follows from Owned: a running thread is the one in use or a   *)
(* retired one.  ConnectedIsCurrent needs that the first event of a        *)
(* connection is "connected" and finds its worker in use (First, InUse).   *)
(* DecodedAsSent needs what the client and the server have in common while *)
(* a request is under way (Agreed).  WakeUpOnce is proved from OneCall,    *)
(* which says where the wake-up is.  UpdatesFit needs the way of a size    *)
(* from the server to the screen: a frame in the deque, or still to be     *)
(* read, comes after the size it was made for (FramesFit, RestFits).       *)
(***************************************************************************)
EXTENDS VncViewer, FiniteSetTheorems, TLAPS

\* Every running thread is the one in use or a retired one.
Owned == \A g \in Gens : Alive(g) => g \in retiring \cup Active

\* No thread was started for a later generation, none for one that waits.
Unstarted ==
  /\ ~closing => generation <= MaxCalls
  /\ \A g \in Gens : g > generation => pc[g] = "none"
  /\ pendingConnect =>
       worker = NoWorker /\ ~closing /\ generation \in Gens /\ pc[generation] = "none"

\* The worker in use is the one of the current generation, and the thread of the
\* current generation is in use until it has connected.
InUse ==
  /\ worker # NoWorker => worker = generation /\ ~closing /\ pc[worker] # "none"
  /\ \A g \in Gens : g = generation /\ pc[g] = "dial" => worker = g
  /\ state = "connected" /\ ~closing => worker # NoWorker

\* Events with a size have one.
Sized ==
  \A i \in 1..Len(events) :
    events[i].kind \in {"connected", "resize", "frame"} => events[i].size \in Sizes

\* Events come from threads that have connected or failed; "connected" is the
\* first event of its thread, and its worker is in use if it is current.
First ==
  \A i \in 1..Len(events) :
    /\ pc[events[i].gen] \notin {"none", "dial"}
    /\ events[i].kind = "connected" =>
         /\ \A j \in 1..(i-1) : events[j].gen # events[i].gen
         /\ events[i].gen = generation => worker = generation

\* The wake-up is with one worker, in the event loop or in the running drain.
OneCall ==
  /\ \A g \in Gens : emit[g] => Alive(g)
  /\ ~closing =>
       /\ events # <<>> => scheduled
       /\ wakeups \in {0, 1}
       /\ \A g, h \in Gens : emit[g] /\ emit[h] => g = h
       /\ scheduled <=> wakeups = 1 \/ draining > 0 \/ \E g \in Gens : emit[g]
       /\ wakeups = 1 => draining = 0 /\ \A g \in Gens : ~emit[g]
       /\ draining > 0 => \A g \in Gens : ~emit[g]
  /\ draining > 0 => ~closing

\* At most one request is under way: written, answered or being read.  The
\* formats of the client and of the server agree on it.
Agrees(r, p) ==
  /\ p \in {"dial", "setup"} => r.wire = <<>> /\ r.inbox = <<>> /\ ~r.outstanding
  /\ p \in Talking =>
       /\ Len(r.wire) <= 1 /\ Len(r.inbox) <= 1
       /\ r.wire # <<>> =>
            /\ r.outstanding /\ r.inbox = <<>> /\ p # "update"
            /\ r.wire[1] \in {r.depth} \/ (r.wire[1] = None /\ r.format = r.depth)
       /\ r.wire = <<>> => r.format = r.depth
       /\ r.inbox # <<>> =>
            r.outstanding /\ p # "update" /\ r.inbox[1].format = r.depth
       /\ p = "update" => r.outstanding /\ r.reading = r.depth
Agreed == \A g \in Gens : Agrees(rfb[g], pc[g])

\* The events of the connection that change the size of what is shown.
Sizing(e) == e.gen = generation /\ e.kind \in {"connected", "resize"}

\* When the first n events are handled, the picture has size s, or there is none.
ShowsAfter(n, s) ==
  \/ \E i \in 1..n : /\ Sizing(events[i]) /\ events[i].size = s
                     /\ \A j \in (i + 1)..n : ~Sizing(events[j])
  \/ /\ \A j \in 1..n : ~Sizing(events[j])
     /\ state = "connected" /\ fb # None => fb = s

\* A frame in the deque has the size that is shown when its turn comes.
FramesFit ==
  ~closing =>
    \A j \in 1..Len(events), s \in Sizes :
      events[j] = [gen |-> generation, kind |-> "frame", size |-> s] => ShowsAfter(j - 1, s)

\* What the worker has still to read of an answer: nothing, a frame of the size
\* that the GUI was told, or a new size and then its frame.
Rest(r, p) ==
  IF p = "update" THEN r.rects ELSE IF r.inbox = <<>> THEN <<>> ELSE r.inbox[1].rects
Framed(s) == [kind |-> "frame", size |-> s]
Resized(s) == [kind |-> "resize", size |-> s]
Fits(rest, s) ==
  \/ rest \in {<<>>, <<Framed(s)>>} /\ ShowsAfter(Len(events), s)
  \/ rest = <<Resized(s), Framed(s)>>
RestFits ==
  ~closing =>
    \A g \in Gens, s \in Sizes :
      g = generation /\ pc[g] \in {"setup"} \cup Talking /\ rfb[g].told = s =>
        Fits(Rest(rfb[g], pc[g]), s)

FitInv == UpdatesFit /\ FramesFit /\ RestFits

IInv ==
  /\ TypeOK /\ Owned /\ OneWorker /\ Unstarted /\ InUse /\ Sized /\ First
  /\ ConnectedIsCurrent /\ OneCall /\ Agreed

-----------------------------------------------------------------------------
(* Facts about the operators *)

LEMMA GensAreNat == Gens \subseteq Nat \ {0} /\ NoWorker \notin Gens
BY ViewerAssumption DEF Gens, NoWorker

LEMMA FreshType ==
  ASSUME NEW d \in Depths, NEW s \in Sizes
  PROVE  Fresh(d, s) \in Protocol
BY DEF Fresh, Protocol

LEMMA AppliedType ==
  ASSUME NEW r \in Protocol
  PROVE  Applied(r) \in Protocol
<1>1. CASE r.outstanding \/ r.pending = None
  BY <1>1 DEF Applied
<1>2. CASE ~(r.outstanding \/ r.pending = None)
  <2>1. r.pending \in Depths /\ Append(r.wire, r.pending) \in Seq(Requests)
    BY <1>2 DEF Protocol, Requests
  <2> QED
    BY <1>2, <2>1 DEF Applied, Protocol
<1> QED
  BY <1>1, <1>2

\* The worker's view after it drained its queue is well-typed.
LEMMA DrainedType ==
  ASSUME TypeOK, NEW g \in Gens
  PROVE  Drained(g) \in Protocol
<1>1. Wanted(rfb[g].depth, rfb[g].pending, q[g]) \in Depths \cup {None}
  BY DEF TypeOK, Wanted, Protocol
<1> DEFINE r == [rfb[g] EXCEPT !.pending = Wanted(rfb[g].depth, @, q[g])]
<1>2. r \in Protocol
  <2>1. rfb[g] \in Protocol
    BY DEF TypeOK
  <2> QED
    BY <1>1, <2>1 DEF Protocol
<1> HIDE DEF r
<1>3. Applied(r) \in Protocol
  BY <1>2, AppliedType
<1> QED
  BY <1>3 DEF Drained, r

\* Taking an event leaves the others in their order.
LEMMA TailEvents ==
  ASSUME TypeOK, events # <<>>, events' = Tail(events)
  PROVE  /\ events' \in Seq(Events)
         /\ Len(events') = Len(events) - 1
         /\ \A i \in 1..Len(events') : events'[i] = events[i + 1]
         /\ Head(events) = events[1] /\ Head(events) \in Events
         /\ 1 \in 1..Len(events)
BY DEF TypeOK

LEMMA HeadEvent ==
  ASSUME TypeOK, events # <<>>
  PROVE  Head(events) = events[1] /\ Head(events) \in Events /\ 1 \in 1..Len(events)
BY DEF TypeOK

\* What a new event changes.
LEMMA EnqueueEvents ==
  ASSUME TypeOK, NEW g \in Gens, NEW k \in Kinds, NEW s \in Sizes \cup {None},
         Enqueue(g, k, s)
  PROVE  \/ closing /\ UNCHANGED <<events, scheduled, emit>>
         \/ /\ ~closing
            /\ events' \in Seq(Events) /\ Len(events') = Len(events) + 1
            /\ \A i \in 1..Len(events) : events'[i] = events[i]
            /\ events'[Len(events) + 1] = [gen |-> g, kind |-> k, size |-> s]
            /\ scheduled' = TRUE
            /\ emit' = [emit EXCEPT ![g] = ~scheduled]
<1>1. [gen |-> g, kind |-> k, size |-> s] \in Events
  BY DEF Events
<1>2. CASE closing
  BY <1>2 DEF Enqueue
<1>3. CASE ~closing
  <2> DEFINE e == [gen |-> g, kind |-> k, size |-> s]
  <2>1. events \in Seq(Events) /\ events' = Append(events, e)
    BY <1>3 DEF Enqueue, TypeOK
  <2>2. scheduled' = TRUE /\ emit' = [emit EXCEPT ![g] = ~scheduled]
    BY <1>3, Zenon DEF Enqueue
  <2> HIDE DEF e
  <2>3. e \in Events
    BY <1>1 DEF e
  <2>4. /\ events' \in Seq(Events) /\ Len(events') = Len(events) + 1
        /\ \A i \in 1..Len(events) : events'[i] = events[i]
        /\ events'[Len(events) + 1] = e
    BY <2>1, <2>3
  <2> QED
    BY <1>3, <2>2, <2>4 DEF e
<1> QED
  BY <1>2, <1>3

-----------------------------------------------------------------------------
(* The initial states *)

LEMMA InitIInv == Init => IInv
<1> SUFFICES ASSUME Init PROVE IInv
  OBVIOUS
<1> USE ViewerAssumption, GensAreNat
<1>1. TypeOK
  <2>1. /\ worker \in Gens \cup {NoWorker} /\ retiring \subseteq Gens
        /\ generation \in 0..MaxCalls + 1
        /\ depthCalls \in 0..MaxDepths /\ draining \in 0..MaxPerTick
        /\ resizes \in 0..MaxResizes /\ wakeups \in Nat
    BY DEF Init
  <2>2. /\ pendingConnect \in BOOLEAN /\ closing \in BOOLEAN /\ reapTimer \in BOOLEAN
        /\ scheduled \in BOOLEAN /\ state \in States
        /\ fb \in Sizes \cup {None} /\ updates \subseteq [gen : Gens, size : Sizes]
        /\ depthIdx \in Depths /\ size \in Sizes
    BY DEF Init, States
  <2>3. q \in [Gens -> Seq(Depths)] /\ events \in Seq(Events)
    BY DEF Init
  <2>4. /\ pc \in [Gens -> {"none", "final", "ended", "dead"} \cup Blocked]
        /\ stop \in [Gens -> BOOLEAN] /\ emit \in [Gens -> BOOLEAN]
        /\ rfb \in [Gens -> Protocol]
    BY FreshType DEF Init
  <2> QED
    BY <2>1, <2>2, <2>3, <2>4 DEF TypeOK
<1>2. Owned /\ OneWorker /\ Unstarted /\ InUse /\ Sized /\ First /\ ConnectedIsCurrent
  BY DEF Init, Owned, OneWorker, Alive, Unstarted, InUse, Sized, First,
         ConnectedIsCurrent, NoWorker
<1>3. OneCall
  BY DEF Init, OneCall
<1>4. Agreed
  BY DEF Init, Agreed, Agrees, Talking
<1> QED
  BY <1>1, <1>2, <1>3, <1>4 DEF IInv

-----------------------------------------------------------------------------
(* Types *)

LEMMA StartType ==
  ASSUME TypeOK, NEW g \in Gens, NEW old \in SUBSET Gens, StartPending(g, old)
  PROVE  /\ worker' \in Gens \cup {NoWorker} /\ retiring' \subseteq Gens
         /\ pendingConnect' \in BOOLEAN /\ state' \in States
         /\ pc' \in [Gens -> {"none", "final", "ended", "dead"} \cup Blocked]
         /\ rfb' \in [Gens -> Protocol]
<1>1. Fresh(depthIdx, size) \in Protocol
  BY FreshType DEF TypeOK
<1> QED
  BY <1>1 DEF StartPending, TypeOK, States, Blocked

LEMMA HandleType ==
  ASSUME TypeOK, Sized, events # <<>>, Handle(Head(events))
  PROVE  /\ worker' \in Gens \cup {NoWorker} /\ retiring' \subseteq Gens
         /\ stop' \in [Gens -> BOOLEAN] /\ reapTimer' \in BOOLEAN
         /\ state' \in States /\ fb' \in Sizes \cup {None}
         /\ updates' \subseteq [gen : Gens, size : Sizes]
<1> DEFINE e == Head(events)
<1>1. /\ e \in Events /\ e.gen \in Gens /\ e.size \in Sizes \cup {None}
      /\ e.kind \in {"connected", "resize", "frame"} => e.size \in Sizes
  <2>1. e = events[1] /\ e \in Events /\ 1 \in 1..Len(events)
    BY DEF TypeOK
  <2> QED
    BY <2>1 DEF Sized, Events
<1> HIDE DEF e
<1>2. retiring \cup Active \subseteq Gens
  BY DEF TypeOK, Active
<1>3. CASE UNCHANGED <<worker, retiring, stop, reapTimer, state, screen>>
  BY <1>3 DEF TypeOK, screen
<1>4. CASE Shown(e)
  BY <1>4, <1>1, <1>2 DEF Shown, TypeOK, States, StopActive
<1>5. CASE Failed
  BY <1>5 DEF Failed, TypeOK, States, screen
<1>6. CASE Ended
  BY <1>6, <1>2 DEF Ended, TypeOK, States, screen
<1>7. CASE e.kind = "frame" /\ Drawn(e)
  BY <1>7, <1>1 DEF Drawn, TypeOK
<1> QED
  BY <1>3, <1>4, <1>5, <1>6, <1>7 DEF Handle, e

LEMMA EnqueueType ==
  ASSUME TypeOK, NEW g \in Gens, NEW k \in Kinds, NEW s \in Sizes \cup {None},
         Enqueue(g, k, s)
  PROVE  /\ events' \in Seq(Events) /\ scheduled' \in BOOLEAN
         /\ emit' \in [Gens -> BOOLEAN]
BY EnqueueEvents DEF TypeOK

LEMMA ThreadType ==
  ASSUME TypeOK, NEW g \in Gens, Thread(g)
  PROVE  TypeOK'
<1> DEFINE r == rfb[g]
<1>0. /\ r \in Protocol /\ size \in Sizes /\ FirstSize \in Sizes
      /\ FirstDepth \in Depths
  BY ViewerAssumption DEF TypeOK
<1> DEFINE Pcs == {"none", "final", "ended", "dead"} \cup Blocked
<1>1. CASE Emit(g)
  BY <1>1 DEF Emit, TypeOK, link, screen, depths, desktop
<1>2. ASSUME Goto(g, "setup") \/ Goto(g, "loop") \/ Goto(g, "recv") \/ Goto(g, "update")
             \/ Goto(g, "final") \/ Goto(g, "ended") \/ Goto(g, "dead")
      PROVE  pc' \in [Gens -> Pcs]
  BY <1>2 DEF Goto, TypeOK, Blocked
<1>3. ASSUME Elsewhere, pc' \in [Gens -> Pcs], q' \in [Gens -> Seq(Depths)],
             rfb' \in [Gens -> Protocol], events' \in Seq(Events),
             scheduled' \in BOOLEAN, emit' \in [Gens -> BOOLEAN]
      PROVE  TypeOK'
  BY <1>3 DEF Elsewhere, TypeOK, link, screen, depths, desktop
<1>4. ASSUME Quiet
      PROVE  /\ events' \in Seq(Events) /\ scheduled' \in BOOLEAN
             /\ emit' \in [Gens -> BOOLEAN]
  BY <1>4 DEF Quiet, TypeOK
<1>5. /\ q \in [Gens -> Seq(Depths)] /\ rfb \in [Gens -> Protocol]
      /\ pc \in [Gens -> Pcs]
  BY DEF TypeOK
<1> HIDE DEF Pcs
<1>6. CASE Connected(g)
  <2>1. [r EXCEPT !.told = size] \in Protocol
    BY <1>0 DEF Protocol
  <2>2. rfb' = [rfb EXCEPT ![g] = [r EXCEPT !.told = size]]
    BY <1>6 DEF Connected
  <2>3. rfb' \in [Gens -> Protocol]
    BY <2>1, <2>2, <1>5
  <2> QED
    BY <2>3, <1>6, <1>2, <1>3, <1>5, EnqueueType, <1>0 DEF Connected, Kinds
<1>7. CASE Setup(g)
  <2>1. [r EXCEPT !.wire = <<r.depth>>, !.outstanding = TRUE] \in Protocol
    <3>1. r.depth \in Requests
      BY <1>0 DEF Protocol, Requests
    <3>2. <<r.depth>> \in Seq(Requests)
      BY <3>1
    <3> QED
      BY <3>2, <1>0 DEF Protocol
  <2>2. rfb' = [rfb EXCEPT ![g] = [r EXCEPT !.wire = <<r.depth>>, !.outstanding = TRUE]]
    BY <1>7 DEF Setup
  <2> QED
    BY <2>1, <2>2, <1>7, <1>2, <1>3, <1>4, <1>5 DEF Setup
<1>8. CASE Waits(g)
  <2>1. q' \in [Gens -> Seq(Depths)] /\ rfb' \in [Gens -> Protocol]
    BY <1>8, <1>5, DrainedType DEF Waits, LoopTop
  <2> QED
    BY <2>1, <1>8, <1>2, <1>3, <1>4 DEF Waits, LoopTop
<1>9. CASE KeepsAlive(g)
  <2> DEFINE d == Drained(g)
  <2>1. d \in Protocol
    BY DrainedType
  <2>2. rfb' = [rfb EXCEPT ![g] = [d EXCEPT !.wire = Append(@, None), !.outstanding = TRUE]]
    BY <1>9 DEF KeepsAlive
  <2> HIDE DEF d
  <2>3. Append(d.wire, None) \in Seq(Requests)
    BY <2>1 DEF Protocol, Requests
  <2>4. [d EXCEPT !.wire = Append(@, None), !.outstanding = TRUE] \in Protocol
    BY <2>1, <2>3 DEF Protocol
  <2>5. q' \in [Gens -> Seq(Depths)] /\ rfb' \in [Gens -> Protocol]
    BY <1>9, <1>5, <2>2, <2>4 DEF KeepsAlive, LoopTop
  <2> QED
    BY <2>5, <1>9, <1>2, <1>3, <1>4 DEF KeepsAlive, LoopTop
<1>10. CASE RecvUpdate(g)
  <2> DEFINE r1 == [r EXCEPT !.inbox = Tail(@), !.reading = Head(r.inbox).format,
                             !.rects = Head(r.inbox).rects]
  <2>1. r.inbox # <<>> /\ rfb' = [rfb EXCEPT ![g] = r1]
    BY <1>10 DEF RecvUpdate
  <2>2. /\ Head(r.inbox) \in [format : Depths, rects : Seq(Rects)]
        /\ Tail(r.inbox) \in Seq([format : Depths, rects : Seq(Rects)])
    <3> DEFINE Answers == [format : Depths, rects : Seq(Rects)]
    <3>1. r.inbox \in Seq(Answers)
      BY <1>0 DEF Protocol
    <3> HIDE DEF Answers
    <3>2. Head(r.inbox) \in Answers /\ Tail(r.inbox) \in Seq(Answers)
      BY <2>1, <3>1
    <3> QED
      BY <3>2 DEF Answers
  <2>3. r1 \in Protocol
    BY <2>2, <1>0 DEF Protocol
  <2> HIDE DEF r1
  <2> QED
    BY <2>1, <2>3, <1>10, <1>2, <1>3, <1>4, <1>5 DEF RecvUpdate
<1>11. CASE Rect(g)
  <2> DEFINE r1 == [r EXCEPT !.rects = Tail(@)]
  <2>1. r.rects # <<>> /\ rfb' = [rfb EXCEPT ![g] = r1]
    BY <1>11 DEF Rect
  <2>2. Head(r.rects) \in Rects /\ Tail(r.rects) \in Seq(Rects)
    <3>1. r.rects \in Seq(Rects)
      BY <1>0 DEF Protocol
    <3> QED
      BY <2>1, <3>1
  <2>3. r1 \in Protocol
    BY <2>2, <1>0 DEF Protocol
  <2> HIDE DEF r1
  <2>4. Head(r.rects).kind \in Kinds /\ Head(r.rects).size \in Sizes \cup {None}
    BY <2>2 DEF Rects, Kinds
  <2> QED
    BY <2>1, <2>3, <2>4, <1>11, <1>3, <1>5, EnqueueType DEF Rect
<1>12. CASE UpdateDone(g)
  <2>1. [r EXCEPT !.outstanding = FALSE] \in Protocol
    BY <1>0 DEF Protocol
  <2>2. Applied([r EXCEPT !.outstanding = FALSE]) \in Protocol
    BY <2>1, AppliedType
  <2>3. rfb' \in [Gens -> Protocol]
    BY <1>12, <2>2, <1>5 DEF UpdateDone
  <2> QED
    BY <2>3, <1>12, <1>2, <1>3, <1>4, <1>5 DEF UpdateDone
<1>13. CASE Breaks(g)
  BY <1>13, <1>2, <1>3, <1>5, EnqueueType DEF Breaks, Kinds
<1>14. CASE Stopped(g)
  BY <1>14, <1>2, <1>3, <1>4, <1>5 DEF Stopped
<1>15. CASE Finish(g)
  BY <1>15, <1>2, <1>3, <1>5, EnqueueType DEF Finish, Kinds
<1>16. CASE Dies(g)
  <2>1. rfb' \in [Gens -> Protocol]
    BY <1>16, <1>0, <1>5, FreshType DEF Dies
  <2>2. stop' \in [Gens -> BOOLEAN] /\ q' \in [Gens -> Seq(Depths)]
    BY <1>16 DEF Dies, TypeOK
  <2>3. pc' \in [Gens -> Pcs]
    BY <1>16, <1>2 DEF Dies
  <2> QED
    BY <2>1, <2>2, <2>3, <1>4, <1>16 DEF Dies, Pcs, TypeOK, link, screen, depths, desktop
<1> QED
  BY <1>1, <1>6, <1>7, <1>8, <1>9, <1>10, <1>11, <1>12, <1>13, <1>14, <1>15, <1>16
  DEF Thread

LEMMA GuiType ==
  ASSUME TypeOK, Sized, Unstarted, Gui \/ Operator \/ Server
  PROVE  TypeOK'
<1> USE ViewerAssumption, GensAreNat
<1> DEFINE Pcs == {"none", "final", "ended", "dead"} \cup Blocked
<1>0. retiring \cup Active \subseteq Gens
  BY DEF TypeOK, Active
<1>1. CASE Drain
  <2>1. draining' \in 0..MaxPerTick /\ wakeups' \in Nat
    BY <1>1 DEF Drain, TypeOK
  <2> QED
    BY <2>1, <1>1 DEF Drain, TypeOK, link, screen, depths, threads, desktop
<1>2. CASE DrainEnds
  <2>1. draining' \in 0..MaxPerTick
    BY <1>2 DEF DrainEnds
  <2>2. scheduled' = FALSE
    BY <1>2, Zenon DEF DrainEnds
  <2> QED
    BY <2>1, <2>2, <1>2 DEF DrainEnds, TypeOK, link, screen, depths, threads, desktop
<1>3. CASE DrainEvent
  <2>1. draining' \in 0..MaxPerTick /\ wakeups' \in Nat
    BY <1>3 DEF DrainEvent, TypeOK
  <2>2. events' \in Seq(Events)
    BY <1>3, TailEvents DEF DrainEvent
  <2> QED
    BY <1>3, <2>1, <2>2, HandleType DEF DrainEvent, TypeOK, depths, desktop
<1>4. CASE ApplyUpdates
  BY <1>4 DEF ApplyUpdates, TypeOK, link, depths, bridge, threads, desktop
<1>5. CASE ReapWorkers
  <2>1. /\ worker' \in Gens \cup {NoWorker} /\ retiring' \subseteq Gens
        /\ pendingConnect' \in BOOLEAN /\ state' \in States
        /\ pc' \in [Gens -> Pcs] /\ rfb' \in [Gens -> Protocol]
    <3>1. CASE pendingConnect /\ StartPending(generation, {})
      <4>1. generation \in Gens
        BY <3>1 DEF Unstarted
      <4> QED
        BY <3>1, <4>1, StartType
    <3>2. CASE UNCHANGED <<worker, pendingConnect, state, pc, rfb>> /\ retiring' \subseteq retiring
      BY <3>2 DEF TypeOK
    <3> QED
      BY <3>1, <3>2, <1>5 DEF ReapWorkers
  <2> QED
    BY <2>1, <1>5 DEF ReapWorkers, TypeOK, screen, depths, bridge, desktop
<1>6. CASE ConnectVnc
  <2>1. generation + 1 \in Gens /\ generation' \in 0..MaxCalls + 1
    BY <1>6 DEF ConnectVnc, TypeOK, Gens
  <2>2. /\ worker' \in Gens \cup {NoWorker} /\ retiring' \subseteq Gens
        /\ pendingConnect' \in BOOLEAN /\ state' \in States
        /\ pc' \in [Gens -> Pcs] /\ rfb' \in [Gens -> Protocol]
    BY <1>6, <2>1, <1>0, StartType DEF ConnectVnc
  <2> QED
    BY <2>1, <2>2, <1>6 DEF ConnectVnc, StopActive, TypeOK, depths, bridge, desktop
<1>7. CASE DisconnectVnc
  <2>1. generation' \in 0..MaxCalls + 1
    BY <1>7 DEF DisconnectVnc, TypeOK
  <2> QED
    BY <2>1, <1>0, <1>7
    DEF DisconnectVnc, StopActive, TypeOK, States, depths, bridge, desktop
<1>8. CASE Cleanup
  <2>1. generation' \in 0..MaxCalls + 1
    BY <1>8 DEF Cleanup, TypeOK, Unstarted
  <2> QED
    <3>1. stop' \in [Gens -> BOOLEAN] /\ retiring' \subseteq Gens /\ events' \in Seq(Events)
      BY <1>0, <1>8 DEF Cleanup
    <3>2. /\ worker' \in Gens \cup {NoWorker} /\ pendingConnect' \in BOOLEAN
          /\ closing' \in BOOLEAN /\ reapTimer' \in BOOLEAN /\ scheduled' \in BOOLEAN
          /\ fb' \in Sizes \cup {None} /\ updates' = {}
          /\ UNCHANGED <<state, depthIdx, depthCalls, q, wakeups, draining, pc, emit, rfb, size,
                         resizes>>
      BY <1>8 DEF Cleanup, depths, desktop
    <3> QED
      BY <2>1, <3>1, <3>2 DEF TypeOK
<1>9. ASSUME NEW d \in Depths, SetDepth(d) PROVE TypeOK'
  <2>1. q' \in [Gens -> Seq(Depths)]
    <3>1. CASE worker # NoWorker
      <4>1. worker \in Gens /\ Append(q[worker], d) \in Seq(Depths)
        BY <3>1 DEF TypeOK
      <4> QED
        BY <4>1, <1>9 DEF SetDepth, TypeOK
    <3> QED
      BY <3>1, <1>9 DEF SetDepth, TypeOK
  <2>2. depthIdx' \in Depths /\ depthCalls' \in 0..MaxDepths
    BY <1>9 DEF SetDepth, TypeOK
  <2> QED
    BY <2>1, <2>2, <1>9 DEF SetDepth, TypeOK, link, screen, bridge, threads, desktop
<1>10. ASSUME NEW g \in Gens, ServerAnswers(g) PROVE TypeOK'
  <2> DEFINE r == rfb[g]
             rq == Head(r.wire)
             fmt == IF rq = None THEN r.format ELSE rq
             rs == (IF r.told = size THEN <<>> ELSE <<[kind |-> "resize", size |-> size]>>)
                   \o <<[kind |-> "frame", size |-> size]>>
             r1 == [r EXCEPT !.wire = Tail(@), !.format = fmt, !.told = size,
                             !.inbox = Append(@, [format |-> fmt, rects |-> rs])]
  <2>1. r \in Protocol /\ r.wire # <<>> /\ rfb' = [rfb EXCEPT ![g] = r1]
    BY <1>10 DEF ServerAnswers, TypeOK
  <2>2. rs \in Seq(Rects)
    <3>1. /\ [kind |-> "resize", size |-> size] \in Rects
          /\ [kind |-> "frame", size |-> size] \in Rects
      BY DEF TypeOK, Rects
    <3>2. /\ <<[kind |-> "resize", size |-> size]>> \in Seq(Rects)
          /\ <<[kind |-> "frame", size |-> size]>> \in Seq(Rects)
          /\ <<>> \in Seq(Rects)
      BY <3>1
    <3> QED
      BY <3>2
  <2>3. fmt \in Depths /\ Tail(r.wire) \in Seq(Requests)
    BY <2>1 DEF Protocol, Requests
  <2>4. r1 \in Protocol
    <3> HIDE DEF rs, fmt
    <3>1. Append(r.inbox, [format |-> fmt, rects |-> rs])
            \in Seq([format : Depths, rects : Seq(Rects)])
      BY <2>1, <2>2, <2>3 DEF Protocol
    <3> QED
      BY <3>1, <2>1, <2>3 DEF Protocol, TypeOK
  <2> HIDE DEF r1
  <2>5. rfb' \in [Gens -> Protocol]
    BY <2>1, <2>4 DEF TypeOK
  <2> QED
    BY <2>5, <1>10 DEF ServerAnswers, OnlyRfb, TypeOK, link, screen, depths, bridge, desktop
<1>11. CASE ScreenResizes
  <2>1. size' \in Sizes /\ resizes' \in 0..MaxResizes
    BY <1>11 DEF ScreenResizes, TypeOK
  <2> QED
    BY <2>1, <1>11 DEF ScreenResizes, OnlyRfb, TypeOK, link, screen, depths, bridge
<1> QED
  BY <1>1, <1>2, <1>3, <1>4, <1>5, <1>6, <1>7, <1>8, <1>9, <1>10, <1>11
  DEF Gui, Operator, Server

LEMMA TypeKept ==
  ASSUME IInv, [Next]_vars
  PROVE  TypeOK'
<1>1. TypeOK /\ Sized /\ Unstarted
  BY DEF IInv
<1>2. CASE Next
  BY <1>1, <1>2, ThreadType, GuiType DEF Next
<1>3. CASE UNCHANGED vars
  BY <1>1, <1>3 DEF TypeOK, vars, link, screen, depths, bridge, threads, desktop
<1> QED
  BY <1>2, <1>3

-----------------------------------------------------------------------------
(* The threads and the worker in use *)

\* A step of a thread leaves the connection to the GUI thread; the thread only
\* moves forward.
LEMMA ThreadMoves ==
  ASSUME TypeOK, NEW g \in Gens, Thread(g)
  PROVE  /\ UNCHANGED <<link, screen>>
         /\ \A h \in Gens : h # g => pc'[h] = pc[h]
         /\ pc'[g] # pc[g] => Alive(g) /\ pc'[g] \notin {"none", "dial"}
<1>1. UNCHANGED <<link, screen>>
  BY DEF Thread, Emit, Connected, Setup, Waits, KeepsAlive, LoopTop, RecvUpdate, Rect,
         UpdateDone, Breaks, Stopped, Finish, Dies, Elsewhere
<1>2. CASE pc' = pc
  BY <1>1, <1>2
<1>3. CASE Alive(g) /\ \E p \in {"setup", "loop", "recv", "update", "final", "ended", "dead"} :
                         Goto(g, p)
  BY <1>1, <1>3 DEF Goto, TypeOK
<1> QED
  BY <1>2, <1>3
  DEF Thread, Emit, Connected, Setup, Waits, KeepsAlive, LoopTop, RecvUpdate, Rect,
      UpdateDone, Breaks, Stopped, Finish, Dies, At, Alive, Blocked

\* The steps that matter to the connection.
LEMMA Steps ==
  ASSUME [Next]_vars
  PROVE  \/ \E g \in Gens : Thread(g)
         \/ ConnectVnc \/ DisconnectVnc \/ ReapWorkers \/ Cleanup \/ DrainEvent
         \/ UNCHANGED <<link, fb, pc, emit>>
BY DEF Next, Gui, Operator, Server, Drain, DrainEnds, ApplyUpdates, SetDepth, ServerAnswers,
       ScreenResizes, OnlyRfb, vars, link, screen, threads

\* What a start decides.
LEMMA StartMoves ==
  ASSUME TypeOK, NEW g \in Gens, NEW old \in SUBSET Gens, StartPending(g, old)
  PROVE  \/ /\ worker' = NoWorker /\ retiring' = old /\ pendingConnect' = TRUE
            /\ state' = "connecting" /\ pc' = pc
            /\ \E w \in old : Alive(w)
         \/ /\ \A w \in old : ~Alive(w)
            /\ retiring' = {} /\ pendingConnect' = FALSE
            /\ \/ /\ worker' = g /\ state' = "connecting"
                  /\ pc'[g] = "dial" /\ \A h \in Gens : h # g => pc'[h] = pc[h]
               \/ worker' = NoWorker /\ state' = "error" /\ pc' = pc
BY DEF StartPending, TypeOK

\* What an event does to the connection.
LEMMA HandleMoves ==
  ASSUME TypeOK, Sized, First, events # <<>>, NEW e, e = Head(events), Handle(e)
  PROVE  /\ e \in Events
         /\ e.gen = generation \/ UNCHANGED <<worker, retiring, state, fb, updates>>
         /\ \/ worker' = worker /\ retiring' = retiring
            \/ /\ worker' = NoWorker /\ retiring' = retiring \cup Active
               /\ state' # "connected" /\ e.gen = generation
         /\ pc[e.gen] \notin {"none", "dial"}
         /\ \/ state' # "connected"
            \/ state' = state /\ fb' = fb
            \/ state' = state /\ fb' # None
            \/ e.kind = "connected" /\ worker' = worker /\ worker = e.gen /\ fb' # None
<1>1. /\ e \in Events /\ e = events[1] /\ 1 \in 1..Len(events)
      /\ e.gen \in Gens /\ e.kind \in Kinds /\ e.size \in Sizes \cup {None}
  BY HeadEvent DEF Events
<1>2. /\ pc[e.gen] \notin {"none", "dial"}
      /\ e.kind \in {"connected", "resize"} => e.size # None
      /\ e.kind = "connected" /\ e.gen = generation => worker = generation
  BY <1>1, ViewerAssumption DEF Sized, First
<1>3. CASE UNCHANGED <<worker, retiring, stop, reapTimer, state, screen>>
  BY <1>1, <1>2, <1>3 DEF screen
<1>4. CASE e.gen = generation /\ e.kind \in {"connected", "resize"} /\ Shown(e)
  <2>1. e.size # None
    BY <1>2, <1>4
  <2>2. CASE /\ fb' = e.size
             /\ state' = IF e.kind = "connected" THEN "connected" ELSE state
             /\ UNCHANGED <<worker, retiring, stop, reapTimer>>
    BY <1>1, <1>2, <1>4, <2>1, <2>2
  <2>3. CASE worker' = NoWorker /\ retiring' = retiring \cup Active /\ state' = "error"
    BY <1>1, <1>2, <1>4, <2>3
  <2> QED
    BY <1>4, <2>2, <2>3 DEF Shown
<1>5. CASE e.gen = generation /\ Failed
  BY <1>1, <1>2, <1>5 DEF Failed, screen
<1>6. CASE e.gen = generation /\ Ended
  BY <1>1, <1>2, <1>6 DEF Ended, screen
<1>7. CASE e.gen = generation /\ Drawn(e)
  BY <1>1, <1>2, <1>7 DEF Drawn
<1> QED
  BY <1>3, <1>4, <1>5, <1>6, <1>7 DEF Handle

LEMMA LinkKept ==
  ASSUME IInv, [Next]_vars
  PROVE  Owned' /\ OneWorker' /\ Unstarted' /\ InUse'
<1> USE GensAreNat, ViewerAssumption DEF IInv
<1>0. /\ generation \in Nat /\ MaxCalls \in Nat /\ worker \in Gens \cup {NoWorker}
      /\ retiring \cup Active \subseteq Gens /\ Gens = 1..MaxCalls
  <2>1. generation \in Nat /\ MaxCalls \in Nat /\ Gens = 1..MaxCalls
    BY DEF TypeOK, Gens
  <2>2. worker \in Gens \cup {NoWorker} /\ retiring \subseteq Gens
    BY DEF TypeOK
  <2> QED
    BY <2>1, <2>2 DEF Active
<1>1. ASSUME NEW g \in Gens, Thread(g)
      PROVE  Owned' /\ OneWorker' /\ Unstarted' /\ InUse'
  <2>1. /\ UNCHANGED <<worker, retiring, generation, pendingConnect, closing, state>>
        /\ \A h \in Gens : (Alive(h)' => Alive(h)) /\ (pc'[h] = "none" <=> pc[h] = "none")
                           /\ (pc'[h] = "dial" => pc[h] = "dial")
    BY <1>1, ThreadMoves DEF link, Alive
  <2> QED
    BY <2>1, <1>0 DEF Owned, OneWorker, Unstarted, InUse, Active
<1>2. CASE ConnectVnc
  <2> DEFINE n == generation + 1
             old == retiring \cup Active
  <2>1. n \in Gens /\ generation' = n /\ ~closing /\ closing' = closing
        /\ StartPending(n, old) /\ n \in Nat
    BY <1>0, <1>2 DEF ConnectVnc
  <2>2. \A h \in Gens : Alive(h) => h \in old
    BY DEF Owned
  <2>3. pc[n] = "none"
    BY <2>1, <1>0 DEF Unstarted
  <2> HIDE DEF n, old
  <2>4. /\ n <= MaxCalls
        /\ \A h \in Gens : h > n => h > generation
        /\ n # NoWorker
    BY <2>1, <1>0 DEF n
  <2>5. CASE worker' = NoWorker /\ retiring' = old /\ pc' = pc /\ state' = "connecting"
    BY <2>1, <2>2, <2>3, <2>4, <2>5, <1>0 DEF Owned, OneWorker, Unstarted, InUse, Active, Alive
  <2>6. CASE /\ \A w \in old : ~Alive(w)
             /\ worker' = n /\ pc'[n] = "dial" /\ \A h \in Gens : h # n => pc'[h] = pc[h]
             /\ pendingConnect' = FALSE /\ state' = "connecting"
    <3>1. \A h \in Gens : h # n => ~Alive(h) /\ ~Alive(h)'
      BY <2>2, <2>6 DEF Alive
    <3>2. Owned' /\ OneWorker'
      BY <3>1, <2>4, <2>6 DEF Owned, OneWorker, Active
    <3>3. Unstarted'
      BY <2>1, <2>4, <2>6, <1>0 DEF Unstarted
    <3>4. InUse'
      BY <2>1, <2>4, <2>6, <1>0 DEF InUse
    <3> QED
      BY <3>2, <3>3, <3>4
  <2>7. CASE /\ \A w \in old : ~Alive(w)
             /\ worker' = NoWorker /\ pc' = pc /\ pendingConnect' = FALSE /\ state' = "error"
    BY <2>1, <2>2, <2>3, <2>4, <2>7, <1>0 DEF Owned, OneWorker, Unstarted, InUse, Active, Alive
  <2>8. old \in SUBSET Gens
    BY <1>0 DEF old
  <2> QED
    BY <2>1, <2>5, <2>6, <2>7, <2>8, StartMoves
<1>3. CASE DisconnectVnc
  <2>1. /\ ~closing /\ closing' = closing /\ generation' = generation + 1
        /\ generation < MaxCalls /\ worker' = NoWorker /\ pendingConnect' = FALSE
        /\ retiring' = retiring \cup Active /\ pc' = pc /\ state' = "disconnected"
    BY <1>3 DEF DisconnectVnc
  <2> QED
    BY <2>1, <1>0 DEF Owned, OneWorker, Unstarted, InUse, Active, Alive
<1>4. CASE ReapWorkers
  <2>1. ~closing /\ UNCHANGED <<generation, closing>>
    BY <1>4 DEF ReapWorkers
  <2>2. CASE /\ {w \in retiring : Alive(w)} = {} /\ pendingConnect /\ worker = NoWorker
             /\ StartPending(generation, {})
    <3>1. \A h \in Gens : ~Alive(h)
      BY <2>2 DEF Owned, Active
    <3>2. generation \in Gens /\ pc[generation] = "none"
      BY <2>2 DEF Unstarted
    <3>3. CASE /\ worker' = generation /\ pc'[generation] = "dial"
               /\ \A h \in Gens : h # generation => pc'[h] = pc[h]
               /\ pendingConnect' = FALSE
      BY <3>1, <3>2, <3>3, <2>1, <1>0 DEF Owned, OneWorker, Unstarted, InUse, Active, Alive
    <3>4. CASE worker' = NoWorker /\ state' = "error" /\ pc' = pc /\ pendingConnect' = FALSE
      BY <3>1, <3>2, <3>4, <2>1, <1>0 DEF Owned, OneWorker, Unstarted, InUse, Active, Alive
    <3> QED
      BY <3>2, <3>3, <3>4, <2>2, StartMoves
  <2>3. CASE /\ retiring' = {w \in retiring : Alive(w)}
             /\ UNCHANGED <<worker, pendingConnect, state, pc>>
    BY <2>1, <2>3, <1>0 DEF Owned, OneWorker, Unstarted, InUse, Active, Alive
  <2> QED
    BY <1>4, <2>2, <2>3 DEF ReapWorkers
<1>5. CASE Cleanup
  <2>1. /\ closing' /\ generation' = generation + 1 /\ worker' = NoWorker
        /\ pendingConnect' = FALSE /\ retiring' = retiring \cup Active /\ pc' = pc
    BY <1>5 DEF Cleanup
  <2> QED
    BY <2>1, <1>0 DEF Owned, OneWorker, Unstarted, InUse, Active, Alive
<1>6. CASE DrainEvent
  <2> DEFINE e == Head(events)
  <2>1. events # <<>> /\ Handle(e) /\ UNCHANGED <<generation, pendingConnect, closing, pc>>
    BY <1>6 DEF DrainEvent
  <2> HIDE DEF e
  <2>2. /\ e \in Events
        /\ e.gen = generation \/ UNCHANGED <<worker, retiring, state>>
        /\ pc[e.gen] \notin {"none", "dial"}
        /\ \/ worker' = worker /\ retiring' = retiring
           \/ /\ worker' = NoWorker /\ retiring' = retiring \cup Active
              /\ state' # "connected" /\ e.gen = generation
        /\ \/ state' # "connected"
           \/ state' = state
           \/ worker' = worker /\ worker = e.gen
    BY <2>1, HandleMoves DEF e
  <2>3. e.gen \in Gens
    BY <2>2 DEF Events
  <2>4. Owned' /\ OneWorker'
    BY <2>1, <2>2, <1>0 DEF Owned, OneWorker, Active, Alive
  <2>5. Unstarted'
    BY <2>1, <2>2, <1>0 DEF Unstarted
  <2>6. InUse'
    <3>1. worker' # NoWorker => worker' = generation' /\ ~closing' /\ pc'[worker'] # "none"
      BY <2>1, <2>2 DEF InUse
    <3>2. ASSUME NEW h \in Gens, h = generation', pc'[h] = "dial" PROVE worker' = h
      BY <2>1, <2>2, <3>2 DEF InUse
    <3>3. state' = "connected" /\ ~closing' => worker' # NoWorker
      BY <2>1, <2>2, <2>3, <1>0 DEF InUse
    <3> QED
      BY <3>1, <3>2, <3>3 DEF InUse
  <2> QED
    BY <2>4, <2>5, <2>6
<1>7. CASE UNCHANGED <<link, fb, pc, emit>>
  BY <1>7 DEF link, Owned, OneWorker, Unstarted, InUse, Active, Alive
<1> QED
  BY <1>1, <1>2, <1>3, <1>4, <1>5, <1>6, <1>7, Steps

-----------------------------------------------------------------------------
(* The events in the deque *)

\* The event that a thread adds.
LEMMA ThreadEvents ==
  ASSUME TypeOK, NEW g \in Gens, Thread(g)
  PROVE  \/ Emit(g) /\ UNCHANGED events
         \/ UNCHANGED <<events, scheduled, emit, wakeups, draining>> /\ ~emit[g]
         \/ \E k \in Kinds, s \in Sizes \cup {None} :
              /\ Enqueue(g, k, s)
              /\ k \in {"connected", "resize", "frame"} => s \in Sizes
              /\ k = "connected" => pc[g] = "dial"
              /\ pc'[g] \notin {"none", "dial"}
              /\ ~emit[g] /\ Alive(g) /\ pc'[g] # "dead"
              /\ UNCHANGED <<wakeups, draining>>
<1>1. CASE Connected(g)
  <2>1. Enqueue(g, "connected", size) /\ pc[g] = "dial" /\ ~emit[g] /\ pc'[g] = "setup"
        /\ UNCHANGED <<wakeups, draining>>
    BY <1>1 DEF Connected, At, Goto, TypeOK, Elsewhere
  <2>2. "connected" \in Kinds /\ size \in Sizes
    BY DEF Kinds, TypeOK
  <2> QED
    BY <2>1, <2>2 DEF Alive
<1>2. CASE Rect(g)
  <2> DEFINE k == Head(rfb[g].rects).kind
             s == Head(rfb[g].rects).size
  <2>1. Enqueue(g, k, s) /\ pc[g] = "update" /\ ~emit[g] /\ pc' = pc /\ rfb[g].rects # <<>>
        /\ UNCHANGED <<wakeups, draining>>
    BY <1>2 DEF Rect, At, Elsewhere
  <2>2. k \in {"frame", "resize"} /\ s \in Sizes
    <3>1. rfb[g].rects \in Seq(Rects)
      BY DEF TypeOK, Protocol
    <3>2. Head(rfb[g].rects) \in Rects
      BY <3>1, <2>1
    <3> QED
      BY <3>2 DEF Rects
  <2> HIDE DEF k, s
  <2>3. k \in Kinds
    BY <2>2 DEF Kinds
  <2> QED
    BY <2>1, <2>2, <2>3 DEF Alive
<1>3. CASE Breaks(g) \/ Finish(g)
  <2>1. PICK k \in {"error", "disconnected"} :
          /\ Enqueue(g, k, None) /\ ~emit[g] /\ Alive(g) /\ UNCHANGED <<wakeups, draining>>
          /\ Goto(g, "final") \/ Goto(g, "ended")
    BY <1>3 DEF Breaks, Finish, At, Elsewhere, Alive, Blocked
  <2>2. k \in Kinds /\ pc'[g] \in {"final", "ended"}
    BY <2>1 DEF Kinds, Goto, TypeOK
  <2> QED
    BY <2>1, <2>2
<1>4. CASE Emit(g)
  BY <1>4 DEF Emit
<1>5. CASE \/ Setup(g) \/ Waits(g) \/ KeepsAlive(g) \/ RecvUpdate(g) \/ UpdateDone(g)
           \/ Stopped(g) \/ Dies(g)
  BY <1>5 DEF Setup, Waits, KeepsAlive, LoopTop, RecvUpdate, UpdateDone, Stopped, Dies,
              Quiet, Elsewhere, At
<1> QED
  BY <1>1, <1>2, <1>3, <1>4, <1>5 DEF Thread

\* A generation is started once.
LEMMA StartedOnce ==
  ASSUME IInv, ConnectVnc \/ ReapWorkers, NEW h \in Gens, pc[h] # "none"
  PROVE  pc'[h] = pc[h]
<1> USE GensAreNat, ViewerAssumption DEF IInv
<1>1. CASE ConnectVnc
  <2>1. /\ generation \in Nat /\ generation + 1 \in Gens
        /\ StartPending(generation + 1, retiring \cup Active)
    BY <1>1 DEF ConnectVnc, TypeOK, Gens
  <2>2. retiring \cup Active \in SUBSET Gens
    BY DEF TypeOK, Active
  <2>3. h # generation + 1
    BY <2>1 DEF Unstarted, TypeOK
  <2> QED
    BY <2>1, <2>2, <2>3, StartMoves
<1>2. CASE ReapWorkers
  <2>1. CASE pendingConnect /\ StartPending(generation, {})
    <3>1. generation \in Gens /\ h # generation
      BY <2>1 DEF Unstarted
    <3> QED
      BY <2>1, <3>1, StartMoves
  <2> QED
    BY <1>2, <2>1 DEF ReapWorkers
<1> QED
  BY <1>1, <1>2

\* So a thread that has connected or failed stays so.
LEMMA PastDial ==
  ASSUME IInv, [Next]_vars, NEW h \in Gens, pc[h] \notin {"none", "dial"}
  PROVE  pc'[h] \notin {"none", "dial"}
<1> USE GensAreNat, ViewerAssumption DEF IInv
<1>1. ASSUME NEW g \in Gens, Thread(g) PROVE pc'[h] \notin {"none", "dial"}
  BY <1>1, ThreadMoves
<1>2. CASE ConnectVnc \/ ReapWorkers
  BY <1>2, StartedOnce
<1>3. CASE DisconnectVnc \/ Cleanup \/ DrainEvent
  BY <1>3 DEF DisconnectVnc, Cleanup, DrainEvent
<1>4. CASE UNCHANGED <<link, fb, pc, emit>>
  BY <1>4
<1> QED
  BY <1>1, <1>2, <1>3, <1>4, Steps

LEMMA EventSteps ==
  ASSUME IInv, [Next]_vars
  PROVE  \/ \E g \in Gens : Thread(g)
         \/ DrainEvent
         \/ closing' /\ events' = <<>>
         \/ /\ UNCHANGED events
            /\ \/ UNCHANGED <<worker, generation>>
               \/ \A g \in Gens : g = generation' => pc[g] = "none"
<1> USE GensAreNat, ViewerAssumption DEF IInv
<1>1. CASE ConnectVnc
  <2>1. UNCHANGED events /\ generation' = generation + 1
    BY <1>1 DEF ConnectVnc, bridge
  <2> QED
    BY <2>1 DEF Unstarted, TypeOK
<1>2. CASE DisconnectVnc
  <2>1. UNCHANGED events /\ generation' = generation + 1
    BY <1>2 DEF DisconnectVnc, bridge
  <2> QED
    BY <2>1 DEF Unstarted, TypeOK
<1>3. CASE ReapWorkers
  <2>1. UNCHANGED <<events, generation>>
    BY <1>3 DEF ReapWorkers, bridge
  <2>2. CASE pendingConnect
    BY <2>1, <2>2 DEF Unstarted
  <2>3. CASE ~pendingConnect
    BY <2>1, <2>3, <1>3 DEF ReapWorkers
  <2> QED
    BY <2>2, <2>3
<1>4. CASE Cleanup
  BY <1>4 DEF Cleanup
<1>5. CASE Drain \/ DrainEnds \/ ApplyUpdates \/ (\E d \in Depths : SetDepth(d)) \/ Server
           \/ UNCHANGED vars
  BY <1>5 DEF Drain, DrainEnds, ApplyUpdates, SetDepth, Server, ServerAnswers, ScreenResizes,
              OnlyRfb, bridge, link, vars
<1> QED
  BY <1>1, <1>2, <1>3, <1>4, <1>5 DEF Next, Gui, Operator

LEMMA EventsKept ==
  ASSUME IInv, [Next]_vars
  PROVE  Sized' /\ First'
<1> USE DEF IInv
<1>0. events \in Seq(Events) /\ \A i \in 1..Len(events) : events[i].gen \in Gens
  <2>1. events \in Seq(Events)
    BY DEF TypeOK
  <2>2. \A i \in 1..Len(events) : events[i] \in Events
    BY <2>1
  <2> QED
    BY <2>1, <2>2 DEF Events
<1>1. ASSUME NEW g \in Gens, Thread(g) PROVE Sized' /\ First'
  <2>1. UNCHANGED <<worker, generation, closing>>
    BY <1>1, ThreadMoves DEF link
  <2>2. \A i \in 1..Len(events) : pc'[events[i].gen] \notin {"none", "dial"}
    BY <1>0, PastDial DEF First
  <2>3. CASE UNCHANGED events
    BY <2>1, <2>2, <2>3 DEF Sized, First
  <2>4. ASSUME NEW k \in Kinds, NEW s \in Sizes \cup {None}, Enqueue(g, k, s), ~closing,
               k \in {"connected", "resize", "frame"} => s \in Sizes,
               k = "connected" => pc[g] = "dial", pc'[g] \notin {"none", "dial"}
        PROVE  Sized' /\ First'
    <3> DEFINE n == Len(events)
               e == [gen |-> g, kind |-> k, size |-> s]
    <3>1. /\ Len(events') = n + 1 /\ n \in Nat
          /\ \A i \in 1..n : events'[i] = events[i]
          /\ events'[n + 1] = e
      <4>1. Len(events) \in Nat
        BY <1>0
      <4>2. /\ Len(events') = Len(events) + 1
            /\ \A i \in 1..Len(events) : events'[i] = events[i]
            /\ events'[Len(events) + 1] = [gen |-> g, kind |-> k, size |-> s]
        BY <2>4, EnqueueEvents
      <4> QED
        BY <4>1, <4>2
    <3>2. \A i \in 1..n + 1 : i \in 1..n \/ i = n + 1
      BY <3>1
    <3>3. Sized'
      BY <3>1, <3>2, <2>4 DEF Sized
    <3>4. ASSUME k = "connected"
          PROVE  /\ \A j \in 1..n : events[j].gen # g
                 /\ g = generation => worker = g
      BY <3>4, <2>4 DEF First, InUse
    <3>5. ASSUME NEW i \in 1..n
          PROVE  /\ pc'[events[i].gen] \notin {"none", "dial"}
                 /\ events[i].kind = "connected" =>
                      /\ \A j \in 1..(i-1) : events'[j].gen # events[i].gen
                      /\ events[i].gen = generation' => worker' = generation'
      <4>1. \A j \in 1..(i-1) : j \in 1..n
        BY <3>1
      <4> QED
        BY <2>1, <2>2, <3>1, <4>1 DEF First
    <3>6. /\ pc'[e.gen] \notin {"none", "dial"}
          /\ e.kind = "connected" =>
               /\ \A j \in 1..(n + 1 - 1) : events'[j].gen # e.gen
               /\ e.gen = generation' => worker' = generation'
      BY <2>1, <2>4, <3>1, <3>4
    <3> HIDE DEF n, e
    <3> QED
      BY <3>1, <3>2, <3>3, <3>5, <3>6 DEF First
  <2>5. CASE closing /\ \E k \in Kinds, s \in Sizes \cup {None} : Enqueue(g, k, s)
    BY <2>3, <2>5 DEF Enqueue
  <2> QED
    BY <1>1, <2>3, <2>4, <2>5, ThreadEvents
<1>2. CASE DrainEvent
  <2> DEFINE e == Head(events)
             m == Len(events')
  <2>1. events # <<>> /\ events' = Tail(events) /\ UNCHANGED <<generation, pc>> /\ Handle(e)
    BY <1>2 DEF DrainEvent
  <2>2. /\ Len(events) = m + 1 /\ m \in Nat /\ e = events[1]
        /\ \A i \in 1..m : events'[i] = events[i + 1]
    BY <1>0, <2>1, TailEvents
  <2>3. Sized'
    BY <2>2 DEF Sized
  <2>4. worker' = worker \/ e.gen = generation
    BY <2>1, HandleMoves
  <2> HIDE DEF e, m
  <2>5. ASSUME NEW i \in 1..m
        PROVE  /\ pc'[events'[i].gen] \notin {"none", "dial"}
               /\ events'[i].kind = "connected" =>
                    /\ \A j \in 1..(i-1) : events'[j].gen # events'[i].gen
                    /\ events'[i].gen = generation' => worker' = generation'
    <3>1. /\ i + 1 \in 1..Len(events) /\ 1 \in 1..((i + 1) - 1)
          /\ \A j \in 1..(i-1) : j + 1 \in 1..((i + 1) - 1) /\ events'[j] = events[j + 1]
      BY <2>2
    <3>2. /\ pc[events[i + 1].gen] \notin {"none", "dial"}
          /\ events[i + 1].kind = "connected" =>
               /\ \A j \in 1..((i + 1) - 1) : events[j].gen # events[i + 1].gen
               /\ events[i + 1].gen = generation => worker = generation
      BY <3>1 DEF First
    <3> QED
      BY <2>1, <2>2, <2>4, <3>1, <3>2
  <2> QED
    BY <2>3, <2>5 DEF First, m
<1>3. CASE closing' /\ events' = <<>>
  BY <1>3 DEF Sized, First
<1>4. CASE /\ UNCHANGED events
           /\ \/ UNCHANGED <<worker, generation>>
              \/ \A g \in Gens : g = generation' => pc[g] = "none"
  <2>1. Sized'
    BY <1>4 DEF Sized
  <2>2. ASSUME NEW i \in 1..Len(events)
        PROVE  /\ pc'[events[i].gen] \notin {"none", "dial"}
               /\ events[i].kind = "connected" /\ events[i].gen = generation' =>
                    worker' = generation'
    <3>1. events[i].gen \in Gens /\ pc[events[i].gen] \notin {"none", "dial"}
      BY <1>0 DEF First
    <3> QED
      BY <1>4, <3>1, PastDial DEF First
  <2> QED
    BY <1>4, <2>1, <2>2 DEF First
<1> QED
  BY <1>1, <1>2, <1>3, <1>4, EventSteps

LEMMA CurrentKept ==
  ASSUME IInv, [Next]_vars
  PROVE  ConnectedIsCurrent'
<1> USE DEF IInv
<1> SUFFICES ASSUME state' = "connected", ~closing'
             PROVE  /\ worker' = generation' /\ fb' # None
                    /\ pc'[worker'] \notin {"none", "dial"}
  BY DEF ConnectedIsCurrent
<1>1. worker' \in Gens
  <2>1. TypeOK' /\ InUse'
    BY TypeKept, LinkKept
  <2> QED
    BY <2>1 DEF TypeOK, InUse
<1>2. worker' = generation'
  BY <1>1, GensAreNat, LinkKept DEF InUse
<1>3. ASSUME state = "connected", ~closing, worker' = worker, fb' # None
      PROVE  pc'[worker'] \notin {"none", "dial"}
  BY <1>1, <1>3, PastDial DEF ConnectedIsCurrent
<1>4. ASSUME NEW g \in Gens, Thread(g)
      PROVE  fb' # None /\ pc'[worker'] \notin {"none", "dial"}
  <2>1. UNCHANGED <<worker, state, closing, fb>>
    BY <1>4, ThreadMoves DEF link, screen
  <2> QED
    BY <2>1, <1>3 DEF ConnectedIsCurrent
<1>5. CASE ConnectVnc
  <2>1. generation + 1 \in Gens /\ StartPending(generation + 1, retiring \cup Active)
    BY <1>5, ViewerAssumption DEF ConnectVnc, TypeOK, Gens
  <2>2. retiring \cup Active \in SUBSET Gens
    BY DEF TypeOK, Active
  <2> QED
    BY <2>1, <2>2, StartMoves
<1>6. CASE DisconnectVnc \/ Cleanup
  BY <1>6 DEF DisconnectVnc, Cleanup
<1>7. CASE ReapWorkers
  <2>1. CASE pendingConnect /\ StartPending(generation, {})
    <3>1. generation \in Gens
      BY <2>1 DEF Unstarted
    <3> QED
      BY <2>1, <3>1, StartMoves
  <2>2. CASE UNCHANGED <<worker, state>>
    <3>1. UNCHANGED <<closing, fb>>
      BY <1>7 DEF ReapWorkers, screen
    <3> QED
      BY <2>2, <3>1, <1>2, <1>3 DEF ConnectedIsCurrent
  <2> QED
    BY <1>7, <2>1, <2>2 DEF ReapWorkers
<1>8. CASE DrainEvent
  <2> DEFINE e == Head(events)
  <2>1. events # <<>> /\ Handle(e) /\ UNCHANGED <<closing, pc>>
    BY <1>8 DEF DrainEvent
  <2>2. /\ \/ worker' = worker
           \/ state' # "connected"
        /\ pc[e.gen] \notin {"none", "dial"}
        /\ \/ state' # "connected"
           \/ state' = state /\ fb' = fb
           \/ state' = state /\ fb' # None
           \/ e.kind = "connected" /\ worker' = worker /\ worker = e.gen /\ fb' # None
    BY <2>1, HandleMoves
  <2> HIDE DEF e
  <2> QED
    BY <2>1, <2>2, <1>2, <1>3 DEF ConnectedIsCurrent
<1>9. CASE UNCHANGED <<link, fb, pc, emit>>
  BY <1>9 DEF link, ConnectedIsCurrent
<1> QED
  BY <1>2, <1>4, <1>5, <1>6, <1>7, <1>8, <1>9, Steps

-----------------------------------------------------------------------------
(* The wake-up *)

LEMMA OneCallKept ==
  ASSUME IInv, [Next]_vars
  PROVE  OneCall'
<1> USE DEF IInv
<1>0. /\ wakeups \in Nat /\ draining \in Nat /\ scheduled \in BOOLEAN
      /\ emit \in [Gens -> BOOLEAN] /\ MaxPerTick \in Nat \ {0}
  <2>1. MaxPerTick \in Nat \ {0}
    BY ViewerAssumption
  <2> QED
    BY <2>1 DEF TypeOK
<1>1. ASSUME NEW g \in Gens, Thread(g) PROVE OneCall'
  <2>1. UNCHANGED closing /\ \A h \in Gens : h # g => pc'[h] = pc[h]
    BY <1>1, ThreadMoves DEF link
  <2>2. CASE Emit(g)
    <3>1. /\ emit[g] /\ emit' = [emit EXCEPT ![g] = FALSE] /\ wakeups' = wakeups + 1
          /\ UNCHANGED <<events, scheduled, draining, pc>>
      BY <2>2 DEF Emit
    <3>2. ~emit'[g] /\ \A h \in Gens : h # g => emit'[h] = emit[h]
      BY <1>0, <3>1
    <3>3. \A h \in Gens : emit'[h] => Alive(h)'
      BY <3>1, <3>2 DEF OneCall, Alive
    <3>4. CASE closing
      BY <2>1, <3>1, <3>3, <3>4 DEF OneCall
    <3>5. CASE ~closing
      <4>1. wakeups = 0 /\ ~(draining > 0) /\ scheduled /\ \A h \in Gens : h # g => ~emit[h]
        BY <3>1, <3>5, <1>0 DEF OneCall
      <4> QED
        BY <2>1, <3>1, <3>2, <3>3, <3>5, <4>1, <1>0 DEF OneCall
    <3> QED
      BY <3>4, <3>5
  <2>3. CASE UNCHANGED <<events, scheduled, emit, wakeups, draining>> /\ ~emit[g]
    <3>1. \A h \in Gens : emit'[h] => Alive(h)'
      BY <2>1, <2>3 DEF OneCall, Alive
    <3> QED
      BY <2>1, <2>3, <3>1 DEF OneCall
  <2>4. ASSUME NEW k \in Kinds, NEW s \in Sizes \cup {None}, Enqueue(g, k, s), ~closing,
               ~emit[g], Alive(g)', UNCHANGED <<wakeups, draining>>
        PROVE  OneCall'
    <3>1. scheduled' = TRUE /\ emit' = [emit EXCEPT ![g] = ~scheduled]
      BY <2>4, EnqueueEvents
    <3>2. emit'[g] = ~scheduled /\ \A h \in Gens : h # g => emit'[h] = emit[h]
      BY <1>0, <3>1
    <3>3. \A h \in Gens : emit'[h] => Alive(h)'
      BY <2>1, <2>4, <3>2 DEF OneCall, Alive
    <3>4. CASE scheduled
      <4>1. \A h \in Gens : emit'[h] = emit[h]
        BY <1>0, <2>4, <3>2, <3>4
      <4> QED
        BY <2>1, <2>4, <3>1, <3>3, <3>4, <4>1 DEF OneCall
    <3>5. CASE ~scheduled
      <4>1. wakeups = 0 /\ ~(draining > 0) /\ \A h \in Gens : ~emit[h]
        BY <2>4, <3>5, <1>0 DEF OneCall
      <4>2. emit'[g] /\ \A h \in Gens : h # g => ~emit'[h]
        BY <3>2, <3>5, <4>1
      <4> QED
        BY <2>1, <2>4, <3>1, <3>3, <4>1, <4>2 DEF OneCall
    <3> QED
      BY <3>4, <3>5, <1>0
  <2>5. CASE closing /\ (\E k \in Kinds, s \in Sizes \cup {None} : Enqueue(g, k, s))
             /\ ~emit[g] /\ UNCHANGED <<wakeups, draining>>
    <3>1. UNCHANGED <<events, scheduled, emit>>
      BY <2>5 DEF Enqueue
    <3> QED
      BY <2>3, <2>5, <3>1
  <2> QED
    BY <1>1, <2>2, <2>3, <2>4, <2>5, ThreadEvents DEF Alive
<1>2. ASSUME UNCHANGED bridge, UNCHANGED <<closing, emit>>,
             \A h \in Gens : Alive(h) => Alive(h)'
      PROVE  OneCall'
  BY <1>2 DEF OneCall, bridge
<1>3. CASE ConnectVnc \/ ReapWorkers
  <2>1. UNCHANGED bridge /\ UNCHANGED <<closing, emit>>
    BY <1>3 DEF ConnectVnc, ReapWorkers
  <2>2. \A h \in Gens : Alive(h) => Alive(h)'
    BY <1>3, StartedOnce DEF Alive
  <2> QED
    BY <2>1, <2>2, <1>2
<1>4. CASE DisconnectVnc
  BY <1>2, <1>4 DEF DisconnectVnc, Alive
<1>5. CASE Cleanup
  BY <1>5 DEF Cleanup, OneCall, Alive, GuiFree
<1>6. CASE DrainEvent
  <2>1. /\ draining > 0 /\ events # <<>> /\ draining' = draining - 1
        /\ wakeups' = IF draining = 1 THEN wakeups + 1 ELSE wakeups
        /\ UNCHANGED <<closing, scheduled, pc, emit>>
    BY <1>6 DEF DrainEvent
  <2>2. ~closing /\ wakeups = 0 /\ scheduled /\ \A h \in Gens : ~emit[h]
    BY <2>1, <1>0 DEF OneCall
  <2> QED
    BY <2>1, <2>2, <1>0 DEF OneCall, Alive
<1>7. CASE Drain
  <2>1. /\ draining = 0 /\ wakeups > 0 /\ wakeups' = wakeups - 1
        /\ draining' = IF closing THEN 0 ELSE MaxPerTick
        /\ UNCHANGED <<closing, events, scheduled, pc, emit>>
    BY <1>7 DEF Drain, GuiFree, link, threads
  <2>2. CASE closing
    BY <2>1, <2>2 DEF OneCall, Alive
  <2>3. CASE ~closing
    <3>1. wakeups = 1 /\ scheduled /\ \A h \in Gens : ~emit[h]
      BY <2>1, <2>3, <1>0 DEF OneCall
    <3> QED
      BY <2>1, <2>3, <3>1, <1>0 DEF OneCall, Alive
  <2> QED
    BY <2>2, <2>3
<1>8. CASE DrainEnds
  <2>1. /\ draining > 0 /\ events = <<>> /\ draining' = 0
        /\ UNCHANGED <<closing, events, wakeups, pc, emit>>
    BY <1>8 DEF DrainEnds, link, threads
  <2>2. scheduled' = FALSE
    BY <1>8, Zenon DEF DrainEnds
  <2>3. ~closing /\ wakeups = 0 /\ \A h \in Gens : ~emit[h]
    BY <2>1, <1>0 DEF OneCall
  <2> QED
    BY <2>1, <2>2, <2>3 DEF OneCall, Alive
<1>9. CASE ApplyUpdates \/ (\E d \in Depths : SetDepth(d)) \/ Server \/ UNCHANGED vars
  BY <1>2, <1>9 DEF ApplyUpdates, SetDepth, Server, ServerAnswers, ScreenResizes, OnlyRfb,
                    threads, link, vars, bridge, Alive
<1> QED
  BY <1>1, <1>3, <1>4, <1>5, <1>6, <1>7, <1>8, <1>9 DEF Next, Gui, Operator

-----------------------------------------------------------------------------
(* The request under way *)

\* Draining the queue may send a request, with a new depth, when none is out.
LEMMA AppliedAgrees ==
  ASSUME NEW r \in Protocol, NEW p, p \in {"loop", "recv"}, NEW n, n \in {"loop", "recv"},
         Agrees(r, p)
  PROVE  /\ Agrees(Applied(r), n)
         /\ ~Applied(r).outstanding => Applied(r) = r
<1>1. /\ Agrees(r, n) /\ r.wire \in Seq(Requests) /\ r.inbox \in Seq([format : Depths, rects : Seq(Rects)])
      /\ p \in Talking /\ n \in Talking /\ n # "update" /\ n \notin {"dial", "setup"}
  BY DEF Agrees, Talking, Protocol
<1>2. CASE r.outstanding \/ r.pending = None
  BY <1>1, <1>2 DEF Applied
<1>3. CASE ~(r.outstanding \/ r.pending = None)
  <2> DEFINE a == Applied(r)
  <2>1. a = [r EXCEPT !.depth = r.pending, !.pending = None, !.outstanding = TRUE,
                      !.wire = Append(r.wire, r.pending)]
    BY <1>3 DEF Applied
  <2>2. r.wire = <<>> /\ r.inbox = <<>>
    BY <1>1, <1>3 DEF Agrees
  <2>3. Append(r.wire, r.pending) = <<r.pending>>
    BY <2>2
  <2>4. /\ a.depth = r.pending /\ a.outstanding = TRUE /\ a.wire = <<r.pending>>
        /\ a.inbox = <<>>
    BY <2>1, <2>2, <2>3 DEF Protocol
  <2> HIDE DEF a
  <2>5. a.wire # <<>> /\ Len(a.wire) = 1 /\ a.wire[1] = a.depth /\ Len(a.inbox) = 0
    BY <2>4
  <2>6. Agrees(a, n)
    BY <2>4, <2>5, <1>1 DEF Agrees
  <2> QED
    BY <2>4, <2>6 DEF a
<1> QED
  BY <1>2, <1>3

\* What Agrees does not look at.
LEMMA SameAgrees ==
  ASSUME NEW r, NEW s, NEW p, Agrees(r, p),
         s.depth = r.depth, s.outstanding = r.outstanding, s.reading = r.reading,
         s.wire = r.wire, s.format = r.format, s.inbox = r.inbox
  PROVE  Agrees(s, p)
BY DEF Agrees

LEMMA ThreadAgrees ==
  ASSUME IInv, NEW g \in Gens, Thread(g)
  PROVE  Agreed'
<1> USE DEF IInv
<1> DEFINE r == rfb[g]
<1>0. /\ r \in Protocol /\ Agrees(r, pc[g]) /\ rfb \in [Gens -> Protocol]
      /\ pc \in [Gens -> {"none", "final", "ended", "dead"} \cup Blocked]
  BY DEF TypeOK, Agreed
<1>1. ASSUME NEW r1, rfb' = [rfb EXCEPT ![g] = r1], Agrees(r1, pc'[g])
      PROVE  Agreed'
  BY <1>0, <1>1, ThreadMoves DEF Agreed
<1>2. ASSUME pc'[g] \notin Talking \cup {"dial", "setup"}, UNCHANGED rfb
      PROVE  Agreed'
  BY <1>0, <1>2, ThreadMoves DEF Agreed, Agrees
<1>3. CASE Emit(g)
  BY <1>3 DEF Emit, Agreed
<1>4. CASE Connected(g)
  <2>1. /\ pc[g] = "dial" /\ pc'[g] = "setup" /\ rfb' = [rfb EXCEPT ![g] = [r EXCEPT !.told = size]]
    BY <1>4, <1>0 DEF Connected, At, Goto
  <2>2. Agrees(r, "setup")
    BY <2>1, <1>0 DEF Agrees, Talking
  <2> DEFINE r1 == [r EXCEPT !.told = size]
  <2>3. /\ r1.depth = r.depth /\ r1.outstanding = r.outstanding /\ r1.reading = r.reading
        /\ r1.wire = r.wire /\ r1.format = r.format /\ r1.inbox = r.inbox
    BY <1>0 DEF Protocol
  <2> HIDE DEF r1
  <2>4. Agrees(r1, "setup")
    BY <2>2, <2>3, SameAgrees
  <2> QED
    BY <2>1, <2>4, <1>1 DEF r1
<1>5. CASE Setup(g)
  <2> DEFINE r1 == [r EXCEPT !.wire = <<r.depth>>, !.outstanding = TRUE]
  <2>1. /\ pc[g] = "setup" /\ pc'[g] = "loop" /\ rfb' = [rfb EXCEPT ![g] = r1]
    BY <1>5, <1>0 DEF Setup, At, Goto
  <2>2. /\ r1.wire = <<r.depth>> /\ r1.outstanding = TRUE /\ r1.inbox = r.inbox
        /\ r1.depth = r.depth
    BY <1>0 DEF Protocol
  <2>3. r.inbox = <<>>
    BY <1>0, <2>1 DEF Agrees
  <2> HIDE DEF r1
  <2>4. r1.wire # <<>> /\ Len(r1.wire) = 1 /\ r1.wire[1] = r1.depth /\ Len(r1.inbox) = 0
    BY <2>2, <2>3
  <2>5. Agrees(r1, "loop")
    BY <2>2, <2>3, <2>4 DEF Agrees, Talking
  <2> QED
    BY <2>1, <2>5, <1>1
<1>6. ASSUME LoopTop(g)
      PROVE  /\ Agrees(Drained(g), "recv") /\ pc'[g] = "recv" /\ Drained(g) \in Protocol
             /\ ~Drained(g).outstanding => Drained(g).wire = <<>> /\ Drained(g).inbox = <<>>
                                           /\ Drained(g).format = Drained(g).depth
  <2> DEFINE r1 == [r EXCEPT !.pending = Wanted(r.depth, r.pending, q[g])]
  <2>1. pc[g] \in {"loop", "recv"} /\ pc'[g] = "recv"
    BY <1>6, <1>0 DEF LoopTop, At, Goto
  <2>2. /\ r1.depth = r.depth /\ r1.outstanding = r.outstanding /\ r1.reading = r.reading
        /\ r1.wire = r.wire /\ r1.format = r.format /\ r1.inbox = r.inbox
    BY <1>0 DEF Protocol
  <2>3. r1 \in Protocol
    <3>1. Wanted(r.depth, r.pending, q[g]) \in Depths \cup {None}
      BY DEF TypeOK, Wanted, Protocol
    <3> QED
      BY <3>1, <1>0 DEF Protocol
  <2>4. Drained(g) = Applied(r1)
    BY DEF Drained
  <2> HIDE DEF r1
  <2>5. Agrees(r1, pc[g])
    BY <1>0, <2>2, SameAgrees
  <2>6. /\ Agrees(Applied(r1), "recv")
        /\ Applied(r1) \in Protocol
    BY <2>1, <2>3, <2>5, AppliedAgrees, AppliedType
  <2>7. ASSUME NEW a, Agrees(a, "recv"), ~a.outstanding
        PROVE  a.wire = <<>> /\ a.inbox = <<>> /\ a.format = a.depth
    BY <2>7 DEF Agrees, Talking
  <2> QED
    BY <2>1, <2>4, <2>6, <2>7
<1>7. CASE Waits(g)
  <2>1. rfb' = [rfb EXCEPT ![g] = Drained(g)]
    BY <1>7 DEF Waits
  <2> QED
    BY <2>1, <1>1, <1>6, <1>7 DEF Waits
<1>8. CASE KeepsAlive(g)
  <2> DEFINE d == Drained(g)
             r1 == [d EXCEPT !.wire = Append(d.wire, None), !.outstanding = TRUE]
  <2>1. /\ d.wire = <<>> /\ d.inbox = <<>> /\ d.format = d.depth /\ d \in Protocol
        /\ pc'[g] = "recv" /\ rfb' = [rfb EXCEPT ![g] = r1]
    BY <1>6, <1>8 DEF KeepsAlive
  <2>2. Append(d.wire, None) = <<None>>
    BY <2>1
  <2>3. /\ r1.wire = <<None>> /\ r1.outstanding = TRUE /\ r1.inbox = <<>>
        /\ r1.format = r1.depth
    BY <2>1, <2>2 DEF Protocol
  <2> HIDE DEF r1, d
  <2>4. r1.wire # <<>> /\ Len(r1.wire) = 1 /\ r1.wire[1] = None /\ Len(r1.inbox) = 0
    BY <2>3
  <2>5. Agrees(r1, "recv")
    BY <2>3, <2>4 DEF Agrees, Talking
  <2> QED
    BY <2>1, <2>5, <1>1
<1>9. CASE RecvUpdate(g)
  <2> DEFINE r1 == [r EXCEPT !.inbox = Tail(@), !.reading = Head(r.inbox).format,
                             !.rects = Head(r.inbox).rects]
  <2>1. /\ pc[g] = "recv" /\ pc'[g] = "update" /\ r.inbox # <<>>
        /\ rfb' = [rfb EXCEPT ![g] = r1]
    BY <1>9, <1>0 DEF RecvUpdate, At, Goto
  <2>2. /\ r.inbox \in Seq([format : Depths, rects : Seq(Rects)]) /\ Len(r.inbox) <= 1
        /\ r.outstanding /\ r.inbox[1].format = r.depth /\ r.wire = <<>>
        /\ r.format = r.depth
    BY <1>0, <2>1 DEF Agrees, Talking, Protocol
  <2>3. Tail(r.inbox) = <<>> /\ Head(r.inbox) = r.inbox[1]
    <3> HIDE DEF r
    <3> DEFINE Answers == [format : Depths, rects : Seq(Rects)]
    <3>1. r.inbox \in Seq(Answers)
      BY <2>2
    <3> HIDE DEF Answers
    <3> QED
      BY <2>1, <2>2, <3>1
  <2>4. /\ r1.inbox = <<>> /\ r1.reading = r.depth /\ r1.depth = r.depth
        /\ r1.wire = <<>> /\ r1.format = r.depth /\ r1.outstanding = r.outstanding
    BY <2>2, <2>3, <1>0 DEF Protocol
  <2> HIDE DEF r1
  <2>5. Len(r1.wire) = 0 /\ Len(r1.inbox) = 0
    BY <2>4
  <2>6. Agrees(r1, "update")
    BY <2>2, <2>4, <2>5 DEF Agrees
  <2> QED
    BY <2>1, <2>6, <1>1
<1>10. CASE Rect(g)
  <2>1. /\ pc'[g] = pc[g] /\ rfb' = [rfb EXCEPT ![g] = [r EXCEPT !.rects = Tail(r.rects)]]
    BY <1>10 DEF Rect
  <2> DEFINE r1 == [r EXCEPT !.rects = Tail(r.rects)]
  <2>2. /\ r1.depth = r.depth /\ r1.outstanding = r.outstanding /\ r1.reading = r.reading
        /\ r1.wire = r.wire /\ r1.format = r.format /\ r1.inbox = r.inbox
    BY <1>0 DEF Protocol
  <2> HIDE DEF r1
  <2>3. Agrees(r1, pc[g])
    BY <1>0, <2>2, SameAgrees
  <2> QED
    BY <2>1, <2>3, <1>1 DEF r1
<1>11. CASE UpdateDone(g)
  <2> DEFINE r1 == [r EXCEPT !.outstanding = FALSE]
  <2>1. /\ pc[g] = "update" /\ pc'[g] = "loop" /\ rfb' = [rfb EXCEPT ![g] = Applied(r1)]
    BY <1>11, <1>0 DEF UpdateDone, At, Goto
  <2>2. r.wire = <<>> /\ r.inbox = <<>> /\ r.format = r.depth
    BY <1>0, <2>1 DEF Agrees, Talking
  <2>3. /\ r1 \in Protocol /\ r1.wire = <<>> /\ r1.inbox = <<>> /\ r1.format = r1.depth
    BY <1>0, <2>2 DEF Protocol
  <2> HIDE DEF r1
  <2>4. Len(r1.wire) = 0 /\ Len(r1.inbox) = 0
    BY <2>3
  <2>5. Agrees(r1, "loop")
    BY <2>3, <2>4 DEF Agrees
  <2>6. Agrees(Applied(r1), "loop")
    BY <2>3, <2>5, AppliedAgrees
  <2> QED
    BY <2>1, <2>6, <1>1
<1>12. CASE Breaks(g) \/ Stopped(g) \/ Finish(g)
  <2>1. UNCHANGED rfb /\ pc'[g] \in {"final", "ended"}
    BY <1>12, <1>0 DEF Breaks, Stopped, Finish, Goto
  <2> QED
    BY <2>1, <1>2 DEF Talking
<1>13. CASE Dies(g)
  <2>1. pc'[g] = "dead" /\ rfb' = [rfb EXCEPT ![g] = Fresh(FirstDepth, FirstSize)]
    BY <1>13, <1>0 DEF Dies, Goto
  <2>2. Agrees(Fresh(FirstDepth, FirstSize), "dead")
    BY DEF Agrees, Talking, Fresh
  <2> QED
    BY <2>1, <2>2, <1>1
<1> QED
  BY <1>3, <1>4, <1>5, <1>7, <1>8, <1>9, <1>10, <1>11, <1>12, <1>13 DEF Thread

\* A start gives the protocol a fresh state.
LEMMA StartAgrees ==
  ASSUME TypeOK, Agreed, NEW g \in Gens, NEW old, StartPending(g, old)
  PROVE  Agreed'
<1>1. CASE UNCHANGED <<pc, rfb>>
  BY <1>1 DEF Agreed
<1>2. CASE pc' = [pc EXCEPT ![g] = "dial"] /\ rfb' = [rfb EXCEPT ![g] = Fresh(depthIdx, size)]
  <2>1. Agrees(Fresh(depthIdx, size), "dial")
    BY DEF Agrees, Fresh, Talking
  <2> QED
    BY <1>2, <2>1 DEF Agreed, TypeOK
<1> QED
  BY <1>1, <1>2 DEF StartPending

LEMMA ServerAgrees ==
  ASSUME TypeOK, Agreed, NEW g \in Gens, ServerAnswers(g)
  PROVE  Agreed'
<1> DEFINE r == rfb[g]
           request == Head(r.wire)
           format == IF request = None THEN r.format ELSE request
           rs == (IF r.told = size THEN <<>> ELSE <<[kind |-> "resize", size |-> size]>>)
                 \o <<[kind |-> "frame", size |-> size]>>
           answer == [format |-> format, rects |-> rs]
           r1 == [r EXCEPT !.wire = Tail(@), !.format = format, !.told = size,
                           !.inbox = Append(@, answer)]
<1>1. /\ r \in Protocol /\ Agrees(r, pc[g]) /\ pc[g] \in Talking /\ r.wire # <<>>
      /\ rfb' = [rfb EXCEPT ![g] = r1] /\ UNCHANGED pc
  BY DEF ServerAnswers, OnlyRfb, TypeOK, Agreed
<1>2. /\ r.wire \in Seq(Requests) /\ Len(r.wire) <= 1 /\ r.outstanding /\ r.inbox = <<>>
      /\ pc[g] # "update"
      /\ r.wire[1] = r.depth \/ (r.wire[1] = None /\ r.format = r.depth)
  BY <1>1 DEF Agrees, Protocol
<1>3. /\ Tail(r.wire) = <<>> /\ request = r.wire[1]
      /\ Append(r.inbox, answer) = <<answer>>
  <2> HIDE DEF answer, r
  <2> QED
    BY <1>1, <1>2
<1>4. format = r.depth
  <2>1. r.depth # None
    BY <1>1, ViewerAssumption DEF Protocol
  <2> QED
    BY <1>2, <1>3, <2>1
<1> HIDE DEF request, format, rs
<1>5. /\ r1.wire = <<>> /\ r1.inbox = <<answer>> /\ r1.format = r.depth /\ r1.depth = r.depth
      /\ r1.outstanding = r.outstanding /\ answer.format = r.depth
  BY <1>1, <1>3, <1>4 DEF Protocol
<1> HIDE DEF r1, answer
<1>6. Len(r1.wire) = 0 /\ Len(r1.inbox) = 1 /\ r1.inbox[1] = answer /\ r1.inbox # <<>>
  BY <1>5
<1>7. Agrees(r1, pc[g])
  BY <1>1, <1>2, <1>5, <1>6 DEF Agrees, Talking
<1> QED
  BY <1>1, <1>7 DEF Agreed, TypeOK

LEMMA AgreedKept ==
  ASSUME IInv, [Next]_vars
  PROVE  Agreed'
<1> USE DEF IInv
<1>1. ASSUME NEW g \in Gens, Thread(g) PROVE Agreed'
  BY <1>1, ThreadAgrees
<1>2. CASE ConnectVnc
  <2>1. generation + 1 \in Gens /\ StartPending(generation + 1, retiring \cup Active)
    BY <1>2, ViewerAssumption DEF ConnectVnc, TypeOK, Gens
  <2> QED
    BY <2>1, StartAgrees
<1>3. CASE ReapWorkers
  <2>1. CASE pendingConnect /\ StartPending(generation, {})
    BY <2>1, StartAgrees DEF Unstarted
  <2>2. CASE UNCHANGED <<pc, rfb>>
    BY <2>2 DEF Agreed
  <2> QED
    BY <1>3, <2>1, <2>2 DEF ReapWorkers
<1>4. ASSUME NEW g \in Gens, ServerAnswers(g) PROVE Agreed'
  BY <1>4, ServerAgrees
<1>5. CASE UNCHANGED <<pc, rfb>>
  BY <1>5 DEF Agreed
<1> QED
  BY <1>1, <1>2, <1>3, <1>4, <1>5
  DEF Next, Gui, Operator, Server, Drain, DrainEnds, DrainEvent, ApplyUpdates, DisconnectVnc,
      Cleanup, SetDepth, ScreenResizes, OnlyRfb, threads, vars

-----------------------------------------------------------------------------
(* The sizes of frames *)

\* A step that adds events at the end, and shows no picture of another size.
LEMMA ShowsKept ==
  ASSUME NEW n \in Nat, NEW s, ShowsAfter(n, s), generation' = generation,
         \A i \in 1..n : events'[i] = events[i],
         state' = "connected" /\ fb' # None => state = "connected" /\ fb' = fb
  PROVE  ShowsAfter(n, s)'
<1>1. \A i \in 1..n : Sizing(events[i])' <=> Sizing(events[i])
  BY DEF Sizing
<1>2. CASE /\ \A j \in 1..n : ~Sizing(events[j])
           /\ state = "connected" /\ fb # None => fb = s
  BY <1>1, <1>2 DEF ShowsAfter
<1>3. ASSUME NEW i \in 1..n, Sizing(events[i]), events[i].size = s,
             \A j \in (i + 1)..n : ~Sizing(events[j])
      PROVE  ShowsAfter(n, s)'
  <2>1. \A j \in (i + 1)..n : j \in 1..n
    OBVIOUS
  <2>2. Sizing(events[i])' /\ events'[i].size = s /\ \A j \in (i + 1)..n : ~Sizing(events[j])'
    BY <1>1, <1>3, <2>1
  <2> QED
    BY <2>2 DEF ShowsAfter
<1> QED
  BY <1>2, <1>3 DEF ShowsAfter

\* One more event: of no size, or of a new one.
LEMMA ShowsMore ==
  ASSUME NEW n \in Nat, NEW s, ShowsAfter(n, s)', ~Sizing(events[n + 1])'
  PROVE  ShowsAfter(n + 1, s)'
<1>1. \A j \in 1..(n + 1) : j \in 1..n \/ j = n + 1
  OBVIOUS
<1>2. CASE /\ \A j \in 1..n : ~Sizing(events[j])'
           /\ state' = "connected" /\ fb' # None => fb' = s
  <2>1. \A j \in 1..(n + 1) : ~Sizing(events[j])'
    BY <1>1, <1>2
  <2> QED
    BY <1>2, <2>1 DEF ShowsAfter
<1>3. ASSUME NEW i \in 1..n, Sizing(events[i])', events'[i].size = s,
             \A j \in (i + 1)..n : ~Sizing(events[j])'
      PROVE  ShowsAfter(n + 1, s)'
  <2>1. i \in 1..(n + 1) /\ \A j \in (i + 1)..(n + 1) : j \in (i + 1)..n \/ j = n + 1
    OBVIOUS
  <2>2. \A j \in (i + 1)..(n + 1) : ~Sizing(events[j])'
    BY <1>3, <2>1
  <2> QED
    BY <1>3, <2>1, <2>2 DEF ShowsAfter
<1> QED
  BY <1>2, <1>3 DEF ShowsAfter

LEMMA ShowsSized ==
  ASSUME NEW n \in Nat, NEW s, Sizing(events[n + 1])', events'[n + 1].size = s
  PROVE  ShowsAfter(n + 1, s)'
<1>1. n + 1 \in 1..(n + 1) /\ \A j \in ((n + 1) + 1)..(n + 1) : FALSE
  OBVIOUS
<1> QED
  BY <1>1 DEF ShowsAfter

\* The GUI thread has handled the first event.
LEMMA ShowsTail ==
  ASSUME IInv, DrainEvent, NEW n \in Nat, NEW s, n < Len(events), ShowsAfter(n + 1, s)
  PROVE  ShowsAfter(n, s)'
<1> USE DEF IInv
<1> DEFINE e == Head(events)
<1>1. /\ events # <<>> /\ events' = Tail(events) /\ Handle(e) /\ UNCHANGED generation
  BY DEF DrainEvent
<1>2. /\ e = events[1] /\ \A i \in 1..n : events'[i] = events[i + 1]
      /\ e.size \in Sizes \cup {None} /\ e \in Events
      /\ e.kind \in {"connected", "resize"} => e.size \in Sizes
  <2>1. /\ e = events[1] /\ e \in Events /\ 1 \in 1..Len(events)
        /\ \A i \in 1..Len(events') : events'[i] = events[i + 1]
        /\ Len(events') = Len(events) - 1 /\ Len(events) \in Nat
    BY <1>1, TailEvents DEF TypeOK
  <2>2. \A i \in 1..n : i \in 1..Len(events')
    BY <2>1
  <2> QED
    BY <2>1, <2>2 DEF Sized, Events
<1> HIDE DEF e
<1>3. \A i \in 1..n : Sizing(events[i])' <=> Sizing(events[i + 1])
  BY <1>1, <1>2 DEF Sizing
<1>4. CASE Sizing(e)
  <2>1. e.gen = generation /\ Shown(e)
    BY <1>1, <1>4 DEF Handle, Sizing
  <2>2. fb' \in {e.size, None}
    BY <2>1 DEF Shown
  <2>3. CASE \E i \in 1..(n + 1) : /\ Sizing(events[i]) /\ events[i].size = s
                                  /\ \A j \in (i + 1)..(n + 1) : ~Sizing(events[j])
    <3>1. PICK i \in 1..(n + 1) : /\ Sizing(events[i]) /\ events[i].size = s
                                  /\ \A j \in (i + 1)..(n + 1) : ~Sizing(events[j])
      BY <2>3
    <3>2. CASE i = 1
      <4>1. \A j \in 1..n : j + 1 \in (1 + 1)..(n + 1)
        OBVIOUS
      <4>2. \A j \in 1..n : ~Sizing(events[j])'
        BY <1>3, <3>1, <3>2, <4>1
      <4>3. fb' # None => fb' = s
        BY <2>2, <3>1, <3>2, <1>2
      <4> QED
        BY <4>2, <4>3 DEF ShowsAfter
    <3>3. CASE i # 1
      <4>1. i - 1 \in 1..n /\ (i - 1) + 1 = i
        BY <3>3
      <4>2. \A j \in ((i - 1) + 1)..n : j \in 1..n /\ j + 1 \in (i + 1)..(n + 1)
        BY <3>3
      <4>3. \A j \in ((i - 1) + 1)..n : ~Sizing(events[j])'
        BY <1>3, <3>1, <4>2
      <4>4. Sizing(events[i - 1])' /\ events'[i - 1].size = s
        BY <1>2, <1>3, <3>1, <4>1
      <4> QED
        BY <4>1, <4>3, <4>4 DEF ShowsAfter
    <3> QED
      BY <3>2, <3>3
  <2>4. ~ \A j \in 1..(n + 1) : ~Sizing(events[j])
    <3>1. 1 \in 1..(n + 1)
      OBVIOUS
    <3> QED
      BY <3>1, <1>2, <1>4
  <2> QED
    BY <2>3, <2>4 DEF ShowsAfter
<1>5. CASE ~Sizing(e)
  <2>1. fb' = fb /\ (state' = "connected" => state = "connected")
    BY <1>1, <1>5 DEF Handle, Sizing, Failed, Ended, Drawn, screen
  <2>2. CASE /\ \A j \in 1..(n + 1) : ~Sizing(events[j])
             /\ state = "connected" /\ fb # None => fb = s
    <3>1. \A j \in 1..n : j + 1 \in 1..(n + 1)
      OBVIOUS
    <3> QED
      BY <1>3, <2>1, <2>2, <3>1 DEF ShowsAfter
  <2>3. ASSUME NEW i \in 1..(n + 1), Sizing(events[i]), events[i].size = s,
               \A j \in (i + 1)..(n + 1) : ~Sizing(events[j])
        PROVE  ShowsAfter(n, s)'
    <3>1. i # 1
      BY <1>2, <1>5, <2>3
    <3>2. i - 1 \in 1..n /\ (i - 1) + 1 = i
      BY <3>1
    <3>3. \A j \in ((i - 1) + 1)..n : j \in 1..n /\ j + 1 \in (i + 1)..(n + 1)
      BY <3>1
    <3>4. \A j \in ((i - 1) + 1)..n : ~Sizing(events[j])'
      BY <1>3, <2>3, <3>3
    <3>5. Sizing(events[i - 1])' /\ events'[i - 1].size = s
      BY <1>2, <1>3, <2>3, <3>2
    <3> QED
      BY <3>2, <3>4, <3>5 DEF ShowsAfter
  <2> QED
    BY <2>2, <2>3 DEF ShowsAfter
<1> QED
  BY <1>4, <1>5

\* The steps that matter to the sizes.
LEMMA FitSteps ==
  ASSUME IInv, [Next]_vars
  PROVE  \/ \E g \in Gens : Thread(g) \/ ServerAnswers(g)
         \/ DrainEvent
         \/ closing' /\ updates' = {}
         \/ /\ updates' = {} /\ UNCHANGED events
            /\ \A g \in Gens : g = generation' => pc'[g] \in {"none", "dial"}
         \/ /\ UNCHANGED <<events, generation, closing, fb>> /\ updates' \subseteq updates
            /\ state' = "connected" => state = "connected"
            /\ \A g \in Gens : pc'[g] = "dial" \/ (pc'[g] = pc[g] /\ rfb'[g] = rfb[g])
<1> USE GensAreNat, ViewerAssumption DEF IInv
<1>1. CASE ConnectVnc
  <2>1. /\ generation \in Nat /\ generation + 1 \in Gens /\ generation' = generation + 1
        /\ StartPending(generation + 1, retiring \cup Active)
    BY <1>1 DEF ConnectVnc, TypeOK, Gens
  <2>2. retiring \cup Active \in SUBSET Gens
    BY DEF TypeOK, Active
  <2>3. updates' = {} /\ UNCHANGED events
    BY <1>1 DEF ConnectVnc, bridge
  <2>4. pc[generation + 1] = "none"
    BY <2>1 DEF Unstarted
  <2>5. pc'[generation + 1] \in {"none", "dial"}
    BY <2>1, <2>2, <2>4, StartMoves
  <2> QED
    BY <2>1, <2>3, <2>5
<1>2. CASE DisconnectVnc
  <2>1. generation' = generation + 1 /\ pc' = pc /\ updates' = {} /\ UNCHANGED events
    BY <1>2 DEF DisconnectVnc, bridge
  <2> QED
    BY <2>1 DEF Unstarted, TypeOK
<1>3. CASE ReapWorkers
  <2>1. UNCHANGED <<events, generation, closing, fb, updates>>
    BY <1>3 DEF ReapWorkers, bridge, screen
  <2>2. ASSUME pendingConnect, StartPending(generation, {})
        PROVE  /\ state' # "connected"
               /\ \A g \in Gens : pc'[g] = "dial" \/ (pc'[g] = pc[g] /\ rfb'[g] = rfb[g])
    <3>1. generation \in Gens
      BY <2>2 DEF Unstarted
    <3>2. CASE pc' = [pc EXCEPT ![generation] = "dial"] /\ state' = "connecting"
               /\ rfb' = [rfb EXCEPT ![generation] = Fresh(depthIdx, size)]
      <4>1. DOMAIN pc = Gens /\ DOMAIN rfb = Gens
        BY DEF TypeOK
      <4>2. \A g \in Gens : pc'[g] = "dial" \/ (pc'[g] = pc[g] /\ rfb'[g] = rfb[g])
        BY <3>1, <3>2, <4>1
      <4> QED
        BY <3>2, <4>2
    <3>3. CASE UNCHANGED <<pc, rfb>> /\ state' \in {"connecting", "error"}
      BY <3>3
    <3> QED
      BY <2>2, <3>2, <3>3 DEF StartPending
  <2>3. ASSUME UNCHANGED <<state, pc, rfb>>
        PROVE  /\ state' = "connected" => state = "connected"
               /\ \A g \in Gens : pc'[g] = pc[g] /\ rfb'[g] = rfb[g]
    BY <2>3
  <2>4. /\ state' = "connected" => state = "connected"
        /\ \A g \in Gens : pc'[g] = "dial" \/ (pc'[g] = pc[g] /\ rfb'[g] = rfb[g])
    BY <1>3, <2>2, <2>3 DEF ReapWorkers
  <2> QED
    BY <2>1, <2>4
<1>4. CASE Cleanup
  BY <1>4 DEF Cleanup
<1>5. CASE Drain \/ DrainEnds \/ ApplyUpdates \/ (\E d \in Depths : SetDepth(d))
           \/ ScreenResizes \/ UNCHANGED vars
  BY <1>5 DEF Drain, DrainEnds, ApplyUpdates, SetDepth, ScreenResizes, OnlyRfb, bridge, link,
              screen, threads, vars
<1> QED
  BY <1>1, <1>2, <1>3, <1>4, <1>5 DEF Next, Gui, Operator, Server

LEMMA UpdatesKept ==
  ASSUME IInv, FitInv, [Next]_vars
  PROVE  UpdatesFit'
<1> USE DEF IInv, FitInv
<1>1. ASSUME UNCHANGED <<generation, fb>>, updates' \subseteq updates
      PROVE  UpdatesFit'
  BY <1>1 DEF UpdatesFit
<1>2. CASE updates' = {}
  BY <1>2 DEF UpdatesFit
<1>3. ASSUME NEW g \in Gens, Thread(g) \/ ServerAnswers(g) PROVE UpdatesFit'
  BY <1>1, <1>3, ThreadMoves DEF ServerAnswers, OnlyRfb, link, screen
<1>4. CASE DrainEvent
  <2> DEFINE e == Head(events)
  <2>1. /\ events # <<>> /\ Handle(e) /\ UNCHANGED generation /\ ~closing
        /\ e = events[1] /\ 1 \in 1..Len(events) /\ e \in Events
    BY <1>4, HeadEvent DEF DrainEvent, OneCall
  <2>2. e.kind = "frame" => e.size \in Sizes
    BY <2>1 DEF Sized
  <2> HIDE DEF e
  <2>3. CASE UNCHANGED screen
    BY <1>1, <2>1, <2>3 DEF screen
  <2>4. CASE e.gen = generation /\ e.kind = "frame" /\ Drawn(e)
    <3>1. e = [gen |-> generation, kind |-> "frame", size |-> e.size]
      BY <2>1, <2>4 DEF Events
    <3>2. ShowsAfter(1 - 1, e.size)
      BY <2>1, <2>2, <2>4, <3>1 DEF FramesFit
    <3>3. state = "connected" /\ fb # None => fb = e.size
      BY <3>2 DEF ShowsAfter
    <3>4. UNCHANGED <<generation, fb>> /\ updates' \subseteq updates \cup {[gen |-> generation, size |-> fb]}
      BY <2>1, <2>4, <3>3 DEF Drawn
    <3> QED
      BY <3>4 DEF UpdatesFit
  <2> QED
    BY <1>2, <2>1, <2>3, <2>4 DEF Handle, Shown, Failed, Ended
<1> QED
  BY <1>1, <1>2, <1>3, <1>4, FitSteps

\* Events that are added at the end leave the earlier ones.
LEMMA FitsLater ==
  ASSUME TypeOK, NEW n \in Nat, n <= Len(events), NEW s, ShowsAfter(n, s),
         \A i \in 1..Len(events) : events'[i] = events[i], generation' = generation,
         state' = "connected" /\ fb' # None => state = "connected" /\ fb' = fb
  PROVE  ShowsAfter(n, s)'
<1>1. \A i \in 1..n : i \in 1..Len(events)
  <2>1. Len(events) \in Nat
    BY DEF TypeOK
  <2> QED
    BY <2>1
<1> QED
  BY <1>1, ShowsKept

\* An event that thread g adds.
LEMMA EnqueueFits ==
  ASSUME TypeOK, FramesFit, NEW g \in Gens, NEW k \in Kinds, NEW s \in Sizes \cup {None},
         NEW n, n = Len(events), Enqueue(g, k, s), ~closing,
         UNCHANGED <<generation, state, fb>>,
         g = generation /\ k = "frame" => ShowsAfter(n, s)
  PROVE  /\ FramesFit' /\ n \in Nat /\ Len(events') = n + 1
         /\ g = generation /\ k \in {"connected", "resize"} => ShowsAfter(n + 1, s)'
         /\ ~(g = generation /\ k \in {"connected", "resize"}) =>
              \A t \in Sizes : ShowsAfter(n, t) => ShowsAfter(n + 1, t)'
<1>1. /\ n \in Nat /\ Len(events') = n + 1
      /\ \A i \in 1..n : events'[i] = events[i]
      /\ events'[n + 1] = [gen |-> g, kind |-> k, size |-> s]
  <2>1. Len(events) \in Nat
    BY DEF TypeOK
  <2>2. /\ Len(events') = Len(events) + 1
        /\ \A i \in 1..Len(events) : events'[i] = events[i]
        /\ events'[Len(events) + 1] = [gen |-> g, kind |-> k, size |-> s]
    BY EnqueueEvents
  <2> QED
    BY <2>1, <2>2
<1>2. ASSUME NEW j \in 1..(n + 1), NEW t \in Sizes, ~closing',
             events'[j] = [gen |-> generation', kind |-> "frame", size |-> t]
      PROVE  ShowsAfter(j - 1, t)'
  <2>1. j - 1 \in Nat /\ j - 1 <= n
    BY <1>1
  <2>2. CASE j \in 1..n
    <3>1. ShowsAfter(j - 1, t)
      BY <1>1, <1>2, <2>2 DEF FramesFit
    <3> QED
      BY <1>1, <2>1, <3>1, FitsLater
  <2>3. CASE j = n + 1
    <3>1. j - 1 = n /\ g = generation /\ k = "frame" /\ s = t
      BY <1>1, <1>2, <2>3
    <3>2. ShowsAfter(j - 1, t)
      BY <3>1
    <3> QED
      BY <1>1, <2>1, <3>2, FitsLater
  <2> QED
    BY <1>1, <2>2, <2>3
<1>3. FramesFit'
  BY <1>1, <1>2 DEF FramesFit
<1>4. ASSUME g = generation /\ k \in {"connected", "resize"}
      PROVE  ShowsAfter(n + 1, s)'
  <2>1. Sizing(events[n + 1])' /\ events'[n + 1].size = s
    BY <1>1, <1>4 DEF Sizing
  <2> QED
    BY <1>1, <2>1, ShowsSized
<1>5. ASSUME ~(g = generation /\ k \in {"connected", "resize"}), NEW t \in Sizes, ShowsAfter(n, t)
      PROVE  ShowsAfter(n + 1, t)'
  <2>1. ~Sizing(events[n + 1])'
    BY <1>1, <1>5 DEF Sizing
  <2>2. ShowsAfter(n, t)'
    BY <1>1, <1>5, FitsLater
  <2> QED
    BY <1>1, <2>1, <2>2, ShowsMore
<1> QED
  BY <1>1, <1>3, <1>4, <1>5

\* Frames when no event is added or taken.
LEMMA SameFrames ==
  ASSUME TypeOK, FramesFit, UNCHANGED <<events, generation, closing>>,
         state' = "connected" /\ fb' # None => state = "connected" /\ fb' = fb
  PROVE  FramesFit'
<1> SUFFICES ASSUME ~closing', NEW j \in 1..Len(events), NEW t \in Sizes,
                    events'[j] = [gen |-> generation', kind |-> "frame", size |-> t]
             PROVE  ShowsAfter(j - 1, t)'
  BY DEF FramesFit
<1>1. j - 1 \in Nat /\ j - 1 <= Len(events)
  BY DEF TypeOK
<1>2. ShowsAfter(j - 1, t)
  BY DEF FramesFit
<1> QED
  BY <1>1, <1>2, FitsLater

\* The thread of the current connection reads on and adds no event.
LEMMA SameRest ==
  ASSUME TypeOK, RestFits, ~closing, UNCHANGED <<events, generation>>,
         state' = "connected" /\ fb' # None => state = "connected" /\ fb' = fb,
         NEW g \in Gens, g = generation, pc[g] \in {"setup"} \cup Talking,
         NEW t \in Sizes, rfb[g].told = t, Rest(rfb[g], pc[g])' = Rest(rfb[g], pc[g])
  PROVE  Fits(Rest(rfb[g], pc[g]), t)'
<1> PICK n : n = Len(events)
  OBVIOUS
<1>1. n \in Nat /\ n <= Len(events) /\ Len(events') = n
  BY DEF TypeOK
<1>2. Fits(Rest(rfb[g], pc[g]), t)
  BY DEF RestFits
<1>3. ShowsAfter(n, t) => ShowsAfter(n, t)'
  BY <1>1, FitsLater
<1> QED
  BY <1>1, <1>2, <1>3 DEF Fits, Framed, Resized

LEMMA ThreadFits ==
  ASSUME IInv, FitInv, NEW g \in Gens, Thread(g)
  PROVE  FramesFit' /\ RestFits'
<1> USE DEF IInv, FitInv
<1>1. UNCHANGED <<generation, state, fb, closing>> /\ \A h \in Gens : h # g => pc'[h] = pc[h]
  BY ThreadMoves DEF link, screen
<1>2. CASE closing
  BY <1>1, <1>2 DEF FramesFit, RestFits
<1> SUFFICES ASSUME ~closing PROVE FramesFit' /\ RestFits'
  BY <1>2
<1> DEFINE r == rfb[g]
<1>3. /\ r \in Protocol /\ rfb \in [Gens -> Protocol] /\ Agrees(r, pc[g])
      /\ pc \in [Gens -> {"none", "final", "ended", "dead"} \cup Blocked]
  BY DEF TypeOK, Agreed
<1>4. \A h \in Gens : h # g => rfb'[h] = rfb[h]
  BY <1>3 DEF Thread, Emit, Connected, Setup, Waits, KeepsAlive, LoopTop, RecvUpdate, Rect,
              UpdateDone, Breaks, Stopped, Finish, Dies
<1> PICK n : n = Len(events)
  OBVIOUS
<1>5. n \in Nat
  BY DEF TypeOK
<1>6. CASE UNCHANGED events
  <2>1. FramesFit'
    BY <1>1, <1>6, SameFrames
  <2>2. ASSUME NEW h \in Gens, NEW t \in Sizes, h = generation, rfb'[h].told = t,
               pc'[h] \in {"setup"} \cup Talking
        PROVE  Fits(Rest(rfb[h], pc[h]), t)'
    <3>1. ASSUME pc[h] \in {"setup"} \cup Talking, rfb[h].told = t,
                 Rest(rfb[h], pc[h])' = Rest(rfb[h], pc[h])
          PROVE  Fits(Rest(rfb[h], pc[h]), t)'
      BY <1>1, <1>6, <2>2, <3>1, SameRest
    <3>2. CASE pc'[h] = pc[h] /\ rfb'[h] = rfb[h]
      BY <2>2, <3>1, <3>2
    <3>3. CASE h = g
      <4> DEFINE r2 == rfb'[g]
      <4>1. CASE Setup(g)
        <5>1. /\ pc[g] = "setup" /\ pc'[g] = "loop" /\ r2.inbox = r.inbox /\ r2.told = r.told
          BY <1>3, <4>1 DEF Setup, At, Goto, Protocol
        <5> QED
          BY <2>2, <3>1, <3>3, <5>1 DEF Rest
      <4>2. CASE LoopTop(g) /\ (Waits(g) \/ KeepsAlive(g))
        <5>1. /\ pc[g] \in {"loop", "recv"} /\ pc'[g] = "recv"
          BY <1>3, <4>2 DEF LoopTop, At, Goto
        <5>2. Drained(g).inbox = r.inbox /\ Drained(g).told = r.told /\ Drained(g) \in Protocol
          <6> DEFINE r1 == [r EXCEPT !.pending = Wanted(r.depth, @, q[g])]
          <6>1. r1.inbox = r.inbox /\ r1.told = r.told /\ DOMAIN r1 = DOMAIN r
            BY <1>3 DEF Protocol
          <6> HIDE DEF r1
          <6>2. Drained(g) = Applied(r1) /\ Drained(g) \in Protocol
            BY DrainedType DEF Drained, r1
          <6>3. Applied(r1).inbox = r1.inbox /\ Applied(r1).told = r1.told
            BY <1>3, <6>1 DEF Applied, Protocol
          <6> QED
            BY <6>1, <6>2, <6>3
        <5>3. r2.inbox = r.inbox /\ r2.told = r.told
          <6> DEFINE d == Drained(g)
          <6> HIDE DEF d
          <6>1. d.inbox = r.inbox /\ d.told = r.told /\ d \in Protocol
            BY <5>2 DEF d
          <6>2. \/ rfb' = [rfb EXCEPT ![g] = d]
                \/ rfb' = [rfb EXCEPT ![g] = [d EXCEPT !.wire = Append(@, None), !.outstanding = TRUE]]
            BY <4>2 DEF Waits, KeepsAlive, d
          <6> QED
            BY <1>3, <6>1, <6>2 DEF Protocol
        <5>4. pc[g] \in {"setup"} \cup Talking
          BY <5>1 DEF Talking
        <5> QED
          BY <2>2, <3>1, <3>3, <5>1, <5>3, <5>4 DEF Rest
      <4>3. CASE RecvUpdate(g)
        <5>1. /\ pc[g] = "recv" /\ pc'[g] = "update" /\ r.inbox # <<>>
              /\ r2.rects = Head(r.inbox).rects /\ r2.told = r.told
          BY <1>3, <4>3 DEF RecvUpdate, At, Goto, Protocol
        <5>2. Head(r.inbox) = r.inbox[1]
          OBVIOUS
        <5> QED
          BY <2>2, <3>1, <3>3, <5>1, <5>2 DEF Rest, Talking
      <4>4. CASE UpdateDone(g)
        <5> DEFINE r1 == [r EXCEPT !.outstanding = FALSE]
        <5>1. /\ pc[g] = "update" /\ pc'[g] = "loop" /\ r.rects = <<>> /\ r2 = Applied(r1)
          BY <1>3, <4>4 DEF UpdateDone, At, Goto
        <5>2. r1.inbox = r.inbox /\ r1.told = r.told /\ r1 \in Protocol
          BY <1>3 DEF Protocol
        <5> HIDE DEF r1
        <5>3. r2.inbox = r.inbox /\ r2.told = r.told
          BY <5>1, <5>2 DEF Applied, Protocol
        <5>4. r.inbox = <<>>
          BY <1>3, <5>1 DEF Agrees, Talking
        <5> QED
          BY <2>2, <3>1, <3>3, <5>1, <5>3, <5>4 DEF Rest, Talking
      <4>5. CASE Emit(g)
        BY <3>2, <3>3, <4>5 DEF Emit
      <4>6. CASE Breaks(g) \/ Stopped(g) \/ Finish(g) \/ Dies(g)
        <5>1. pc'[g] \in {"final", "ended", "dead"}
          BY <1>3, <4>6 DEF Breaks, Stopped, Finish, Dies, Goto
        <5> QED
          BY <2>2, <3>3, <5>1 DEF Talking
      <4>7. CASE Connected(g) \/ Rect(g)
        BY <1>5, <1>6, <4>7 DEF Connected, Rect, Enqueue, TypeOK
      <4> QED
        BY <4>1, <4>2, <4>3, <4>4, <4>5, <4>6, <4>7 DEF Thread, Waits, KeepsAlive
    <3> QED
      BY <1>1, <1>4, <3>2, <3>3
  <2> QED
    BY <1>1, <2>1, <2>2 DEF RestFits
<1>7. ASSUME NEW k \in Kinds, NEW s \in Sizes \cup {None}, Enqueue(g, k, s),
             g = generation /\ k = "frame" => ShowsAfter(n, s),
             \A t \in Sizes :
               g = generation /\ pc'[g] \in {"setup"} \cup Talking /\ rfb'[g].told = t =>
                 \/ Rest(rfb[g], pc[g])' = <<>> /\ k = "connected" /\ s = t
                 \/ Rest(rfb[g], pc[g])' = <<>> /\ k = "frame" /\ ShowsAfter(n, t)
                 \/ Rest(rfb[g], pc[g])' = <<Framed(t)>> /\ k = "resize" /\ s = t
      PROVE  FramesFit' /\ RestFits'
  <2>1. /\ FramesFit' /\ Len(events') = n + 1
        /\ g = generation /\ k \in {"connected", "resize"} => ShowsAfter(n + 1, s)'
        /\ ~(g = generation /\ k \in {"connected", "resize"}) =>
             \A t \in Sizes : ShowsAfter(n, t) => ShowsAfter(n + 1, t)'
    BY <1>1, <1>7, EnqueueFits
  <2>2. ASSUME NEW h \in Gens, NEW t \in Sizes, h = generation, rfb'[h].told = t,
               pc'[h] \in {"setup"} \cup Talking
        PROVE  Fits(Rest(rfb[h], pc[h]), t)'
    <3>1. CASE h = g
      <4>1. Rest(rfb[g], pc[g])' \in {<<>>, <<Framed(t)>>} /\ ShowsAfter(n + 1, t)'
        BY <1>7, <2>1, <2>2, <3>1
      <4> QED
        BY <2>1, <3>1, <4>1 DEF Fits, Framed
    <3>2. CASE h # g
      <4>1. pc'[h] = pc[h] /\ rfb'[h] = rfb[h]
        BY <1>1, <1>4, <3>2
      <4>2. Fits(Rest(rfb[h], pc[h]), t)
        BY <2>2, <4>1 DEF RestFits
      <4>3. Rest(rfb[h], pc[h])' = Rest(rfb[h], pc[h])
        BY <4>1 DEF Rest
      <4>4. ShowsAfter(n, t) => ShowsAfter(n + 1, t)'
        BY <2>1, <2>2, <3>2
      <4> QED
        BY <2>1, <4>2, <4>3, <4>4 DEF Fits, Framed, Resized
    <3> QED
      BY <3>1, <3>2
  <2> QED
    BY <1>1, <2>1, <2>2 DEF RestFits
<1>8. CASE Connected(g)
  <2>1. /\ Enqueue(g, "connected", size) /\ pc[g] = "dial" /\ pc'[g] = "setup"
        /\ rfb' = [rfb EXCEPT ![g] = [r EXCEPT !.told = size]]
    BY <1>3, <1>8 DEF Connected, At, Goto
  <2>2. r.inbox = <<>> /\ rfb'[g].inbox = r.inbox /\ rfb'[g].told = size
    BY <1>3, <2>1 DEF Agrees, Protocol
  <2>3. Rest(rfb[g], pc[g])' = <<>>
    BY <2>1, <2>2 DEF Rest
  <2>4. "connected" \in Kinds /\ size \in Sizes \cup {None}
    BY DEF Kinds, TypeOK
  <2> QED
    BY <1>7, <2>1, <2>2, <2>3, <2>4
<1>9. CASE Rect(g)
  <2> DEFINE k == Head(r.rects).kind
             s == Head(r.rects).size
  <2>1. /\ Enqueue(g, k, s) /\ pc[g] = "update" /\ pc'[g] = "update" /\ r.rects # <<>>
        /\ rfb' = [rfb EXCEPT ![g] = [r EXCEPT !.rects = Tail(r.rects)]]
    BY <1>9 DEF Rect, At
  <2>2. rfb'[g].rects = Tail(r.rects) /\ rfb'[g].told = r.told /\ r.told \in Sizes
    BY <1>3, <2>1 DEF Protocol
  <2>3. k \in Kinds /\ s \in Sizes \cup {None}
    <3>1. r.rects \in Seq(Rects)
      BY <1>3 DEF Protocol
    <3>2. Head(r.rects) \in Rects
      BY <2>1, <3>1
    <3> QED
      BY <3>2 DEF Rects, Kinds
  <2>4. Rest(rfb[g], pc[g])' = Tail(r.rects)
    BY <2>1, <2>2 DEF Rest
  <2>5. CASE g = generation
    <3>1. Fits(r.rects, r.told)
      BY <2>1, <2>2, <2>5 DEF RestFits, Talking, Rest
    <3>2. CASE r.rects = <<Framed(r.told)>> /\ ShowsAfter(n, r.told)
      <4>1. k = "frame" /\ s = r.told /\ Tail(r.rects) = <<>>
        BY <3>2 DEF Framed
      <4> HIDE DEF k, s
      <4>2. \A t \in Sizes : rfb'[g].told = t => t = r.told
        BY <2>2
      <4> QED
        BY <1>7, <2>1, <2>3, <2>4, <3>2, <4>1, <4>2
    <3>3. CASE r.rects = <<Resized(r.told), Framed(r.told)>>
      <4>1. k = "resize" /\ s = r.told /\ Tail(r.rects) = <<Framed(r.told)>>
        BY <3>3 DEF Resized
      <4> HIDE DEF k, s
      <4>2. \A t \in Sizes : rfb'[g].told = t => t = r.told
        BY <2>2
      <4> QED
        BY <1>7, <2>1, <2>3, <2>4, <4>1, <4>2
    <3> QED
      BY <2>1, <3>1, <3>2, <3>3 DEF Fits
  <2>6. CASE g # generation
    <3> HIDE DEF k, s
    <3> QED
      BY <1>7, <2>1, <2>3, <2>6
  <2> QED
    BY <2>5, <2>6
<1>10. CASE Breaks(g) \/ Finish(g)
  <2>1. PICK k \in {"error", "disconnected"} : Enqueue(g, k, None)
    BY <1>10 DEF Breaks, Finish
  <2>2. pc'[g] \in {"final", "ended"}
    BY <1>3, <1>10 DEF Breaks, Finish, Goto
  <2> QED
    BY <1>7, <2>1, <2>2 DEF Kinds, Talking
<1>11. CASE Emit(g) \/ Setup(g) \/ Waits(g) \/ KeepsAlive(g) \/ RecvUpdate(g) \/ UpdateDone(g)
            \/ Stopped(g) \/ Dies(g)
  BY <1>6, <1>11 DEF Emit, Setup, Waits, KeepsAlive, LoopTop, RecvUpdate, UpdateDone,
                     Stopped, Dies, Quiet
<1> QED
  BY <1>8, <1>9, <1>10, <1>11 DEF Thread

\* Two one-element sequences make a pair.
LEMMA PairCat ==
  ASSUME NEW a, NEW b PROVE <<a>> \o <<b>> = <<a, b>>
<1> DEFINE S == {a, b}
           c == <<a>> \o <<b>>
           d == <<a, b>>
<1>1. <<a>> \in Seq(S) /\ <<b>> \in Seq(S) /\ d \in Seq(S)
  OBVIOUS
<1>2. c \in Seq(S) /\ Len(c) = 2 /\ Len(d) = 2
  BY <1>1
<1>3. c[1] = a /\ c[2] = b /\ d[1] = a /\ d[2] = b
  BY <1>1
<1> HIDE DEF c, d
<1>4. \A i \in 1..2 : c[i] = d[i]
  BY <1>3
<1>5. c = d
  BY <1>1, <1>2, <1>4
<1> QED
  BY <1>5 DEF c, d

LEMMA ServerFits ==
  ASSUME IInv, FitInv, NEW g \in Gens, ServerAnswers(g)
  PROVE  FramesFit' /\ RestFits'
<1> USE DEF IInv, FitInv
<1> DEFINE r == rfb[g]
           rs == (IF r.told = size THEN <<>> ELSE <<Resized(size)>>) \o <<Framed(size)>>
<1>1. UNCHANGED <<generation, state, fb, closing, events, pc>>
  BY DEF ServerAnswers, OnlyRfb, link, screen, bridge
<1>2. /\ r \in Protocol /\ Agrees(r, pc[g]) /\ pc[g] \in Talking /\ r.wire # <<>>
      /\ rfb \in [Gens -> Protocol] /\ size \in Sizes
  BY DEF TypeOK, Agreed, ServerAnswers
<1>3. r.inbox = <<>> /\ pc[g] # "update"
  BY <1>2 DEF Agrees
<1>4. /\ \A h \in Gens : h # g => rfb'[h] = rfb[h]
      /\ rfb'[g].told = size
      /\ \E f : rfb'[g].inbox = Append(r.inbox, [format |-> f, rects |-> rs])
  BY <1>2 DEF ServerAnswers, Protocol, Framed, Resized
<1> HIDE DEF rs
<1>5. Rest(rfb[g], pc[g])' = rs
  <2>1. PICK f : rfb'[g].inbox = Append(r.inbox, [format |-> f, rects |-> rs])
    BY <1>4
  <2> DEFINE a == [format |-> f, rects |-> rs]
  <2>2. a.rects = rs
    OBVIOUS
  <2> HIDE DEF a
  <2>3. rfb'[g].inbox = <<a>>
    BY <1>3, <2>1 DEF a
  <2>4. rfb'[g].inbox # <<>> /\ rfb'[g].inbox[1] = a
    BY <2>3
  <2> QED
    BY <1>1, <1>3, <2>2, <2>4 DEF Rest
<1>6. FramesFit'
  BY <1>1, SameFrames
<1>7. ASSUME NEW h \in Gens, NEW t \in Sizes, ~closing, h = generation, rfb'[h].told = t,
             pc[h] \in {"setup"} \cup Talking
      PROVE  Fits(Rest(rfb[h], pc[h]), t)'
  <2>1. ASSUME rfb[h].told = t, Rest(rfb[h], pc[h])' = Rest(rfb[h], pc[h])
        PROVE  Fits(Rest(rfb[h], pc[h]), t)'
    BY <1>1, <1>7, <2>1, SameRest
  <2>2. CASE h # g
    BY <1>1, <1>4, <1>7, <2>1, <2>2 DEF Rest
  <2>3. CASE h = g /\ r.told # size
    <3>1. t = size
      BY <1>4, <1>7, <2>3
    <3>2. rs = <<Resized(size)>> \o <<Framed(size)>>
      BY <2>3 DEF rs
    <3>3. <<Resized(size)>> \o <<Framed(size)>> = <<Resized(size), Framed(size)>>
      BY PairCat
    <3> QED
      BY <1>5, <2>3, <3>1, <3>2, <3>3 DEF Fits, Resized, Framed
  <2>4. CASE h = g /\ r.told = size
    <3>1. rs = <<Framed(t)>>
      BY <1>4, <1>7, <2>4 DEF rs
    <3>2. Fits(<<>>, t) 
      BY <1>3, <1>4, <1>7, <2>4 DEF RestFits, Rest
    <3> PICK n : n = Len(events)
      OBVIOUS
    <3>3. ShowsAfter(n, t) /\ n \in Nat /\ n <= Len(events)
      BY <3>2 DEF Fits, Framed, Resized, TypeOK
    <3>4. ShowsAfter(n, t)' /\ Len(events') = n
      BY <1>1, <3>3, FitsLater
    <3> QED
      BY <1>5, <2>4, <3>1, <3>4 DEF Fits, Framed
  <2> QED
    BY <2>2, <2>3, <2>4
<1> QED
  BY <1>1, <1>6, <1>7 DEF RestFits

LEMMA DrainFits ==
  ASSUME IInv, FitInv, DrainEvent
  PROVE  FramesFit' /\ RestFits'
<1> USE DEF IInv, FitInv
<1>1. UNCHANGED <<generation, closing, pc, rfb>> /\ events # <<>> /\ events' = Tail(events)
  BY DEF DrainEvent
<1> PICK m : m = Len(events')
  OBVIOUS
<1>2. /\ m \in Nat /\ Len(events) = m + 1
      /\ \A i \in 1..m : events'[i] = events[i + 1]
  <2>1. /\ Len(events') = Len(events) - 1 /\ Len(events) \in Nat
        /\ events' \in Seq(Events)
        /\ \A i \in 1..Len(events') : events'[i] = events[i + 1]
    BY <1>1, TailEvents DEF TypeOK
  <2>2. Len(events') \in Nat
    BY <2>1
  <2> QED
    BY <2>1, <2>2
<1>3. ASSUME NEW j \in 1..m, NEW t \in Sizes, ~closing,
             events'[j] = [gen |-> generation, kind |-> "frame", size |-> t]
      PROVE  ShowsAfter(j - 1, t)'
  <2>1. j + 1 \in 1..Len(events) /\ (j + 1) - 1 = (j - 1) + 1 /\ j - 1 \in Nat
        /\ j - 1 < Len(events)
    BY <1>2
  <2>2. ShowsAfter((j - 1) + 1, t)
    BY <1>2, <1>3, <2>1 DEF FramesFit
  <2> QED
    BY <2>1, <2>2, ShowsTail
<1>4. FramesFit'
  BY <1>1, <1>2, <1>3 DEF FramesFit
<1>5. ASSUME NEW h \in Gens, NEW t \in Sizes, ~closing, h = generation, rfb[h].told = t,
             pc[h] \in {"setup"} \cup Talking
      PROVE  Fits(Rest(rfb[h], pc[h]), t)'
  <2>1. Fits(Rest(rfb[h], pc[h]), t)
    BY <1>5 DEF RestFits
  <2>2. ShowsAfter(m + 1, t) => ShowsAfter(m, t)'
    BY <1>2, ShowsTail
  <2>3. Rest(rfb[h], pc[h])' = Rest(rfb[h], pc[h])
    BY <1>1
  <2> QED
    BY <1>2, <2>1, <2>2, <2>3 DEF Fits, Framed, Resized
<1> QED
  BY <1>1, <1>4, <1>5 DEF RestFits

LEMMA FitKept ==
  ASSUME IInv, FitInv, [Next]_vars
  PROVE  FitInv'
<1>1. UpdatesFit'
  BY UpdatesKept
<1> SUFFICES FramesFit' /\ RestFits'
  BY <1>1 DEF FitInv
<1>2. ASSUME NEW g \in Gens, Thread(g) \/ ServerAnswers(g) PROVE FramesFit' /\ RestFits'
  BY <1>2, ThreadFits, ServerFits
<1>3. CASE DrainEvent
  BY <1>3, DrainFits
<1>4. CASE closing'
  BY <1>4 DEF FramesFit, RestFits
<1>5. CASE /\ UNCHANGED events
           /\ \A g \in Gens : g = generation' => pc'[g] \in {"none", "dial"}
  <2>1. \A i \in 1..Len(events) : events[i].gen \in Gens /\ pc[events[i].gen] \notin {"none", "dial"}
    <3>1. events \in Seq(Events) /\ First
      BY DEF IInv, TypeOK
    <3>2. \A i \in 1..Len(events) : events[i] \in Events
      BY <3>1
    <3> QED
      BY <3>1, <3>2 DEF First, Events
  <2>2. \A i \in 1..Len(events) : events'[i].gen # generation'
    BY <1>5, <2>1, PastDial
  <2>3. FramesFit'
    BY <1>5, <2>2 DEF FramesFit
  <2>4. RestFits'
    BY <1>5 DEF RestFits, Talking
  <2> QED
    BY <2>3, <2>4
<1>6. CASE /\ UNCHANGED <<events, generation, closing, fb>>
           /\ state' = "connected" => state = "connected"
           /\ \A g \in Gens : pc'[g] = "dial" \/ (pc'[g] = pc[g] /\ rfb'[g] = rfb[g])
  <2>1. FramesFit' /\ TypeOK /\ RestFits
    BY <1>6, SameFrames DEF IInv, FitInv
  <2>2. ASSUME NEW h \in Gens, NEW t \in Sizes, ~closing, h = generation, rfb'[h].told = t,
               pc'[h] \in {"setup"} \cup Talking
        PROVE  Fits(Rest(rfb[h], pc[h]), t)'
    <3>1. pc'[h] = pc[h] /\ rfb'[h] = rfb[h]
      BY <1>6, <2>2 DEF Talking
    <3>2. Rest(rfb[h], pc[h])' = Rest(rfb[h], pc[h])
      BY <3>1
    <3> QED
      BY <1>6, <2>1, <2>2, <3>1, <3>2, SameRest
  <2> QED
    BY <1>6, <2>1, <2>2 DEF RestFits
<1> QED
  BY <1>2, <1>3, <1>4, <1>5, <1>6, FitSteps

-----------------------------------------------------------------------------
(* The theorems *)

LEMMA StepIInv == IInv /\ [Next]_vars => IInv'
<1> SUFFICES ASSUME IInv, [Next]_vars PROVE IInv'
  OBVIOUS
<1>1. TypeOK' /\ Owned' /\ OneWorker' /\ Unstarted' /\ InUse'
  BY TypeKept, LinkKept
<1>2. Sized' /\ First' /\ ConnectedIsCurrent' /\ OneCall' /\ Agreed'
  BY EventsKept, CurrentKept, OneCallKept, AgreedKept
<1> QED
  BY <1>1, <1>2 DEF IInv

LEMMA ViewerInductive == Spec => []IInv
BY InitIInv, StepIInv, PTL DEF Spec

\* The variables of the widget, the bridge and the threads keep their types; no
\* event is without the size that its handler reads.
THEOREM ViewerTypes == Spec => []TypeOK
<1>1. IInv => TypeOK
  BY DEF IInv
<1> QED
  BY <1>1, ViewerInductive, PTL

\* For any number of connections, at most one worker thread runs.
THEOREM OneWorkerAtATime == Spec => []OneWorker
<1>1. IInv => OneWorker
  BY DEF IInv
<1> QED
  BY <1>1, ViewerInductive, PTL

\* The viewer never shows "connected" for a connection that was left.
THEOREM ConnectedIsTrue == Spec => []ConnectedIsCurrent
<1>1. IInv => ConnectedIsCurrent
  BY DEF IInv
<1> QED
  BY <1>1, ViewerInductive, PTL

\* No update is decoded with another depth than it was encoded with.
THEOREM DecodingIsRight == Spec => []DecodedAsSent
<1>1. IInv => DecodedAsSent
  BY DEF IInv, Agreed, Agrees, Talking, DecodedAsSent
<1> QED
  BY <1>1, ViewerInductive, PTL

\* The wake-up of the GUI thread is neither lost nor doubled, with any number of
\* workers and any number of events per tick.
THEOREM OneWakeUp == Spec => []WakeUpOnce
<1>1. ASSUME IInv PROVE WakeUpOnce
  <2> SUFFICES ASSUME ~closing
               PROVE  /\ events # <<>> => scheduled
                      /\ wakeups + Cardinality(Emitting) + (IF draining > 0 THEN 1 ELSE 0)
                           = (IF scheduled THEN 1 ELSE 0)
    BY DEF WakeUpOnce
  <2>1. /\ draining \in Nat /\ wakeups \in Nat /\ TypeOK /\ OneCall
    BY <1>1, ViewerAssumption DEF IInv, TypeOK
  <2>2. CASE \E g \in Gens : emit[g]
    <3>1. PICK g \in Gens : emit[g]
      BY <2>2
    <3>2. Emitting = {g}
      BY <2>1, <3>1 DEF Emitting, OneCall
    <3>3. Cardinality(Emitting) = 1
      BY <3>2, FS_Singleton
    <3> QED
      BY <2>1, <3>1, <3>3 DEF OneCall
  <2>3. CASE \A g \in Gens : ~emit[g]
    <3>1. Emitting = {}
      BY <2>3 DEF Emitting
    <3>2. Cardinality(Emitting) = 0
      BY <3>1, FS_EmptySet
    <3> QED
      BY <2>1, <2>3, <3>2 DEF OneCall
  <2> QED
    BY <2>2, <2>3
<1> QED
  BY <1>1, ViewerInductive, PTL

\* For any number of connections and changes of the size, what waits to be painted
\* is of the current connection and has the size of the framebuffer.
THEOREM PaintedFits == Spec => []UpdatesFit
<1>1. Init => FitInv
  BY DEF Init, FitInv, UpdatesFit, FramesFit, RestFits, Talking
<1>2. IInv /\ FitInv /\ [Next]_vars => FitInv'
  BY FitKept
<1>3. FitInv => UpdatesFit
  BY DEF FitInv
<1> QED
  BY <1>1, <1>2, <1>3, ViewerInductive, PTL DEF Spec

\* The GUI is told what its worker does, each event once and none of an old one.
THEOREM GuiIsTold == Spec => []EventsAreCurrent
<1> QED
  BY ConnectedIsTrue, OneWakeUp, PTL DEF EventsAreCurrent
=============================================================================
