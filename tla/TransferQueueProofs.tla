------------------------- MODULE TransferQueueProofs -------------------------
(***************************************************************************)
(* TLAPS proofs about TransferQueue, for every set of jobs and workers and *)
(* every bound on the deque: the types, and the three safety invariants.   *)
(*                                                                         *)
(* NoLostJob is not inductive: when remove_job installs the deque it has   *)
(* built, the jobs still in _pending survive only because the new deque    *)
(* holds each of them (CopyInv), and the job it drops is no longer in      *)
(* _jobs (KeysInv).  BornInv is what keeps a dead worker's job out of      *)
(* _jobs: an id is enqueued once.                                          *)
(***************************************************************************)
EXTENDS TransferQueue, SequenceTheorems, TLAPS

\* The keys of the three dictionaries agree, and remove_job's target is out.
KeysInv ==
  /\ events = jobs
  /\ gpc \in {"rebuild", "assign"} => gjob \notin jobs

\* Every id that is held anywhere is that of a job that was created.
Born == {j \in Jobs : status[j] # "absent"}
Busy == Sync \cup {"running", "dead"}

BornInv ==
  /\ jobs \subseteq Born
  /\ \A i \in 1..Len(pending) : pending[i] \in Born
  /\ \A i \in 1..Len(gnew) : gnew[i] \in Born
  /\ \A w \in Workers : wpc[w] \in Busy => wjob[w] \in Born
  /\ gpc \notin {"idle", "closed"} => gjob \in Born

\* The part of the deque the generator has passed is in the new deque.
Copied(n) ==
  \A i \in 1..n : pending[i] = gjob \/ \E k \in 1..Len(gnew) : gnew[k] = pending[i]

CopyInv ==
  /\ gpc = "rebuild" /\ ~gmutated => gpos <= Len(pending) /\ Copied(gpos)
  /\ gpc = "assign" => Copied(Len(pending))

IInv ==
  /\ TypeOK /\ KeysInv /\ BornInv /\ CopyInv
  /\ NoLostJob /\ RunningHasWorker /\ DeathOnlyByRemoval

-----------------------------------------------------------------------------

\* The facts about the empty deque the solver does not find itself.
LEMMA EmptyDeque == <<>> \in Seq(Jobs) /\ Len(<<>>) = 0
BY EmptySeq

\* The initial state satisfies the inductive invariant.
LEMMA InitIInv == Init => IInv
<1> SUFFICES ASSUME Init PROVE IInv
  OBVIOUS
<1>1. TypeOK
  BY EmptyDeque DEF Init, TypeOK, StatusType, AtAwait, Sync, GuiPc, Finished
<1>2. KeysInv /\ NoLostJob /\ RunningHasWorker /\ DeathOnlyByRemoval
  BY DEF Init, KeysInv, NoLostJob, RunningHasWorker, DeathOnlyByRemoval
<1>3. BornInv
  BY DEF Init, BornInv, Born, Busy, Sync
<1>4. CopyInv
  BY DEF Init, CopyInv
<1> QED
  BY <1>1, <1>2, <1>3, <1>4 DEF IInv

\* Every step keeps the types; that a held id is a job comes from BornInv.
LEMMA StepType == IInv /\ [Next]_vars => TypeOK'
<1> SUFFICES ASSUME IInv, [Next]_vars PROVE TypeOK'
  OBVIOUS
<1>0. TypeOK /\ BornInv
  BY DEF IInv
<1> USE QueueAssumption, EmptyDeque, <1>0 DEF TypeOK
<1>1. CASE Start
  BY <1>1 DEF Start, guiVars, AtAwait
<1>2. CASE Stop
  BY <1>2 DEF Stop, AtAwait, GuiPc, StatusType, Finished
<1>3. CASE GuiContinue
  <2>0. gpc \notin {"idle", "closed"} => gjob \in Jobs
    BY DEF BornInv, Born
  <2>1. CASE CancelCheck
    <3>1. CASE status[gjob] = "WAITING"
      BY <2>1, <3>1 DEF CancelCheck, GuiPc
    <3>2. CASE status[gjob] # "WAITING"
      <4>1. GuiReturn
        BY <2>1, <3>2 DEF CancelCheck
      <4>2. gnew' \in Seq(Jobs) /\ gpc' \in GuiPc /\ gjob' \in Jobs \cup {NoJob}
            /\ gpos' \in Nat /\ gmutated' \in BOOLEAN
        BY <4>1 DEF GuiReturn, GuiPc
      <4> QED
        BY <2>1, <4>2 DEF CancelCheck
    <3> QED
      BY <3>1, <3>2
  <2>2. CASE CancelWrite
    BY <2>0, <2>2 DEF CancelWrite, GuiReturn, GuiPc, StatusType, Finished
  <2>3. CASE RetryWaiting
    BY <2>0, <2>3 DEF RetryWaiting, GuiPc, StatusType
  <2>4. CASE RetryClear
    BY <2>0, <2>4 DEF RetryClear, GuiPc
  <2>5. CASE RetryAppend
    <3>1. gjob \in Jobs
      BY <2>0, <2>5 DEF RetryAppend
    <3>2. pending' \in Seq(Jobs)
      BY <2>5, <3>1, AppendProperties DEF RetryAppend
    <3> QED
      BY <2>5, <3>2 DEF RetryAppend, GuiReturn, GuiPc
  <2>6. CASE RebuildCopy
    BY <2>6 DEF RebuildCopy
  <2>7. CASE RebuildDone
    BY <2>7 DEF RebuildDone, GuiPc
  <2>8. CASE RebuildRaises
    BY <2>8 DEF RebuildRaises, GuiReturn, GuiPc
  <2>9. CASE RebuildAssign
    BY <2>9 DEF RebuildAssign, GuiReturn, GuiPc
  <2> QED
    BY <1>3, <2>1, <2>2, <2>3, <2>4, <2>5, <2>6, <2>7, <2>8, <2>9 DEF GuiContinue
<1>4. ASSUME NEW j \in Jobs, GuiCall(j) PROVE TypeOK'
  <2>1. CASE Enqueue(j)
    BY <2>1 DEF Enqueue, guiVars, StatusType
  <2>2. CASE CancelSet(j)
    BY <2>2 DEF CancelSet, GuiPc
  <2>3. CASE RetryCheck(j)
    BY <2>3 DEF RetryCheck, GuiPc
  <2>4. CASE RemovePop(j)
    BY <2>4 DEF RemovePop, GuiPc
  <2> QED
    BY <1>4, <2>1, <2>2, <2>3, <2>4 DEF GuiCall
<1>5. ASSUME NEW w \in Workers, WorkerStep(w) PROVE TypeOK'
  <2>1. wpc[w] \in Busy => wjob[w] \in Jobs
    BY DEF BornInv, Born
  <2>2. CASE Take(w)
    BY <2>2 DEF Take, Sync
  <2>3. CASE Check(w) \/ Lookup(w) \/ BeginRaises(w)
    BY <2>3 DEF Check, Lookup, BeginRaises, WorkerIdle, guiVars, Sync, AtAwait
  <2>4. CASE MarkCancelled(w) \/ Begin(w) \/ Finish(w)
    <3>1. CASE MarkCancelled(w)
      <4>1. status' \in [Jobs -> StatusType]
        BY <3>1 DEF MarkCancelled, StatusType, Finished
      <4>2. wpc' \in [Workers -> AtAwait \cup Sync] /\ wjob' \in [Workers -> Jobs \cup {NoJob}]
        BY <3>1 DEF MarkCancelled, WorkerIdle, AtAwait
      <4> QED
        BY <3>1, <4>1, <4>2 DEF MarkCancelled, guiVars
    <3>2. CASE Begin(w)
      <4>1. status' \in [Jobs -> StatusType]
        BY <3>2 DEF Begin, StatusType
      <4>2. wpc' \in [Workers -> AtAwait \cup Sync]
        BY <3>2 DEF Begin, AtAwait
      <4> QED
        BY <3>2, <4>1, <4>2 DEF Begin, guiVars
    <3>3. CASE Finish(w)
      BY <3>3, <2>1 DEF Finish, Outcome, Retryable, Busy, WorkerIdle, guiVars, Sync, AtAwait,
         StatusType, Finished
    <3> QED
      BY <2>4, <3>1, <3>2, <3>3
  <2> QED
    BY <1>5, <2>2, <2>3, <2>4 DEF WorkerStep
<1>6. CASE UNCHANGED vars
  BY <1>6 DEF vars, guiVars
<1> QED
  BY <1>1, <1>2, <1>3, <1>4, <1>5, <1>6 DEF Next

\* The keys of the dictionaries change together, and only Enqueue adds one.
LEMMA StepKeys == IInv /\ [Next]_vars => KeysInv'
<1> SUFFICES ASSUME IInv, [Next]_vars PROVE KeysInv'
  OBVIOUS
<1>0. KeysInv
  BY DEF IInv
<1> USE <1>0 DEF KeysInv
<1>1. CASE Start \/ Stop
  BY <1>1 DEF Start, Stop, guiVars
<1>2. CASE GuiContinue
  BY <1>2 DEF GuiContinue, CancelCheck, CancelWrite, RetryWaiting, RetryClear,
     RetryAppend, RebuildCopy, RebuildDone, RebuildRaises, RebuildAssign, GuiReturn
<1>3. ASSUME NEW j \in Jobs, GuiCall(j) PROVE KeysInv'
  BY <1>3 DEF GuiCall, Enqueue, CancelSet, RetryCheck, RemovePop, guiVars
<1>4. ASSUME NEW w \in Workers, WorkerStep(w) PROVE KeysInv'
  BY <1>4 DEF WorkerStep, Take, Check, MarkCancelled, Lookup, Begin, BeginRaises,
     Finish, guiVars
<1>5. CASE UNCHANGED vars
  BY <1>5 DEF vars, guiVars
<1> QED
  BY <1>1, <1>2, <1>3, <1>4, <1>5 DEF Next

\* A status, once given, never returns to "absent".
LEMMA BornGrows == IInv /\ [Next]_vars => Born \subseteq Born'
<1> SUFFICES ASSUME IInv, [Next]_vars PROVE Born \subseteq Born'
  OBVIOUS
<1>0. TypeOK
  BY DEF IInv
<1> USE <1>0 DEF TypeOK, Born
<1>1. CASE Start \/ Stop
  BY <1>1 DEF Start, Stop
<1>2. CASE GuiContinue
  BY <1>2 DEF GuiContinue, CancelCheck, CancelWrite, RetryWaiting, RetryClear,
     RetryAppend, RebuildCopy, RebuildDone, RebuildRaises, RebuildAssign
<1>3. ASSUME NEW j \in Jobs, GuiCall(j) PROVE Born \subseteq Born'
  BY <1>3 DEF GuiCall, Enqueue, CancelSet, RetryCheck, RemovePop
<1>4. ASSUME NEW w \in Workers, WorkerStep(w) PROVE Born \subseteq Born'
  BY <1>4 DEF WorkerStep, Take, Check, MarkCancelled, Lookup, Begin, BeginRaises,
     Finish, Outcome, Retryable
<1>5. CASE UNCHANGED vars
  BY <1>5 DEF vars
<1> QED
  BY <1>1, <1>2, <1>3, <1>4, <1>5 DEF Next

\* Ids that are held, queued or being copied stay those of created jobs.
LEMMA StepBorn == IInv /\ [Next]_vars => BornInv'
<1> SUFFICES ASSUME IInv, [Next]_vars PROVE BornInv'
  OBVIOUS
<1>0. TypeOK /\ TypeOK' /\ BornInv /\ Born \subseteq Born'
  BY StepType, BornGrows DEF IInv
<1> USE <1>0, EmptyDeque DEF BornInv
<1>1. CASE Start
  BY <1>1 DEF Start, guiVars, Busy, Sync
<1>2. CASE Stop
  BY <1>2 DEF Stop, Busy, Sync
<1>3. CASE GuiContinue
  <2>1. CASE CancelCheck
    BY <2>1 DEF CancelCheck, GuiReturn
  <2>2. CASE CancelWrite
    BY <2>2 DEF CancelWrite, GuiReturn
  <2>3. CASE RetryWaiting \/ RetryClear
    BY <2>3 DEF RetryWaiting, RetryClear
  <2>4. CASE RetryAppend
    <3>1. gjob \in Jobs /\ gjob \in Born
      BY <2>4 DEF RetryAppend, Born
    <3>2. \A i \in 1..Len(pending') : pending'[i] \in Born
      BY <2>4, <3>1, AppendProperties DEF RetryAppend, TypeOK
    <3> QED
      BY <2>4, <3>2 DEF RetryAppend, GuiReturn
  <2>5. CASE RebuildCopy
    <3>1. gpos + 1 \in 1..Len(pending)
      BY <2>5 DEF RebuildCopy, TypeOK
    <3>2. pending[gpos + 1] \in Jobs /\ pending[gpos + 1] \in Born
      BY <3>1 DEF Born
    <3>3. \A i \in 1..Len(gnew') : gnew'[i] \in Born
      BY <2>5, <3>2, AppendProperties DEF RebuildCopy, TypeOK
    <3> QED
      BY <2>5, <3>3 DEF RebuildCopy
  <2>6. CASE RebuildDone
    BY <2>6 DEF RebuildDone
  <2>7. CASE RebuildRaises
    BY <2>7 DEF RebuildRaises, GuiReturn
  <2>8. CASE RebuildAssign
    BY <2>8 DEF RebuildAssign, GuiReturn
  <2> QED
    BY <1>3, <2>1, <2>2, <2>3, <2>4, <2>5, <2>6, <2>7, <2>8 DEF GuiContinue
<1>4. ASSUME NEW j \in Jobs, GuiCall(j) PROVE BornInv'
  <2>1. CASE Enqueue(j)
    <3>1. j \in Born'
      BY <2>1 DEF Enqueue, Born, TypeOK
    <3>2. \A i \in 1..Len(pending') : pending'[i] \in Born'
      BY <2>1, <3>1, AppendProperties DEF Enqueue, TypeOK
    <3> QED
      BY <2>1, <3>1, <3>2 DEF Enqueue, guiVars
  <2>2. CASE CancelSet(j) \/ RetryCheck(j)
    BY <2>2 DEF CancelSet, RetryCheck
  <2>3. CASE RemovePop(j)
    BY <2>3 DEF RemovePop
  <2> QED
    BY <1>4, <2>1, <2>2, <2>3 DEF GuiCall
<1>5. ASSUME NEW w \in Workers, WorkerStep(w) PROVE BornInv'
  <2>1. CASE Take(w)
    <3>1. Head(pending) \in Born /\ \A i \in 1..Len(pending') : pending'[i] \in Born
      BY <2>1, HeadTailProperties DEF Take, TypeOK
    <3> QED
      BY <2>1, <3>1 DEF Take, TypeOK, Busy
  <2>2. CASE Check(w) \/ Lookup(w) \/ BeginRaises(w)
    BY <2>2 DEF Check, Lookup, BeginRaises, WorkerIdle, guiVars, TypeOK, Busy, Sync
  <2>3. CASE MarkCancelled(w) \/ Begin(w) \/ Finish(w)
    BY <2>3 DEF MarkCancelled, Begin, Finish, WorkerIdle, guiVars, TypeOK, Busy, Sync
  <2> QED
    BY <1>5, <2>1, <2>2, <2>3 DEF WorkerStep
<1>6. CASE UNCHANGED vars
  BY <1>6 DEF vars, guiVars
<1> QED
  BY <1>1, <1>2, <1>3, <1>4, <1>5, <1>6 DEF Next

\* What the generator has passed is in the new deque, unless a worker popped.
LEMMA StepCopy == IInv /\ [Next]_vars => CopyInv'
<1> SUFFICES ASSUME IInv, [Next]_vars PROVE CopyInv'
  OBVIOUS
<1>0. TypeOK /\ TypeOK' /\ CopyInv
  BY StepType DEF IInv
<1> USE <1>0 DEF CopyInv
<1>1. CASE Start \/ Stop
  BY <1>1 DEF Start, Stop, guiVars, Copied
<1>2. CASE GuiContinue
  <2>1. CASE RebuildCopy
    <3>1. gpos + 1 \in 1..Len(pending) /\ pending[gpos + 1] \in Jobs
      BY <2>1 DEF RebuildCopy, TypeOK
    <3>2. \A k \in 1..Len(gnew) : k \in 1..Len(gnew') /\ gnew'[k] = gnew[k]
      BY <2>1, <3>1, AppendProperties DEF RebuildCopy, TypeOK
    <3>3. pending[gpos + 1] # gjob => \E k \in 1..Len(gnew') : gnew'[k] = pending[gpos + 1]
      BY <2>1, <3>1, AppendProperties DEF RebuildCopy, TypeOK
    <3>4. \A i \in 1..gpos + 1 : i \in 1..gpos \/ i = gpos + 1
      BY DEF TypeOK
    <3>5. Copied(gpos)
      BY <2>1 DEF RebuildCopy
    <3>6. \A i \in 1..gpos + 1 :
            pending[i] = gjob \/ \E k \in 1..Len(gnew') : gnew'[k] = pending[i]
      BY <3>2, <3>3, <3>4, <3>5 DEF Copied
    <3> QED
      BY <2>1, <3>1, <3>6 DEF RebuildCopy, Copied, TypeOK
  <2>2. CASE RebuildDone
    BY <2>2 DEF RebuildDone, Copied
  <2>3. CASE CancelCheck
    BY <2>3 DEF CancelCheck, GuiReturn
  <2>4. CASE RetryWaiting \/ RetryClear
    BY <2>4 DEF RetryWaiting, RetryClear
  <2>5. CASE CancelWrite \/ RetryAppend \/ RebuildRaises \/ RebuildAssign
    BY <2>5 DEF CancelWrite, RetryAppend, RebuildRaises, RebuildAssign, GuiReturn
  <2> QED
    BY <1>2, <2>1, <2>2, <2>3, <2>4, <2>5 DEF GuiContinue
<1>3. ASSUME NEW j \in Jobs, GuiCall(j) PROVE CopyInv'
  <2>1. CASE Enqueue(j)
    BY <2>1 DEF Enqueue, guiVars
  <2>2. CASE CancelSet(j) \/ RetryCheck(j)
    BY <2>2 DEF CancelSet, RetryCheck
  <2>3. CASE RemovePop(j)
    BY <2>3 DEF RemovePop, Copied, TypeOK
  <2> QED
    BY <1>3, <2>1, <2>2, <2>3 DEF GuiCall
<1>4. ASSUME NEW w \in Workers, WorkerStep(w) PROVE CopyInv'
  <2>1. CASE Take(w)
    <3>1. /\ Len(pending') = Len(pending) - 1
          /\ \A i \in 1..Len(pending') : pending'[i] = pending[i + 1]
      BY <2>1, HeadTailProperties DEF Take, TypeOK
    <3>2. \A i \in 1..Len(pending') : i + 1 \in 1..Len(pending)
      BY <3>1 DEF TypeOK
    <3>3. gpc = "assign" => Copied(Len(pending))'
      BY <2>1, <3>1, <3>2 DEF Take, Copied
    <3> QED
      BY <2>1, <3>3 DEF Take
  <2>2. CASE Check(w) \/ MarkCancelled(w) \/ Lookup(w) \/ Begin(w) \/ BeginRaises(w) \/ Finish(w)
    BY <2>2 DEF Check, MarkCancelled, Lookup, Begin, BeginRaises, Finish, guiVars, Copied
  <2> QED
    BY <1>4, <2>1, <2>2 DEF WorkerStep
<1>5. CASE UNCHANGED vars
  BY <1>5 DEF vars, guiVars, Copied
<1> QED
  BY <1>1, <1>2, <1>3, <1>4, <1>5 DEF Next

\* A status is RUNNING from Begin to the end of that worker's runner.
LEMMA StepRunning == IInv /\ [Next]_vars => RunningHasWorker'
<1> SUFFICES ASSUME IInv, [Next]_vars PROVE RunningHasWorker'
  OBVIOUS
<1>0. TypeOK /\ RunningHasWorker /\ BornInv
  BY DEF IInv
<1> USE <1>0 DEF RunningHasWorker, TypeOK, Running
<1>1. CASE Start
  BY <1>1 DEF Start
<1>2. CASE Stop
  BY <1>2 DEF Stop
<1>3. CASE GuiContinue
  BY <1>3 DEF GuiContinue, CancelCheck, CancelWrite, RetryWaiting, RetryClear,
     RetryAppend, RebuildCopy, RebuildDone, RebuildRaises, RebuildAssign
<1>4. ASSUME NEW j \in Jobs, GuiCall(j) PROVE RunningHasWorker'
  BY <1>4 DEF GuiCall, Enqueue, CancelSet, RetryCheck, RemovePop
<1>5. ASSUME NEW w \in Workers, WorkerStep(w) PROVE RunningHasWorker'
  <2>1. CASE Take(w) \/ Check(w) \/ Lookup(w) \/ BeginRaises(w)
    BY <2>1 DEF Take, Check, Lookup, BeginRaises, WorkerIdle
  <2>2. CASE MarkCancelled(w)
    BY <2>2 DEF MarkCancelled, WorkerIdle
  <2>3. CASE Begin(w)
    BY <2>3 DEF Begin
  <2>4. CASE Finish(w)
    BY <2>4 DEF Finish, WorkerIdle, Outcome, Retryable
  <2> QED
    BY <1>5, <2>1, <2>2, <2>3, <2>4 DEF WorkerStep
<1>6. CASE UNCHANGED vars
  BY <1>6 DEF vars
<1> QED
  BY <1>1, <1>2, <1>3, <1>4, <1>5, <1>6 DEF Next

\* A dead worker's job was created, so Enqueue never brings its id back.
LEMMA StepDeath == IInv /\ [Next]_vars => DeathOnlyByRemoval'
<1> SUFFICES ASSUME IInv, [Next]_vars PROVE DeathOnlyByRemoval'
  OBVIOUS
<1>0. TypeOK /\ DeathOnlyByRemoval /\ BornInv /\ KeysInv
  BY DEF IInv
<1> USE <1>0 DEF DeathOnlyByRemoval, TypeOK
<1>1. CASE Start \/ Stop
  BY <1>1 DEF Start, Stop
<1>2. CASE GuiContinue
  BY <1>2 DEF GuiContinue, CancelCheck, CancelWrite, RetryWaiting, RetryClear,
     RetryAppend, RebuildCopy, RebuildDone, RebuildRaises, RebuildAssign
<1>3. ASSUME NEW j \in Jobs, GuiCall(j) PROVE DeathOnlyByRemoval'
  <2>1. CASE Enqueue(j)
    BY <2>1 DEF Enqueue, BornInv, Born, Busy
  <2>2. CASE CancelSet(j) \/ RetryCheck(j) \/ RemovePop(j)
    BY <2>2 DEF CancelSet, RetryCheck, RemovePop
  <2> QED
    BY <1>3, <2>1, <2>2 DEF GuiCall
<1>4. ASSUME NEW w \in Workers, WorkerStep(w) PROVE DeathOnlyByRemoval'
  BY <1>4 DEF WorkerStep, Take, Check, MarkCancelled, Lookup, Begin, BeginRaises,
     Finish, WorkerIdle, KeysInv
<1>5. CASE UNCHANGED vars
  BY <1>5 DEF vars
<1> QED
  BY <1>1, <1>2, <1>3, <1>4, <1>5 DEF Next

\* Whoever takes a waiting job out of the deque is accountable for it.
LEMMA StepNoLost == IInv /\ [Next]_vars => NoLostJob'
<1> SUFFICES ASSUME IInv, [Next]_vars, NEW k \in jobs', status'[k] = "WAITING"
             PROVE  (Pending(k) \/ HeldBeforeRun(k) \/ BeingRetried(k))'
  BY DEF NoLostJob
<1>0. TypeOK /\ TypeOK' /\ NoLostJob /\ KeysInv /\ BornInv /\ CopyInv
  BY StepType DEF IInv
<1>00. k \in Jobs
  BY <1>0 DEF TypeOK
<1> USE <1>0, <1>00 DEF TypeOK
\* Nothing happened to k: its reason to be waiting carries over.
<1>1. ASSUME k \in jobs, status[k] = "WAITING",
             UNCHANGED <<pending, wjob, wpc, gpc, gjob>>
      PROVE  (Pending(k) \/ HeldBeforeRun(k) \/ BeingRetried(k))'
  BY <1>1 DEF NoLostJob, Pending, HeldBeforeRun, BeingRetried
<1>2. CASE Start
  BY <1>2 DEF Start, guiVars, NoLostJob, Pending, HeldBeforeRun, BeingRetried, Sync
<1>3. CASE Stop
  BY <1>3 DEF Stop, NoLostJob, Pending, HeldBeforeRun, BeingRetried
<1>4. CASE GuiContinue
  <2>1. CASE CancelCheck \/ CancelWrite
    BY <2>1 DEF CancelCheck, CancelWrite, GuiReturn, NoLostJob, Pending, HeldBeforeRun,
       BeingRetried
  <2>2. CASE RetryWaiting
    BY <2>2 DEF RetryWaiting, NoLostJob, Pending, HeldBeforeRun, BeingRetried
  <2>3. CASE RetryClear
    BY <2>3 DEF RetryClear, NoLostJob, Pending, HeldBeforeRun, BeingRetried
  <2>4. CASE RetryAppend
    <3>1. gjob \in Jobs
      BY <2>4 DEF RetryAppend, BornInv, Born
    <3>2. /\ \A i \in 1..Len(pending) : i \in 1..Len(pending') /\ pending'[i] = pending[i]
          /\ \E i \in 1..Len(pending') : pending'[i] = gjob
      BY <2>4, <3>1, AppendProperties DEF RetryAppend
    <3> QED
      BY <2>4, <3>2 DEF RetryAppend, NoLostJob, Pending, HeldBeforeRun, BeingRetried
  <2>5. CASE RebuildCopy \/ RebuildDone \/ RebuildRaises
    BY <2>5 DEF RebuildCopy, RebuildDone, RebuildRaises, GuiReturn, NoLostJob, Pending,
       HeldBeforeRun, BeingRetried
  <2>6. CASE RebuildAssign
    <3>1. gpc = "assign" /\ pending' = gnew /\ k \in jobs /\ k # gjob /\ status[k] = "WAITING"
      BY <2>6 DEF RebuildAssign, KeysInv
    <3>2. Pending(k) => \E i \in 1..Len(gnew) : gnew[i] = k
      BY <3>1 DEF CopyInv, Copied, Pending
    <3> QED
      BY <2>6, <3>1, <3>2 DEF RebuildAssign, NoLostJob, Pending, HeldBeforeRun, BeingRetried
  <2> QED
    BY <1>4, <2>1, <2>2, <2>3, <2>4, <2>5, <2>6 DEF GuiContinue
<1>5. ASSUME NEW j \in Jobs, GuiCall(j)
      PROVE (Pending(k) \/ HeldBeforeRun(k) \/ BeingRetried(k))'
  <2>1. CASE Enqueue(j)
    <3>1. /\ \A i \in 1..Len(pending) : i \in 1..Len(pending') /\ pending'[i] = pending[i]
          /\ \E i \in 1..Len(pending') : pending'[i] = j
      BY <2>1, AppendProperties DEF Enqueue
    <3>2. CASE k = j
      BY <3>1, <3>2 DEF Pending
    <3>3. CASE k # j
      BY <2>1, <3>1, <3>3 DEF Enqueue, guiVars, NoLostJob, Pending, HeldBeforeRun, BeingRetried
    <3> QED
      BY <3>2, <3>3
  <2>2. CASE CancelSet(j) \/ RetryCheck(j) \/ RemovePop(j)
    BY <2>2 DEF CancelSet, RetryCheck, RemovePop, NoLostJob, Pending, HeldBeforeRun, BeingRetried
  <2> QED
    BY <1>5, <2>1, <2>2 DEF GuiCall
<1>6. ASSUME NEW w \in Workers, WorkerStep(w)
      PROVE (Pending(k) \/ HeldBeforeRun(k) \/ BeingRetried(k))'
  <2>0. wpc[w] \in Busy => wjob[w] \in Jobs
    BY DEF BornInv, Born
  <2>1. CASE Take(w)
    <3>1. /\ Len(pending') = Len(pending) - 1
          /\ \A i \in 1..Len(pending') : pending'[i] = pending[i + 1]
      BY <2>1, HeadTailProperties DEF Take
    <3>2. \A i \in 2..Len(pending) : i - 1 \in 1..Len(pending') /\ pending'[i - 1] = pending[i]
      BY <3>1
    <3>3. Head(pending) = pending[1]
      BY <2>1 DEF Take
    <3>4. Pending(k) => k = Head(pending) \/ Pending(k)'
      BY <3>2, <3>3 DEF Pending
    <3> QED
      BY <2>1, <3>4 DEF Take, NoLostJob, HeldBeforeRun, BeingRetried, Sync
  <2>2. CASE Check(w)
    BY <2>2 DEF Check, WorkerIdle, guiVars, KeysInv, NoLostJob, Pending, HeldBeforeRun,
       BeingRetried, Sync
  <2>3. CASE MarkCancelled(w)
    BY <2>0, <2>3 DEF MarkCancelled, WorkerIdle, guiVars, NoLostJob, Pending, HeldBeforeRun,
       BeingRetried, Sync, Busy
  <2>4. CASE Lookup(w)
    BY <2>4 DEF Lookup, WorkerIdle, guiVars, NoLostJob, Pending, HeldBeforeRun,
       BeingRetried, Sync
  <2>5. CASE Begin(w) \/ BeginRaises(w)
    BY <2>0, <2>5 DEF Begin, BeginRaises, guiVars, KeysInv, NoLostJob, Pending, HeldBeforeRun,
       BeingRetried, Sync, Busy
  <2>6. CASE Finish(w)
    BY <2>0, <2>6 DEF Finish, Outcome, Retryable, WorkerIdle, guiVars, NoLostJob, Pending,
       HeldBeforeRun, BeingRetried, Sync, Busy
  <2> QED
    BY <1>6, <2>1, <2>2, <2>3, <2>4, <2>5, <2>6 DEF WorkerStep
<1>7. CASE UNCHANGED vars
  BY <1>1, <1>7 DEF vars
<1> QED
  BY <1>2, <1>3, <1>4, <1>5, <1>6, <1>7 DEF Next

-----------------------------------------------------------------------------

\* The inductive invariant holds in every reachable state.
THEOREM QueueInductive == Spec => []IInv
<1>1. Init => IInv
  BY InitIInv
<1>2. IInv /\ [Next]_vars => IInv'
  BY StepType, StepKeys, StepBorn, StepCopy, StepNoLost, StepRunning, StepDeath DEF IInv
<1> QED
  BY <1>1, <1>2, PTL DEF Spec

\* The types of the queue's state, whatever the two threads do.
THEOREM QueueTypes == Spec => []TypeOK
<1>1. IInv => TypeOK
  BY DEF IInv
<1> QED
  BY <1>1, QueueInductive, PTL

\* No interleaving of the GUI thread with any number of workers makes the
\* queue forget a job it shows as waiting.
THEOREM NoJobIsLost == Spec => []NoLostJob
<1>1. IInv => NoLostJob
  BY DEF IInv
<1> QED
  BY <1>1, QueueInductive, PTL

\* A job is shown as running only while a worker runs it.
THEOREM RunningIsTrue == Spec => []RunningHasWorker
<1>1. IInv => RunningHasWorker
  BY DEF IInv
<1> QED
  BY <1>1, QueueInductive, PTL

\* The KeyError of _process needs the removal of the job being started.
THEOREM WorkersDieByRemoval == Spec => []DeathOnlyByRemoval
<1>1. IInv => DeathOnlyByRemoval
  BY DEF IInv
<1> QED
  BY <1>1, QueueInductive, PTL
=============================================================================
