---------------------------- MODULE TransferQueue ----------------------------
(***************************************************************************)
(* The job queue of the file manager (TransferQueue in                     *)
(* builtin/file_manager/service.py).  Its workers are coroutines of the    *)
(* executor's loop thread; its cancel/retry/remove/enqueue methods are     *)
(* called straight from the GUI thread (TransferWidget, RemoteSession), so *)
(* the two threads interleave at every access to the shared dictionaries.  *)
(*                                                                         *)
(* Grain of the actions.  A worker runs without a switch to another worker *)
(* until it awaits, but the GUI thread can run between any two of its      *)
(* accesses: one action per access.  `while self._pending: popleft()` is   *)
(* one action, since the interpreter does not switch threads between the   *)
(* test and the call.  remove_job pops the three dictionaries in one       *)
(* action: a worker that reads them in another order sees the same         *)
(* outcomes.  Handlers, progress and results are left out.                 *)
(***************************************************************************)
EXTENDS Naturals, Sequences

CONSTANTS
  Jobs,        \* job ids (uuid4: never reused)
  Workers,     \* the `concurrency` worker coroutines
  Ops,         \* the GUI operations the user performs
  MaxPending,  \* bound on the length of _pending
  NoJob        \* the value of a job variable that holds no job

ASSUME QueueAssumption ==
  /\ MaxPending \in Nat
  /\ NoJob \notin Jobs

VARIABLES
  started,    \* self._started
  jobs,       \* keys of self._jobs and self._runners
  events,     \* keys of self._cancel_events
  cancelSet,  \* jobs whose cancel event is set
  status,     \* job.progress.status, "absent" before the job is created
  pending,    \* self._pending, oldest first
  wpc,        \* where each worker is
  wjob,       \* the job id a worker holds
  gpc,        \* where the GUI thread is inside cancel / retry / remove_job
  gjob,       \* the job that call is about
  gnew,       \* the deque remove_job is building
  gpos,       \* elements of _pending its generator has consumed
  gmutated    \* _pending has changed since the generator started

vars == <<started, jobs, events, cancelSet, status, pending, wpc, wjob,
          gpc, gjob, gnew, gpos, gmutated>>
guiVars == <<gpc, gjob, gnew, gpos, gmutated>>

\* A GUI call returns and its locals are gone; a worker drops its job id.
GuiReturn ==
  /\ gpc' = "idle" /\ gjob' = NoJob /\ gnew' = <<>> /\ gpos' = 0 /\ gmutated' = FALSE
WorkerIdle(w) ==
  /\ wpc' = [wpc EXCEPT ![w] = "idle"]
  /\ wjob' = [wjob EXCEPT ![w] = NoJob]

Finished == {"COMPLETED", "FAILED", "CANCELLED"}
Retryable == {"FAILED", "CANCELLED"}
StatusType == {"absent", "WAITING", "RUNNING"} \cup Finished

\* A worker at an await, or not running at all; and inside its synchronous part.
AtAwait == {"none", "idle", "running", "dead", "stopped"}
Sync == {"check", "mark", "lookup", "begin"}
GuiPc == {"idle", "cancelCheck", "cancelWrite", "retryWaiting", "retryClear",
          "retryAppend", "rebuild", "assign", "closed"}

TypeOK ==
  /\ started \in BOOLEAN
  /\ jobs \subseteq Jobs
  /\ events \subseteq Jobs
  /\ cancelSet \subseteq Jobs
  /\ status \in [Jobs -> StatusType]
  /\ pending \in Seq(Jobs)
  /\ wpc \in [Workers -> AtAwait \cup Sync]
  /\ wjob \in [Workers -> Jobs \cup {NoJob}]
  /\ gpc \in GuiPc
  /\ gjob \in Jobs \cup {NoJob}
  /\ gnew \in Seq(Jobs)
  /\ gpos \in Nat
  /\ gmutated \in BOOLEAN

Init ==
  /\ started = FALSE
  /\ jobs = {} /\ events = {} /\ cancelSet = {}
  /\ status = [j \in Jobs |-> "absent"]
  /\ pending = <<>>
  /\ wpc = [w \in Workers |-> "none"]
  /\ wjob = [w \in Workers |-> NoJob]
  /\ gpc = "idle" /\ gjob = NoJob /\ gnew = <<>> /\ gpos = 0 /\ gmutated = FALSE

-----------------------------------------------------------------------------
(* Lifecycle, on the loop thread *)

\* start(): the session submits it once, when it is created.
Start ==
  /\ ~started
  /\ \A w \in Workers : wpc[w] = "none"
  /\ started' = TRUE
  /\ wpc' = [w \in Workers |-> "idle"]
  /\ UNCHANGED <<jobs, events, cancelSet, status, pending, wjob, guiVars>>

\* No other worker is between two awaits.
LoopFree(w) == \A v \in Workers \ {w} : wpc[v] \notin Sync

Running(w, j) == wpc[w] = "running" /\ wjob[w] = j

\* stop(): every worker task is cancelled at its await; the one inside a
\* runner marks its job.  The GUI thread is blocked in AsyncExecutor.shutdown
\* meanwhile, and the window is gone afterwards.
Stop ==
  /\ started
  /\ gpc = "idle"
  /\ \A w \in Workers : wpc[w] \notin Sync
  /\ started' = FALSE
  /\ gpc' = "closed"
  /\ wpc' = [w \in Workers |-> IF wpc[w] = "dead" THEN "dead" ELSE "stopped"]
  /\ status' = [j \in Jobs |->
                  IF \E w \in Workers : Running(w, j) THEN "CANCELLED" ELSE status[j]]
  /\ UNCHANGED <<jobs, events, cancelSet, pending, wjob, gjob, gnew, gpos, gmutated>>

-----------------------------------------------------------------------------
(* GUI thread *)

\* enqueue(): a worker sees the job only once it is in _pending.
Enqueue(j) ==
  /\ "enqueue" \in Ops /\ gpc = "idle"
  /\ status[j] = "absent"
  /\ Len(pending) < MaxPending
  /\ jobs' = jobs \cup {j}
  /\ events' = events \cup {j}
  /\ status' = [status EXCEPT ![j] = "WAITING"]
  /\ pending' = Append(pending, j)
  /\ UNCHANGED <<started, cancelSet, wpc, wjob, guiVars>>

\* cancel(): the event first, then the status is read, then written.
CancelSet(j) ==
  /\ "cancel" \in Ops /\ gpc = "idle"
  /\ j \in jobs
  /\ cancelSet' = cancelSet \cup {j}
  /\ gpc' = "cancelCheck" /\ gjob' = j
  /\ UNCHANGED <<started, jobs, events, status, pending, wpc, wjob,
                 gnew, gpos, gmutated>>

CancelCheck ==
  /\ gpc = "cancelCheck"
  /\ IF status[gjob] = "WAITING"
       THEN gpc' = "cancelWrite" /\ UNCHANGED <<gjob, gnew, gpos, gmutated>>
       ELSE GuiReturn
  /\ UNCHANGED <<started, jobs, events, cancelSet, status, pending, wpc, wjob>>

CancelWrite ==
  /\ gpc = "cancelWrite"
  /\ status' = [status EXCEPT ![gjob] = "CANCELLED"]
  /\ GuiReturn
  /\ UNCHANGED <<started, jobs, events, cancelSet, pending, wpc, wjob>>

\* retry(): status read, status written, event cleared, id appended.
RetryCheck(j) ==
  /\ "retry" \in Ops /\ gpc = "idle"
  /\ j \in jobs
  /\ status[j] \in Retryable
  /\ Len(pending) < MaxPending
  /\ gpc' = "retryWaiting" /\ gjob' = j
  /\ UNCHANGED <<started, jobs, events, cancelSet, status, pending, wpc, wjob,
                 gnew, gpos, gmutated>>

RetryWaiting ==
  /\ gpc = "retryWaiting"
  /\ status' = [status EXCEPT ![gjob] = "WAITING"]
  /\ gpc' = "retryClear"
  /\ UNCHANGED <<started, jobs, events, cancelSet, pending, wpc, wjob,
                 gjob, gnew, gpos, gmutated>>

RetryClear ==
  /\ gpc = "retryClear"
  /\ cancelSet' = cancelSet \ {gjob}
  /\ gpc' = "retryAppend"
  /\ UNCHANGED <<started, jobs, events, status, pending, wpc, wjob,
                 gjob, gnew, gpos, gmutated>>

\* Mutant: retry() relies on the entry the first attempt left in the deque.
RetryNoAppend ==
  /\ gpc = "retryAppend"
  /\ GuiReturn
  /\ UNCHANGED <<started, jobs, events, cancelSet, status, pending, wpc, wjob>>

RetryAppend ==
  /\ gpc = "retryAppend"
  /\ pending' = Append(pending, gjob)
  /\ GuiReturn
  /\ UNCHANGED <<started, jobs, events, cancelSet, status, wpc, wjob>>

\* _clear_finished calls remove_job for a job it sees finished.
RemovePop(j) ==
  /\ "remove" \in Ops /\ gpc = "idle"
  /\ j \in jobs
  /\ status[j] \in Finished
  /\ jobs' = jobs \ {j}
  /\ events' = events \ {j}
  /\ gpc' = "rebuild" /\ gjob' = j
  /\ gnew' = <<>> /\ gpos' = 0 /\ gmutated' = FALSE
  /\ UNCHANGED <<started, cancelSet, status, pending, wpc, wjob>>

\* The generator over the live deque: one element per action.
RebuildCopy ==
  /\ gpc = "rebuild" /\ ~gmutated
  /\ gpos < Len(pending)
  /\ gnew' = IF pending[gpos + 1] # gjob THEN Append(gnew, pending[gpos + 1]) ELSE gnew
  /\ gpos' = gpos + 1
  /\ UNCHANGED <<started, jobs, events, cancelSet, status, pending, wpc, wjob,
                 gpc, gjob, gmutated>>

RebuildDone ==
  /\ gpc = "rebuild" /\ ~gmutated
  /\ gpos = Len(pending)
  /\ gpc' = "assign"
  /\ UNCHANGED <<started, jobs, events, cancelSet, status, pending, wpc, wjob,
                 gjob, gnew, gpos, gmutated>>

\* A worker popped meanwhile: RuntimeError "deque mutated during iteration"
\* leaves the slot and _pending as it was.
RebuildRaises ==
  /\ gpc = "rebuild" /\ gmutated
  /\ GuiReturn
  /\ UNCHANGED <<started, jobs, events, cancelSet, status, pending, wpc, wjob>>

\* Whatever was popped after the generator ended comes back.
RebuildAssign ==
  /\ gpc = "assign"
  /\ pending' = gnew
  /\ GuiReturn
  /\ UNCHANGED <<started, jobs, events, cancelSet, status, wpc, wjob>>

-----------------------------------------------------------------------------
(* A worker, on the loop thread *)

Take(w) ==
  /\ wpc[w] = "idle" /\ LoopFree(w)
  /\ started
  /\ pending # <<>>
  /\ wjob' = [wjob EXCEPT ![w] = Head(pending)]
  /\ pending' = Tail(pending)
  /\ wpc' = [wpc EXCEPT ![w] = "check"]
  /\ gmutated' = (gpc = "rebuild")
  /\ UNCHANGED <<started, jobs, events, cancelSet, status, gpc, gjob, gnew, gpos>>

\* event None: skip; event set: to be marked cancelled; else a candidate.
Check(w) ==
  /\ wpc[w] = "check"
  /\ IF wjob[w] \notin events
       THEN WorkerIdle(w)
       ELSE /\ wpc' = [wpc EXCEPT ![w] = IF wjob[w] \in cancelSet THEN "mark" ELSE "lookup"]
            /\ UNCHANGED wjob
  /\ UNCHANGED <<started, jobs, events, cancelSet, status, pending, guiVars>>

\* Mutant: a candidate whose event is set is skipped without its status.
MarkNothing(w) ==
  /\ wpc[w] = "mark"
  /\ WorkerIdle(w)
  /\ UNCHANGED <<started, jobs, events, cancelSet, status, pending, guiVars>>

MarkCancelled(w) ==
  /\ wpc[w] = "mark"
  /\ status' = IF wjob[w] \in jobs
                 THEN [status EXCEPT ![wjob[w]] = "CANCELLED"] ELSE status
  /\ WorkerIdle(w)
  /\ UNCHANGED <<started, jobs, events, cancelSet, pending, guiVars>>

\* _process: runner or job gone, the candidate is dropped.
Lookup(w) ==
  /\ wpc[w] = "lookup"
  /\ IF wjob[w] \in jobs
       THEN wpc' = [wpc EXCEPT ![w] = "begin"] /\ UNCHANGED wjob
       ELSE WorkerIdle(w)
  /\ UNCHANGED <<started, jobs, events, cancelSet, status, pending, guiVars>>

Begin(w) ==
  /\ wpc[w] = "begin"
  /\ wjob[w] \in events
  /\ status' = [status EXCEPT ![wjob[w]] = "RUNNING"]
  /\ wpc' = [wpc EXCEPT ![w] = "running"]
  /\ UNCHANGED <<started, jobs, events, cancelSet, pending, wjob, guiVars>>

\* self._cancel_events[job_id] raises KeyError, which ends the worker's task.
BeginRaises(w) ==
  /\ wpc[w] = "begin"
  /\ wjob[w] \notin events
  /\ wpc' = [wpc EXCEPT ![w] = "dead"]
  /\ UNCHANGED <<started, jobs, events, cancelSet, status, pending, wjob, guiVars>>

\* The runner returned, was cancelled from inside, or raised.
Outcome(j) == {IF j \in cancelSet THEN "CANCELLED" ELSE "COMPLETED"} \cup Retryable

\* Mutant: an exception of the runner leaves the status as it is.
FinishKeepsStatus(w) ==
  /\ wpc[w] = "running" /\ LoopFree(w)
  /\ \E s \in Outcome(wjob[w]) :
       status' = IF s = "FAILED" THEN status ELSE [status EXCEPT ![wjob[w]] = s]
  /\ WorkerIdle(w)
  /\ UNCHANGED <<started, jobs, events, cancelSet, pending, guiVars>>

Finish(w) ==
  /\ wpc[w] = "running" /\ LoopFree(w)
  /\ \E s \in Outcome(wjob[w]) : status' = [status EXCEPT ![wjob[w]] = s]
  /\ WorkerIdle(w)
  /\ UNCHANGED <<started, jobs, events, cancelSet, pending, guiVars>>

-----------------------------------------------------------------------------

GuiContinue ==
  \/ CancelCheck \/ CancelWrite
  \/ RetryWaiting \/ RetryClear \/ RetryAppend
  \/ RebuildCopy \/ RebuildDone \/ RebuildRaises \/ RebuildAssign

GuiCall(j) == Enqueue(j) \/ CancelSet(j) \/ RetryCheck(j) \/ RemovePop(j)

WorkerStep(w) ==
  \/ Take(w) \/ Check(w) \/ MarkCancelled(w) \/ Lookup(w)
  \/ Begin(w) \/ BeginRaises(w) \/ Finish(w)

Next ==
  \/ Start \/ Stop
  \/ GuiContinue
  \/ \E j \in Jobs : GuiCall(j)
  \/ \E w \in Workers : WorkerStep(w)

Spec == Init /\ [][Next]_vars

\* Both threads keep running, and a runner returns (its transport has
\* timeouts); nothing makes the user act or close the session.
Fairness ==
  /\ WF_vars(Start)
  /\ WF_vars(GuiContinue)
  /\ \A w \in Workers : WF_vars(WorkerStep(w))

FairSpec == Spec /\ Fairness

-----------------------------------------------------------------------------
(* Properties *)

Pending(j) == \E i \in 1..Len(pending) : pending[i] = j
HeldBeforeRun(j) == \E w \in Workers : wjob[w] = j /\ wpc[w] \in Sync
BeingRetried(j) == gjob = j /\ gpc \in {"retryClear", "retryAppend"}

\* A job shown as waiting is never forgotten: it is still in _pending, in the
\* hands of a worker that has not started it, or being put back by retry().
\* The GUI can rebuild the deque, cancel and retry while a worker pops.
NoLostJob ==
  \A j \in jobs : status[j] = "WAITING" => Pending(j) \/ HeldBeforeRun(j) \/ BeingRetried(j)

\* A job shown as running is inside a worker's runner, also after a cancel, a
\* retry or a removal that raced it, after an error and after stop().
RunningHasWorker ==
  \A j \in Jobs : status[j] = "RUNNING" => \E w \in Workers : Running(w, j)

\* The only interleaving that kills a worker (KeyError in _process) is the
\* removal of the very job it was about to start.
DeathOnlyByRemoval ==
  \A w \in Workers : wpc[w] = "dead" => wjob[w] \notin jobs

\* Every job shown as waiting is eventually started or marked cancelled,
\* however cancels, retries and removals of other jobs pile up, unless it is
\* removed, the session is closed, or removals have killed every worker.
WaitingIsServed ==
  \A j \in Jobs : status[j] = "WAITING" ~>
    \/ status[j] # "WAITING" \/ j \notin jobs \/ gpc = "closed"
    \/ \A w \in Workers : wpc[w] = "dead"

\* TransferJob is "a queued operation with ... its final result": a completed
\* job keeps its status.
CompletedIsFinal ==
  [][\A j \in Jobs : status[j] = "COMPLETED" => status'[j] = "COMPLETED"]_vars
=============================================================================
