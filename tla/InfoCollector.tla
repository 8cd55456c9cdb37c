---------------------------- MODULE InfoCollector ----------------------------
(***************************************************************************)
(* InfoCollector.collect_all (core/info/info_manager.py): how one cash     *)
(* register's sections are collected.  Wave 1 collects cash_type alone,    *)
(* wave 2 shares a deque of sections between a few worker coroutines that  *)
(* hand results to the main coroutine through an unbounded asyncio.Queue,  *)
(* wave 3 repeats the sections that timed out, one at a time.  Several     *)
(* runs for the same host overlap: the tab cancels a run and starts the    *)
(* next without waiting for the first to unwind, and they share the        *)
(* snapshot cache.                                                         *)
(*                                                                         *)
(* Everything runs on one event loop: an action is what a coroutine does   *)
(* from one await to the next.  Which section a worker pops and which      *)
(* result is read first is left open (the deque and the queue are sets):   *)
(* no property depends on the order.  Fields, texts and logs are left out. *)
(***************************************************************************)
EXTENDS Naturals, FiniteSets

CONSTANTS
  Sections,  \* sections of wave 2 that have a collector
  CashType,  \* the section of wave 1
  Runs,      \* calls of collect_all for one host
  Workers,   \* the min(_parallel_workers, len(remaining)) worker coroutines
  Outcomes,  \* statuses a collector that answers in time can end with
  OwnType,   \* the program's own cash type collector could be built
  None       \* no cached snapshot

ASSUME CollectorAssumption ==
  /\ IsFiniteSet(Sections) /\ Sections # {}
  /\ CashType \notin Sections
  /\ Workers # {}
  /\ Outcomes \subseteq {"COMPLETE", "SKIPPED", "ERROR"}
  /\ OwnType \in BOOLEAN
  /\ None \notin Runs
  /\ "unborn" \notin Sections /\ "gone" \notin Sections

VARIABLES
  rpc,        \* where the main coroutine of a run is
  cancelReq,  \* task.cancel() was called on it and not yet delivered
  todo,       \* sections no worker has popped
  held,       \* the section a worker collects; "unborn" before its first step
  wcancel,    \* task.cancel() was called on the workers of a run
  done,       \* results the main coroutine has not read
  got,        \* results it has read
  snap,       \* the status of each section in the run's snapshot
  emitted,    \* the status last given to on_section_ready
  timedOut,   \* sections wave 3 has still to repeat
  tries,      \* attempts made at a section
  cache       \* the run whose snapshot is in _cache[host]

vars == <<rpc, cancelReq, todo, held, wcancel, done, got, snap, emitted,
          timedOut, tries, cache>>

All == Sections \cup {CashType}
Results == Outcomes \cup {"TIMEOUT"}

\* CashTypeCollector.collect catches every failure and answers "unknown", which
\* is a COMPLETE section.  Where it could not be built a TOML collector of its
\* name may stand in, or the section is an ERROR.
TypeOutcomes == IF OwnType THEN {"COMPLETE"} ELSE Outcomes \cup {"ERROR"}
Status == {"PENDING"} \cup Results \cup TypeOutcomes
Active == {"cashType", "wait", "unwinding", "drain", "retry"}
Ended == {"returned", "cancelled"}

TypeOK ==
  /\ rpc \in [Runs -> {"none"} \cup Active \cup Ended]
  /\ cancelReq \in [Runs -> BOOLEAN]
  /\ todo \in [Runs -> SUBSET Sections]
  /\ held \in [Runs -> [Workers -> Sections \cup {"unborn", "gone"}]]
  /\ wcancel \in [Runs -> BOOLEAN]
  /\ done \in [Runs -> SUBSET (Sections \X Results)]
  /\ got \in [Runs -> Nat]
  /\ snap \in [Runs -> [All -> Status]]
  /\ emitted \in [Runs -> [All -> Status]]
  /\ timedOut \in [Runs -> SUBSET Sections]
  /\ tries \in [Runs -> [Sections -> Nat]]
  /\ cache \in Runs \cup {None}

Init ==
  /\ rpc = [r \in Runs |-> "none"]
  /\ cancelReq = [r \in Runs |-> FALSE]
  /\ todo = [r \in Runs |-> {}]
  /\ held = [r \in Runs |-> [w \in Workers |-> "unborn"]]
  /\ wcancel = [r \in Runs |-> FALSE]
  /\ done = [r \in Runs |-> {}]
  /\ got = [r \in Runs |-> 0]
  /\ snap = [r \in Runs |-> [s \in All |-> "PENDING"]]
  /\ emitted = [r \in Runs |-> [s \in All |-> "PENDING"]]
  /\ timedOut = [r \in Runs |-> {}]
  /\ tries = [r \in Runs |-> [s \in Sections |-> 0]]
  /\ cache = None

-----------------------------------------------------------------------------
(* The main coroutine *)

\* A live entry of the cache: its sections are emitted and returned.
CacheHit(r) ==
  /\ rpc[r] = "none"
  /\ cache # None
  /\ rpc' = [rpc EXCEPT ![r] = "returned"]
  /\ snap' = [snap EXCEPT ![r] = snap[cache]]
  /\ emitted' = [emitted EXCEPT ![r] = snap[cache]]
  /\ UNCHANGED <<cancelReq, todo, held, wcancel, done, got, timedOut, tries, cache>>

\* force, no entry, or an entry older than _cache_ttl.
Collect(r) ==
  /\ rpc[r] = "none"
  /\ rpc' = [rpc EXCEPT ![r] = "cashType"]
  /\ UNCHANGED <<cancelReq, todo, held, wcancel, done, got, snap, emitted,
                 timedOut, tries, cache>>

\* A section's status enters the snapshot and the panel together.
Record(r, s, st) ==
  /\ snap' = [snap EXCEPT ![r][s] = st]
  /\ emitted' = [emitted EXCEPT ![r][s] = st]

CashTypeReady(r) ==
  /\ rpc[r] = "cashType" /\ ~cancelReq[r]
  /\ \E st \in TypeOutcomes : Record(r, CashType, st)
  /\ todo' = [todo EXCEPT ![r] = Sections]
  /\ rpc' = [rpc EXCEPT ![r] = "wait"]
  /\ UNCHANGED <<cancelReq, held, wcancel, done, got, timedOut, tries, cache>>

\* Mutant: every section counts as timed out.
DeliverRepeatsAll(r, s, st) ==
  /\ rpc[r] = "wait" /\ ~cancelReq[r]
  /\ <<s, st>> \in done[r]
  /\ done' = [done EXCEPT ![r] = done[r] \ {<<s, st>>}]
  /\ got' = [got EXCEPT ![r] = got[r] + 1]
  /\ Record(r, s, st)
  /\ timedOut' = [timedOut EXCEPT ![r] = timedOut[r] \cup {s}]
  /\ IF got[r] + 1 = Cardinality(Sections)
       THEN /\ rpc' = [rpc EXCEPT ![r] = "drain"]
            /\ wcancel' = [wcancel EXCEPT ![r] = TRUE]
       ELSE UNCHANGED <<rpc, wcancel>>
  /\ UNCHANGED <<cancelReq, todo, held, tries, cache>>

\* One done.get() of the loop; after the last one the workers are cancelled.
Deliver(r, s, st) ==
  /\ rpc[r] = "wait" /\ ~cancelReq[r]
  /\ <<s, st>> \in done[r]
  /\ done' = [done EXCEPT ![r] = done[r] \ {<<s, st>>}]
  /\ got' = [got EXCEPT ![r] = got[r] + 1]
  /\ Record(r, s, st)
  /\ timedOut' = IF st = "TIMEOUT" THEN [timedOut EXCEPT ![r] = timedOut[r] \cup {s}]
                                   ELSE timedOut
  /\ IF got[r] + 1 = Cardinality(Sections)
       THEN /\ rpc' = [rpc EXCEPT ![r] = "drain"]
            /\ wcancel' = [wcancel EXCEPT ![r] = TRUE]
       ELSE UNCHANGED <<rpc, wcancel>>
  /\ UNCHANGED <<cancelReq, todo, held, tries, cache>>

\* A snapshot without any collected section is not cached and removes the
\* older entry.  The section of the cash type counts as well.
Usable(f) == \E s \in All : f[s] \in {"COMPLETE", "SKIPPED"}
Store(r, f) == cache' = IF Usable(f) THEN r ELSE None

\* Mutant: wave 3 starts without waiting for the workers.
DrainedAtOnce(r) ==
  /\ rpc[r] = "drain" /\ ~cancelReq[r]
  /\ IF timedOut[r] # {}
       THEN rpc' = [rpc EXCEPT ![r] = "retry"] /\ UNCHANGED cache
       ELSE rpc' = [rpc EXCEPT ![r] = "returned"] /\ Store(r, snap[r])
  /\ UNCHANGED <<cancelReq, todo, held, wcancel, done, got, snap, emitted,
                 timedOut, tries>>

\* Mutant: the snapshot is stored before the timed out sections are repeated.
DrainedStores(r) ==
  /\ rpc[r] = "drain" /\ ~cancelReq[r]
  /\ \A w \in Workers : held[r][w] = "gone"
  /\ rpc' = [rpc EXCEPT ![r] = IF timedOut[r] # {} THEN "retry" ELSE "returned"]
  /\ Store(r, snap[r])
  /\ UNCHANGED <<cancelReq, todo, held, wcancel, done, got, snap, emitted,
                 timedOut, tries>>

\* gather() over the cancelled workers is over.
Drained(r) ==
  /\ rpc[r] = "drain" /\ ~cancelReq[r]
  /\ \A w \in Workers : held[r][w] = "gone"
  /\ IF timedOut[r] # {}
       THEN rpc' = [rpc EXCEPT ![r] = "retry"] /\ UNCHANGED cache
       ELSE rpc' = [rpc EXCEPT ![r] = "returned"] /\ Store(r, snap[r])
  /\ UNCHANGED <<cancelReq, todo, held, wcancel, done, got, snap, emitted,
                 timedOut, tries>>

\* Mutant: the repeated section reaches the snapshot but not the panel.
RetryNoEmit(r, s) ==
  /\ rpc[r] = "retry" /\ ~cancelReq[r]
  /\ s \in timedOut[r]
  /\ timedOut' = [timedOut EXCEPT ![r] = timedOut[r] \ {s}]
  /\ tries' = [tries EXCEPT ![r][s] = tries[r][s] + 1]
  /\ \/ UNCHANGED snap
     \/ \E st \in Outcomes : snap' = [snap EXCEPT ![r][s] = st]
  /\ IF timedOut[r] = {s}
       THEN rpc' = [rpc EXCEPT ![r] = "returned"] /\ Store(r, snap'[r])
       ELSE UNCHANGED <<rpc, cache>>
  /\ UNCHANGED <<cancelReq, todo, held, wcancel, done, got, emitted>>

\* _retry_sequential: a second timeout keeps the first result, anything else
\* replaces it; after the last section the snapshot is stored and returned.
Retry(r, s) ==
  /\ rpc[r] = "retry" /\ ~cancelReq[r]
  /\ s \in timedOut[r]
  /\ timedOut' = [timedOut EXCEPT ![r] = timedOut[r] \ {s}]
  /\ tries' = [tries EXCEPT ![r][s] = tries[r][s] + 1]
  /\ \/ UNCHANGED <<snap, emitted>>
     \/ \E st \in Outcomes : Record(r, s, st)
  /\ IF timedOut[r] = {s}
       THEN rpc' = [rpc EXCEPT ![r] = "returned"] /\ Store(r, snap'[r])
       ELSE UNCHANGED <<rpc, cache>>
  /\ UNCHANGED <<cancelReq, todo, held, wcancel, done, got>>

\* load_info(force), reconnect_to, cleanup, closeEvent: task.cancel().  It may
\* come again while the first one is still unwinding.
Cancel(r) ==
  /\ rpc[r] \in Active
  /\ cancelReq' = [cancelReq EXCEPT ![r] = TRUE]
  /\ UNCHANGED <<rpc, todo, held, wcancel, done, got, snap, emitted, timedOut,
                 tries, cache>>

\* CancelledError at the await of the main coroutine.  In the loop of wave 2
\* the finally clause first cancels the workers and waits for them.
Cancelled(r) ==
  /\ cancelReq[r]
  /\ cancelReq' = [cancelReq EXCEPT ![r] = FALSE]
  /\ IF rpc[r] = "wait"
       THEN /\ rpc' = [rpc EXCEPT ![r] = "unwinding"]
            /\ wcancel' = [wcancel EXCEPT ![r] = TRUE]
       ELSE rpc' = [rpc EXCEPT ![r] = "cancelled"] /\ UNCHANGED wcancel
  /\ UNCHANGED <<todo, held, done, got, snap, emitted, timedOut, tries, cache>>

Unwound(r) ==
  /\ rpc[r] = "unwinding" /\ ~cancelReq[r]
  /\ \A w \in Workers : held[r][w] = "gone"
  /\ rpc' = [rpc EXCEPT ![r] = "cancelled"]
  /\ UNCHANGED <<cancelReq, todo, held, wcancel, done, got, snap, emitted,
                 timedOut, tries, cache>>

-----------------------------------------------------------------------------
(* The workers of wave 2 *)

\* `while todo`: pop the next section and begin to collect it, or return.
TakeNext(r, w) ==
  \/ /\ todo[r] = {}
     /\ held' = [held EXCEPT ![r][w] = "gone"]
     /\ UNCHANGED todo
  \/ \E n \in todo[r] :
       /\ held' = [held EXCEPT ![r][w] = n]
       /\ todo' = [todo EXCEPT ![r] = todo[r] \ {n}]

WorkerStart(r, w) ==
  /\ rpc[r] = "wait" /\ ~wcancel[r]
  /\ held[r][w] = "unborn"
  /\ TakeNext(r, w)
  /\ UNCHANGED <<rpc, cancelReq, wcancel, done, got, snap, emitted, timedOut,
                 tries, cache>>

\* Mutant: the TimeoutError of wait_for is not caught inside collect_one.
WorkerFinishNoTimeout(r, w) ==
  /\ held[r][w] \in Sections /\ ~wcancel[r]
  /\ \E st \in Results :
       done' = IF st = "TIMEOUT" THEN done
               ELSE [done EXCEPT ![r] = done[r] \cup {<<held[r][w], st>>}]
  /\ tries' = [tries EXCEPT ![r][held[r][w]] = tries[r][held[r][w]] + 1]
  /\ TakeNext(r, w)
  /\ UNCHANGED <<rpc, cancelReq, wcancel, got, snap, emitted, timedOut, cache>>

\* collect_one answers or times out; put() on the unbounded queue does not
\* wait, so the next section is popped in the same step.
WorkerFinish(r, w) ==
  /\ held[r][w] \in Sections /\ ~wcancel[r]
  /\ \E st \in Results : done' = [done EXCEPT ![r] = done[r] \cup {<<held[r][w], st>>}]
  /\ tries' = [tries EXCEPT ![r][held[r][w]] = tries[r][held[r][w]] + 1]
  /\ TakeNext(r, w)
  /\ UNCHANGED <<rpc, cancelReq, wcancel, got, snap, emitted, timedOut, cache>>

\* A cancelled worker ends at its await, or before its first step.
WorkerCancelled(r, w) ==
  /\ wcancel[r]
  /\ held[r][w] # "gone"
  /\ held' = [held EXCEPT ![r][w] = "gone"]
  /\ UNCHANGED <<rpc, cancelReq, todo, wcancel, done, got, snap, emitted,
                 timedOut, tries, cache>>

-----------------------------------------------------------------------------

\* clear_cache(), from reconnect_to.
ClearCache ==
  /\ cache # None
  /\ cache' = None
  /\ UNCHANGED <<rpc, cancelReq, todo, held, wcancel, done, got, snap, emitted,
                 timedOut, tries>>

MainStep(r) ==
  \/ CashTypeReady(r)
  \/ \E s \in Sections, st \in Results : Deliver(r, s, st)
  \/ Drained(r)
  \/ \E s \in Sections : Retry(r, s)
  \/ Cancelled(r) \/ Unwound(r)

WorkerStep(r, w) == WorkerStart(r, w) \/ WorkerFinish(r, w) \/ WorkerCancelled(r, w)

Next ==
  \/ ClearCache
  \/ \E r \in Runs :
       \/ CacheHit(r) \/ Collect(r) \/ Cancel(r)
       \/ MainStep(r)
       \/ \E w \in Workers : WorkerStep(r, w)

Spec == Init /\ [][Next]_vars

\* The loop runs every ready coroutine; a collector ends because of the
\* TASK_TIMEOUT around it (wave 1: because of the command timeouts below it).
Fairness ==
  \A r \in Runs :
    /\ WF_vars(MainStep(r))
    /\ \A w \in Workers : WF_vars(WorkerStep(r, w))

FairSpec == Spec /\ Fairness

-----------------------------------------------------------------------------
(* Properties *)

\* collect_all returns a snapshot in which every section has a status, and the
\* panel was told exactly that status last, on a cache hit, with retries, and
\* in any order of the workers: no skeleton is left and no panel disagrees
\* with the snapshot the problem checks read.
ReturnedIsShown ==
  \A r \in Runs : rpc[r] = "returned" =>
    \A s \in All : snap[r][s] # "PENDING" /\ emitted[r][s] = snap[r][s]

\* The main coroutine, which counts results with done.get(), never waits for
\* one nobody will put: a result is queued or a worker is still able to work.
SomebodyWorks ==
  \A r \in Runs : rpc[r] = "wait" =>
    done[r] # {} \/ \E w \in Workers : held[r][w] # "gone"

\* Wave 3 is strictly sequential: no worker of wave 2 still holds a channel.
RetryAlone ==
  \A r \in Runs : rpc[r] = "retry" => \A w \in Workers : held[r][w] = "gone"

\* "Cancelling the collection must not leave collectors beating on the
\* register": whatever a run that has ended still holds is being cancelled.
NoOrphanWorkers ==
  \A r \in Runs : rpc[r] \in Ended =>
    \A w \in Workers : held[r][w] \in Sections => wcancel[r]

\* A section is attempted at most twice, and shown as timed out only after
\* the second attempt.
RetriedOnce ==
  \A r \in Runs, s \in Sections :
    /\ tries[r][s] <= 2
    /\ rpc[r] = "returned" /\ snap[r][s] = "TIMEOUT" => tries[r][s] # 1

\* The three waves hand over cleanly: no result is waited for in vain, no wave
\* overlaps the next on the register, and no attempt is one too many.
WavesHandOver == SomebodyWorks /\ RetryAlone /\ NoOrphanWorkers /\ RetriedOnce

\* Whoever takes the cached snapshot takes a final one: the run that stored it
\* has ended without a cancellation, every section has its answer, and one shown
\* as timed out has had its second attempt.  A run that is cancelled, or that
\* still repeats sections, leaves no entry that would be shown for the whole TTL.
CacheIsFinished ==
  cache # None =>
    /\ rpc[cache] = "returned"
    /\ \A s \in All : snap[cache][s] # "PENDING"
    /\ \A s \in Sections : snap[cache][s] = "TIMEOUT" => tries[cache][s] = 2

\* The comment over the cache write: a snapshot that failed as a whole is not
\* put into the cache.  The section of the cash type says nothing of the
\* register: it is collected whatever the register answers.
FailedIsNotCached ==
  cache # None => \E s \in Sections : snap[cache][s] \in {"COMPLETE", "SKIPPED"}

\* A section that was collected stays as it is: no worker and no repetition
\* asks the register for it again, and nothing overwrites it.
Collected(r, s) == snap[r][s] \in {"COMPLETE", "SKIPPED"}
CollectedStays ==
  [][\A r \in Runs, s \in All : Collected(r, s) =>
       /\ snap'[r][s] = snap[r][s]
       /\ s \in Sections => tries'[r][s] = tries[r][s]]_vars

\* Every run ends: with answers, timeouts or a cancellation at any await.
RunEnds == \A r \in Runs : rpc[r] \in Active ~> rpc[r] \in Ended
=============================================================================
