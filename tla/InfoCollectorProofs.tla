------------------------- MODULE InfoCollectorProofs -------------------------
(***************************************************************************)
(* TLAPS proofs about InfoCollector, for every finite set of sections and  *)
(* every set of workers and of overlapping runs.                           *)
(*                                                                         *)
(* The main coroutine only counts results, so what it returns is complete  *)
(* because no section is counted twice: a section is in the deque, held by *)
(* one worker, in the queue once, or in the snapshot, and never in two of  *)
(* these places (Disjoint).  With each section in one of them (Covered) an *)
(* idle queue means that some worker has not ended.                        *)
(***************************************************************************)
EXTENDS InfoCollector, FiniteSetTheorems, TLAPS

Shown(r) == {s \in Sections : snap[r][s] # "PENDING"}
Queued(r, s) == \E st \in Results : <<s, st>> \in done[r]
Held(r, s) == \E w \in Workers : held[r][w] = s

\* Before wave 2 a run has touched nothing.
Untouched(r) ==
  rpc[r] \in {"none", "cashType"} =>
    /\ todo[r] = {} /\ done[r] = {} /\ timedOut[r] = {} /\ got[r] = 0 /\ ~wcancel[r]
    /\ \A w \in Workers : held[r][w] = "unborn"
    /\ \A s \in All : snap[r][s] = "PENDING"
    /\ \A s \in Sections : tries[r][s] = 0

\* A section is in one place at a time.
Disjoint(r) ==
  /\ \A s \in todo[r] : snap[r][s] = "PENDING" /\ ~Queued(r, s) /\ ~Held(r, s)
  /\ \A w \in Workers : held[r][w] \in Sections =>
       /\ snap[r][held[r][w]] = "PENDING" /\ ~Queued(r, held[r][w])
       /\ \A v \in Workers : held[r][v] = held[r][w] => v = w
  /\ \A s \in Sections, st \in Results : <<s, st>> \in done[r] =>
       /\ snap[r][s] = "PENDING"
       /\ \A su \in Results : <<s, su>> \in done[r] => su = st

\* The counter of results counts the sections of the snapshot.
Counted(r) ==
  /\ rpc[r] = "wait" =>
       /\ got[r] = Cardinality(Shown(r)) /\ got[r] # Cardinality(Sections)
       /\ snap[r][CashType] # "PENDING"
  /\ rpc[r] \in {"drain", "retry", "returned"} => \A s \in All : snap[r][s] # "PENDING"

\* No section of wave 2 is forgotten.
Covered(r) ==
  rpc[r] = "wait" =>
    /\ ~wcancel[r]
    /\ \A s \in Sections : s \in todo[r] \/ Held(r, s) \/ Queued(r, s) \/ s \in Shown(r)
    /\ \A w \in Workers : held[r][w] = "gone" => todo[r] = {}

\* Leaving wave 2 cancels the workers, and the last wave waits for their end.
Stopped(r) ==
  /\ cancelReq[r] => rpc[r] \in Active
  /\ rpc[r] \in {"unwinding", "drain", "retry"} => wcancel[r]
  /\ rpc[r] = "retry" => \A w \in Workers : held[r][w] = "gone"
  /\ rpc[r] \in Ended => \A w \in Workers : held[r][w] \in Sections => wcancel[r]

\* Where a section is tells how often it was attempted.
Tried(r) ==
  \A s \in Sections :
    /\ tries[r][s] <= 2
    /\ s \in todo[r] \/ Held(r, s) => tries[r][s] = 0
    /\ Queued(r, s) => tries[r][s] = 1
    /\ s \in timedOut[r] => tries[r][s] = 1 /\ snap[r][s] = "TIMEOUT"
    /\ rpc[r] \in {"wait", "drain", "retry"} /\ snap[r][s] = "TIMEOUT" =>
         s \in timedOut[r] \/ tries[r][s] = 2
    /\ rpc[r] = "returned" /\ snap[r][s] = "TIMEOUT" => tries[r][s] # 1

RunInv(r) ==
  /\ Untouched(r) /\ Disjoint(r) /\ Counted(r) /\ Covered(r) /\ Stopped(r) /\ Tried(r)

IInv ==
  /\ TypeOK
  /\ \A r \in Runs : RunInv(r)
  /\ emitted = snap
  /\ CacheIsFinished

\* Nothing of run r changes.
Same(r) ==
  /\ rpc'[r] = rpc[r] /\ cancelReq'[r] = cancelReq[r] /\ todo'[r] = todo[r]
  /\ held'[r] = held[r] /\ wcancel'[r] = wcancel[r] /\ done'[r] = done[r]
  /\ got'[r] = got[r] /\ snap'[r] = snap[r] /\ timedOut'[r] = timedOut[r]
  /\ tries'[r] = tries[r]

-----------------------------------------------------------------------------

\* The initial state satisfies the inductive invariant.
LEMMA InitIInv == Init => IInv
<1> SUFFICES ASSUME Init PROVE IInv
  OBVIOUS
<1>1. TypeOK
  BY DEF Init, TypeOK, Active, Ended, Status, Results
<1>2. ASSUME NEW r \in Runs PROVE RunInv(r)
  <2>1. Untouched(r) /\ Counted(r) /\ Covered(r) /\ Stopped(r)
    BY DEF Init, Untouched, Counted, Covered, Stopped, All, Ended
  <2>2. Disjoint(r) /\ Tried(r)
    BY CollectorAssumption DEF Init, Disjoint, Tried, Held, Queued
  <2> QED
    BY <2>1, <2>2 DEF RunInv
<1>3. emitted = snap /\ CacheIsFinished
  BY DEF Init, CacheIsFinished
<1> QED
  BY <1>1, <1>2, <1>3 DEF IInv

\* The main coroutine of some run, one of its workers, or the cache moves.
LEMMA Steps ==
  ASSUME Next
  PROVE  \/ ClearCache
         \/ \E r \in Runs :
              \/ CacheHit(r) \/ Collect(r) \/ Cancel(r) \/ CashTypeReady(r)
              \/ \E s \in Sections, st \in Results : Deliver(r, s, st)
              \/ Drained(r) \/ (\E s \in Sections : Retry(r, s))
              \/ Cancelled(r) \/ Unwound(r)
              \/ \E w \in Workers : WorkerStart(r, w) \/ WorkerFinish(r, w)
                                    \/ WorkerCancelled(r, w)
BY DEF Next, MainStep, WorkerStep

\* A run of which nothing changes keeps its invariant.
LEMMA Frame ==
  ASSUME NEW r \in Runs, RunInv(r), Same(r)
  PROVE  RunInv(r)'
BY DEF RunInv, Same, Untouched, Disjoint, Counted, Covered, Stopped, Tried,
       Shown, Queued, Held

\* Recording a status changes one section of one run, in snap and in emitted.
LEMMA RecordEffect ==
  ASSUME TypeOK, emitted = snap, NEW r \in Runs, NEW s \in All, NEW st \in Status,
         Record(r, s, st)
  PROVE  /\ snap' \in [Runs -> [All -> Status]]
         /\ emitted' = snap'
         /\ \A q \in Runs \ {r} : snap'[q] = snap[q]
         /\ snap'[r][s] = st
         /\ \A t \in All \ {s} : snap'[r][t] = snap[r][t]
<1> DEFINE f == [snap[r] EXCEPT ![s] = st]
<1>1. snap \in [Runs -> [All -> Status]] /\ snap[r] \in [All -> Status]
  BY DEF TypeOK
<1>2. snap' = [snap EXCEPT ![r] = f] /\ emitted' = snap'
  BY DEF Record
<1>3. /\ f \in [All -> Status] /\ f[s] = st
      /\ \A t \in All \ {s} : f[t] = snap[r][t]
  BY <1>1
<1> HIDE DEF f
<1>4. snap'[r] = f /\ snap' \in [Runs -> [All -> Status]]
  BY <1>1, <1>2, <1>3
<1> QED
  BY <1>1, <1>2, <1>3, <1>4

\* A worker that wants its next section ends, or moves one from the deque.
LEMMA TakeEffect ==
  ASSUME TypeOK, NEW r \in Runs, NEW w \in Workers, TakeNext(r, w)
  PROVE  /\ todo' \in [Runs -> SUBSET Sections]
         /\ held' \in [Runs -> [Workers -> Sections \cup {"unborn", "gone"}]]
         /\ \A q \in Runs \ {r} : todo'[q] = todo[q] /\ held'[q] = held[q]
         /\ \A v \in Workers \ {w} : held'[r][v] = held[r][v]
         /\ \/ todo[r] = {} /\ todo'[r] = {} /\ held'[r][w] = "gone"
            \/ \E n \in todo[r] : held'[r][w] = n /\ todo'[r] = todo[r] \ {n}
<1>1. /\ todo \in [Runs -> SUBSET Sections]
      /\ held \in [Runs -> [Workers -> Sections \cup {"unborn", "gone"}]]
  BY DEF TypeOK
<1>2. ASSUME NEW n \in Sections \cup {"gone"}, held' = [held EXCEPT ![r][w] = n]
      PROVE  /\ held' \in [Runs -> [Workers -> Sections \cup {"unborn", "gone"}]]
             /\ \A q \in Runs \ {r} : held'[q] = held[q]
             /\ \A v \in Workers \ {w} : held'[r][v] = held[r][v]
             /\ held'[r][w] = n
  <2> DEFINE f == [held[r] EXCEPT ![w] = n]
  <2>1. /\ f \in [Workers -> Sections \cup {"unborn", "gone"}] /\ f[w] = n
        /\ \A v \in Workers \ {w} : f[v] = held[r][v]
    BY <1>1
  <2>2. held' = [held EXCEPT ![r] = f]
    BY <1>2
  <2> HIDE DEF f
  <2> QED
    BY <1>1, <2>1, <2>2
<1>3. CASE todo[r] = {} /\ held' = [held EXCEPT ![r][w] = "gone"] /\ UNCHANGED todo
  BY <1>1, <1>2, <1>3
<1>4. ASSUME NEW n \in todo[r], held' = [held EXCEPT ![r][w] = n],
             todo' = [todo EXCEPT ![r] = todo[r] \ {n}]
      PROVE  /\ todo' \in [Runs -> SUBSET Sections]
             /\ \A q \in Runs \ {r} : todo'[q] = todo[q]
             /\ todo'[r] = todo[r] \ {n}
             /\ n \in Sections
  BY <1>1, <1>4
<1>5. ASSUME NEW n \in todo[r], held' = [held EXCEPT ![r][w] = n],
             todo' = [todo EXCEPT ![r] = todo[r] \ {n}]
      PROVE  /\ todo' \in [Runs -> SUBSET Sections]
             /\ held' \in [Runs -> [Workers -> Sections \cup {"unborn", "gone"}]]
             /\ \A q \in Runs \ {r} : todo'[q] = todo[q] /\ held'[q] = held[q]
             /\ \A v \in Workers \ {w} : held'[r][v] = held[r][v]
             /\ held'[r][w] = n /\ todo'[r] = todo[r] \ {n}
  BY <1>2, <1>4, <1>5
<1> QED
  BY <1>3, <1>5 DEF TakeNext

\* The cached snapshot is of a run that has returned, which does not move.
LEMMA CacheStays ==
  ASSUME TypeOK, CacheIsFinished, UNCHANGED cache,
         \A q \in Runs : rpc[q] = "returned" =>
           rpc'[q] = "returned" /\ snap'[q] = snap[q] /\ tries'[q] = tries[q]
  PROVE  CacheIsFinished'
BY DEF TypeOK, CacheIsFinished

\* What is cached after Store is the snapshot of the run that ends now.
LEMMA StoreEffect ==
  ASSUME NEW r \in Runs, rpc'[r] = "returned", Store(r, snap'[r]),
         \A s \in All : snap'[r][s] # "PENDING",
         \A s \in Sections : snap'[r][s] = "TIMEOUT" => tries'[r][s] = 2
  PROVE  CacheIsFinished' /\ cache' \in Runs \cup {None}
BY CollectorAssumption DEF Store, CacheIsFinished

-----------------------------------------------------------------------------
(* One lemma per action *)

LEMMA ClearCacheStep ==
  ASSUME IInv, ClearCache
  PROVE  IInv'
<1>1. TypeOK' /\ CacheIsFinished' /\ (emitted = snap)'
  BY DEF IInv, ClearCache, TypeOK, CacheIsFinished
<1>2. ASSUME NEW q \in Runs PROVE RunInv(q)'
  BY <1>2, Frame DEF IInv, ClearCache, Same
<1> QED
  BY <1>1, <1>2 DEF IInv

LEMMA CacheHitStep ==
  ASSUME IInv, NEW r \in Runs, CacheHit(r)
  PROVE  IInv'
<1>1. TypeOK' /\ (emitted = snap)'
  BY DEF IInv, CacheHit, TypeOK, Active, Ended
<1>2. /\ rpc[r] = "none" /\ rpc'[r] = "returned" /\ snap'[r] = snap[cache]
      /\ cache \in Runs /\ rpc[cache] = "returned"
  BY DEF IInv, CacheHit, TypeOK, CacheIsFinished
<1>3. ASSUME NEW q \in Runs, q # r PROVE RunInv(q)' /\ snap'[q] = snap[q] /\ rpc'[q] = rpc[q]
  BY <1>3, Frame DEF IInv, CacheHit, Same, TypeOK
<1>4. RunInv(r)'
  <2>1. RunInv(r) /\ RunInv(cache)
    BY <1>2 DEF IInv
  <2>2. UNCHANGED <<cancelReq, todo, held, wcancel, done, got, timedOut, tries>>
    BY DEF CacheHit
  <2>3. Untouched(r)' /\ Disjoint(r)' /\ Stopped(r)' /\ Covered(r)'
    BY <1>2, <2>1, <2>2, CollectorAssumption
       DEF RunInv, Untouched, Disjoint, Stopped, Covered, Active, Queued, Held, Ended
  <2>4. Counted(r)' /\ Tried(r)'
    BY <1>2, <2>1, <2>2, CollectorAssumption
       DEF RunInv, Untouched, Counted, Tried, Queued, Held
  <2> QED
    BY <2>3, <2>4 DEF RunInv
<1>5. CacheIsFinished'
  BY <1>2, <1>3, CacheStays DEF IInv, CacheHit
<1> QED
  BY <1>1, <1>3, <1>4, <1>5 DEF IInv

\* The actions that only move the main coroutine or its cancellation.
LEMMA ControlStep ==
  ASSUME IInv, NEW r \in Runs, Collect(r) \/ Cancel(r) \/ Cancelled(r) \/ Unwound(r)
  PROVE  IInv'
<1> USE DEF Collect, Cancel, Cancelled, Unwound
<1>0. /\ TypeOK /\ RunInv(r)
      /\ UNCHANGED <<todo, held, done, got, snap, emitted, timedOut, tries, cache>>
  BY DEF IInv
<1>1. TypeOK' /\ (emitted = snap)'
  <2>1. rpc' \in [Runs -> {"none"} \cup Active \cup Ended]
    BY <1>0 DEF TypeOK, Active, Ended
  <2>2. cancelReq' \in [Runs -> BOOLEAN]
    BY <1>0 DEF TypeOK
  <2>3. wcancel' \in [Runs -> BOOLEAN]
    BY <1>0 DEF TypeOK
  <2> QED
    BY <1>0, <2>1, <2>2, <2>3 DEF IInv, TypeOK
<1>2. rpc[r] # "returned"
  BY <1>0 DEF RunInv, Stopped, Active
<1>3. ASSUME NEW q \in Runs, q # r PROVE RunInv(q)' /\ rpc'[q] = rpc[q]
  <2>1. Same(q)
    BY <1>0, <1>3 DEF Same, TypeOK
  <2> QED
    BY <1>3, <2>1, Frame DEF IInv, Same
<1>4. Disjoint(r)'
  BY <1>0 DEF RunInv, Disjoint, Queued, Held
<1>5. /\ rpc' \in [Runs -> {"none"} \cup Active \cup Ended]
      /\ rpc'[r] = rpc[r] \/ rpc'[r] \in {"cashType", "unwinding", "cancelled"}
      /\ rpc[r] \in {"none", "cashType"} => wcancel'[r] = wcancel[r]
      /\ rpc'[r] \in {"none", "cashType"} => rpc[r] \in {"none", "cashType"}
      /\ rpc'[r] = "wait" => wcancel'[r] = wcancel[r]
      /\ wcancel[r] => wcancel'[r]
  BY <1>0, <1>1 DEF TypeOK, RunInv, Stopped, Active
<1>6. Untouched(r)' /\ Counted(r)' /\ Covered(r)'
  BY <1>0, <1>5 DEF TypeOK, RunInv, Untouched, Counted, Covered, Shown, Queued, Held
<1>7. Tried(r)'
  <2>1. Tried(r)
    BY <1>0 DEF RunInv
  <2> QED
    BY <1>0, <1>2, <1>5, <2>1 DEF Tried, Queued, Held
<1>8. Stopped(r)'
  <2>1. Stopped(r) /\ Untouched(r) /\ Covered(r)
    BY <1>0 DEF RunInv
  <2>2. CASE Collect(r)
    BY <1>0, <2>1, <2>2 DEF TypeOK, Stopped, Active, Ended
  <2>3. CASE Cancel(r)
    BY <1>0, <2>1, <2>3 DEF TypeOK, Stopped, Active, Ended
  <2>4. CASE Cancelled(r)
    BY <1>0, <2>1, <2>4, CollectorAssumption DEF TypeOK, Stopped, Untouched, Active, Ended
  <2>5. CASE Unwound(r)
    BY <1>0, <2>1, <2>5 DEF TypeOK, Stopped, Active, Ended
  <2> QED
    BY <2>2, <2>3, <2>4, <2>5
<1>9. CacheIsFinished'
  BY <1>0, <1>2, <1>3, CacheStays DEF IInv
<1> QED
  BY <1>1, <1>3, <1>4, <1>6, <1>7, <1>8, <1>9 DEF IInv, RunInv

\* Wave 2 starts with every section in the deque.
LEMMA CashTypeStep ==
  ASSUME IInv, NEW r \in Runs, CashTypeReady(r)
  PROVE  IInv'
<1>0. TypeOK /\ RunInv(r) /\ emitted = snap /\ Untouched(r)
  BY DEF IInv, RunInv
<1>1. PICK st \in TypeOutcomes : Record(r, CashType, st)
  BY DEF CashTypeReady
<1>2. CashType \in All /\ st \in Status /\ st # "PENDING" /\ CashType \notin Sections
  BY CollectorAssumption DEF All, Status, TypeOutcomes
<1>3. /\ snap' \in [Runs -> [All -> Status]]
      /\ emitted' = snap'
      /\ \A q \in Runs \ {r} : snap'[q] = snap[q]
      /\ snap'[r][CashType] = st
      /\ \A t \in All \ {CashType} : snap'[r][t] = snap[r][t]
  BY <1>0, <1>1, <1>2, RecordEffect
<1>4. /\ rpc[r] = "cashType" /\ rpc' = [rpc EXCEPT ![r] = "wait"]
      /\ todo' = [todo EXCEPT ![r] = Sections]
      /\ UNCHANGED <<cancelReq, held, wcancel, done, got, timedOut, tries, cache>>
  BY DEF CashTypeReady
<1>5. TypeOK' /\ rpc'[r] = "wait" /\ todo'[r] = Sections
  BY <1>0, <1>3, <1>4 DEF TypeOK, Active
<1>6. ASSUME NEW q \in Runs, q # r PROVE RunInv(q)' /\ rpc'[q] = rpc[q]
  <2>1. Same(q)
    BY <1>0, <1>3, <1>4, <1>6 DEF Same, TypeOK
  <2> QED
    BY <1>6, <2>1, Frame DEF IInv, Same
<1>7. \A s \in Sections : snap'[r][s] = "PENDING"
  BY <1>0, <1>2, <1>3, <1>4 DEF Untouched, All
<1>8. Disjoint(r)' /\ Tried(r)' /\ Untouched(r)' /\ Stopped(r)' /\ Covered(r)'
  <2>1. Disjoint(r)'
    BY <1>0, <1>4, <1>5, <1>7, CollectorAssumption DEF Untouched, Disjoint, Queued, Held
  <2>2. Tried(r)'
    <3>1. /\ done'[r] = {} /\ timedOut'[r] = {}
          /\ \A t \in Sections : tries'[r][t] = 0 /\ snap'[r][t] = "PENDING"
      BY <1>0, <1>4, <1>7 DEF Untouched
    <3> QED
      BY <3>1, <1>5 DEF Tried, Queued
  <2>3. Untouched(r)' /\ Stopped(r)' /\ Covered(r)'
    BY <1>0, <1>4, <1>5, CollectorAssumption
       DEF RunInv, Untouched, Stopped, Covered, Active, Ended
  <2> QED
    BY <2>1, <2>2, <2>3
<1>9. Counted(r)'
  <2>1. Shown(r)' = {}
    BY <1>7 DEF Shown
  <2>2. Cardinality({}) = 0 /\ Cardinality(Sections) # 0
    BY FS_EmptySet, CollectorAssumption
  <2> QED
    BY <1>0, <1>2, <1>3, <1>4, <1>5, <2>1, <2>2 DEF Counted, Untouched
<1>10. CacheIsFinished'
  BY <1>0, <1>3, <1>4, <1>6, CacheStays DEF IInv
<1> QED
  BY <1>3, <1>5, <1>6, <1>8, <1>9, <1>10 DEF IInv, RunInv

\* A result that is read was queued once, so the counter counts a new section.
LEMMA DeliverStep ==
  ASSUME IInv, NEW r \in Runs, NEW s \in Sections, NEW st \in Results, Deliver(r, s, st)
  PROVE  IInv'
<1> DEFINE last == got[r] + 1 = Cardinality(Sections)
<1>0. /\ TypeOK /\ emitted = snap
      /\ Untouched(r) /\ Disjoint(r) /\ Counted(r) /\ Covered(r) /\ Stopped(r) /\ Tried(r)
  BY DEF IInv, RunInv
<1>1. s \in All /\ st \in Status /\ st # "PENDING"
  BY CollectorAssumption DEF All, Status, Results
<1>2. /\ snap' \in [Runs -> [All -> Status]]
      /\ emitted' = snap'
      /\ \A q \in Runs \ {r} : snap'[q] = snap[q]
      /\ snap'[r][s] = st
      /\ \A t \in All \ {s} : snap'[r][t] = snap[r][t]
  BY <1>0, <1>1, RecordEffect DEF Deliver
<1>3. /\ rpc[r] = "wait" /\ <<s, st>> \in done[r] /\ ~cancelReq[r]
      /\ UNCHANGED <<cancelReq, todo, held, tries, cache>>
  BY DEF Deliver
<1>4. /\ TypeOK'
      /\ done'[r] = done[r] \ {<<s, st>>} /\ got'[r] = got[r] + 1
      /\ timedOut'[r] = IF st = "TIMEOUT" THEN timedOut[r] \cup {s} ELSE timedOut[r]
      /\ rpc'[r] = IF last THEN "drain" ELSE "wait"
      /\ wcancel'[r] = IF last THEN TRUE ELSE wcancel[r]
  <2>1. /\ done' \in [Runs -> SUBSET (Sections \X Results)]
        /\ done'[r] = done[r] \ {<<s, st>>}
    BY <1>0 DEF TypeOK, Deliver
  <2>2. got' \in [Runs -> Nat] /\ got'[r] = got[r] + 1
    BY <1>0 DEF TypeOK, Deliver
  <2>3. /\ timedOut' \in [Runs -> SUBSET Sections]
        /\ timedOut'[r] = IF st = "TIMEOUT" THEN timedOut[r] \cup {s} ELSE timedOut[r]
    BY <1>0 DEF TypeOK, Deliver
  <2>4. /\ rpc' \in [Runs -> {"none"} \cup Active \cup Ended]
        /\ wcancel' \in [Runs -> BOOLEAN]
        /\ rpc'[r] = IF last THEN "drain" ELSE "wait"
        /\ wcancel'[r] = IF last THEN TRUE ELSE wcancel[r]
    BY <1>0, <1>3 DEF TypeOK, Deliver, Active
  <2> QED
    BY <1>0, <1>2, <1>3, <2>1, <2>2, <2>3, <2>4 DEF TypeOK
<1>5. ASSUME NEW q \in Runs, q # r PROVE RunInv(q)' /\ rpc'[q] = rpc[q]
  <2>1. rpc'[q] = rpc[q] /\ wcancel'[q] = wcancel[q] /\ timedOut'[q] = timedOut[q]
    BY <1>0, <1>5 DEF TypeOK, Deliver
  <2>2. done'[q] = done[q] /\ got'[q] = got[q]
    BY <1>0, <1>5 DEF TypeOK, Deliver
  <2>3. Same(q)
    BY <1>2, <1>3, <1>5, <2>1, <2>2 DEF Same
  <2> QED
    BY <1>5, <2>1, <2>3, Frame DEF IInv
<1>6. /\ snap[r][s] = "PENDING" /\ s \notin todo[r] /\ ~Held(r, s) /\ tries[r][s] = 1
      /\ ~Queued(r, s)'
  <2>1. snap[r][s] = "PENDING" /\ Queued(r, s) /\ ~Queued(r, s)'
    BY <1>0, <1>3, <1>4 DEF Disjoint, Queued
  <2>2. s \notin todo[r] /\ ~Held(r, s) /\ tries[r][s] = 1
    BY <1>0, <2>1 DEF Disjoint, Tried, Held
  <2> QED
    BY <2>1, <2>2
<1>7. /\ \A t \in Sections \ {s} : /\ snap'[r][t] = snap[r][t]
                                   /\ Queued(r, t)' = Queued(r, t)
      /\ \A t \in Sections : Held(r, t)' = Held(r, t)
  BY <1>2, <1>3, <1>4 DEF Queued, Held, All
<1>8. Disjoint(r)'
  <2>1. \A t \in todo'[r] : snap'[r][t] = "PENDING" /\ ~Queued(r, t)' /\ ~Held(r, t)'
    BY <1>0, <1>3, <1>6, <1>7 DEF Disjoint, TypeOK
  <2>2. ASSUME NEW w \in Workers, held[r][w] \in Sections
        PROVE  /\ snap'[r][held[r][w]] = "PENDING" /\ ~Queued(r, held[r][w])'
               /\ \A v \in Workers : held[r][v] = held[r][w] => v = w
    <3>1. PICK t \in Sections : t = held[r][w]
      BY <2>2
    <3>2. t # s
      BY <1>6, <3>1 DEF Held
    <3>3. snap[r][t] = "PENDING" /\ ~Queued(r, t)
      BY <1>0, <2>2, <3>1 DEF Disjoint
    <3>4. snap'[r][t] = "PENDING" /\ ~Queued(r, t)'
      BY <1>7, <3>2, <3>3
    <3>5. ~Queued(r, held[r][w])'
      BY <1>3, <3>1, <3>4 DEF Queued
    <3> QED
      BY <1>0, <2>2, <3>1, <3>4, <3>5 DEF Disjoint
  <2>3. ASSUME NEW t \in Sections, NEW su \in Results, <<t, su>> \in done'[r]
        PROVE  snap'[r][t] = "PENDING" /\ \A sv \in Results : <<t, sv>> \in done'[r] => sv = su
    BY <1>0, <1>4, <1>6, <1>7, <2>3 DEF Disjoint, Queued
  <2> QED
    BY <1>3, <2>1, <2>2, <2>3 DEF Disjoint, Queued, Held
<1>9. /\ Shown(r)' = Shown(r) \cup {s} /\ s \notin Shown(r)
      /\ IsFiniteSet(Shown(r)) /\ Shown(r)' \subseteq Sections
      /\ Cardinality(Shown(r)') = got'[r]
  <2>1. Shown(r)' = Shown(r) \cup {s} /\ s \notin Shown(r) /\ Shown(r)' \subseteq Sections
    BY <1>1, <1>2, <1>6, <1>7 DEF Shown
  <2>2. IsFiniteSet(Shown(r)) /\ got[r] = Cardinality(Shown(r))
    BY <1>0, <1>3, FS_Subset, CollectorAssumption DEF Shown, Counted
  <2>3. Cardinality(Shown(r) \cup {s}) = Cardinality(Shown(r)) + 1
    BY <2>1, <2>2, FS_AddElement
  <2> QED
    BY <1>4, <2>1, <2>2, <2>3
<1>10. Counted(r)'
  <2>1. CASE ~last
    BY <1>0, <1>2, <1>3, <1>4, <1>9, <2>1, CollectorAssumption DEF Counted, All
  <2>2. CASE last
    <3>1. Shown(r)' = Sections
      BY <1>4, <1>9, <2>2, FS_Subset, CollectorAssumption
    <3>2. snap'[r][CashType] # "PENDING"
      BY <1>0, <1>1, <1>2, <1>3, CollectorAssumption DEF Counted, All
    <3> QED
      BY <1>4, <2>2, <3>1, <3>2 DEF Counted, Shown, All
  <2> QED
    BY <2>1, <2>2
<1>11. Untouched(r)' /\ Stopped(r)' /\ Covered(r)'
  BY <1>0, <1>3, <1>4, <1>7, <1>9
     DEF Untouched, Stopped, Covered, Active, Ended, TypeOK
<1>12. Tried(r)'
  <2>1. rpc'[r] \in {"wait", "drain"}
    BY <1>4
  <2> QED
    BY <1>0, <1>1, <1>2, <1>3, <1>4, <1>6, <1>7, <2>1 DEF Tried
<1>13. CacheIsFinished'
  BY <1>0, <1>2, <1>3, <1>5, CacheStays DEF IInv
<1> QED
  BY <1>2, <1>4, <1>5, <1>8, <1>10, <1>11, <1>12, <1>13 DEF IInv, RunInv

\* The third wave starts after every worker has ended.
LEMMA DrainedStep ==
  ASSUME IInv, NEW r \in Runs, Drained(r)
  PROVE  IInv'
<1>0. /\ TypeOK /\ emitted = snap /\ CacheIsFinished
      /\ Untouched(r) /\ Disjoint(r) /\ Counted(r) /\ Covered(r) /\ Stopped(r) /\ Tried(r)
  BY DEF IInv, RunInv
<1>1. /\ rpc[r] = "drain" /\ ~cancelReq[r] /\ \A w \in Workers : held[r][w] = "gone"
      /\ UNCHANGED <<cancelReq, todo, held, wcancel, done, got, snap, emitted,
                     timedOut, tries>>
  BY DEF Drained
<1>2. /\ rpc' \in [Runs -> {"none"} \cup Active \cup Ended]
      /\ \A q \in Runs \ {r} : rpc'[q] = rpc[q]
      /\ rpc'[r] = IF timedOut[r] # {} THEN "retry" ELSE "returned"
  BY <1>0 DEF TypeOK, Drained, Active, Ended
<1>3. CacheIsFinished' /\ cache' \in Runs \cup {None}
  <2>1. CASE timedOut[r] # {}
    BY <1>0, <1>1, <1>2, <2>1, CacheStays DEF Drained, TypeOK
  <2>2. CASE timedOut[r] = {}
    <3>1. \A s \in Sections : snap'[r][s] = "TIMEOUT" => tries'[r][s] = 2
      BY <1>0, <1>1, <2>2 DEF Tried
    <3>2. Store(r, snap'[r]) /\ \A s \in All : snap'[r][s] # "PENDING"
      BY <1>0, <1>1, <2>2 DEF Counted, Drained
    <3> QED
      BY <1>2, <2>2, <3>1, <3>2, StoreEffect
  <2> QED
    BY <2>1, <2>2
<1>4. TypeOK' /\ (emitted = snap)'
  BY <1>0, <1>1, <1>2, <1>3 DEF TypeOK
<1>5. ASSUME NEW q \in Runs, q # r PROVE RunInv(q)'
  BY <1>1, <1>2, <1>5, Frame DEF IInv, Same
<1>6. Untouched(r)' /\ Disjoint(r)' /\ Covered(r)'
  BY <1>0, <1>1, <1>2 DEF Untouched, Disjoint, Covered, Queued, Held
<1>7. Counted(r)'
  BY <1>0, <1>1, <1>2 DEF Counted
<1>8. Stopped(r)'
  BY <1>0, <1>1, <1>2, CollectorAssumption DEF Stopped, Active, Ended
<1>9. Tried(r)'
  BY <1>0, <1>1, <1>2 DEF Tried, Queued, Held
<1> QED
  BY <1>3, <1>4, <1>5, <1>6, <1>7, <1>8, <1>9 DEF IInv, RunInv

\* A repeated section was attempted once and has a status.
LEMMA RetryStep ==
  ASSUME IInv, NEW r \in Runs, NEW s \in Sections, Retry(r, s)
  PROVE  IInv'
<1>0. /\ TypeOK /\ emitted = snap /\ CacheIsFinished
      /\ Untouched(r) /\ Disjoint(r) /\ Counted(r) /\ Covered(r) /\ Stopped(r) /\ Tried(r)
  BY DEF IInv, RunInv
<1>1. /\ rpc[r] = "retry" /\ ~cancelReq[r] /\ s \in timedOut[r]
      /\ UNCHANGED <<cancelReq, todo, held, wcancel, done, got>>
  BY DEF Retry
<1>2. /\ rpc' \in [Runs -> {"none"} \cup Active \cup Ended]
      /\ \A q \in Runs \ {r} : rpc'[q] = rpc[q]
      /\ rpc'[r] = IF timedOut[r] = {s} THEN "returned" ELSE "retry"
  BY <1>0, <1>1 DEF TypeOK, Retry, Active, Ended
<1>3. /\ timedOut' \in [Runs -> SUBSET Sections]
      /\ \A q \in Runs \ {r} : timedOut'[q] = timedOut[q]
      /\ timedOut'[r] = timedOut[r] \ {s}
  BY <1>0 DEF TypeOK, Retry
<1>4. /\ tries' \in [Runs -> [Sections -> Nat]]
      /\ \A q \in Runs \ {r} : tries'[q] = tries[q]
      /\ \A t \in Sections \ {s} : tries'[r][t] = tries[r][t]
      /\ tries[r][s] = 1 /\ tries'[r][s] = 2
  <2> DEFINE f == [tries[r] EXCEPT ![s] = tries[r][s] + 1]
  <2>1. tries' = [tries EXCEPT ![r] = f]
    BY DEF Retry
  <2>2. /\ f \in [Sections -> Nat] /\ f[s] = 2 /\ tries[r][s] = 1
        /\ \A t \in Sections \ {s} : f[t] = tries[r][t]
    BY <1>0, <1>1 DEF TypeOK, Tried
  <2> HIDE DEF f
  <2> QED
    BY <1>0, <2>1, <2>2 DEF TypeOK
<1>5. /\ snap' \in [Runs -> [All -> Status]]
      /\ emitted' = snap'
      /\ \A q \in Runs \ {r} : snap'[q] = snap[q]
      /\ \A t \in All \ {s} : snap'[r][t] = snap[r][t]
      /\ snap'[r][s] # "PENDING" /\ snap[r][s] # "PENDING"
  <2>1. s \in All /\ snap[r][s] # "PENDING"
    BY <1>0, <1>1 DEF All, Tried
  <2>2. CASE UNCHANGED <<snap, emitted>>
    BY <1>0, <2>1, <2>2 DEF TypeOK
  <2>3. CASE \E st \in Outcomes : Record(r, s, st)
    <3>1. PICK st \in Outcomes : Record(r, s, st)
      BY <2>3
    <3>2. st \in Status /\ st # "PENDING"
      BY CollectorAssumption DEF Status, Results
    <3> QED
      BY <1>0, <2>1, <3>1, <3>2, RecordEffect
  <2> QED
    BY <2>2, <2>3 DEF Retry
<1>6. CacheIsFinished' /\ cache' \in Runs \cup {None}
  <2>1. CASE timedOut[r] # {s}
    BY <1>0, <1>1, <1>2, <1>4, <1>5, <2>1, CacheStays DEF Retry, TypeOK
  <2>2. CASE timedOut[r] = {s}
    <3>1. \A t \in Sections : snap'[r][t] = "TIMEOUT" => tries'[r][t] = 2
      BY <1>0, <1>1, <1>4, <1>5, <2>2 DEF Tried, All
    <3>2. \A t \in All : snap'[r][t] # "PENDING"
      BY <1>0, <1>1, <1>5 DEF Counted
    <3> QED
      BY <1>2, <2>2, <3>1, <3>2, StoreEffect DEF Retry
  <2> QED
    BY <2>1, <2>2
<1>7. TypeOK'
  BY <1>0, <1>1, <1>2, <1>3, <1>4, <1>5, <1>6 DEF TypeOK
<1>8. ASSUME NEW q \in Runs, q # r PROVE RunInv(q)'
  <2>1. Same(q)
    BY <1>1, <1>2, <1>3, <1>4, <1>5, <1>8 DEF Same
  <2> QED
    BY <2>1, Frame DEF IInv
<1>9. Disjoint(r)'
  <2>1. \A x \in Sections : snap[r][x] = "PENDING" => snap'[r][x] = "PENDING"
    BY <1>1, <1>5 DEF All, Tried
  <2>2. /\ todo'[r] = todo[r] /\ held'[r] = held[r] /\ done'[r] = done[r]
        /\ todo[r] \subseteq Sections
    BY <1>0, <1>1 DEF TypeOK
  <2> QED
    BY <1>0, <2>1, <2>2 DEF Disjoint, Queued, Held
<1>10. Untouched(r)' /\ Covered(r)'
  BY <1>2 DEF Untouched, Covered
<1>11. Counted(r)'
  BY <1>0, <1>1, <1>2, <1>5 DEF Counted
<1>12. Stopped(r)'
  BY <1>0, <1>1, <1>2, CollectorAssumption DEF Stopped, Active, Ended
<1>13. Tried(r)'
  <2>1. s \notin todo[r] /\ ~Held(r, s) /\ ~Queued(r, s)
    BY <1>0, <1>5 DEF Disjoint, Queued, Held
  <2>2. ASSUME NEW t \in Sections
        PROVE  /\ t \in todo'[r] <=> t \in todo[r]
               /\ Held(r, t)' <=> Held(r, t)
               /\ Queued(r, t)' <=> Queued(r, t)
    BY <1>1 DEF Held, Queued
  <2>3. ASSUME NEW t \in Sections \ {s}
        PROVE  tries'[r][t] = tries[r][t] /\ snap'[r][t] = snap[r][t]
    BY <1>4, <1>5 DEF All
  <2>4. rpc'[r] = "returned" => timedOut'[r] = {}
    BY <1>2, <1>3
  <2>5. ASSUME NEW t \in Sections, t # s
        PROVE  /\ tries'[r][t] <= 2
               /\ t \in todo'[r] \/ Held(r, t)' => tries'[r][t] = 0
               /\ Queued(r, t)' => tries'[r][t] = 1
               /\ t \in timedOut'[r] => tries'[r][t] = 1 /\ snap'[r][t] = "TIMEOUT"
               /\ snap'[r][t] = "TIMEOUT" => t \in timedOut'[r] \/ tries'[r][t] = 2
    BY <1>0, <1>1, <1>3, <2>2, <2>3, <2>5 DEF Tried
  <2>6. ASSUME NEW t \in Sections, t = s
        PROVE  /\ tries'[r][t] = 2 /\ t \notin todo'[r] /\ t \notin timedOut'[r]
               /\ ~Held(r, t)' /\ ~Queued(r, t)'
    BY <1>3, <1>4, <2>1, <2>2, <2>6
  <2> QED
    BY <2>4, <2>5, <2>6 DEF Tried
<1> QED
  BY <1>5, <1>6, <1>7, <1>8, <1>9, <1>10, <1>11, <1>12, <1>13 DEF IInv, RunInv

\* A worker's first section leaves the deque.
LEMMA WorkerStartStep ==
  ASSUME IInv, NEW r \in Runs, NEW w \in Workers, WorkerStart(r, w)
  PROVE  IInv'
<1>0. /\ TypeOK /\ emitted = snap /\ CacheIsFinished
      /\ Untouched(r) /\ Disjoint(r) /\ Counted(r) /\ Covered(r) /\ Stopped(r) /\ Tried(r)
  BY DEF IInv, RunInv
<1>1. /\ rpc[r] = "wait" /\ held[r][w] = "unborn"
      /\ UNCHANGED <<rpc, cancelReq, wcancel, done, got, snap, emitted, timedOut,
                     tries, cache>>
  BY DEF WorkerStart
<1>2. /\ todo' \in [Runs -> SUBSET Sections]
      /\ held' \in [Runs -> [Workers -> Sections \cup {"unborn", "gone"}]]
      /\ \A q \in Runs \ {r} : todo'[q] = todo[q] /\ held'[q] = held[q]
      /\ \A v \in Workers \ {w} : held'[r][v] = held[r][v]
      /\ \/ todo[r] = {} /\ todo'[r] = {} /\ held'[r][w] = "gone"
         \/ \E n \in todo[r] : held'[r][w] = n /\ todo'[r] = todo[r] \ {n}
  BY <1>0, TakeEffect DEF WorkerStart
<1>3. TypeOK' /\ CacheIsFinished' /\ (emitted = snap)'
  BY <1>0, <1>1, <1>2, CacheStays DEF TypeOK
<1>4. ASSUME NEW q \in Runs, q # r PROVE RunInv(q)'
  BY <1>1, <1>2, <1>4, Frame DEF IInv, Same
<1>5. /\ todo[r] \subseteq Sections
      /\ \A t \in Sections : Queued(r, t)' <=> Queued(r, t)
      /\ "unborn" \notin Sections /\ "gone" \notin Sections
  BY <1>0, <1>1, CollectorAssumption DEF TypeOK, Queued
<1>6. Untouched(r)' /\ Counted(r)' /\ Stopped(r)'
  BY <1>0, <1>1 DEF Untouched, Counted, Stopped, Shown, Active, Ended
<1>7. CASE todo[r] = {} /\ todo'[r] = {} /\ held'[r][w] = "gone"
  <2>1. \A t \in Sections : Held(r, t)' <=> Held(r, t)
    BY <1>1, <1>2, <1>5, <1>7 DEF Held
  <2>2. Disjoint(r)'
    BY <1>0, <1>1, <1>2, <1>5, <1>7 DEF Disjoint, Queued
  <2>3. Covered(r)' /\ Tried(r)'
    BY <1>0, <1>1, <1>2, <1>5, <1>7, <2>1 DEF Covered, Tried, Shown
  <2> QED
    BY <1>3, <1>4, <1>6, <2>2, <2>3 DEF IInv, RunInv
<1>8. ASSUME NEW n \in todo[r], held'[r][w] = n, todo'[r] = todo[r] \ {n}
      PROVE  IInv'
  <2>1. n \in Sections /\ snap[r][n] = "PENDING" /\ ~Queued(r, n) /\ ~Held(r, n)
    BY <1>0, <1>5 DEF Disjoint
  <2>2. \A t \in Sections : Held(r, t)' <=> Held(r, t) \/ t = n
    BY <1>1, <1>2, <1>5, <1>8 DEF Held
  <2>3. Disjoint(r)'
    <3>1. \A t \in todo'[r] : snap'[r][t] = "PENDING" /\ ~Queued(r, t)' /\ ~Held(r, t)'
      BY <1>0, <1>1, <1>5, <1>8, <2>2 DEF Disjoint
    <3>2. \A v \in Workers \ {w} : held'[r][v] # n
      BY <1>2, <2>1 DEF Held
    <3>3. ASSUME NEW v \in Workers, held'[r][v] \in Sections, v # w
          PROVE  /\ snap'[r][held'[r][v]] = "PENDING"
                 /\ (~Queued(r, held[r][v]))'
                 /\ \A u \in Workers : held'[r][u] = held'[r][v] => u = v
      <4>1. held'[r][v] = held[r][v]
        BY <1>2, <3>3
      <4>2. snap[r][held[r][v]] = "PENDING" /\ ~Queued(r, held[r][v])
        BY <1>0, <3>3, <4>1 DEF Disjoint
      <4>3. (~Queued(r, held[r][v]))'
        BY <1>1, <4>1, <4>2 DEF Queued
      <4>4. ASSUME NEW u \in Workers, held'[r][u] = held'[r][v] PROVE u = v
        <5>1. u # w
          BY <1>8, <3>2, <3>3, <4>4
        <5>2. held[r][u] = held[r][v]
          BY <1>2, <4>1, <4>4, <5>1
        <5> QED
          BY <1>0, <3>3, <4>1, <5>2 DEF Disjoint
      <4> QED
        BY <1>1, <4>1, <4>2, <4>3, <4>4
    <3>4. /\ snap'[r][held'[r][w]] = "PENDING"
          /\ (~Queued(r, held[r][w]))'
          /\ \A u \in Workers : held'[r][u] = held'[r][w] => u = w
      BY <1>1, <1>8, <2>1, <3>2 DEF Queued
    <3>5. \A x \in Sections, y \in Results : (<<x, y>> \in done[r] =>
             /\ snap[r][x] = "PENDING"
             /\ \A z \in Results : <<x, z>> \in done[r] => z = y)'
      BY <1>0, <1>1 DEF Disjoint
    <3> QED
      BY <3>1, <3>3, <3>4, <3>5 DEF Disjoint
  <2>4. Covered(r)'
    BY <1>0, <1>1, <1>2, <1>5, <1>8, <2>2 DEF Covered, Shown
  <2>5. Tried(r)'
    BY <1>0, <1>1, <1>5, <1>8, <2>2 DEF Tried
  <2> QED
    BY <1>3, <1>4, <1>6, <2>3, <2>4, <2>5 DEF IInv, RunInv
<1> QED
  BY <1>2, <1>7, <1>8

\* A worker puts the result of its section and takes the next one.
LEMMA WorkerFinishStep ==
  ASSUME IInv, NEW r \in Runs, NEW w \in Workers, WorkerFinish(r, w)
  PROVE  IInv'
<1>0. /\ TypeOK /\ emitted = snap /\ CacheIsFinished
      /\ Untouched(r) /\ Disjoint(r) /\ Counted(r) /\ Covered(r) /\ Stopped(r) /\ Tried(r)
  BY DEF IInv, RunInv
<1>1. PICK h \in Sections : h = held[r][w]
  BY DEF WorkerFinish
<1>2. PICK st \in Results : done' = [done EXCEPT ![r] = done[r] \cup {<<h, st>>}]
  BY <1>1 DEF WorkerFinish
<1>3. UNCHANGED <<rpc, cancelReq, wcancel, got, snap, emitted, timedOut, cache>>
  BY DEF WorkerFinish
<1>4. rpc[r] = "wait"
  BY <1>0, <1>1, CollectorAssumption
     DEF WorkerFinish, TypeOK, Untouched, Stopped, Active, Ended
<1>5. /\ todo' \in [Runs -> SUBSET Sections]
      /\ held' \in [Runs -> [Workers -> Sections \cup {"unborn", "gone"}]]
      /\ \A q \in Runs \ {r} : todo'[q] = todo[q] /\ held'[q] = held[q]
      /\ \A v \in Workers \ {w} : held'[r][v] = held[r][v]
      /\ \/ todo[r] = {} /\ todo'[r] = {} /\ held'[r][w] = "gone"
         \/ \E n \in todo[r] : held'[r][w] = n /\ todo'[r] = todo[r] \ {n}
  BY <1>0, TakeEffect DEF WorkerFinish
<1>6. /\ done' \in [Runs -> SUBSET (Sections \X Results)]
      /\ \A q \in Runs \ {r} : done'[q] = done[q]
      /\ done'[r] = done[r] \cup {<<h, st>>}
  BY <1>0, <1>2 DEF TypeOK
<1>7. /\ snap[r][h] = "PENDING" /\ ~Queued(r, h) /\ h \notin todo[r] /\ tries[r][h] = 0
      /\ \A v \in Workers : held[r][v] = h => v = w
  <2>1. Held(r, h)
    BY <1>1 DEF Held
  <2> QED
    BY <1>0, <1>1, <2>1 DEF Disjoint, Tried
<1>8. /\ tries' \in [Runs -> [Sections -> Nat]]
      /\ \A q \in Runs \ {r} : tries'[q] = tries[q]
      /\ \A t \in Sections \ {h} : tries'[r][t] = tries[r][t]
      /\ tries'[r][h] = 1
  <2> DEFINE f == [tries[r] EXCEPT ![h] = tries[r][h] + 1]
  <2>1. tries' = [tries EXCEPT ![r] = f]
    BY <1>1 DEF WorkerFinish
  <2>2. /\ f \in [Sections -> Nat] /\ f[h] = 1
        /\ \A t \in Sections \ {h} : f[t] = tries[r][t]
    BY <1>0, <1>7 DEF TypeOK
  <2> HIDE DEF f
  <2> QED
    BY <1>0, <2>1, <2>2 DEF TypeOK
<1>9. TypeOK' /\ CacheIsFinished' /\ (emitted = snap)'
  BY <1>0, <1>3, <1>4, <1>5, <1>6, <1>8, CacheStays DEF TypeOK
<1>10. ASSUME NEW q \in Runs, q # r PROVE RunInv(q)'
  BY <1>3, <1>5, <1>6, <1>8, <1>10, Frame DEF IInv, Same
<1>11. /\ todo[r] \subseteq Sections
       /\ \A t \in Sections : Queued(r, t)' <=> Queued(r, t) \/ t = h
       /\ "unborn" \notin Sections /\ "gone" \notin Sections
  BY <1>0, <1>6, CollectorAssumption DEF TypeOK, Queued
<1>12. Untouched(r)' /\ Counted(r)' /\ Stopped(r)'
  BY <1>0, <1>3, <1>4 DEF Untouched, Counted, Stopped, Shown, Active, Ended
<1>13. \A t \in Sections, su \in Results : <<t, su>> \in done'[r] =>
         /\ snap'[r][t] = "PENDING"
         /\ \A sv \in Results : <<t, sv>> \in done'[r] => sv = su
  BY <1>0, <1>3, <1>6, <1>7 DEF Disjoint, Queued
<1>14. \A v \in Workers \ {w} : held[r][v] \in Sections =>
         /\ held'[r][v] = held[r][v] /\ held[r][v] # h
         /\ snap[r][held[r][v]] = "PENDING" /\ ~Queued(r, held[r][v])'
  BY <1>0, <1>5, <1>7, <1>11 DEF Disjoint
<1>15. CASE todo[r] = {} /\ todo'[r] = {} /\ held'[r][w] = "gone"
  <2>1. \A t \in Sections : Held(r, t)' <=> Held(r, t) /\ t # h
    BY <1>1, <1>5, <1>7, <1>11, <1>15 DEF Held
  <2>2. ASSUME NEW v \in Workers, held'[r][v] \in Sections
        PROVE  /\ snap'[r][held'[r][v]] = "PENDING"
               /\ (~Queued(r, held[r][v]))'
               /\ \A u \in Workers : held'[r][u] = held'[r][v] => u = v
    <3>1. v # w
      BY <1>11, <1>15, <2>2
    <3>2. held'[r][v] = held[r][v]
      BY <1>5, <3>1
    <3>3. snap[r][held[r][v]] = "PENDING" /\ (~Queued(r, held[r][v]))'
      BY <1>14, <2>2, <3>1, <3>2
    <3>4. ASSUME NEW u \in Workers, held'[r][u] = held'[r][v] PROVE u = v
      <4>1. u # w
        BY <1>11, <1>15, <2>2, <3>4
      <4>2. held[r][u] = held[r][v]
        BY <1>5, <3>2, <3>4, <4>1
      <4> QED
        BY <1>0, <2>2, <3>2, <4>2 DEF Disjoint
    <3> QED
      BY <1>3, <3>2, <3>3, <3>4
  <2>3. Disjoint(r)'
    BY <1>13, <1>15, <2>2 DEF Disjoint
  <2>4. Covered(r)'
    BY <1>0, <1>3, <1>4, <1>11, <1>15, <2>1 DEF Covered, Shown
  <2>5. Tried(r)'
    BY <1>0, <1>3, <1>4, <1>7, <1>8, <1>11, <1>15, <2>1 DEF Tried
  <2> QED
    BY <1>9, <1>10, <1>12, <2>3, <2>4, <2>5 DEF IInv, RunInv
<1>16. ASSUME NEW n \in todo[r], held'[r][w] = n, todo'[r] = todo[r] \ {n}
       PROVE  IInv'
  <2>1. /\ n \in Sections /\ n # h /\ snap[r][n] = "PENDING"
        /\ ~Queued(r, n) /\ ~Held(r, n)
    BY <1>0, <1>7, <1>11 DEF Disjoint
  <2>2. \A t \in Sections : Held(r, t)' <=> (Held(r, t) /\ t # h) \/ t = n
    BY <1>1, <1>5, <1>7, <1>11, <1>16 DEF Held
  <2>3. \A t \in todo'[r] : snap'[r][t] = "PENDING" /\ ~Queued(r, t)' /\ ~Held(r, t)'
    BY <1>0, <1>3, <1>7, <1>11, <1>16, <2>2 DEF Disjoint
  <2>4. \A v \in Workers \ {w} : held'[r][v] # n
    BY <1>5, <2>1 DEF Held
  <2>5. ASSUME NEW v \in Workers, held'[r][v] \in Sections, v # w
        PROVE  /\ snap'[r][held'[r][v]] = "PENDING"
               /\ (~Queued(r, held[r][v]))'
               /\ \A u \in Workers : held'[r][u] = held'[r][v] => u = v
    <3>1. held'[r][v] = held[r][v]
      BY <1>5, <2>5
    <3> QED
      BY <1>0, <1>3, <1>5, <1>14, <1>16, <2>4, <2>5, <3>1 DEF Disjoint
  <2>6. /\ snap'[r][held'[r][w]] = "PENDING"
        /\ (~Queued(r, held[r][w]))'
        /\ \A u \in Workers : held'[r][u] = held'[r][w] => u = w
    BY <1>3, <1>6, <1>16, <2>1, <2>4 DEF Queued
  <2>7. Disjoint(r)'
    BY <1>13, <2>3, <2>5, <2>6 DEF Disjoint
  <2>8. Covered(r)'
    BY <1>0, <1>3, <1>4, <1>5, <1>11, <1>16, <2>2 DEF Covered, Shown
  <2>9. Tried(r)'
    BY <1>0, <1>3, <1>4, <1>7, <1>8, <1>11, <1>16, <2>1, <2>2 DEF Tried
  <2> QED
    BY <1>9, <1>10, <1>12, <2>7, <2>8, <2>9 DEF IInv, RunInv
<1> QED
  BY <1>5, <1>15, <1>16

\* The workers are cancelled only when nobody counts their results any more.
LEMMA WorkerCancelledStep ==
  ASSUME IInv, NEW r \in Runs, NEW w \in Workers, WorkerCancelled(r, w)
  PROVE  IInv'
<1>0. /\ TypeOK /\ emitted = snap /\ CacheIsFinished
      /\ Untouched(r) /\ Disjoint(r) /\ Counted(r) /\ Covered(r) /\ Stopped(r) /\ Tried(r)
  BY DEF IInv, RunInv
<1>1. /\ wcancel[r]
      /\ UNCHANGED <<rpc, cancelReq, todo, wcancel, done, got, snap, emitted,
                     timedOut, tries, cache>>
  BY DEF WorkerCancelled
<1>2. /\ held' \in [Runs -> [Workers -> Sections \cup {"unborn", "gone"}]]
      /\ \A q \in Runs \ {r} : held'[q] = held[q]
      /\ \A v \in Workers \ {w} : held'[r][v] = held[r][v]
      /\ held'[r][w] = "gone"
  <2> DEFINE f == [held[r] EXCEPT ![w] = "gone"]
  <2>1. held' = [held EXCEPT ![r] = f]
    BY DEF WorkerCancelled
  <2>2. /\ f \in [Workers -> Sections \cup {"unborn", "gone"}] /\ f[w] = "gone"
        /\ \A v \in Workers \ {w} : f[v] = held[r][v]
    BY <1>0 DEF TypeOK
  <2> HIDE DEF f
  <2> QED
    BY <1>0, <2>1, <2>2 DEF TypeOK
<1>3. TypeOK' /\ CacheIsFinished' /\ (emitted = snap)'
  BY <1>0, <1>1, <1>2, CacheStays DEF TypeOK
<1>4. ASSUME NEW q \in Runs, q # r PROVE RunInv(q)'
  BY <1>1, <1>2, <1>4, Frame DEF IInv, Same
<1>5. rpc[r] \notin {"none", "cashType", "wait"} /\ "gone" \notin Sections
  BY <1>0, <1>1, CollectorAssumption DEF Untouched, Covered
<1>6. Untouched(r)' /\ Covered(r)' /\ Counted(r)' /\ Stopped(r)'
  <2>1. Untouched(r)' /\ Covered(r)' /\ Counted(r)'
    BY <1>0, <1>1, <1>5 DEF Untouched, Covered, Counted, Shown
  <2>2. Stopped(r)'
    BY <1>0, <1>1, <1>2 DEF Stopped, Active, Ended
  <2> QED
    BY <2>1, <2>2
<1>7. \A t \in Sections : /\ Held(r, t)' => Held(r, t)
                          /\ Queued(r, t)' <=> Queued(r, t)
  BY <1>1, <1>2, <1>5 DEF Held, Queued
<1>8. Tried(r)'
  BY <1>0, <1>1, <1>7 DEF Tried
<1>9. Disjoint(r)'
  <2>1. \A t \in todo'[r] : snap'[r][t] = "PENDING" /\ ~Queued(r, t)' /\ ~Held(r, t)'
    BY <1>0, <1>1, <1>7 DEF Disjoint, TypeOK
  <2>2. ASSUME NEW v \in Workers, held'[r][v] \in Sections
        PROVE  /\ snap'[r][held'[r][v]] = "PENDING"
               /\ (~Queued(r, held[r][v]))'
               /\ \A u \in Workers : held'[r][u] = held'[r][v] => u = v
    <3>1. held'[r][v] = held[r][v]
      BY <1>2, <1>5, <2>2
    <3>2. snap[r][held[r][v]] = "PENDING" /\ ~Queued(r, held[r][v])
      BY <1>0, <2>2, <3>1 DEF Disjoint
    <3>3. (~Queued(r, held[r][v]))'
      BY <1>1, <3>1, <3>2 DEF Queued
    <3>4. \A u \in Workers : held'[r][u] = held'[r][v] => u = v
      BY <1>0, <1>2, <1>5, <2>2, <3>1 DEF Disjoint
    <3> QED
      BY <1>1, <3>1, <3>2, <3>3, <3>4
  <2> QED
    BY <1>0, <1>1, <2>1, <2>2 DEF Disjoint
<1> QED
  BY <1>3, <1>4, <1>6, <1>8, <1>9 DEF IInv, RunInv

\* Deliver records what is pending, Retry what timed out.
LEMMA NextCollected ==
  ASSUME IInv, Next, NEW r \in Runs, NEW s \in All, snap[r][s] \in {"COMPLETE", "SKIPPED"}
  PROVE  snap'[r][s] = snap[r][s]
<1>0. /\ TypeOK /\ emitted = snap
      /\ Untouched(r) /\ Disjoint(r) /\ Tried(r)
  BY DEF IInv, RunInv
<1>1. ASSUME NEW q \in Runs, NEW t \in All, NEW st \in Status, Record(q, t, st),
             q = r => snap[r][t] \in {"PENDING", "TIMEOUT"}
      PROVE  snap'[r][s] = snap[r][s]
  BY <1>0, <1>1, RecordEffect
<1>2. ASSUME NEW q \in Runs, CacheHit(q) PROVE snap'[r][s] = snap[r][s]
  BY <1>0, <1>2 DEF CacheHit, TypeOK, Untouched
<1>3. ASSUME NEW q \in Runs, CashTypeReady(q) PROVE snap'[r][s] = snap[r][s]
  <2>1. PICK st \in TypeOutcomes : Record(q, CashType, st)
    BY <1>3 DEF CashTypeReady
  <2>2. rpc[q] = "cashType" /\ CashType \in All /\ st \in Status
    BY <1>3 DEF CashTypeReady, All, Status
  <2>3. q = r => snap[r][CashType] = "PENDING"
    BY <1>0, <2>2 DEF Untouched
  <2> QED
    BY <1>1, <2>1, <2>2, <2>3
<1>4. ASSUME NEW q \in Runs, NEW t \in Sections, NEW st \in Results, Deliver(q, t, st)
      PROVE  snap'[r][s] = snap[r][s]
  <2>1. Record(q, t, st) /\ t \in All /\ st \in Status /\ (q = r => snap[r][t] = "PENDING")
    BY <1>0, <1>4 DEF Deliver, Disjoint, All, Status
  <2> QED
    BY <1>1, <2>1
<1>5. ASSUME NEW q \in Runs, NEW t \in Sections, Retry(q, t)
      PROVE  snap'[r][s] = snap[r][s]
  <2>1. t \in All /\ (q = r => snap[r][t] = "TIMEOUT")
    BY <1>0, <1>5 DEF Retry, Tried, All
  <2>2. ASSUME NEW st \in Outcomes, Record(q, t, st) PROVE snap'[r][s] = snap[r][s]
    BY <1>1, <2>1, <2>2 DEF Results, Status
  <2> QED
    BY <1>5, <2>2 DEF Retry
<1>6. ASSUME NEW q \in Runs, NEW w \in Workers,
             \/ Collect(q) \/ Cancel(q) \/ Drained(q) \/ Cancelled(q) \/ Unwound(q)
             \/ WorkerStart(q, w) \/ WorkerFinish(q, w) \/ WorkerCancelled(q, w)
      PROVE  snap'[r][s] = snap[r][s]
  BY <1>6 DEF Collect, Cancel, Drained, Cancelled, Unwound, WorkerStart, WorkerFinish,
              WorkerCancelled
<1>7. CASE ClearCache
  BY <1>7 DEF ClearCache
<1> QED
  BY <1>2, <1>3, <1>4, <1>5, <1>6, <1>7, Steps, CollectorAssumption

\* A worker that ends an attempt holds a pending section, wave 3 one that timed
\* out; the other steps attempt nothing.
LEMMA NextNotRepeated ==
  ASSUME IInv, Next, NEW r \in Runs, NEW s \in Sections, Collected(r, s)
  PROVE  tries'[r][s] = tries[r][s]
<1>0. TypeOK /\ Disjoint(r) /\ Tried(r)
  BY DEF IInv, RunInv
<1>1. ASSUME NEW q \in Runs, NEW t \in Sections,
             tries' = [tries EXCEPT ![q][t] = tries[q][t] + 1],
             q = r => snap[r][t] \in {"PENDING", "TIMEOUT"}
      PROVE  tries'[r][s] = tries[r][s]
  BY <1>0, <1>1 DEF TypeOK, Collected
<1>2. ASSUME NEW q \in Runs, NEW t \in Sections, Retry(q, t)
      PROVE  tries'[r][s] = tries[r][s]
  BY <1>0, <1>1, <1>2 DEF Retry, Tried
<1>3. ASSUME NEW q \in Runs, NEW w \in Workers, WorkerFinish(q, w)
      PROVE  tries'[r][s] = tries[r][s]
  BY <1>0, <1>1, <1>3 DEF WorkerFinish, Disjoint
<1>4. ASSUME NEW q \in Runs,
             \/ ClearCache \/ CacheHit(q) \/ Collect(q) \/ CashTypeReady(q)
             \/ Cancel(q) \/ Drained(q) \/ Cancelled(q) \/ Unwound(q)
      PROVE  tries'[r][s] = tries[r][s]
  BY <1>4 DEF ClearCache, CacheHit, Collect, CashTypeReady, Cancel, Drained, Cancelled, Unwound
<1>5. ASSUME NEW q \in Runs, NEW t \in Sections, NEW st \in Results, Deliver(q, t, st)
      PROVE  tries'[r][s] = tries[r][s]
  BY <1>5 DEF Deliver
<1>6. ASSUME NEW q \in Runs, NEW w \in Workers, WorkerStart(q, w) \/ WorkerCancelled(q, w)
      PROVE  tries'[r][s] = tries[r][s]
  BY <1>6 DEF WorkerStart, WorkerCancelled
<1> QED
  BY <1>2, <1>3, <1>4, <1>5, <1>6, Steps

\* IInv is inductive.
LEMMA NextIInv == IInv /\ [Next]_vars => IInv'
<1> SUFFICES ASSUME IInv, [Next]_vars PROVE IInv'
  OBVIOUS
<1>1. CASE UNCHANGED vars
  <2>1. UNCHANGED <<rpc, cancelReq, todo, held, wcancel, done, got, snap, emitted,
                    timedOut, tries, cache>>
    BY <1>1 DEF vars
  <2>2. ASSUME NEW q \in Runs PROVE RunInv(q)'
    BY <2>1, Frame DEF IInv, Same
  <2>3. TypeOK' /\ CacheIsFinished' /\ (emitted = snap)'
    BY <2>1 DEF IInv, TypeOK, CacheIsFinished
  <2> QED
    BY <2>2, <2>3 DEF IInv
<1>2. CASE Next
  BY <1>2, Steps, ClearCacheStep, CacheHitStep, ControlStep, CashTypeStep, DeliverStep,
     DrainedStep, RetryStep, WorkerStartStep, WorkerFinishStep, WorkerCancelledStep
<1> QED
  BY <1>1, <1>2

\* What the properties of InfoCollector need of a single state.
LEMMA IInvImplies ==
  ASSUME IInv
  PROVE  ReturnedIsShown /\ SomebodyWorks /\ RetryAlone /\ NoOrphanWorkers /\ RetriedOnce
<1>1. ReturnedIsShown
  BY DEF IInv, RunInv, Counted, ReturnedIsShown
<1>2. ASSUME NEW r \in Runs, rpc[r] = "wait", done[r] = {}
      PROVE  \E w \in Workers : held[r][w] # "gone"
  <2> SUFFICES ASSUME \A w \in Workers : held[r][w] = "gone" PROVE FALSE
    OBVIOUS
  <2>1. todo[r] = {} /\ \A s \in Sections : ~Held(r, s) /\ ~Queued(r, s)
    BY <1>2, CollectorAssumption DEF IInv, RunInv, Covered, Held, Queued
  <2>2. Shown(r) = Sections
    BY <1>2, <2>1 DEF IInv, RunInv, Covered, Shown
  <2> QED
    BY <1>2, <2>2 DEF IInv, RunInv, Counted
<1>3. SomebodyWorks
  BY <1>2 DEF SomebodyWorks
<1>4. RetryAlone /\ NoOrphanWorkers
  BY DEF IInv, RunInv, Stopped, RetryAlone, NoOrphanWorkers
<1>5. RetriedOnce
  BY DEF IInv, RunInv, Tried, RetriedOnce
<1> QED
  BY <1>1, <1>3, <1>4, <1>5

-----------------------------------------------------------------------------

\* The inductive invariant holds of every behaviour of collect_all.
THEOREM CollectorInductive == Spec => []IInv
<1> QED
  BY InitIInv, NextIInv, PTL DEF Spec

\* Every variable of the collector stays in its type.
THEOREM CollectorTypes == Spec => []TypeOK
<1>1. IInv => TypeOK
  BY DEF IInv
<1> QED
  BY <1>1, CollectorInductive, PTL

\* collect_all returns a complete snapshot, the one the panel was shown.
THEOREM ReturnedWasShown == Spec => []ReturnedIsShown
<1>1. IInv => ReturnedIsShown
  BY IInvImplies
<1> QED
  BY <1>1, CollectorInductive, PTL

\* done.get() always has a worker or a result to wait for.
THEOREM GetIsAnswered == Spec => []SomebodyWorks
<1>1. IInv => SomebodyWorks
  BY IInvImplies
<1> QED
  BY <1>1, CollectorInductive, PTL

\* No worker of wave 2 is alive in wave 3, and none outlives a run uncancelled.
THEOREM WorkersAreStopped == Spec => [](RetryAlone /\ NoOrphanWorkers)
<1>1. IInv => RetryAlone /\ NoOrphanWorkers
  BY IInvImplies
<1> QED
  BY <1>1, CollectorInductive, PTL

\* The waves hand over cleanly, for any sections, workers and overlapping runs.
THEOREM WavesAreClean == Spec => []WavesHandOver
<1>1. IInv => WavesHandOver
  BY IInvImplies DEF WavesHandOver
<1> QED
  BY <1>1, CollectorInductive, PTL

\* At most two attempts, and a timeout is shown only after the second.
THEOREM TwoAttempts == Spec => []RetriedOnce
<1>1. IInv => RetriedOnce
  BY IInvImplies
<1> QED
  BY <1>1, CollectorInductive, PTL

\* What _cache holds is the snapshot of a run that came to its end, with every
\* section answered or timed out twice.
THEOREM CacheHoldsFinished == Spec => []CacheIsFinished
<1>1. IInv => CacheIsFinished
  BY DEF IInv
<1> QED
  BY <1>1, CollectorInductive, PTL

\* A section that was collected is neither asked for again nor overwritten.
THEOREM CollectedIsKept == Spec => CollectedStays
<1>1. IInv /\ [Next]_vars =>
        [\A r \in Runs, s \in All : Collected(r, s) =>
           /\ snap'[r][s] = snap[r][s]
           /\ s \in Sections => tries'[r][s] = tries[r][s]]_vars
  BY NextCollected, NextNotRepeated DEF Collected
<1> QED
  BY <1>1, CollectorInductive, PTL DEF Spec, CollectedStays
=============================================================================
