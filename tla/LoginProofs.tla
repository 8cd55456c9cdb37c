----------------------------- MODULE LoginProofs -----------------------------
(***************************************************************************)
(* TLAPS proofs about Login, for any number of sessions, any lists of      *)
(* passwords, any keys and any number of attempts and changes: the types   *)
(* and the three safety invariants.                                        *)
(*                                                                         *)
(* OpenIsOwned needs Closed: connect() never replaces an open connection,  *)
(* because it holds none while it runs.  RefusedTriedAll needs Ahead: what *)
(* is untried is what the generator has still to yield, from the list it   *)
(* took before the first attempt.                                          *)
(***************************************************************************)
EXTENDS Login, TLAPS

\* While connect() runs its object has no open connection.
Closed == \A s \in Sessions : pc[s] # "idle" => ~IsOpen(s)

\* The password that is tried or one still to come.
AheadOf(g) == {Current(g)} \cup {g.list[i] : i \in Others(g)}

\* While passwords are tried, every untried one is in what the generator yields.
Ahead ==
  \A s \in Sessions : pc[s] \in {"dial", "close", "redial"} =>
    /\ gen[s].at = 0 => gen[s].cached \in Passwords
    /\ gen[s].at <= Len(gen[s].list)
    /\ untried[s] \subseteq AheadOf(gen[s])

IInv ==
  /\ TypeOK /\ Closed /\ Ahead
  /\ OpenIsOwned /\ OpenIsVerified /\ RefusedTriedAll

-----------------------------------------------------------------------------
(* Facts about the operators *)

\* A configured list is one of the lists, and a sequence of its members.
LEMMA ConfiguredList ==
  ASSUME TypeOK, NEW k \in Kinds
  PROVE  /\ Configured(k) \in Configs
         /\ Configured(k) \in Seq(Range(Configured(k)))
         /\ Range(Configured(k)) \subseteq Passwords
         /\ None \notin Range(Configured(k))
BY LoginAssumption DEF TypeOK, Configured, Kinds, Passwords

\* _record_host_key adds keys only.
LEMMA RecordKeys ==
  ASSUME NEW key \in Keys, known \in Seq(Keys), Record(key)
  PROVE  known' \in Seq(Keys)
BY DEF Record

\* The generator offers every configured password.
LEMMA OfferAll ==
  ASSUME TypeOK, NEW k \in Kinds, Configured(k) # <<>>
  PROVE  /\ Offer(k) \in Generators
         /\ Offer(k).at = 0 => Offer(k).cached \in Passwords
         /\ Offer(k).at <= Len(Offer(k).list)
         /\ Range(Configured(k)) \subseteq AheadOf(Offer(k))
<1> DEFINE c == Configured(k)
<1>1. c \in Configs /\ c \in Seq(Range(c)) /\ Range(c) \subseteq Passwords /\ None \notin Range(c)
  BY ConfiguredList
<1>2. Len(c) \in Nat \ {0} /\ DOMAIN c = 1..Len(c)
  BY <1>1
<1>3. ASSUME NEW p \in Range(c) PROVE \E i \in 1..Len(c) : c[i] = p
  BY <1>2 DEF Range
<1>4. \A i \in 1..Len(c) : c[i] \in Range(c)
  BY <1>2 DEF Range
<1>5. CASE cache[k] \in Range(c)
  <2>1. Offer(k) = [list |-> c, cached |-> cache[k], at |-> 0]
    BY <1>5 DEF Offer
  <2>2. Current(Offer(k)) = cache[k]
    BY <2>1 DEF Current
  <2>3. Others(Offer(k)) = {i \in 1..Len(c) : c[i] # cache[k]}
    BY <2>1, <1>2 DEF Others
  <2> HIDE DEF c
  <2>4. \A p \in Range(c) : p = cache[k] \/ \E i \in Others(Offer(k)) : c[i] = p
    BY <2>3, <1>3
  <2> QED
    BY <2>1, <2>2, <2>4, <1>1, <1>2, <1>5 DEF AheadOf, Generators, c
<1>6. CASE cache[k] \notin Range(c)
  <2>1. Offer(k) = [list |-> c, cached |-> None, at |-> 1]
    BY <1>6 DEF Offer
  <2>2. Current(Offer(k)) = c[1]
    BY <2>1 DEF Current
  <2>3. Others(Offer(k)) = {i \in 2..Len(c) : c[i] # None}
    BY <2>1, <1>2 DEF Others
  <2> HIDE DEF c
  <2>4. \A p \in Range(c) : p = c[1] \/ \E i \in Others(Offer(k)) : c[i] = p
    BY <2>3, <1>1, <1>2, <1>3, <1>4
  <2> QED
    BY <2>1, <2>2, <2>4, <1>1, <1>2 DEF AheadOf, Generators, c
<1> QED
  BY <1>5, <1>6

\* After the least of the other places, the rest is still ahead.
LEMMA AdvanceKeeps ==
  ASSUME NEW g \in Generators, NEW i \in Others(g), \A j \in Others(g) : i <= j,
         NEW h, h = [g EXCEPT !.at = i]
  PROVE  /\ h \in Generators /\ h.at # 0 /\ h.at <= Len(h.list)
         /\ AheadOf(g) \ {Current(g)} \subseteq AheadOf(h)
<1>0. /\ h = [list |-> g.list, cached |-> g.cached, at |-> i]
      /\ g.at \in Nat /\ i \in g.at+1..Len(g.list) /\ Len(g.list) \in Nat
  BY LoginAssumption DEF Generators, Others
<1>1. h \in Generators /\ h.at # 0 /\ h.at <= Len(h.list)
  BY <1>0 DEF Generators
<1>2. Current(h) = g.list[i]
  BY <1>0 DEF Current
<1>3. \A j \in Others(g) : j = i \/ j \in Others(h)
  BY <1>0 DEF Others
<1> QED
  BY <1>0, <1>1, <1>2, <1>3 DEF AheadOf

\* The initial states satisfy the inductive invariant.
LEMMA InitIInv == Init => IInv
<1> SUFFICES ASSUME Init PROVE IInv
  OBVIOUS
<1> USE LoginAssumption DEF Init
<1>1. TypeOK
  BY DEF TypeOK, Generators, NoGenerator, Connections, Kinds
<1>2. Closed /\ Ahead /\ OpenIsOwned /\ OpenIsVerified /\ RefusedTriedAll
  BY DEF Closed, Ahead, OpenIsOwned, OpenIsVerified, RefusedTriedAll, IsOpen,
         Sessions
<1> QED
  BY <1>1, <1>2 DEF IInv

-----------------------------------------------------------------------------
(* Steps *)

LEMMA LeaveTypes ==
  ASSUME TypeOK, NEW s \in Sessions, Leave(s)
  PROVE  /\ pc' \in [Sessions -> {"idle"} \cup Awaits] /\ first' \in [Sessions -> BOOLEAN]
         /\ gen' \in [Sessions -> Generators] /\ untried' \in [Sessions -> SUBSET Passwords]
<1>1. NoGenerator \in Generators
  BY LoginAssumption DEF NoGenerator, Generators
<1> QED
  BY <1>1 DEF Leave, TypeOK

\* Every step keeps the types.
LEMMA StepType == IInv /\ [Next]_vars => TypeOK'
<1> SUFFICES ASSUME IInv, [Next]_vars PROVE TypeOK'
  OBVIOUS
<1>0. TypeOK /\ OpenIsOwned /\ Ahead
  BY DEF IInv
<1>k. \A s : Kind(s) \in Kinds
  BY DEF Kind, Kinds
<1>g. NoGenerator \in Generators
  BY LoginAssumption DEF NoGenerator, Generators
<1> USE LoginAssumption, <1>0, <1>k, <1>g DEF TypeOK
<1>1. ASSUME NEW s \in Sessions, Connect(s) PROVE TypeOK'
  <2>1. Range(Configured(Kind(s))) \subseteq Passwords
    BY ConfiguredList
  <2>0. logins' \in 0..MaxLogins
    BY <1>1 DEF Connect
  <2>u. untried' \in [Sessions -> SUBSET Passwords]
    BY <1>1, <2>1 DEF Connect
  <2>2. CASE Configured(Kind(s)) = <<>>
    <3>1. /\ Exhaust(s)
          /\ UNCHANGED <<serverKey, reflashed, known, config, saves, cache, conn, live>>
      BY <1>1, <2>2 DEF Connect
    <3>2. /\ pc' \in [Sessions -> {"idle"} \cup Awaits] /\ first' \in [Sessions -> BOOLEAN]
          /\ gen' \in [Sessions -> Generators] /\ exhausted' \in [Sessions -> BOOLEAN]
      BY <3>1 DEF Exhaust
    <3> QED
      BY <2>0, <2>u, <3>1, <3>2
  <2>3. CASE Configured(Kind(s)) # <<>>
    <3>1. Offer(Kind(s)) \in Generators
      BY <2>3, OfferAll
    <3>2. gen' \in [Sessions -> Generators]
      BY <1>1, <2>3, <3>1 DEF Connect
    <3>3. (s \in SshSessions /\ known = <<>>) \in BOOLEAN
      OBVIOUS
    <3>4. first' \in [Sessions -> BOOLEAN]
      BY <1>1, <2>3, <3>3 DEF Connect
    <3> QED
      BY <1>1, <2>0, <2>u, <2>3, <3>2, <3>4 DEF Connect, Awaits
  <2> QED
    BY <2>2, <2>3
<1>2. ASSUME NEW s \in Sessions, Refused(s) PROVE TypeOK'
  <2>1. CASE Others(gen[s]) = {} /\ Exhaust(s)
    BY <1>2, <2>1 DEF Refused, Exhaust
  <2>2. ASSUME NEW i \in Others(gen[s]), \A j \in Others(gen[s]) : i <= j,
               gen' = [gen EXCEPT ![s].at = i], pc' = [pc EXCEPT ![s] = "dial"],
               UNCHANGED <<first, exhausted>>
        PROVE TypeOK'
    <3>1. [gen[s] EXCEPT !.at = i] \in Generators
      BY <2>2, AdvanceKeeps
    <3>2. gen' \in [Sessions -> Generators]
      BY <2>2, <3>1
    <3> QED
      BY <1>2, <2>2, <3>2 DEF Refused, Awaits
  <2> QED
    BY <1>2, <2>1, <2>2 DEF Refused
<1>3. ASSUME NEW s \in Sessions, Mismatch(s) \/ Unreachable(s) \/ ConnectCancelled(s)
      PROVE TypeOK'
  <2>1. /\ Leave(s)
        /\ UNCHANGED <<serverKey, reflashed, known, config, saves, cache, logins, conn, live,
                       exhausted>>
    BY <1>3 DEF Mismatch, Unreachable, ConnectCancelled
  <2> QED
    BY <2>1, LeaveTypes
<1>4. ASSUME NEW s \in Sessions, FirstContact(s) PROVE TypeOK'
  <2>1. known' \in Seq(Keys)
    BY <1>4, RecordKeys DEF FirstContact
  <2>2. pc' \in [Sessions -> {"idle"} \cup Awaits]
    BY <1>4 DEF FirstContact, Awaits
  <2>3. conn' \in [Sessions -> Connections]
    BY <1>4 DEF FirstContact, Connections
  <2> QED
    BY <1>4, <2>1, <2>2, <2>3 DEF FirstContact
<1>5. ASSUME NEW s \in Sessions, FirstClosed(s) PROVE TypeOK'
  <2>1. CASE Leave(s)
    BY <1>5, <2>1, LeaveTypes DEF FirstClosed
  <2>2. CASE pc' = [pc EXCEPT ![s] = "redial"] /\ UNCHANGED <<first, gen, untried>>
    <3>1. pc' \in [Sessions -> {"idle"} \cup Awaits]
      BY <2>2 DEF Awaits
    <3> QED
      BY <1>5, <2>2, <3>1 DEF FirstClosed
  <2> QED
    BY <1>5, <2>1, <2>2 DEF FirstClosed
<1>6. ASSUME NEW s \in Sessions, Accepted(s) PROVE TypeOK'
  <2>1. Current(gen[s]) \in Passwords
    <3>1. gen[s] \in Generators /\ pc[s] \in {"dial", "redial"}
      BY <1>6 DEF Accepted, Dialling
    <3>2. gen[s].list \in Configs /\ Range(gen[s].list) \subseteq Passwords
      BY <3>1 DEF Generators, Passwords
    <3>3. gen[s].at # 0 => gen[s].list[gen[s].at] \in Range(gen[s].list)
      BY <3>1, <3>2 DEF Ahead, Generators, Range
    <3> QED
      BY <3>1, <3>2, <3>3 DEF Current, Ahead
  <2>2. cache' \in [Kinds -> Passwords \cup {None}]
    BY <1>6, <2>1 DEF Accepted
  <2>3. conn' \in [Sessions -> Connections]
    BY <1>6 DEF Accepted, Connections, Verifies
  <2> QED
    BY <1>6, <2>2, <2>3 DEF Accepted, Leave
<1>7. ASSUME NEW s \in Sessions, HangUp(s) PROVE TypeOK'
  <2>1. live' \in [Sessions -> Nat]
    BY <1>7 DEF HangUp, OpenIsOwned
  <2> QED
    BY <1>7, <2>1 DEF HangUp, Connections
<1>8. ASSUME NEW s \in Sessions, LinkLost(s) PROVE TypeOK'
  <2>1. live' \in [Sessions -> Nat]
    BY <1>8 DEF LinkLost, OpenIsOwned
  <2>2. [conn[s] EXCEPT !.open = FALSE] \in Connections
    BY <1>8 DEF LinkLost, IsOpen, Connections
  <2> QED
    BY <1>8, <2>1, <2>2 DEF LinkLost
<1>9. ASSUME SaveSettings \/ ClearCache \/ Reflash \/ ForgetHost PROVE TypeOK'
  BY <1>9 DEF SaveSettings, ClearCache, Reflash, ForgetHost
<1>10. ASSUME UNCHANGED vars PROVE TypeOK'
  BY <1>10 DEF vars
<1> QED
  BY <1>1, <1>2, <1>3, <1>4, <1>5, <1>6, <1>7, <1>8, <1>9, <1>10 DEF Next, LoginStep

\* Every step keeps what relates the connections to the objects: while
\* connect() runs there is none to replace, and each is counted once.
LEMMA StepConnections ==
  IInv /\ [Next]_vars => Closed' /\ OpenIsOwned' /\ OpenIsVerified'
<1> SUFFICES ASSUME IInv, [Next]_vars PROVE Closed' /\ OpenIsOwned' /\ OpenIsVerified'
  OBVIOUS
<1>0. TypeOK /\ Closed /\ OpenIsOwned /\ OpenIsVerified
  BY DEF IInv
<1>t. /\ pc \in [Sessions -> {"idle"} \cup Awaits] /\ conn \in [Sessions -> Connections]
      /\ live \in [Sessions -> Nat] /\ SshSessions \subseteq Sessions
  BY <1>0 DEF TypeOK, Sessions
<1> USE <1>0, <1>t DEF Closed, OpenIsOwned, OpenIsVerified, IsOpen
<1>1. ASSUME NEW s \in Sessions, Connect(s) \/ Refused(s)
      PROVE Closed' /\ OpenIsOwned' /\ OpenIsVerified'
  <2>1. UNCHANGED <<conn, live>> /\ \A o \in Sessions : o # s => pc'[o] = pc[o]
    BY <1>1 DEF Connect, Refused, Exhaust
  <2>2. ~IsOpen(s)
    BY <1>1 DEF Connect, Refused, Dialling
  <2> QED
    BY <2>1, <2>2
<1>2. ASSUME NEW s \in Sessions,
             Mismatch(s) \/ Unreachable(s) \/ ConnectCancelled(s) \/ FirstClosed(s)
      PROVE Closed' /\ OpenIsOwned' /\ OpenIsVerified'
  <2>1. UNCHANGED <<conn, live>> /\ \A o \in Sessions : o # s => pc'[o] = pc[o]
    BY <1>2 DEF Mismatch, Unreachable, ConnectCancelled, FirstClosed, Leave
  <2>2. ~IsOpen(s)
    BY <1>2 DEF Mismatch, Unreachable, ConnectCancelled, FirstClosed, Dialling, Awaits
  <2> QED
    BY <2>1, <2>2
<1>3. ASSUME NEW s \in Sessions, FirstContact(s) PROVE Closed' /\ OpenIsOwned' /\ OpenIsVerified'
  <2>1. ~IsOpen(s)
    BY <1>3 DEF FirstContact
  <2>2. /\ ~conn'[s].open /\ live' = live
        /\ \A o \in Sessions : o # s => pc'[o] = pc[o] /\ conn'[o] = conn[o]
    BY <1>3 DEF FirstContact
  <2> QED
    BY <2>1, <2>2
<1>4. ASSUME NEW s \in Sessions, Accepted(s) PROVE Closed' /\ OpenIsOwned' /\ OpenIsVerified'
  <2>1. ~IsOpen(s) /\ live[s] = 0
    BY <1>4 DEF Accepted, Dialling
  <2>2. /\ conn'[s] = [verified |-> Verifies(s), open |-> TRUE]
        /\ live'[s] = 1 /\ pc'[s] = "idle"
        /\ \A o \in Sessions : o # s =>
             pc'[o] = pc[o] /\ conn'[o] = conn[o] /\ live'[o] = live[o]
    BY <1>4, <2>1 DEF Accepted, Leave
  <2>3. s \in SshSessions => Verifies(s)
    BY <1>4 DEF Accepted, Dialling, Verifies
  <2>4. conn'[s] # None
    <3>1. Verifies(s) \in BOOLEAN
      BY DEF Verifies
    <3> HIDE DEF IsOpen
    <3>2. [verified |-> Verifies(s), open |-> TRUE] \in [verified : BOOLEAN, open : BOOLEAN]
      BY <3>1
    <3> QED
      BY <2>2, <3>2, LoginAssumption
  <2> QED
    BY <2>2, <2>3, <2>4
<1>5. ASSUME NEW s \in Sessions, HangUp(s) PROVE Closed' /\ OpenIsOwned' /\ OpenIsVerified'
  <2>1. /\ conn'[s] = None /\ live'[s] = 0 /\ pc' = pc
        /\ \A o \in Sessions : o # s => conn'[o] = conn[o] /\ live'[o] = live[o]
    BY <1>5 DEF HangUp
  <2> QED
    BY <2>1
<1>6. ASSUME NEW s \in Sessions, LinkLost(s) PROVE Closed' /\ OpenIsOwned' /\ OpenIsVerified'
  <2>1. conn[s] \in [verified : BOOLEAN, open : BOOLEAN]
    BY <1>6 DEF LinkLost, Connections
  <2>0. live[s] = 1
    BY <1>6 DEF LinkLost
  <2>2. /\ conn'[s] = [conn[s] EXCEPT !.open = FALSE] /\ live'[s] = 0 /\ pc' = pc
        /\ \A o \in Sessions : o # s => conn'[o] = conn[o] /\ live'[o] = live[o]
    BY <1>6, <2>0 DEF LinkLost
  <2>4. [conn[s] EXCEPT !.open = FALSE].open = FALSE
    BY <2>1
  <2>3. ~conn'[s].open
    BY <2>2, <2>4
  <2> QED
    BY <2>2, <2>3
<1>7. ASSUME \/ SaveSettings \/ ClearCache \/ Reflash \/ ForgetHost
             \/ UNCHANGED vars
      PROVE Closed' /\ OpenIsOwned' /\ OpenIsVerified'
  <2>1. UNCHANGED <<pc, conn, live>>
    BY <1>7 DEF SaveSettings, ClearCache, Reflash, ForgetHost, vars
  <2> QED
    BY <2>1
<1> QED
  BY <1>1, <1>2, <1>3, <1>4, <1>5, <1>6, <1>7 DEF Next, LoginStep

\* Every step keeps the passwords that are untried ahead of the generator, and
\* an attempt that ran out of passwords has tried them all.
LEMMA StepPasswords == IInv /\ [Next]_vars => Ahead' /\ RefusedTriedAll'
<1> SUFFICES ASSUME IInv, [Next]_vars PROVE Ahead' /\ RefusedTriedAll'
  OBVIOUS
<1>0. TypeOK /\ Ahead /\ RefusedTriedAll
  BY DEF IInv
<1>t. /\ pc \in [Sessions -> {"idle"} \cup Awaits] /\ gen \in [Sessions -> Generators]
      /\ untried \in [Sessions -> SUBSET Passwords] /\ exhausted \in [Sessions -> BOOLEAN]
  BY <1>0 DEF TypeOK
<1>a. \A g, h : g = h => AheadOf(g) = AheadOf(h)
  OBVIOUS
<1>1. ASSUME NEW s \in Sessions, Connect(s) PROVE Ahead' /\ RefusedTriedAll'
  <2>k. Kind(s) \in Kinds
    BY DEF Kind, Kinds
  <2>1. CASE Configured(Kind(s)) = <<>>
    <3>1. /\ untried'[s] = {} /\ pc'[s] = "idle"
          /\ \A o \in Sessions : o # s =>
               /\ pc'[o] = pc[o] /\ gen'[o] = gen[o] /\ untried'[o] = untried[o]
               /\ exhausted'[o] = exhausted[o]
      BY <1>1, <1>t, <2>1 DEF Connect, Exhaust, Range
    <3> QED
      BY <1>0, <3>1 DEF Ahead, RefusedTriedAll
  <2>2. CASE Configured(Kind(s)) # <<>>
    <3>1. /\ untried'[s] = Range(Configured(Kind(s))) /\ gen'[s] = Offer(Kind(s))
          /\ ~exhausted'[s]
          /\ \A o \in Sessions : o # s =>
               /\ pc'[o] = pc[o] /\ gen'[o] = gen[o] /\ untried'[o] = untried[o]
               /\ exhausted'[o] = exhausted[o]
      BY <1>1, <1>t, <2>2 DEF Connect
    <3>2. /\ Offer(Kind(s)).at = 0 => Offer(Kind(s)).cached \in Passwords
          /\ Offer(Kind(s)).at <= Len(Offer(Kind(s)).list)
          /\ Range(Configured(Kind(s))) \subseteq AheadOf(Offer(Kind(s)))
      BY <1>0, <2>k, <2>2, OfferAll
    <3> QED
      BY <1>0, <3>1, <3>2 DEF Ahead, RefusedTriedAll
  <2> QED
    BY <2>1, <2>2
<1>2. ASSUME NEW s \in Sessions, Refused(s) PROVE Ahead' /\ RefusedTriedAll'
  <2>0. /\ untried'[s] = untried[s] \ {Current(gen[s])}
        /\ untried[s] \subseteq AheadOf(gen[s])
        /\ \A o \in Sessions : o # s => untried'[o] = untried[o]
    BY <1>0, <1>2, <1>t DEF Refused, Dialling, Ahead
  <2>1. CASE Others(gen[s]) = {} /\ Exhaust(s)
    <3>1. untried'[s] = {}
      BY <2>0, <2>1 DEF AheadOf
    <3>2. /\ pc'[s] = "idle"
          /\ \A o \in Sessions : o # s =>
               pc'[o] = pc[o] /\ gen'[o] = gen[o] /\ exhausted'[o] = exhausted[o]
      BY <1>t, <2>1 DEF Exhaust
    <3> QED
      BY <1>0, <2>0, <3>1, <3>2 DEF Ahead, RefusedTriedAll
  <2>2. ASSUME NEW i \in Others(gen[s]), \A j \in Others(gen[s]) : i <= j,
               gen' = [gen EXCEPT ![s].at = i], pc' = [pc EXCEPT ![s] = "dial"],
               UNCHANGED <<first, exhausted>>
        PROVE Ahead' /\ RefusedTriedAll'
    <3>1. gen'[s] = [gen[s] EXCEPT !.at = i]
      BY <1>t, <2>2
    <3>2. /\ gen'[s].at # 0 /\ gen'[s].at <= Len(gen'[s].list)
          /\ AheadOf(gen[s]) \ {Current(gen[s])} \subseteq AheadOf(gen'[s])
      BY <1>t, <2>2, <3>1, AdvanceKeeps
    <3>3. \A o \in Sessions : o # s => pc'[o] = pc[o] /\ gen'[o] = gen[o]
      BY <1>t, <2>2
    <3>4. untried[s] = {} => untried'[s] = {}
      BY <2>0
    <3> QED
      BY <1>0, <2>0, <2>2, <3>2, <3>3, <3>4 DEF Ahead, RefusedTriedAll
  <2> QED
    BY <1>2, <2>1, <2>2 DEF Refused
<1>3. ASSUME NEW s \in Sessions,
             \/ Mismatch(s) \/ Unreachable(s) \/ ConnectCancelled(s) \/ Accepted(s)
             \/ pc[s] = "giveUp" /\ FirstClosed(s)
      PROVE Ahead' /\ RefusedTriedAll'
  <2>1. Leave(s) /\ exhausted' = exhausted
    BY <1>3 DEF Mismatch, Unreachable, ConnectCancelled, Accepted, FirstClosed
  <2>2. /\ untried'[s] = {} /\ pc'[s] = "idle"
        /\ \A o \in Sessions : o # s =>
             pc'[o] = pc[o] /\ gen'[o] = gen[o] /\ untried'[o] = untried[o]
    BY <1>t, <2>1 DEF Leave
  <2> QED
    BY <1>0, <2>1, <2>2 DEF Ahead, RefusedTriedAll
<1>4. ASSUME NEW s \in Sessions,
             FirstContact(s) \/ (pc[s] = "close" /\ FirstClosed(s))
      PROVE Ahead' /\ RefusedTriedAll'
  <2>1. /\ pc[s] \in {"dial", "close"} /\ UNCHANGED <<gen, untried, exhausted>>
        /\ \A o \in Sessions : o # s => pc'[o] = pc[o]
    BY <1>4, <1>t DEF FirstContact, FirstClosed
  <2> QED
    BY <1>0, <2>1 DEF Ahead, RefusedTriedAll
<1>5. ASSUME UNCHANGED <<pc, gen, untried, exhausted>> PROVE Ahead' /\ RefusedTriedAll'
  BY <1>0, <1>5 DEF Ahead, RefusedTriedAll
<1>6. ASSUME NEW s \in Sessions, HangUp(s) \/ LinkLost(s)
      PROVE Ahead' /\ RefusedTriedAll'
  BY <1>5, <1>6 DEF HangUp, LinkLost
<1>7. ASSUME \/ SaveSettings \/ ClearCache \/ Reflash \/ ForgetHost
             \/ UNCHANGED vars
      PROVE Ahead' /\ RefusedTriedAll'
  BY <1>5, <1>7 DEF SaveSettings, ClearCache, Reflash, ForgetHost, vars
<1>8. ASSUME NEW s \in Sessions, FirstClosed(s) PROVE Ahead' /\ RefusedTriedAll'
  <2>1. CASE pc[s] = "close"
    BY <1>4, <1>8, <2>1
  <2>2. CASE pc[s] = "giveUp"
    BY <1>3, <1>8, <2>2
  <2> QED
    BY <1>8, <2>1, <2>2 DEF FirstClosed
<1>9. ASSUME NEW s \in Sessions, LoginStep(s) PROVE Ahead' /\ RefusedTriedAll'
  BY <1>2, <1>3, <1>4, <1>8, <1>9 DEF LoginStep
<1> QED
  BY <1>1, <1>6, <1>7, <1>9 DEF Next

-----------------------------------------------------------------------------
(* Theorems *)

\* The inductive invariant of the log-in.
THEOREM LoginInductive == Spec => []IInv
<1>1. IInv /\ [Next]_vars => IInv'
  BY StepType, StepConnections, StepPasswords DEF IInv
<1> QED
  BY InitIInv, <1>1, PTL DEF Spec

\* Every variable of the model of connect() stays in its type.
THEOREM LoginTypes == Spec => []TypeOK
<1>1. IInv => TypeOK
  BY DEF IInv
<1> QED
  BY LoginInductive, <1>1, PTL

\* However connect() fails or is cancelled, the only connection that is open is
\* the one its object holds.
THEOREM ConnectionsAreOwned == Spec => []OpenIsOwned
<1>1. IInv => OpenIsOwned
  BY DEF IInv
<1> QED
  BY LoginInductive, <1>1, PTL

\* An SSH connection in use was made with verification, the first one included.
THEOREM ConnectionsAreVerified == Spec => []OpenIsVerified
<1>1. IInv => OpenIsVerified
  BY DEF IInv
<1> QED
  BY LoginInductive, <1>1, PTL

\* connect() reports that all passwords failed only after each was tried.
THEOREM FailureIsComplete == Spec => []RefusedTriedAll
<1>1. IInv => RefusedTriedAll
  BY DEF IInv
<1> QED
  BY LoginInductive, <1>1, PTL
=============================================================================
