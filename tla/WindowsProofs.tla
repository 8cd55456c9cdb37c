---------------------------- MODULE WindowsProofs -----------------------------
(***************************************************************************)
(* TLAPS proofs about the windows of a tab, for any bounds: the file       *)
(* manager, its shell and its listings, the VNC viewers and their keys,    *)
(* the terminals and their screen, the tables and the console of the       *)
(* database viewer.                                                        *)
(***************************************************************************)
EXTENDS MCWindows, RemoteTree, ShellRunner, Screen, VncKeys, DbConsole,
        FiniteSetTheorems, TLAPS

-----------------------------------------------------------------------------
\* The elements, the domain and the length of a sequence over a set.
LEMMA Elements ==
  ASSUME NEW S, NEW s \in Seq(S)
  PROVE  DOMAIN s = 1..Len(s) /\ Len(s) \in Nat /\ \A i \in DOMAIN s : s[i] \in S
OBVIOUS

\* A sequence over a set is one over every larger set.
LEMMA SeqWidens ==
  ASSUME NEW S, NEW T, NEW s \in Seq(S), \A x \in S : x \in T
  PROVE  s \in Seq(T)
<1>1. DOMAIN s = 1..Len(s) /\ Len(s) \in Nat /\ \A i \in DOMAIN s : s[i] \in S BY Elements
<1>2. \A i \in 1..Len(s) : s[i] \in T BY <1>1
<1> QED BY <1>2

\* What is appended comes last, the rest stays where it was.
LEMMA AppendIn ==
  ASSUME NEW S, NEW s \in Seq(S), NEW x \in S
  PROVE  /\ Append(s, x) \in Seq(S) /\ Len(Append(s, x)) = Len(s) + 1
         /\ Append(s, x)[Len(s) + 1] = x
         /\ \A i \in 1..Len(s) : Append(s, x)[i] = s[i]
OBVIOUS

\* Removing a place moves what follows it one place down.
LEMMA RemovedAt ==
  ASSUME NEW S, NEW s \in Seq(S), NEW i \in 1..Len(s)
  PROVE  /\ RemoveAt(s, i) \in Seq(S) /\ Len(RemoveAt(s, i)) = Len(s) - 1
         /\ \A j \in 1..Len(s) - 1 : RemoveAt(s, i)[j] = IF j < i THEN s[j] ELSE s[j + 1]
<1> DEFINE a == SubSeq(s, 1, i - 1)
           b == SubSeq(s, i + 1, Len(s))
<1>0. Len(s) \in Nat OBVIOUS
<1>1. a \in Seq(S) /\ Len(a) = i - 1 /\ \A j \in 1..i - 1 : a[j] = s[j]
  BY <1>0
<1>2. b \in Seq(S) /\ Len(b) = Len(s) - i /\ \A j \in 1..Len(s) - i : b[j] = s[i + j]
  BY <1>0
<1>3. RemoveAt(s, i) = a \o b BY DEF RemoveAt
<1> HIDE DEF a, b
<1>4. a \o b \in Seq(S) /\ Len(a \o b) = Len(s) - 1
  <2>1. a \in Seq(S) /\ b \in Seq(S) BY <1>1, <1>2
  <2>2. a \o b \in Seq(S) /\ Len(a \o b) = Len(a) + Len(b) BY <2>1
  <2>3. Len(a) + Len(b) = Len(s) - 1 BY <1>0, <1>1, <1>2
  <2> QED BY <2>2, <2>3
<1>5. ASSUME NEW j \in 1..Len(s) - 1
      PROVE  (a \o b)[j] = IF j < i THEN s[j] ELSE s[j + 1]
  <2>1. CASE j < i BY <2>1, <1>0, <1>1, <1>2
  <2>2. CASE ~(j < i)
    <3> DEFINE k == j - (i - 1)
    <3>1. k \in 1..Len(s) - i /\ i + k = j + 1 BY <2>2, <1>0
    <3>2. (a \o b)[j] = b[k] BY <2>2, <3>1, <1>0, <1>1, <1>2
    <3> QED BY <3>1, <3>2, <2>2, <1>2
  <2> QED BY <2>1, <2>2
<1> QED BY <1>3, <1>4, <1>5

\* Removing an element of a sequence without repetitions leaves the others, still without
\* repetitions.
LEMMA RemovedFirst ==
  ASSUME NEW S, NEW s \in Seq(S), IsInjective(s), NEW e
  PROVE  /\ RemoveFirst(s, e) \in Seq(S) /\ IsInjective(RemoveFirst(s, e))
         /\ Len(RemoveFirst(s, e)) \in 0..Len(s)
         /\ e \in ToSet(s) => Len(RemoveFirst(s, e)) = Len(s) - 1
         /\ ToSet(RemoveFirst(s, e)) = ToSet(s) \ {e}
<1>1. CASE ~ \E i \in 1..Len(s) : s[i] = e
  <2>1. RemoveFirst(s, e) = s BY <1>1 DEF RemoveFirst
  <2>2. e \notin ToSet(s) BY <1>1 DEF ToSet
  <2>3. Len(s) \in 0..Len(s) OBVIOUS
  <2> QED BY <2>1, <2>2, <2>3
<1>2. CASE \E i \in 1..Len(s) : s[i] = e
  <2>1. PICK i \in 1..Len(s) : s[i] = e BY <1>2
  <2>2. {j \in 1..Len(s) : s[j] = e} = {i} BY <2>1 DEF IsInjective
  <2>3. Min({i}) = i BY DEF Min
  <2>4. SelectInSeq(s, LAMBDA v : v = e) = i BY <2>2, <2>3 DEF SelectInSeq
  <2>5. RemoveFirst(s, e) = RemoveAt(s, i) BY <1>2, <2>4 DEF RemoveFirst
  <2> DEFINE t == RemoveAt(s, i)
  <2>6. /\ t \in Seq(S) /\ Len(t) = Len(s) - 1
        /\ \A j \in 1..Len(s) - 1 : t[j] = IF j < i THEN s[j] ELSE s[j + 1]
    BY RemovedAt
  <2> HIDE DEF t
  <2>7. DOMAIN t = 1..Len(s) - 1 /\ DOMAIN s = 1..Len(s) /\ Len(s) \in Nat BY <2>6
  <2>8. IsInjective(t)
    <3> SUFFICES ASSUME NEW j \in 1..Len(s) - 1, NEW k \in 1..Len(s) - 1, t[j] = t[k] PROVE j = k
      BY <2>7 DEF IsInjective
    <3> DEFINE up(n) == IF n < i THEN n ELSE n + 1
    <3>1. up(j) \in DOMAIN s /\ up(k) \in DOMAIN s BY <2>7
    <3>2. s[up(j)] = s[up(k)] BY <2>6
    <3>3. up(j) = up(k) BY <3>1, <3>2 DEF IsInjective
    <3> QED BY <3>3, <2>7
  <2>9. ASSUME NEW x \in ToSet(t) PROVE x \in ToSet(s) \ {e}
    <3>1. PICK j \in 1..Len(s) - 1 : x = t[j] BY <2>7, <2>9 DEF ToSet
    <3>2. PICK m \in 1..Len(s) : m # i /\ x = s[m] BY <3>1, <2>6, <2>7
    <3>3. s[m] # e BY <3>2, <2>1, <2>7 DEF IsInjective
    <3> QED BY <3>2, <3>3, <2>7 DEF ToSet
  <2>10. ASSUME NEW x \in ToSet(s) \ {e} PROVE x \in ToSet(t)
    <3>1. PICK m \in 1..Len(s) : x = s[m] BY <2>7, <2>10 DEF ToSet
    <3>2. m # i BY <3>1, <2>1, <2>10
    <3>3. PICK j \in 1..Len(s) - 1 : x = t[j]
      <4>1. CASE m < i
        <5>1. m \in 1..Len(s) - 1 /\ t[m] = s[m] BY <4>1, <2>6, <2>7
        <5> QED BY <5>1, <3>1
      <4>2. CASE m > i
        <5> DEFINE p == m - 1
        <5>1. p \in 1..Len(s) - 1 /\ ~(p < i) /\ p + 1 = m BY <4>2, <2>7
        <5>2. t[p] = s[m] BY <5>1, <2>6
        <5> QED BY <5>1, <5>2, <3>1
      <4> QED BY <3>2, <4>1, <4>2, <2>7
    <3> QED BY <3>3, <2>7 DEF ToSet
  <2>11. Len(t) \in 0..Len(s) BY <2>6, <2>7
  <2>12. ToSet(t) = ToSet(s) \ {e} BY <2>9, <2>10
  <2> QED BY <2>5, <2>6, <2>8, <2>11, <2>12 DEF t
<1> QED BY <1>1, <1>2

\* A new element makes no repetition.
LEMMA AppendedIsInjective ==
  ASSUME NEW S, NEW s \in Seq(S), IsInjective(s), NEW x \in S, x \notin ToSet(s)
  PROVE  IsInjective(Append(s, x)) /\ ToSet(Append(s, x)) = ToSet(s) \cup {x}
<1>0. PICK t : t = Append(s, x) OBVIOUS
<1>1. /\ t \in Seq(S) /\ Len(t) = Len(s) + 1 /\ t[Len(s) + 1] = x
      /\ \A i \in 1..Len(s) : t[i] = s[i]
  BY <1>0, AppendIn
<1>2. DOMAIN t = 1..Len(s) + 1 /\ DOMAIN s = 1..Len(s) /\ Len(s) \in Nat BY <1>1
<1>3. \A i \in 1..Len(s) : t[i] \in ToSet(s) /\ t[i] = s[i] BY <1>1, <1>2 DEF ToSet
<1>4. IsInjective(t)
  <2> SUFFICES ASSUME NEW j \in 1..Len(s) + 1, NEW k \in 1..Len(s) + 1, t[j] = t[k] PROVE j = k
    BY <1>2 DEF IsInjective
  <2>1. CASE j \in 1..Len(s) /\ k \in 1..Len(s) BY <2>1, <1>2, <1>3 DEF IsInjective
  <2>2. CASE j = Len(s) + 1 /\ k \in 1..Len(s) BY <2>2, <1>1, <1>3
  <2>3. CASE k = Len(s) + 1 /\ j \in 1..Len(s) BY <2>3, <1>1, <1>3
  <2> QED BY <2>1, <2>2, <2>3, <1>2
<1>5. ToSet(t) = ToSet(s) \cup {x}
  <2>1. 1..Len(s) + 1 = 1..Len(s) \cup {Len(s) + 1} BY <1>2
  <2> QED BY <2>1, <1>1, <1>2 DEF ToSet
<1>6. IsInjective(Append(s, x)) BY <1>0, <1>4
<1>7. ToSet(Append(s, x)) = ToSet(s) \cup {x} BY <1>0, <1>5
<1> QED BY <1>6, <1>7

\* The rest of a sequence without repetitions has all of it but the head.
LEMMA TailInjective ==
  ASSUME NEW S, NEW s \in Seq(S), IsInjective(s), s # <<>>
  PROVE  /\ Tail(s) \in Seq(S) /\ IsInjective(Tail(s)) /\ Len(Tail(s)) = Len(s) - 1
         /\ ToSet(Tail(s)) = ToSet(s) \ {Head(s)} /\ Head(s) = s[1]
<1> DEFINE t == Tail(s)
<1>1. /\ t \in Seq(S) /\ Len(t) = Len(s) - 1 /\ Len(s) \in Nat /\ Len(s) >= 1 /\ Head(s) = s[1]
      /\ \A i \in 1..Len(s) - 1 : t[i] = s[i + 1]
  OBVIOUS
<1> HIDE DEF t
<1>2. DOMAIN t = 1..Len(s) - 1 /\ DOMAIN s = 1..Len(s) BY <1>1
<1>3. \A i \in 1..Len(s) - 1 : i + 1 \in 1..Len(s) BY <1>1
<1>4. IsInjective(t)
  <2> SUFFICES ASSUME NEW j \in 1..Len(s) - 1, NEW k \in 1..Len(s) - 1, t[j] = t[k] PROVE j = k
    BY <1>2 DEF IsInjective
  <2>1. j + 1 = k + 1 BY <1>1, <1>2, <1>3 DEF IsInjective
  <2> QED BY <2>1
<1>5. ASSUME NEW x \in ToSet(t) PROVE x \in ToSet(s) \ {s[1]}
  <2>1. PICK j \in 1..Len(s) - 1 : x = t[j] BY <1>2, <1>5 DEF ToSet
  <2>2. j + 1 \in 1..Len(s) /\ j + 1 # 1 /\ x = s[j + 1] /\ 1 \in 1..Len(s) BY <2>1, <1>1, <1>3
  <2>3. s[j + 1] # s[1] BY <2>2, <1>2 DEF IsInjective
  <2> QED BY <2>2, <2>3, <1>2 DEF ToSet
<1>6. ASSUME NEW x \in ToSet(s) \ {s[1]} PROVE x \in ToSet(t)
  <2>1. PICK m \in 1..Len(s) : x = s[m] BY <1>2, <1>6 DEF ToSet
  <2> DEFINE p == m - 1
  <2>2. m # 1 BY <2>1, <1>6
  <2>3. p \in 1..Len(s) - 1 /\ p + 1 = m BY <2>2, <1>1
  <2>4. t[p] = x BY <2>1, <2>3, <1>1
  <2> QED BY <2>3, <2>4, <1>2 DEF ToSet
<1>7. ToSet(t) = ToSet(s) \ {s[1]} BY <1>5, <1>6
<1> QED BY <1>1, <1>4, <1>7 DEF t

\* Where the elements of two sequences are in their concatenation.
LEMMA Concatenated ==
  ASSUME NEW S, NEW s \in Seq(S), NEW t \in Seq(S)
  PROVE  /\ s \o t \in Seq(S) /\ DOMAIN (s \o t) = 1..(Len(s) + Len(t)) /\ Len(s) \in Nat /\ Len(t) \in Nat
         /\ Len(s \o t) = Len(s) + Len(t)
         /\ \A i \in 1..Len(s) : (s \o t)[i] = s[i]
         /\ \A i \in 1..Len(t) : (s \o t)[Len(s) + i] = t[i]
<1>1. s \o t \in Seq(S) /\ Len(s) \in Nat /\ Len(t) \in Nat /\ Len(s \o t) = Len(s) + Len(t) OBVIOUS
<1>2. DOMAIN (s \o t) = 1..(Len(s) + Len(t)) BY <1>1
<1>3. \A i \in 1..Len(s) : (s \o t)[i] = s[i] OBVIOUS
<1>4. \A i \in 1..Len(t) : (s \o t)[Len(s) + i] = t[i] OBVIOUS
<1> QED BY <1>1, <1>2, <1>3, <1>4

\* Every element of a finite set is in the sequence of its elements.
LEMMA SequenceOfSet ==
  ASSUME NEW S, IsFiniteSet(S)
  PROVE  SetToSeq(S) \in Seq(S) /\ ToSet(SetToSeq(S)) = S
<1> DEFINE n == Cardinality(S)
           f == SetToSeq(S)
<1>1. n \in Nat /\ ExistsBijection(1..n, S) BY FS_CardinalityType
<1>2. PICK g : g \in Bijection(1..n, S) BY <1>1 DEF ExistsBijection
<1>3. g \in [1..n -> S] /\ IsInjective(g) BY <1>2 DEF Bijection, Injection, IsInjective
<1>4. f \in [1..n -> S] /\ IsInjective(f) BY <1>3 DEF SetToSeq
<1>5. f \in Injection(1..n, S) BY <1>4 DEF Injection, IsInjective
<1>6. IsFiniteSet(1..n) /\ Cardinality(1..n) = n
  <2>1. 1 \in Int /\ n \in Int BY <1>1
  <2>2. IsFiniteSet(1..n) /\ Cardinality(1..n) = IF 1 > n THEN 0 ELSE n - 1 + 1 BY <2>1, FS_Interval
  <2> HIDE DEF n
  <2> QED BY <1>1, <2>2
<1>7. f \in Surjection(1..n, S) BY <1>5, <1>6, FS_Injection
<1> HIDE DEF f, n
<1>8. f \in Seq(S) BY <1>1, <1>4
<1>9. DOMAIN f = 1..n /\ (\A i \in 1..n : f[i] \in S) BY <1>4
<1>10. \A x \in S : \E i \in 1..n : f[i] = x BY <1>7 DEF Surjection
<1>11. ToSet(f) = S BY <1>9, <1>10 DEF ToSet
<1> QED BY <1>8, <1>11 DEF f

-----------------------------------------------------------------------------
(* A session of the file manager *)

LinkType == [stage: Stages, protocol: {"auto", "sftp", "scp"},
             conn: {"none", "open", "closed"}, service: {"none", "sftp", "scp"}]
RemotePanelType == [dir: Dirs \cup {None}, loading: BOOLEAN, shown: Dirs \cup {None}, cached: SUBSET Dirs]
TextEditorType == [token: 0..Calls, open: BOOLEAN, locked: BOOLEAN, savable: BOOLEAN, text: 0..Calls,
                   status: {"loading", "saving", "idle", "error"}]
LoopStates == {"running", "finalizing", "stopped", "revived"}
MessageType == [msg: Messages, dir: Dirs \cup {None}, token: 0..Calls]

\* The text of the editor e is that which its dialog read.
HasOwnText(e) == e.text = e.token

\* A coroutine fits the editor e: of a directory, of a dialog that was opened,
\* and what it saves was read by that dialog.
TaskFits(t, e) ==
  /\ \E i : t \in [kind: Kinds, dir: Dirs \cup {None}, token: 0..Calls, text: 0..Calls, step: {"begin", "wait"}, id: {i}]
  /\ t.kind \in {"load", "probe"} => t.dir \in Dirs
  /\ t.token <= e.token
  /\ t.kind = "write" => t.text = t.token
  /\ t.kind = "write" /\ t.token = e.token => HasOwnText(e)

\* So does an answer: one about a save is of a dialog that has read its text.
AnswerFits(m, e) ==
  /\ m \in MessageType
  /\ m.msg \in {"connected", "cd", "listing"} => m.dir \in Dirs
  /\ m.token <= e.token
  /\ m.msg \in {"saved", "unsaved"} /\ m.token = e.token => HasOwnText(e)

TasksFit(ts, e) == IsFiniteSet(ts) /\ \A t \in ts : TaskFits(t, e)
InboxFits(q, e) == q \in Seq(MessageType) /\ \A i \in 1..Len(q) : AnswerFits(q[i], e)

\* The editors that may still open: those asked for, and those about to.
ProbesOf(ts) == {t \in ts : t.kind = "probe"}
Opens(q) == {i \in 1..Len(q) : q[i].msg = "openEditor"}
ToOpen(ts, q) == Cardinality(ProbesOf(ts)) + Cardinality(Opens(q))

FilesInv ==
  /\ link \in LinkType /\ panel \in RemotePanelType /\ editor \in TextEditorType
  /\ executor \in LoopStates /\ called \in 0..Calls
  /\ TasksFit(tasks, editor) /\ InboxFits(inbox, editor)
  /\ editor.savable => HasOwnText(editor)
  /\ editor.token + ToOpen(tasks, inbox) <= called
  /\ RowsBelong

-----------------------------------------------------------------------------
(* How many editors may still open *)

\* The coroutines that look whether a file is a text are finitely many.
LEMMA ProbesAreFinite ==
  ASSUME NEW ts, IsFiniteSet(ts)
  PROVE  IsFiniteSet(ProbesOf(ts)) /\ Cardinality(ProbesOf(ts)) \in Nat
<1>1. ProbesOf(ts) \in SUBSET ts BY DEF ProbesOf
<1>2. IsFiniteSet(ProbesOf(ts)) BY <1>1, FS_Subset
<1> QED BY <1>2, FS_CardinalityType

\* The answers that wait to open the editor are finitely many.
LEMMA OpensIsFinite ==
  ASSUME NEW q \in Seq(MessageType)
  PROVE  IsFiniteSet(Opens(q)) /\ Cardinality(Opens(q)) \in Nat
<1>1. Opens(q) \in SUBSET (1..Len(q)) BY DEF Opens
<1>2. IsFiniteSet(1..Len(q)) BY FS_Interval
<1>3. IsFiniteSet(Opens(q)) BY <1>1, <1>2, FS_Subset
<1> QED BY <1>3, FS_CardinalityType

\* What may still open the editor can be counted.
LEMMA ToOpenCount ==
  ASSUME NEW ts, IsFiniteSet(ts), NEW q \in Seq(MessageType)
  PROVE  ToOpen(ts, q) \in Nat
BY ProbesAreFinite, OpensIsFinite DEF ToOpen

\* One more coroutine.
LEMMA AskedGrows ==
  ASSUME NEW ts, IsFiniteSet(ts), NEW t
  PROVE  /\ IsFiniteSet(ts \cup {t})
         /\ Cardinality(ProbesOf(ts \cup {t})) <= Cardinality(ProbesOf(ts)) + 1
         /\ t.kind # "probe" => Cardinality(ProbesOf(ts \cup {t})) = Cardinality(ProbesOf(ts))
<1>1. IsFiniteSet(ts \cup {t}) BY FS_AddElement
<1>2. CASE t.kind = "probe"
  <2>3. PICK a : a = ProbesOf(ts) OBVIOUS
  <2>1. ProbesOf(ts \cup {t}) = a \cup {t} BY <1>2, <2>3 DEF ProbesOf
  <2>2. Cardinality(a) \in Nat /\ IsFiniteSet(a) BY <2>3, ProbesAreFinite
  <2>4. Cardinality(a \cup {t}) = Cardinality(a) \/ Cardinality(a \cup {t}) = Cardinality(a) + 1
    BY <2>2, FS_AddElement
  <2>5. Cardinality(a \cup {t}) <= Cardinality(a) + 1 BY <2>2, <2>4
  <2> QED BY <1>1, <1>2, <2>1, <2>3, <2>5
<1>3. CASE t.kind # "probe"
  <2>1. ProbesOf(ts \cup {t}) = ProbesOf(ts) BY <1>3 DEF ProbesOf
  <2>2. Cardinality(ProbesOf(ts)) \in Nat BY ProbesAreFinite
  <2> QED BY <1>1, <2>1, <2>2
<1> QED BY <1>2, <1>3

\* A coroutine ends.
LEMMA AskedShrinks ==
  ASSUME NEW ts, IsFiniteSet(ts), NEW t \in ts
  PROVE  /\ IsFiniteSet(ts \ {t})
         /\ Cardinality(ProbesOf(ts \ {t})) <= Cardinality(ProbesOf(ts))
         /\ t.kind = "probe" => Cardinality(ProbesOf(ts \ {t})) = Cardinality(ProbesOf(ts)) - 1
<1>1. IsFiniteSet(ts \ {t}) BY FS_RemoveElement
<1>2. IsFiniteSet(ProbesOf(ts)) /\ Cardinality(ProbesOf(ts)) \in Nat BY ProbesAreFinite
<1>3. PICK a : a = ProbesOf(ts) OBVIOUS
<1>4. CASE t.kind = "probe"
  <2>1. ProbesOf(ts \ {t}) = a \ {t} /\ t \in a BY <1>3, <1>4 DEF ProbesOf
  <2>2. Cardinality(a \ {t}) = Cardinality(a) - 1 BY <1>2, <1>3, <2>1, FS_RemoveElement
  <2>3. PICK n : n = Cardinality(a) OBVIOUS
  <2>4. n \in Nat BY <1>2, <1>3, <2>3
  <2>5. n - 1 <= n BY <2>4
  <2>6. Cardinality(ProbesOf(ts \ {t})) = n - 1 /\ Cardinality(ProbesOf(ts)) = n BY <1>3, <2>1, <2>2, <2>3
  <2> QED BY <1>1, <2>5, <2>6
<1>5. CASE t.kind # "probe"
  <2>1. ProbesOf(ts \ {t}) = a BY <1>3, <1>5 DEF ProbesOf
  <2> QED BY <1>1, <1>2, <1>3, <1>5, <2>1
<1> QED BY <1>4, <1>5

\* One more answer.
LEMMA OpensGrows ==
  ASSUME NEW q \in Seq(MessageType), NEW m \in MessageType
  PROVE  /\ Cardinality(Opens(Append(q, m))) <= Cardinality(Opens(q)) + 1
         /\ m.msg # "openEditor" => Cardinality(Opens(Append(q, m))) = Cardinality(Opens(q))
<1>1. PICK r : r = Append(q, m) OBVIOUS
<1>2. /\ Len(r) = Len(q) + 1 /\ r[Len(q) + 1] = m /\ Len(q) \in Nat
      /\ \A i \in 1..Len(q) : r[i] = q[i]
  BY <1>1, AppendIn
<1>3. IsFiniteSet(Opens(q)) /\ Cardinality(Opens(q)) \in Nat BY OpensIsFinite
<1>4. \A i : i \in 1..Len(r) <=> i \in 1..Len(q) \/ i = Len(q) + 1 BY <1>2
<1>5. PICK a : a = Opens(q) OBVIOUS
<1>6. CASE m.msg = "openEditor"
  <2>1. Opens(r) = a \cup {Len(q) + 1} BY <1>2, <1>4, <1>5, <1>6 DEF Opens
  <2>2. PICK x : x = Len(q) + 1 OBVIOUS
  <2>3. Cardinality(a \cup {x}) = Cardinality(a) \/ Cardinality(a \cup {x}) = Cardinality(a) + 1
    BY <1>3, <1>5, FS_AddElement
  <2> QED BY <1>1, <1>3, <1>5, <1>6, <2>1, <2>2, <2>3
<1>7. CASE m.msg # "openEditor"
  <2>1. Opens(r) = a BY <1>2, <1>4, <1>5, <1>7 DEF Opens
  <2> QED BY <1>1, <1>3, <1>5, <2>1
<1> QED BY <1>6, <1>7

\* The first answer is handled.
LEMMA OpensShrinks ==
  ASSUME NEW q \in Seq(MessageType), q # <<>>
  PROVE  /\ Cardinality(Opens(Tail(q))) <= Cardinality(Opens(q))
         /\ Head(q).msg = "openEditor" => Cardinality(Opens(Tail(q))) + 1 <= Cardinality(Opens(q))
<1>1. PICK r : r = Tail(q) OBVIOUS
<1>2. /\ r \in Seq(MessageType) /\ Len(r) = Len(q) - 1 /\ Len(q) \in Nat /\ Len(q) >= 1 /\ Head(q) = q[1]
      /\ \A i \in 1..Len(q) - 1 : r[i] = q[i + 1]
  BY <1>1
<1>3. IsFiniteSet(Opens(q)) /\ Cardinality(Opens(q)) \in Nat BY OpensIsFinite
<1>4. PICK a : a = Opens(q) OBVIOUS
<1> DEFINE f == [i \in a \ {1} |-> i - 1]
<1>5. f \in Surjection(a \ {1}, Opens(r))
  <2>1. ASSUME NEW i \in a \ {1} PROVE f[i] \in Opens(r)
    <3>1. i \in 1..Len(q) /\ i # 1 /\ q[i].msg = "openEditor" BY <1>4 DEF Opens
    <3>2. i - 1 \in 1..Len(q) - 1 /\ (i - 1) + 1 = i BY <1>2, <3>1
    <3>3. r[i - 1] = q[i] BY <1>2, <3>2
    <3> QED BY <1>2, <3>1, <3>2, <3>3 DEF Opens
  <2>2. ASSUME NEW j \in Opens(r) PROVE \E i \in a \ {1} : f[i] = j
    <3>1. j \in 1..Len(q) - 1 /\ r[j].msg = "openEditor" BY <1>2 DEF Opens
    <3>2. j + 1 \in 1..Len(q) /\ j + 1 # 1 /\ (j + 1) - 1 = j BY <1>2, <3>1
    <3>3. q[j + 1].msg = "openEditor" BY <1>2, <3>1
    <3>4. j + 1 \in a \ {1} BY <1>4, <3>2, <3>3 DEF Opens
    <3>5. f[j + 1] = j BY <3>2, <3>4
    <3> QED BY <3>4, <3>5
  <2> QED BY <2>1, <2>2 DEF Surjection
<1>6. IsFiniteSet(a \ {1}) BY <1>3, <1>4, FS_RemoveElement
<1>7. Cardinality(Opens(r)) <= Cardinality(a \ {1}) BY <1>5, <1>6, FS_Surjection
<1>8. Cardinality(a \ {1}) = IF 1 \in a THEN Cardinality(a) - 1 ELSE Cardinality(a) BY <1>3, <1>4, FS_RemoveElement
<1>9. Head(q).msg = "openEditor" => 1 \in a BY <1>2, <1>4 DEF Opens
<1>10. Cardinality(Opens(r)) \in Nat BY <1>2, OpensIsFinite
<1> QED BY <1>1, <1>3, <1>4, <1>7, <1>8, <1>9, <1>10

-----------------------------------------------------------------------------
(* Coroutines, answers and the editor *)

\* The editor goes on with its dialog, or is a new one.
GoesOn(e, f) == f.token = e.token /\ (HasOwnText(e) => HasOwnText(f))
IsNewer(e, f) == f.token = e.token + 1

\* Tasks and answers that fit an editor fit it while it goes on and when it is opened anew: its
\* token only grows.
LEMMA StillFits ==
  ASSUME NEW e \in TextEditorType, NEW f \in TextEditorType, GoesOn(e, f) \/ IsNewer(e, f)
  PROVE  /\ \A ts : TasksFit(ts, e) => TasksFit(ts, f)
         /\ \A q : InboxFits(q, e) => InboxFits(q, f)
<1>1. e.token \in Nat /\ f.token \in Nat BY FilesAssumption DEF TextEditorType
<1>2. ASSUME NEW t, TaskFits(t, e) PROVE TaskFits(t, f)
  <2>1. t.token \in Nat BY <1>2, FilesAssumption DEF TaskFits
  <2>2. t.token <= f.token BY <1>1, <1>2, <2>1 DEF TaskFits, GoesOn, IsNewer
  <2>3. t.token = f.token => GoesOn(e, f) BY <1>1, <1>2, <2>1 DEF TaskFits, IsNewer
  <2>4. t.kind = "write" /\ t.token = f.token => HasOwnText(f) BY <1>2, <2>3 DEF TaskFits, GoesOn
  <2> QED BY <1>2, <2>2, <2>4 DEF TaskFits
<1>3. ASSUME NEW m, AnswerFits(m, e) PROVE AnswerFits(m, f)
  <2>1. m.token \in Nat BY <1>3, FilesAssumption DEF AnswerFits, MessageType
  <2>2. m.token <= f.token BY <1>1, <1>3, <2>1 DEF AnswerFits, GoesOn, IsNewer
  <2>3. m.token = f.token => GoesOn(e, f) BY <1>1, <1>3, <2>1 DEF AnswerFits, IsNewer
  <2>4. m.msg \in {"saved", "unsaved"} /\ m.token = f.token => HasOwnText(f)
    BY <1>3, <2>3 DEF AnswerFits, GoesOn
  <2> QED BY <1>3, <2>2, <2>4 DEF AnswerFits
<1> QED BY <1>2, <1>3 DEF TasksFit, InboxFits

\* The fields of a new coroutine.
LEMMA TaskIs ==
  ASSUME NEW kind \in Kinds, NEW dir \in Dirs \cup {None}, NEW token \in 0..Calls, NEW text \in 0..Calls
  PROVE  /\ \E i : Task(kind, dir, token, text) \in [kind: Kinds, dir: Dirs \cup {None}, token: 0..Calls,
                                                    text: 0..Calls, step: {"begin", "wait"}, id: {i}]
         /\ Task(kind, dir, token, text).kind = kind /\ Task(kind, dir, token, text).dir = dir
         /\ Task(kind, dir, token, text).token = token /\ Task(kind, dir, token, text).text = text
<1>1. PICK i : i = CHOOSE n \in 1..(Cardinality(tasks) + 1) : \A t \in tasks : t.id # n OBVIOUS
<1>2. Task(kind, dir, token, text) =
        [kind |-> kind, dir |-> dir, token |-> token, text |-> text, step |-> "begin", id |-> i]
  BY <1>1 DEF Task
<1>3. Task(kind, dir, token, text) \in [kind: Kinds, dir: Dirs \cup {None}, token: 0..Calls,
                                         text: 0..Calls, step: {"begin", "wait"}, id: {i}]
  BY <1>2
<1> QED BY <1>2, <1>3

\* A request: the coroutine fits, and only that of a probe may open an editor.
LEMMA Submitted ==
  ASSUME NEW e \in TextEditorType, TasksFit(tasks, e), executor \in LoopStates,
         NEW kind \in Kinds, NEW dir \in Dirs \cup {None}, NEW token \in 0..Calls, NEW text \in 0..Calls,
         kind \in {"load", "probe"} => dir \in Dirs, token <= e.token,
         kind = "write" => text = token /\ HasOwnText(e),
         Submit(Task(kind, dir, token, text))
  PROVE  /\ TasksFit(tasks', e) /\ executor' \in LoopStates
         /\ Cardinality(ProbesOf(tasks')) <= Cardinality(ProbesOf(tasks)) + 1
         /\ kind # "probe" => Cardinality(ProbesOf(tasks')) = Cardinality(ProbesOf(tasks))
<1>1. PICK t : t = Task(kind, dir, token, text) OBVIOUS
<1>2. /\ \E i : t \in [kind: Kinds, dir: Dirs \cup {None}, token: 0..Calls, text: 0..Calls,
                      step: {"begin", "wait"}, id: {i}]
      /\ t.kind = kind /\ t.dir = dir /\ t.token = token /\ t.text = text
  BY <1>1, TaskIs
<1>3. TaskFits(t, e) BY <1>2 DEF TaskFits
<1>4. tasks' = tasks \cup {t} BY <1>1 DEF Submit
<1>5. executor' \in LoopStates BY DEF Submit, LoopStates
<1>6. IsFiniteSet(tasks) BY DEF TasksFit
<1>7. /\ IsFiniteSet(tasks \cup {t})
      /\ Cardinality(ProbesOf(tasks \cup {t})) <= Cardinality(ProbesOf(tasks)) + 1
      /\ t.kind # "probe" => Cardinality(ProbesOf(tasks \cup {t})) = Cardinality(ProbesOf(tasks))
  BY <1>6, AskedGrows
<1>8. TasksFit(tasks', e) BY <1>3, <1>4, <1>7 DEF TasksFit
<1> QED BY <1>2, <1>4, <1>5, <1>7, <1>8

\* A directory is asked for, or the panel is told of it only.
LEMMA Refreshed ==
  ASSUME NEW e \in TextEditorType, TasksFit(tasks, e), executor \in LoopStates,
         NEW p \in RemotePanelType, p.shown # None => ~p.loading /\ p.dir # None, Refresh(p)
  PROVE  /\ panel' \in RemotePanelType /\ RowsBelong'
         /\ TasksFit(tasks', e) /\ executor' \in LoopStates
         /\ Cardinality(ProbesOf(tasks')) = Cardinality(ProbesOf(tasks))
<1>1. CASE p.dir # None /\ (~p.loading \/ ~LoopRuns)
  <2>1. panel' = [p EXCEPT !.loading = TRUE, !.shown = None] /\ Submit(Task("load", p.dir, 0, Unread))
    BY <1>1 DEF Refresh
  <2>2. panel' \in RemotePanelType /\ panel'.shown = None BY <2>1 DEF RemotePanelType
  <2>3. p.dir \in Dirs BY <1>1 DEF RemotePanelType
  <2>4. "load" \in Kinds /\ 0 \in 0..Calls /\ Unread \in 0..Calls /\ 0 <= e.token
    BY FilesAssumption DEF Kinds, Unread, TextEditorType
  <2>5. /\ TasksFit(tasks', e) /\ executor' \in LoopStates
        /\ Cardinality(ProbesOf(tasks')) = Cardinality(ProbesOf(tasks))
    BY <2>1, <2>3, <2>4, Submitted
  <2> QED BY <2>2, <2>5 DEF RowsBelong
<1>2. CASE ~(p.dir # None /\ (~p.loading \/ ~LoopRuns))
  <2>1. panel' = p /\ UNCHANGED <<tasks, executor>> BY <1>2 DEF Refresh
  <2>2. p.shown = None BY <1>2
  <2> QED BY <2>1, <2>2 DEF RowsBelong
<1> QED BY <1>1, <1>2

\* A listing that is asked for empties no row that belongs, and starts no probe.
LEMMA PanelRefreshed ==
  ASSUME FilesInv, NEW e \in TextEditorType, TasksFit(tasks, e),
         \/ \E d \in Dirs : ChangeDirectory(d)
         \/ Reread \/ Refresh(panel)
  PROVE  /\ panel' \in RemotePanelType /\ RowsBelong'
         /\ TasksFit(tasks', e) /\ executor' \in LoopStates
         /\ Cardinality(ProbesOf(tasks')) = Cardinality(ProbesOf(tasks))
<1>1. panel \in RemotePanelType /\ executor \in LoopStates BY DEF FilesInv
<1>2. panel.shown # None => ~panel.loading /\ panel.dir # None BY DEF FilesInv, RowsBelong
<1>3. ASSUME NEW d \in Dirs, ChangeDirectory(d)
      PROVE  \E p \in RemotePanelType : (p.shown # None => ~p.loading /\ p.dir # None) /\ Refresh(p)
  <2>1. PICK p : p = [panel EXCEPT !.dir = d] OBVIOUS
  <2>2. p \in RemotePanelType /\ p.dir # None /\ p.shown = panel.shown /\ (p.loading <=> panel.loading)
    BY <1>1, <2>1, FilesAssumption DEF RemotePanelType
  <2> QED BY <1>2, <1>3, <2>1, <2>2 DEF ChangeDirectory
<1>4. ASSUME Reread
      PROVE  \E p \in RemotePanelType : (p.shown # None => ~p.loading /\ p.dir # None) /\ Refresh(p)
  <2>1. PICK p : p = [panel EXCEPT !.cached = {}] OBVIOUS
  <2>2. p \in RemotePanelType /\ p.dir = panel.dir /\ p.shown = panel.shown /\ (p.loading <=> panel.loading)
    BY <1>1, <2>1 DEF RemotePanelType
  <2> QED BY <1>2, <1>4, <2>1, <2>2 DEF Reread
<1>5. PICK p \in RemotePanelType : (p.shown # None => ~p.loading /\ p.dir # None) /\ Refresh(p)
  BY <1>1, <1>2, <1>3, <1>4
<1> QED BY <1>1, <1>5, Refreshed

-----------------------------------------------------------------------------
(* Answers *)

\* The fields of an answer to the GUI thread.
LEMMA MessageIs ==
  ASSUME NEW msg \in Messages, NEW dir \in Dirs \cup {None}, NEW token \in 0..Calls
  PROVE  /\ Message(msg, dir, token) \in MessageType /\ Message(msg, dir, token).msg = msg
         /\ Message(msg, dir, token).dir = dir /\ Message(msg, dir, token).token = token
BY DEF Message, MessageType

\* An answer that fits the editor joins the inbox; only "openEditor" counts as one that may
\* open it.
LEMMA Emitted ==
  ASSUME NEW e, InboxFits(inbox, e), NEW m, AnswerFits(m, e), Emit(m)
  PROVE  /\ InboxFits(inbox', e)
         /\ Cardinality(Opens(inbox')) <= Cardinality(Opens(inbox)) + 1
         /\ m.msg # "openEditor" => Cardinality(Opens(inbox')) = Cardinality(Opens(inbox))
<1>1. inbox \in Seq(MessageType) /\ m \in MessageType BY DEF InboxFits, AnswerFits
<1>2. PICK r : r = Append(inbox, m) OBVIOUS
<1>3. /\ r \in Seq(MessageType) /\ Len(r) = Len(inbox) + 1 /\ r[Len(inbox) + 1] = m
      /\ \A i \in 1..Len(inbox) : r[i] = inbox[i]
  BY <1>1, <1>2, AppendIn
<1>4. \A i : i \in 1..Len(r) => i \in 1..Len(inbox) \/ i = Len(inbox) + 1 BY <1>1, <1>3
<1>5. InboxFits(r, e) BY <1>3, <1>4 DEF InboxFits
<1>6. inbox' = r BY <1>2 DEF Emit
<1> QED BY <1>1, <1>2, <1>5, <1>6, OpensGrows

\* A coroutine ends: its answer fits, and opens an editor only if that was asked.
LEMMA EndsFits ==
  ASSUME FilesInv, NEW t \in tasks, NEW m, AnswerFits(m, editor), m.msg = "openEditor" => t.kind = "probe", Ends(t, m)
  PROVE  /\ TasksFit(tasks', editor) /\ InboxFits(inbox', editor)
         /\ ToOpen(tasks', inbox') <= ToOpen(tasks, inbox)
<1>1. TasksFit(tasks, editor) /\ InboxFits(inbox, editor) BY DEF FilesInv
<1>2. tasks' = tasks \ {t} /\ Emit(m) BY DEF Ends
<1>3. IsFiniteSet(tasks) BY <1>1 DEF TasksFit
<1>4. /\ IsFiniteSet(tasks')
      /\ Cardinality(ProbesOf(tasks')) <= Cardinality(ProbesOf(tasks))
      /\ t.kind = "probe" => Cardinality(ProbesOf(tasks')) = Cardinality(ProbesOf(tasks)) - 1
  BY <1>2, <1>3, AskedShrinks
<1>5. /\ InboxFits(inbox', editor)
      /\ Cardinality(Opens(inbox')) <= Cardinality(Opens(inbox)) + 1
      /\ m.msg # "openEditor" => Cardinality(Opens(inbox')) = Cardinality(Opens(inbox))
  BY <1>1, <1>2, Emitted
<1>6. TasksFit(tasks', editor) BY <1>1, <1>2, <1>4 DEF TasksFit
<1>7. /\ Cardinality(ProbesOf(tasks)) \in Nat /\ Cardinality(ProbesOf(tasks')) \in Nat
      /\ Cardinality(Opens(inbox)) \in Nat /\ Cardinality(Opens(inbox')) \in Nat
  BY <1>1, <1>3, <1>4, <1>5, ProbesAreFinite, OpensIsFinite DEF InboxFits
<1>8. CASE m.msg = "openEditor" BY <1>4, <1>5, <1>6, <1>7, <1>8 DEF ToOpen
<1>9. CASE m.msg # "openEditor" BY <1>4, <1>5, <1>6, <1>7, <1>9 DEF ToOpen
<1> QED BY <1>8, <1>9

\* The initial states of the file manager satisfy its invariant.
LEMMA FilesInitial == FilesInit => FilesInv
<1> SUFFICES ASSUME FilesInit PROVE FilesInv OBVIOUS
<1>1. link \in LinkType BY DEF FilesInit, LinkType, Stages
<1>2. panel \in RemotePanelType /\ panel.shown = None BY DEF FilesInit, NoPanel, RemotePanelType
<1>3. editor \in TextEditorType /\ editor.token = 0 /\ ~editor.savable
  BY FilesAssumption DEF FilesInit, NoEditor, TextEditorType, Unread
<1>4. executor \in LoopStates /\ called = 0 /\ called \in 0..Calls BY FilesAssumption DEF FilesInit, LoopStates
<1>5. TasksFit(tasks, editor) /\ ProbesOf(tasks) = {} BY FS_EmptySet DEF FilesInit, TasksFit, ProbesOf
<1>6. InboxFits(inbox, editor) /\ Opens(inbox) = {}
  <2>1. inbox = <<>> BY DEF FilesInit
  <2>2. inbox \in Seq(MessageType) /\ Len(inbox) = 0 BY <2>1
  <2>3. \A i \in 1..Len(inbox) : FALSE BY <2>2
  <2> QED BY <2>2, <2>3 DEF InboxFits, Opens
<1>7. ToOpen(tasks, inbox) = 0 BY <1>5, <1>6, FS_EmptySet DEF ToOpen
<1>8. editor.token + ToOpen(tasks, inbox) <= called BY <1>3, <1>4, <1>7
<1> QED BY <1>1, <1>2, <1>3, <1>4, <1>5, <1>6, <1>8 DEF FilesInv, RowsBelong

-----------------------------------------------------------------------------
(* The connection and the coroutines *)

\* A connection that is asked for keeps the invariant, whatever the window showed before.
LEMMA OpenConnectionKept == ASSUME FilesInv, OpenConnection PROVE FilesInv'
<1>1. link' \in LinkType BY DEF OpenConnection, FilesInv, LinkType, Stages
<1>2. UNCHANGED <<panel, editor, tasks, inbox, executor, called>> BY DEF OpenConnection
<1> QED BY <1>1, <1>2 DEF FilesInv, RowsBelong

\* An answer that opens no editor, in place of nothing else.
LEMMA ConnectAnswers ==
  ASSUME FilesInv, link' \in LinkType, UNCHANGED <<panel, editor, tasks, executor, called>>,
         \/ UNCHANGED inbox
         \/ Emit(Message("refused", None, 0)) \/ Emit(Message("connected", Home, 0))
  PROVE  FilesInv'
<1>1. InboxFits(inbox', editor) /\ Cardinality(Opens(inbox')) = Cardinality(Opens(inbox))
  <2>1. CASE UNCHANGED inbox BY <2>1 DEF FilesInv
  <2>2. 0 \in 0..Calls /\ 0 <= editor.token BY FilesAssumption DEF FilesInv, TextEditorType
  <2>3. \A msg \in {"refused", "connected"}, dir \in {None, Home} :
          msg \in Messages /\ dir \in Dirs \cup {None} BY FilesAssumption DEF Messages
  <2>4. ASSUME NEW msg \in {"refused", "connected"}, NEW dir \in {None, Home}, msg = "connected" => dir = Home,
               Emit(Message(msg, dir, 0))
        PROVE  InboxFits(inbox', editor) /\ Cardinality(Opens(inbox')) = Cardinality(Opens(inbox))
    <3>1. PICK m : m = Message(msg, dir, 0) OBVIOUS
    <3>2. m \in MessageType /\ m.msg = msg /\ m.dir = dir /\ m.token = 0 BY <2>2, <2>3, <3>1, MessageIs
    <3>3. AnswerFits(m, editor) /\ m.msg # "openEditor" BY <2>2, <2>4, <3>2, FilesAssumption DEF AnswerFits
    <3>4. InboxFits(inbox, editor) /\ Emit(m) BY <2>4, <3>1 DEF FilesInv
    <3> QED BY <3>3, <3>4, Emitted
  <2> QED BY <2>1, <2>4
<1>2. ToOpen(tasks', inbox') = ToOpen(tasks, inbox) BY <1>1 DEF ToOpen
<1> QED BY <1>1, <1>2 DEF FilesInv, RowsBelong

\* A step of the connecting coroutine, its failure included, keeps the invariant.
LEMMA ConnectStepKept == ASSUME FilesInv, ConnectStep PROVE FilesInv'
<1>1. UNCHANGED <<panel, editor, tasks, executor, called>> BY DEF ConnectStep
<1>2. link \in LinkType BY DEF FilesInv
<1>3. ASSUME Refused PROVE link' \in LinkType /\ Emit(Message("refused", None, 0))
  BY <1>2, <1>3 DEF Refused, LinkType, Stages
<1>4. ASSUME NEW s \in {"sftp", "scp"}, Established(s)
      PROVE  link' \in LinkType /\ Emit(Message("connected", Home, 0))
  BY <1>2, <1>4 DEF Established, LinkType, Stages
<1>5. ASSUME NEW stage \in Stages, NEW c \in {"none", "open", "closed"},
             link' = [link EXCEPT !.conn = c, !.stage = stage] \/ link' = [link EXCEPT !.stage = stage]
      PROVE  link' \in LinkType
  BY <1>2, <1>5 DEF LinkType
<1>6. CASE Dials BY <1>1, <1>3, <1>5, <1>6, ConnectAnswers DEF Dials, Stages
<1>7. CASE StartsSftp BY <1>1, <1>3, <1>5, <1>7, ConnectAnswers DEF StartsSftp, Stages
<1>8. CASE ProbesSftp BY <1>1, <1>3, <1>4, <1>5, <1>8, ConnectAnswers DEF ProbesSftp, Stages
<1>9. CASE ProbesScp BY <1>1, <1>3, <1>4, <1>9, ConnectAnswers DEF ProbesScp
<1> QED BY <1>6, <1>7, <1>8, <1>9 DEF ConnectStep

\* A coroutine of the loop that begins, ends or fails keeps the invariant: what it answers fits
\* the editor.
LEMMA TaskStepKept == ASSUME FilesInv, TaskStep PROVE FilesInv'
<1>1. PICK t \in tasks :
        \/ t.kind = "load" /\ LoadStep(t)
        \/ t.kind = "change" /\ ChangeStep(t) /\ UNCHANGED panel
        \/ t.kind = "probe" /\ ProbeStep(t) /\ UNCHANGED panel
        \/ t.kind \in {"read", "write"} /\ EditorStep(t) /\ UNCHANGED panel
  BY DEF TaskStep
<1>2. UNCHANGED <<link, editor, executor, called>> BY DEF TaskStep
<1>3. TaskFits(t, editor) /\ t.token \in 0..Calls /\ t.dir \in Dirs \cup {None} BY DEF FilesInv, TasksFit, TaskFits
<1>4. 0 \in 0..Calls /\ 0 <= editor.token /\ editor.token \in Nat /\ called \in Nat
  BY FilesAssumption DEF FilesInv, TextEditorType
<1>5. ASSUME NEW msg \in Messages, NEW dir \in Dirs \cup {None}, NEW token \in {0, t.token},
             msg \in {"connected", "cd", "listing"} => dir \in Dirs,
             msg \in {"saved", "unsaved"} => t.kind = "write" /\ token = t.token,
             msg = "openEditor" => t.kind = "probe", Ends(t, Message(msg, dir, token)),
             panel' \in RemotePanelType, RowsBelong'
      PROVE  FilesInv'
  <2>1. PICK m : m = Message(msg, dir, token) OBVIOUS
  <2>2. m \in MessageType /\ m.msg = msg /\ m.dir = dir /\ m.token = token BY <1>3, <1>4, <2>1, MessageIs
  <2>3. token <= editor.token BY <1>3, <1>4 DEF TaskFits
  <2>4. AnswerFits(m, editor) BY <1>3, <1>5, <2>2, <2>3 DEF AnswerFits, TaskFits
  <2>5. /\ TasksFit(tasks', editor) /\ InboxFits(inbox', editor)
        /\ ToOpen(tasks', inbox') <= ToOpen(tasks, inbox)
    BY <1>5, <2>1, <2>2, <2>4, EndsFits
  <2>6. ToOpen(tasks', inbox') \in Nat /\ ToOpen(tasks, inbox) \in Nat
    BY <2>5, ToOpenCount DEF FilesInv, TasksFit, InboxFits
  <2>7. editor.token + ToOpen(tasks, inbox) <= called BY DEF FilesInv
  <2>8. editor.token + ToOpen(tasks', inbox') <= called BY <1>4, <2>5, <2>6, <2>7
  <2> QED BY <1>2, <1>5, <2>5, <2>8 DEF FilesInv
<1>6. panel \in RemotePanelType /\ RowsBelong BY DEF FilesInv
<1>7. UNCHANGED panel => panel' \in RemotePanelType /\ RowsBelong' BY <1>6 DEF RowsBelong
<1>8. CASE t.kind = "load" /\ LoadStep(t)
  <2>1. t.dir \in Dirs BY <1>3, <1>8 DEF TaskFits
  <2>2. {"listing", "error"} \subseteq Messages BY DEF Messages
  <2>3. CASE Ends(t, Message("listing", t.dir, 0)) /\ UNCHANGED panel BY <1>5, <1>7, <2>1, <2>2, <2>3
  <2>4. CASE Ends(t, Message("error", None, 0)) /\ UNCHANGED panel BY <1>5, <1>7, <2>1, <2>2, <2>4
  <2>5. CASE panel' = [panel EXCEPT !.cached = @ \cup {t.dir}] /\ Ends(t, Message("listing", t.dir, 0))
    <3>1. panel' \in RemotePanelType /\ RowsBelong' BY <1>6, <2>1, <2>5 DEF RemotePanelType, RowsBelong
    <3> QED BY <1>5, <2>1, <2>2, <2>5, <3>1
  <2>6. CASE tasks' = (tasks \ {t}) \cup {[t EXCEPT !.step = "wait"]} /\ UNCHANGED <<panel, inbox>>
    <3>1. PICK u : u = [t EXCEPT !.step = "wait"] OBVIOUS
    <3>2. TaskFits(u, editor) /\ u.kind = "load" BY <1>3, <1>8, <3>1 DEF TaskFits
    <3>3. IsFiniteSet(tasks) BY DEF FilesInv, TasksFit
    <3>4. IsFiniteSet(tasks \ {t}) BY <3>3, FS_RemoveElement
    <3>5. tasks' = (tasks \ {t}) \cup {u} BY <2>6, <3>1
    <3>6. IsFiniteSet(tasks') BY <3>4, <3>5, FS_AddElement
    <3>7. TasksFit(tasks', editor) BY <3>2, <3>5, <3>6 DEF FilesInv, TasksFit
    <3>8. ProbesOf(tasks') = ProbesOf(tasks) BY <1>8, <3>2, <3>5 DEF ProbesOf
    <3>9. ToOpen(tasks', inbox') = ToOpen(tasks, inbox) BY <2>6, <3>8 DEF ToOpen
    <3> QED BY <1>2, <1>7, <2>6, <3>7, <3>9 DEF FilesInv
  <2> QED BY <1>8, <2>3, <2>4, <2>5, <2>6 DEF LoadStep
<1>9. CASE t.kind = "change" /\ ChangeStep(t) /\ UNCHANGED panel
  <2>1. PICK m \in {"changed", "error"} : Ends(t, Message(m, None, 0)) BY <1>9 DEF ChangeStep
  <2>2. m \in Messages BY DEF Messages
  <2> QED BY <1>5, <1>7, <1>9, <2>1, <2>2
<1>10. CASE t.kind = "probe" /\ ProbeStep(t) /\ UNCHANGED panel
  <2>1. CASE Ends(t, Message("cd", t.dir, 0))
    <3>1. t.dir \in Dirs /\ "cd" \in Messages BY <1>3, <1>10 DEF TaskFits, Messages
    <3> QED BY <1>5, <1>7, <1>10, <2>1, <3>1
  <2>2. CASE \E m \in {"openEditor", "error"} : Ends(t, Message(m, None, 0))
    <3>1. PICK m \in {"openEditor", "error"} : Ends(t, Message(m, None, 0)) BY <2>2
    <3>2. m \in Messages BY DEF Messages
    <3> QED BY <1>5, <1>7, <1>10, <3>1, <3>2
  <2> QED BY <1>10, <2>1, <2>2 DEF ProbeStep
<1>11. CASE t.kind \in {"read", "write"} /\ EditorStep(t) /\ UNCHANGED panel
  <2>1. PICK m \in {"read", "unreadable", "saved", "unsaved"} :
          Ends(t, Message(m, None, t.token)) /\ (m \in {"saved", "unsaved"} => t.kind = "write")
    BY <1>11 DEF EditorStep
  <2>2. m \in Messages BY DEF Messages
  <2> QED BY <1>5, <1>7, <1>11, <2>1, <2>2
<1> QED BY <1>1, <1>8, <1>9, <1>10, <1>11

-----------------------------------------------------------------------------
(* What the GUI thread handles *)

\* After the answer at the head, the rest still fits, and one editor less may open.
LEMMA Handled ==
  ASSUME NEW e, InboxFits(inbox, e), inbox # <<>>, inbox' = Tail(inbox)
  PROVE  /\ AnswerFits(Head(inbox), e) /\ InboxFits(inbox', e)
         /\ Cardinality(Opens(inbox')) <= Cardinality(Opens(inbox))
         /\ Head(inbox).msg = "openEditor" => Cardinality(Opens(inbox')) + 1 <= Cardinality(Opens(inbox))
<1>1. inbox \in Seq(MessageType) BY DEF InboxFits
<1>2. PICK r : r = Tail(inbox) OBVIOUS
<1>3. /\ r \in Seq(MessageType) /\ Len(r) = Len(inbox) - 1 /\ Len(inbox) \in Nat /\ Len(inbox) >= 1
      /\ Head(inbox) = inbox[1] /\ \A i \in 1..Len(inbox) - 1 : r[i] = inbox[i + 1]
  BY <1>1, <1>2
<1>4. \A i \in 1..Len(r) : i \in 1..Len(inbox) - 1 /\ i + 1 \in 1..Len(inbox) BY <1>3
<1>5. InboxFits(r, e) BY <1>3, <1>4 DEF InboxFits
<1>6. AnswerFits(Head(inbox), e) BY <1>3 DEF InboxFits
<1> QED BY <1>1, <1>2, <1>5, <1>6, OpensShrinks

\* The counters of probes, answers and calls as numbers, with what bounds them.
LEMMA CountsAre ==
  ASSUME FilesInv
  PROVE  /\ Cardinality(ProbesOf(tasks)) \in Nat /\ Cardinality(Opens(inbox)) \in Nat
         /\ editor.token \in Nat /\ called \in Nat /\ called <= Calls /\ Calls \in Nat
         /\ editor.token + (Cardinality(ProbesOf(tasks)) + Cardinality(Opens(inbox))) <= called
<1>1. Cardinality(ProbesOf(tasks)) \in Nat BY ProbesAreFinite DEF FilesInv, TasksFit
<1>2. Cardinality(Opens(inbox)) \in Nat BY OpensIsFinite DEF FilesInv, InboxFits
<1>3. editor.token \in 0..Calls /\ called \in 0..Calls /\ Calls \in Nat
  BY FilesAssumption DEF FilesInv, TextEditorType
<1>4. editor.token + ToOpen(tasks, inbox) <= called BY DEF FilesInv
<1> QED BY <1>1, <1>2, <1>3, <1>4 DEF ToOpen

\* The answer leaves a panel, an editor and coroutines that fit.
LEMMA HandledKept ==
  ASSUME FilesInv, inbox # <<>>, inbox' = Tail(inbox), UNCHANGED <<link, called>>,
         panel' \in RemotePanelType, RowsBelong', executor' \in LoopStates,
         editor' \in TextEditorType, GoesOn(editor, editor'), editor'.savable => HasOwnText(editor'),
         TasksFit(tasks', editor), Cardinality(ProbesOf(tasks')) = Cardinality(ProbesOf(tasks))
  PROVE  FilesInv'
<1>1. InboxFits(inbox, editor) BY DEF FilesInv
<1>2. InboxFits(inbox', editor) /\ Cardinality(Opens(inbox')) <= Cardinality(Opens(inbox)) BY <1>1, Handled
<1>3. editor \in TextEditorType BY DEF FilesInv
<1>4. TasksFit(tasks', editor') /\ InboxFits(inbox', editor') BY <1>2, <1>3, StillFits
<1>5. Cardinality(Opens(inbox')) \in Nat BY <1>2, OpensIsFinite DEF InboxFits
<1>6. /\ Cardinality(ProbesOf(tasks)) \in Nat /\ Cardinality(Opens(inbox)) \in Nat
      /\ editor.token \in Nat /\ called \in Nat
      /\ editor.token + (Cardinality(ProbesOf(tasks)) + Cardinality(Opens(inbox))) <= called
  BY CountsAre
<1>7. editor'.token + ToOpen(tasks', inbox') <= called' BY <1>2, <1>5, <1>6 DEF ToOpen, GoesOn
<1> QED BY <1>4, <1>7 DEF FilesInv

\* An answer that opens the editor uses up one of those that may, and takes the next token.
LEMMA OpensEditor ==
  ASSUME FilesInv, inbox # <<>>, inbox' = Tail(inbox), UNCHANGED <<link, called, panel>>,
         Head(inbox).msg = "openEditor", ~(link.service = "none" \/ editor.open), OpenEditor
  PROVE  FilesInv'
<1> DEFINE n == editor.token + 1
<1>1. /\ editor' = [NoEditor EXCEPT !.token = n, !.open = TRUE]
      /\ Submit(Task("read", None, n, Unread))
  BY DEF OpenEditor
<1>2. TasksFit(tasks, editor) /\ InboxFits(inbox, editor) /\ editor \in TextEditorType BY DEF FilesInv
<1>3. /\ InboxFits(inbox', editor)
      /\ Cardinality(Opens(inbox')) + 1 <= Cardinality(Opens(inbox))
  BY <1>2, Handled
<1>4. Cardinality(Opens(inbox')) \in Nat BY <1>3, OpensIsFinite DEF InboxFits
<1>5. /\ Cardinality(ProbesOf(tasks)) \in Nat /\ Cardinality(Opens(inbox)) \in Nat
      /\ editor.token \in Nat /\ called \in Nat /\ called <= Calls /\ Calls \in Nat
      /\ editor.token + (Cardinality(ProbesOf(tasks)) + Cardinality(Opens(inbox))) <= called
  BY CountsAre
<1>6. n \in 0..Calls BY <1>3, <1>4, <1>5
<1>7. n = editor.token + 1 OBVIOUS
<1> HIDE DEF n
<1>8. editor' \in TextEditorType /\ editor'.token = n /\ ~editor'.savable
  <2>1. 0 \in 0..Calls BY FilesAssumption
  <2>2. editor' = [token |-> n, open |-> TRUE, locked |-> TRUE, savable |-> FALSE, text |-> 0, status |-> "loading"]
    BY <1>1 DEF NoEditor, Unread
  <2> QED BY <1>6, <2>1, <2>2 DEF TextEditorType
<1>9. IsNewer(editor, editor') BY <1>7, <1>8 DEF IsNewer
<1>10. TasksFit(tasks, editor') /\ InboxFits(inbox', editor') BY <1>2, <1>3, <1>8, <1>9, StillFits
<1>11. "read" \in Kinds /\ None \in Dirs \cup {None} /\ Unread \in 0..Calls /\ n <= editor'.token
  BY <1>6, <1>8, FilesAssumption DEF Kinds, Unread
<1>12. executor \in LoopStates BY DEF FilesInv
<1>13. /\ TasksFit(tasks', editor') /\ executor' \in LoopStates
       /\ Cardinality(ProbesOf(tasks')) = Cardinality(ProbesOf(tasks))
  BY <1>1, <1>6, <1>8, <1>10, <1>11, <1>12, Submitted
<1>14. editor'.token + ToOpen(tasks', inbox') <= called'
  BY <1>3, <1>4, <1>5, <1>7, <1>8, <1>13 DEF ToOpen
<1>15. panel' \in RemotePanelType /\ RowsBelong' /\ link' \in LinkType /\ called' \in 0..Calls
  BY DEF FilesInv, RowsBelong
<1> QED BY <1>8, <1>10, <1>13, <1>14, <1>15 DEF FilesInv

\* The handling of one answer in the GUI thread keeps the invariant.
LEMMA HandleSignalKept == ASSUME FilesInv, HandleSignal PROVE FilesInv'
<1> DEFINE m == Head(inbox)
<1>1. inbox # <<>> /\ inbox' = Tail(inbox) /\ UNCHANGED <<link, called>> /\ Handle(m) BY DEF HandleSignal
<1>2. /\ TasksFit(tasks, editor) /\ InboxFits(inbox, editor) /\ editor \in TextEditorType
      /\ panel \in RemotePanelType /\ RowsBelong /\ executor \in LoopStates
      /\ (editor.savable => HasOwnText(editor))
  BY DEF FilesInv
<1>3. AnswerFits(m, editor) BY <1>1, <1>2, Handled
<1>4. GoesOn(editor, editor) BY DEF GoesOn
<1>5. ASSUME UNCHANGED editor, panel' \in RemotePanelType, RowsBelong', executor' \in LoopStates,
             TasksFit(tasks', editor), Cardinality(ProbesOf(tasks')) = Cardinality(ProbesOf(tasks))
      PROVE  FilesInv'
  BY <1>1, <1>2, <1>4, <1>5, HandledKept
<1>6. ASSUME UNCHANGED <<editor, tasks, executor>>, panel' \in RemotePanelType, RowsBelong'
      PROVE  FilesInv'
  BY <1>2, <1>5, <1>6
<1>7. UNCHANGED panel => panel' \in RemotePanelType /\ RowsBelong' BY <1>2 DEF RowsBelong
<1> HIDE DEF m
<1>8. CASE m.msg \in {"connected", "cd"} /\ ChangeDirectory(m.dir) /\ UNCHANGED editor
  <2>1. m.dir \in Dirs BY <1>3, <1>8 DEF AnswerFits
  <2> QED BY <1>2, <1>5, <1>8, <2>1, PanelRefreshed
<1>9. CASE UNCHANGED <<panel, editor, tasks, executor>> BY <1>6, <1>7, <1>9
<1>10. CASE Reread /\ UNCHANGED editor BY <1>2, <1>5, <1>10, PanelRefreshed
<1>11. CASE m.msg = "openEditor" /\ OpenEditor /\ UNCHANGED panel
  <2>1. CASE link.service = "none" \/ editor.open BY <1>9, <1>11, <2>1 DEF OpenEditor
  <2>2. CASE ~(link.service = "none" \/ editor.open) BY <1>1, <1>11, <2>2, OpensEditor DEF m
  <2> QED BY <2>1, <2>2
<1>12. CASE m.msg = "listing" /\ OnListing(m)
  <2>1. m.dir \in Dirs BY <1>3, <1>12 DEF AnswerFits
  <2>2. CASE m.dir = panel.dir
    <3>1. panel' = [panel EXCEPT !.shown = m.dir, !.loading = FALSE] BY <1>12, <2>2 DEF OnListing
    <3>2. panel' \in RemotePanelType /\ panel'.shown = panel'.dir /\ ~panel'.loading
      BY <1>2, <2>1, <2>2, <3>1 DEF RemotePanelType
    <3> QED BY <1>6, <1>12, <3>2 DEF OnListing, RowsBelong
  <2>3. CASE m.dir # panel.dir BY <1>6, <1>7, <1>12, <2>3 DEF OnListing
  <2> QED BY <2>2, <2>3
<1>13. CASE OnError
  <2>1. panel' = [panel EXCEPT !.loading = FALSE] BY <1>13 DEF OnError
  <2>2. panel' \in RemotePanelType /\ panel'.shown = panel.shown /\ panel'.dir = panel.dir /\ ~panel'.loading
    BY <1>2, <2>1 DEF RemotePanelType
  <2>3. RowsBelong' BY <1>2, <2>2 DEF RowsBelong
  <2> QED BY <1>6, <1>13, <2>2, <2>3 DEF OnError
<1>14. CASE m.msg \in {"read", "unreadable", "saved", "unsaved"} /\ OnEditor(m)
  <2>1. /\ editor' \in TextEditorType /\ GoesOn(editor, editor')
        /\ (editor'.savable => HasOwnText(editor'))
    <3>1. CASE ~For(m) BY <1>2, <1>4, <1>14, <3>1 DEF OnEditor
    <3>2. m.token \in 0..Calls BY <1>3 DEF AnswerFits, MessageType
    <3>3. CASE For(m) /\ m.msg = "read"
      <4>1. editor' = Loaded(editor, m.token) BY <1>14, <3>3 DEF OnEditor
      <4> QED BY <1>2, <3>2, <3>3, <4>1 DEF Loaded, For, TextEditorType, GoesOn, HasOwnText
    <3>4. CASE For(m) /\ m.msg = "unreadable"
      <4>1. editor' = NotLoaded(editor) BY <1>14, <3>4 DEF OnEditor
      <4> QED BY <1>2, <4>1 DEF NotLoaded, TextEditorType, GoesOn, HasOwnText
    <3>5. CASE For(m) /\ m.msg \in {"saved", "unsaved"}
      <4>1. editor' = SaveShown(editor) BY <1>14, <3>5 DEF OnEditor
      <4>2. HasOwnText(editor) BY <1>3, <3>5 DEF AnswerFits, For
      <4> QED BY <1>2, <4>1, <4>2 DEF SaveShown, TextEditorType, GoesOn, HasOwnText
    <3> QED BY <1>14, <3>1, <3>3, <3>4, <3>5
  <2>2. /\ panel' \in RemotePanelType /\ RowsBelong' /\ executor' \in LoopStates
        /\ TasksFit(tasks', editor) /\ Cardinality(ProbesOf(tasks')) = Cardinality(ProbesOf(tasks))
    <3>1. CASE For(m) /\ m.msg = "saved" /\ link.service # "none"
      <4>1. Reread BY <1>14, <3>1 DEF OnEditor
      <4> QED BY <1>2, <4>1, PanelRefreshed
    <3>2. CASE ~(For(m) /\ m.msg = "saved" /\ link.service # "none")
      <4>1. UNCHANGED <<panel, tasks, executor>> BY <1>14, <3>2 DEF OnEditor
      <4> QED BY <1>2, <1>7, <4>1
    <3> QED BY <3>1, <3>2
  <2> QED BY <1>1, <2>1, <2>2, HandledKept
<1> QED BY <1>1, <1>8, <1>9, <1>10, <1>11, <1>12, <1>13, <1>14 DEF Handle

-----------------------------------------------------------------------------
(* The operator *)

\* What the operator does: one coroutine more at most.
LEMMA OperatesKept ==
  ASSUME FilesInv, Operates, panel' \in RemotePanelType, RowsBelong', executor' \in LoopStates,
         editor' \in TextEditorType, GoesOn(editor, editor'), editor'.savable => HasOwnText(editor'),
         TasksFit(tasks', editor'), Cardinality(ProbesOf(tasks')) <= Cardinality(ProbesOf(tasks)) + 1
  PROVE  FilesInv'
<1>1. InboxFits(inbox', editor') /\ link' \in LinkType BY StillFits DEF FilesInv, Operates
<1>2. called' = called + 1 /\ called' \in 0..Calls /\ inbox' = inbox BY FilesAssumption DEF Operates, FilesInv
<1>3. /\ Cardinality(ProbesOf(tasks)) \in Nat /\ Cardinality(ProbesOf(tasks')) \in Nat
      /\ Cardinality(Opens(inbox)) \in Nat /\ editor.token \in Nat /\ called \in Nat
  BY ProbesAreFinite, OpensIsFinite, FilesAssumption DEF FilesInv, TasksFit, InboxFits, TextEditorType
<1>4. editor.token + (Cardinality(ProbesOf(tasks)) + Cardinality(Opens(inbox))) <= called BY DEF FilesInv, ToOpen
<1>5. editor'.token + ToOpen(tasks', inbox') <= called' BY <1>2, <1>3, <1>4 DEF ToOpen, GoesOn
<1> QED BY <1>1, <1>2, <1>5 DEF FilesInv

\* What the operator does with the panel keeps the invariant.
LEMMA PanelOperated ==
  ASSUME FilesInv, Operates, UNCHANGED editor,
         \/ \E d \in Dirs : ChangeDirectory(d)
         \/ Reread \/ Refresh(panel) \/ UNCHANGED <<panel, tasks, executor>>
  PROVE  FilesInv'
<1>1. /\ TasksFit(tasks, editor) /\ editor \in TextEditorType /\ (editor.savable => HasOwnText(editor))
      /\ panel \in RemotePanelType /\ RowsBelong /\ executor \in LoopStates /\ IsFiniteSet(tasks)
  BY DEF FilesInv, TasksFit
<1>2. Cardinality(ProbesOf(tasks)) \in Nat BY <1>1, ProbesAreFinite
<1>3. /\ panel' \in RemotePanelType /\ RowsBelong' /\ executor' \in LoopStates
      /\ TasksFit(tasks', editor) /\ Cardinality(ProbesOf(tasks')) = Cardinality(ProbesOf(tasks))
  <2>1. CASE UNCHANGED <<panel, tasks, executor>> BY <1>1, <2>1 DEF RowsBelong
  <2> QED BY <1>1, <2>1, PanelRefreshed
<1>4. Cardinality(ProbesOf(tasks')) <= Cardinality(ProbesOf(tasks)) + 1 BY <1>2, <1>3
<1>5. GoesOn(editor, editor') BY DEF GoesOn
<1> QED BY <1>1, <1>3, <1>4, <1>5, OperatesKept

\* A request of the operator, from an editor that goes on.
LEMMA RequestsKept ==
  ASSUME FilesInv, Operates, UNCHANGED panel, editor' \in TextEditorType, GoesOn(editor, editor'),
         editor'.savable => HasOwnText(editor'),
         NEW kind \in {"change", "probe", "read", "write"}, NEW dir \in Dirs \cup {None},
         NEW token \in 0..Calls, NEW text \in 0..Calls,
         kind = "probe" => dir \in Dirs, token <= editor.token,
         kind = "write" => text = token /\ HasOwnText(editor),
         Submit(Task(kind, dir, token, text))
  PROVE  FilesInv'
<1>1. editor \in TextEditorType /\ TasksFit(tasks, editor) /\ executor \in LoopStates BY DEF FilesInv
<1>2. TasksFit(tasks, editor') BY <1>1, StillFits
<1>3. kind \in Kinds BY DEF Kinds
<1>4. token <= editor'.token /\ (kind = "write" => HasOwnText(editor')) BY DEF GoesOn
<1>5. /\ TasksFit(tasks', editor') /\ executor' \in LoopStates
      /\ Cardinality(ProbesOf(tasks')) <= Cardinality(ProbesOf(tasks)) + 1
  BY <1>1, <1>2, <1>3, <1>4, Submitted
<1>6. panel' \in RemotePanelType /\ RowsBelong' BY DEF FilesInv, RowsBelong
<1> QED BY <1>5, <1>6, OperatesKept

\* Every operation of the window, and the end of a job, keeps the invariant.
LEMMA OperatorKept == ASSUME FilesInv, Operator \/ JobEnds PROVE FilesInv'
<1>1. /\ editor \in TextEditorType /\ GoesOn(editor, editor) /\ (editor.savable => HasOwnText(editor))
      /\ editor.token \in 0..Calls /\ editor.text \in 0..Calls /\ editor.token <= editor.token
      /\ 0 \in 0..Calls /\ Unread \in 0..Calls /\ 0 <= editor.token
  BY FilesAssumption DEF FilesInv, GoesOn, TextEditorType, Unread
<1>2. CASE CloseFilesTab
  <2>1. executor' \in LoopStates /\ UNCHANGED <<link, panel, editor, tasks, inbox, called>>
    BY <1>2 DEF CloseFilesTab, LoopStates
  <2> QED BY <2>1 DEF FilesInv, RowsBelong
<1>3. CASE PressRefresh \/ MenuRefresh \/ JobEnds \/ \E d \in Dirs : Cd(d)
  BY <1>3, PanelOperated DEF PressRefresh, MenuRefresh, JobEnds, Cd
<1>4. CASE ChangeEntry \/ \E d \in Dirs : OpenEntry(d)
  <2>1. PICK kind \in {"change", "probe"}, dir \in Dirs \cup {None} :
          /\ kind = "probe" => dir \in Dirs
          /\ Submit(Task(kind, dir, 0, Unread)) /\ Operates /\ UNCHANGED <<panel, editor>>
    BY <1>4 DEF ChangeEntry, OpenEntry
  <2> QED BY <1>1, <2>1, RequestsKept
<1>5. CASE Reload
  <2>1. editor' = Loading(editor) BY <1>5 DEF Reload
  <2>2. editor' \in TextEditorType /\ GoesOn(editor, editor') /\ (editor'.savable => HasOwnText(editor'))
    BY <1>1, <2>1 DEF Loading, TextEditorType, GoesOn, HasOwnText
  <2>3. Operates /\ UNCHANGED panel /\ Submit(Task("read", None, editor.token, Unread)) BY <1>5 DEF Reload
  <2> QED BY <1>1, <2>2, <2>3, RequestsKept
<1>6. CASE Save
  <2>1. editor' = [editor EXCEPT !.locked = TRUE, !.savable = FALSE, !.status = "saving"] BY <1>6 DEF Save
  <2>2. editor' \in TextEditorType /\ GoesOn(editor, editor') /\ ~editor'.savable
    BY <1>1, <2>1 DEF TextEditorType, GoesOn, HasOwnText
  <2>3. Operates /\ UNCHANGED panel /\ Submit(Task("write", None, editor.token, editor.text)) BY <1>6 DEF Save
  <2>4. editor.text = editor.token /\ HasOwnText(editor) BY <1>1, <1>6 DEF Save, HasOwnText
  <2> QED BY <1>1, <2>2, <2>3, <2>4, RequestsKept
<1>7. CASE CloseEditor
  <2>1. editor' = [editor EXCEPT !.open = FALSE] /\ Operates /\ UNCHANGED <<panel, tasks, executor>>
    BY <1>7 DEF CloseEditor
  <2>2. editor' \in TextEditorType /\ GoesOn(editor, editor') /\ (editor'.savable => HasOwnText(editor'))
    BY <1>1, <2>1 DEF TextEditorType, GoesOn, HasOwnText
  <2>3. TasksFit(tasks', editor') BY <1>1, <2>1, <2>2, StillFits DEF FilesInv
  <2>4. IsFiniteSet(tasks) BY DEF FilesInv, TasksFit
  <2>5. Cardinality(ProbesOf(tasks')) <= Cardinality(ProbesOf(tasks)) + 1 BY <2>1, <2>4, ProbesAreFinite
  <2>6. panel' \in RemotePanelType /\ RowsBelong' /\ executor' \in LoopStates
    BY <2>1 DEF FilesInv, RowsBelong
  <2> QED BY <2>1, <2>2, <2>3, <2>5, <2>6, OperatesKept
<1> QED BY <1>2, <1>3, <1>4, <1>5, <1>6, <1>7, OpenConnectionKept DEF Operator

\* The closing of the window, which cancels all coroutines, keeps the invariant.
LEMMA StopLoopKept == ASSUME FilesInv, StopLoop PROVE FilesInv'
<1>1. link' \in LinkType BY DEF StopLoop, FilesInv, LinkType
<1>2. executor' \in LoopStates /\ tasks' = {} /\ UNCHANGED <<panel, editor, inbox, called>>
  BY DEF StopLoop, LoopStates
<1>3. TasksFit(tasks', editor') BY <1>2, FS_EmptySet DEF TasksFit
<1>4. ProbesOf(tasks') = {} BY <1>2 DEF ProbesOf
<1>5. Cardinality(ProbesOf(tasks')) = 0 BY <1>4, FS_EmptySet
<1>6. /\ Cardinality(ProbesOf(tasks)) \in Nat /\ Cardinality(Opens(inbox)) \in Nat
      /\ editor.token \in Nat /\ called \in Nat
  BY ProbesAreFinite, OpensIsFinite, FilesAssumption DEF FilesInv, TasksFit, InboxFits, TextEditorType
<1>7. editor.token + (Cardinality(ProbesOf(tasks)) + Cardinality(Opens(inbox))) <= called BY DEF FilesInv, ToOpen
<1>8. editor'.token + ToOpen(tasks', inbox') <= called' BY <1>2, <1>5, <1>6, <1>7 DEF ToOpen
<1> QED BY <1>1, <1>2, <1>3, <1>8 DEF FilesInv, RowsBelong

\* Every step of the file manager keeps its invariant.
LEMMA FilesKept == ASSUME FilesInv, [FilesNext]_filesVars PROVE FilesInv'
<1>1. CASE UNCHANGED filesVars
  <2>1. UNCHANGED <<link, panel, editor, tasks, inbox, executor, called>> BY <1>1 DEF filesVars
  <2> QED BY <2>1 DEF FilesInv, RowsBelong
<1> QED BY <1>1, OperatorKept, ConnectStepKept, TaskStepKept, HandleSignalKept, StopLoopKept DEF FilesNext

\* Rows belong to the directory in the address bar, and a saved text to its file.
LEMMA FilesSafe == FilesInv => FilesTypeOK /\ RowsBelong /\ OwnTextIsSaved
<1> SUFFICES ASSUME FilesInv PROVE FilesTypeOK /\ RowsBelong /\ OwnTextIsSaved OBVIOUS
<1>1. \A t \in tasks : t.kind \in Kinds /\ t.step \in {"begin", "wait"} /\ (t.kind = "write" => t.text = t.token)
  BY DEF FilesInv, TasksFit, TaskFits
<1>2. \A i \in 1..Len(inbox) : inbox[i].msg \in Messages BY DEF FilesInv, InboxFits, AnswerFits, MessageType
<1>3. FilesTypeOK BY <1>1, <1>2 DEF FilesInv, FilesTypeOK, LinkType, RemotePanelType, TextEditorType, LoopStates
<1> QED BY <1>1, <1>3 DEF FilesInv, OwnTextIsSaved

-----------------------------------------------------------------------------
(* Listings and removals *)

LookedKinds == {"file", "dir", "link", "absent"}
TreeType == [kind: [EntryNames -> EntryKinds \cup {"absent"}], filled: SUBSET EntryNames, elsewhere: BOOLEAN]
WorkType == [op: {"none", "list", "remove", "listed"},
             step: {"none", "names", "stat", "readlink", "test", "children", "child", "rmdir", "rm"},
             of: EntryNames \cup {"none"}, link: BOOLEAN, recursive: BOOLEAN, todo: SUBSET EntryNames,
             kinds: [EntryNames -> LookedKinds \cup {"none"}], rows: [EntryNames -> RowKinds]]
TreeTypes ==
  /\ tree \in TreeType /\ way \in Ways /\ touched \subseteq EntryNames /\ work \in WorkType
  /\ treeCount \in [works: 0..TreeWorks, changes: 0..TreeChanges]

\* What is known of the entry that is tested: whether it is a link, where that can be found out.
TestKnows ==
  /\ work.step = "readlink" => way = "busybox"
  /\ work.step = "test" => way # "sftp"
  /\ way = "bare" => ~work.link
  /\ work.step \in {"readlink", "test"} => work.of \in work.todo
  /\ work.step = "test" /\ work.of \notin touched =>
       /\ way = "busybox" => (work.link <=> IsLink(work.of))
       /\ way \in {"gnu", "ls"} => work.link /\ IsLink(work.of)

\* A listing: what it has looked at is shown, what it has not is there.
ListingIs ==
  /\ TestKnows /\ work.step \in {"names", "stat", "readlink", "test"}
  /\ work.step = "names" => work.rows = NoRows
  /\ work.step # "names" => \A e \in EntryNames :
       /\ work.kinds[e] # "none"
       /\ e \notin touched =>
            /\ work.kinds[e] = LooksLike(e)
            /\ e \notin work.todo => work.rows[e] = ShownKind(e)
            /\ e \in work.todo => KindOf(e) # "absent"

\* A removal: what it found is what is there, if nobody touched it.
RemovalFits(e) ==
  /\ work.step \in {"stat", "readlink", "test", "children", "child", "rmdir", "rm"}
  /\ work.step \in {"children", "child", "rmdir"} =>
       work.recursive /\ (e \notin touched => KindOf(e) = "dir")
  /\ work.step = "rm" =>
       /\ work.kinds[e] = "dir" => work.recursive
       /\ way # "sftp" /\ e \notin touched /\ KindOf(e) = "dir" => work.kinds[e] = "dir"
RemovalIs == TestKnows /\ \E e \in EntryNames : work.todo = {e} /\ RemovalFits(e)

TreeInv ==
  /\ TreeTypes
  /\ work.op \in {"none", "listed"} => work.step = "none"
  /\ work.op = "list" => ListingIs
  /\ work.op = "remove" => RemovalIs
  /\ UntouchedIsShown

\* Without a listing or a removal under way there is no step of one.
LEMMA NoWorkIs == NoWork \in WorkType /\ NoWork.op = "none" /\ NoWork.step = "none"
<1>1. NoRows \in [EntryNames -> RowKinds] BY DEF NoRows, RowKinds
<1>2. NoRows \in [EntryNames -> LookedKinds \cup {"none"}] BY DEF NoRows
<1> QED BY <1>1, <1>2 DEF NoWork, WorkType

\* Every entry has a kind, and looks like one that can be listed.
LEMMA KindsAre ==
  ASSUME TreeTypes, NEW e \in EntryNames
  PROVE  KindOf(e) \in EntryKinds \cup {"absent"} /\ LooksLike(e) \in LookedKinds
BY DEF TreeTypes, TreeType, KindOf, LooksLike, IsLink, EntryKinds, LookedKinds

\* The initial states of the backend satisfy its invariant.
LEMMA TreeInitial == TreeInit => TreeInv
<1> SUFFICES ASSUME TreeInit PROVE TreeInv OBVIOUS
<1>1. TreeTypes
  <2>1. 0 \in 0..TreeWorks /\ 0 \in 0..TreeChanges BY TreeAssumption
  <2>2. treeCount \in [works: 0..TreeWorks, changes: 0..TreeChanges] BY <2>1 DEF TreeInit
  <2>3. tree \in TreeType BY DEF TreeInit, TreeType
  <2> QED BY <2>2, <2>3, NoWorkIs DEF TreeInit, TreeTypes
<1>2. work.op = "none" /\ work.step = "none" BY NoWorkIs DEF TreeInit
<1> QED BY <1>1, <1>2 DEF TreeInv, UntouchedIsShown

\* Nothing is under way any more, and no listing is shown.
LEMMA NoWorkKept ==
  ASSUME TreeTypes', work' = NoWork
  PROVE  TreeInv'
BY NoWorkIs DEF TreeInv, UntouchedIsShown

\* A listing or a removal that fails keeps the invariant.
LEMMA WorkFailsKept == ASSUME TreeInv, WorkFails PROVE TreeInv'
<1>1. TreeTypes' BY NoWorkIs DEF TreeInv, TreeTypes, WorkFails, Looks
<1> QED BY <1>1, NoWorkKept DEF WorkFails

-----------------------------------------------------------------------------
(* Others change the register *)

\* Others change an entry: it is touched, and nothing is promised of it any more.
LEMMA OthersChangeKept == ASSUME TreeInv, OthersChange PROVE TreeInv'
<1>1. PICK e \in EntryNames, k \in EntryKinds \cup {"absent"} :
        /\ tree' = [tree EXCEPT !.kind[e] = k, !.filled = @ \cup {e}]
        /\ touched' = touched \cup {e}
  BY DEF OthersChange
<1>2. UNCHANGED <<way, work>> BY DEF OthersChange
<1>3. TreeTypes'
  <2>1. tree' \in TreeType BY <1>1 DEF TreeInv, TreeTypes, TreeType
  <2>2. treeCount' \in [works: 0..TreeWorks, changes: 0..TreeChanges]
    BY TreeAssumption DEF OthersChange, TreeInv, TreeTypes
  <2>3. touched' \subseteq EntryNames BY <1>1 DEF TreeInv, TreeTypes
  <2> QED BY <1>2, <2>1, <2>2, <2>3 DEF TreeInv, TreeTypes
<1>4. \A o \in EntryNames \ touched' : o \notin touched /\ o # e BY <1>1
<1>5. \A o \in EntryNames \ touched' : KindOf(o)' = KindOf(o)
  BY <1>1, <1>4 DEF KindOf, TreeInv, TreeTypes, TreeType
<1>6. \A o \in EntryNames \ touched' :
        (IsLink(o)' <=> IsLink(o)) /\ LooksLike(o)' = LooksLike(o) /\ ShownKind(o)' = ShownKind(o)
  BY <1>2, <1>5 DEF IsLink, LooksLike, ShownKind
<1>7. TestKnows => TestKnows'
  <2>1. work.step = "test" /\ TestKnows => work.of \in EntryNames BY DEF TestKnows, TreeInv, TreeTypes, WorkType
  <2> QED BY <1>2, <1>4, <1>6, <2>1 DEF TestKnows
<1>8. ListingIs => ListingIs' BY <1>2, <1>4, <1>5, <1>6, <1>7 DEF ListingIs
<1>9. RemovalIs => RemovalIs'
  <2> SUFFICES ASSUME RemovalIs PROVE RemovalIs' OBVIOUS
  <2>1. PICK o \in EntryNames : work.todo = {o} /\ RemovalFits(o) BY DEF RemovalIs
  <2>2. RemovalFits(o)' BY <1>2, <1>4, <1>5, <2>1 DEF RemovalFits
  <2> QED BY <1>2, <1>7, <2>1, <2>2 DEF RemovalIs
<1>10. UntouchedIsShown' BY <1>2, <1>4, <1>6 DEF UntouchedIsShown, TreeInv
<1> QED BY <1>2, <1>3, <1>8, <1>9, <1>10 DEF TreeInv

-----------------------------------------------------------------------------
(* What an entry is found to be *)

\* The register stays as it is.
LEMMA LooksOnly ==
  ASSUME TreeInv, Looks, work' \in WorkType
  PROVE  /\ TreeTypes'
         /\ \A e \in EntryNames : /\ KindOf(e)' = KindOf(e) /\ (IsLink(e)' <=> IsLink(e))
                                  /\ LooksLike(e)' = LooksLike(e) /\ ShownKind(e)' = ShownKind(e)
BY DEF TreeInv, TreeTypes, Looks, KindOf, IsLink, LooksLike, ShownKind

\* A row is written: it shows an entry nobody touched as it is.
LEMMA FoundListed ==
  ASSUME TreeInv, work.op = "list", work.step \in {"stat", "test"}, NEW e \in work.todo,
         NEW kind \in RowKinds, NEW of \in EntryNames \cup {"none"}, Looks,
         work' = [work EXCEPT !.step = "stat", !.of = of, !.todo = work.todo \ {e}, !.rows[e] = kind],
         e \notin touched => kind = ShownKind(e)
  PROVE  TreeInv'
<1> DEFINE todo == work.todo \ {e}
           found == [work.rows EXCEPT ![e] = kind]
<1>1. work \in WorkType /\ e \in EntryNames BY DEF TreeInv, TreeTypes, WorkType
<1>2. work' = [work EXCEPT !.step = "stat", !.of = of, !.todo = todo, !.rows = found] BY <1>1 DEF WorkType
<1>3. todo \subseteq EntryNames /\ found \in [EntryNames -> RowKinds] BY <1>1 DEF WorkType
<1>4. \A o \in EntryNames : (o = e => found[o] = kind) /\ (o # e => found[o] = work.rows[o])
  BY <1>1 DEF WorkType
<1>5. \A o \in EntryNames : o \in todo <=> o \in work.todo /\ o # e OBVIOUS
<1> HIDE DEF todo, found
<1>6. /\ work' \in WorkType /\ work'.op = "list" /\ work'.step = "stat" /\ work'.link = work.link
      /\ work'.kinds = work.kinds /\ work'.todo = todo /\ work'.rows = found
  BY <1>1, <1>2, <1>3 DEF WorkType
<1>7. ListingIs BY DEF TreeInv
<1>8. TestKnows' BY <1>6, <1>7 DEF TestKnows, ListingIs, Looks
<1>9. ASSUME NEW o \in EntryNames
      PROVE  /\ work'.kinds[o] # "none"
             /\ o \notin touched' =>
                  /\ work'.kinds[o] = LooksLike(o)'
                  /\ o \notin work'.todo => work'.rows[o] = ShownKind(o)'
                  /\ o \in work'.todo => KindOf(o)' # "absent"
  <2>1. /\ KindOf(o)' = KindOf(o) /\ LooksLike(o)' = LooksLike(o) /\ ShownKind(o)' = ShownKind(o)
        /\ touched' = touched
    BY <1>6, LooksOnly DEF Looks
  <2>2. /\ work.kinds[o] # "none"
        /\ o \notin touched =>
             /\ work.kinds[o] = LooksLike(o)
             /\ o \notin work.todo => work.rows[o] = ShownKind(o)
             /\ o \in work.todo => KindOf(o) # "absent"
    BY <1>7 DEF ListingIs
  <2>3. CASE o = e BY <1>4, <1>5, <1>6, <2>1, <2>2, <2>3
  <2>4. CASE o # e BY <1>4, <1>5, <1>6, <2>1, <2>2, <2>4
  <2> QED BY <2>3, <2>4
<1>10. ListingIs' BY <1>6, <1>8, <1>9 DEF ListingIs
<1>11. TreeTypes' BY <1>6, LooksOnly
<1> QED BY <1>6, <1>10, <1>11 DEF TreeInv, UntouchedIsShown

\* The next question about an entry.
LEMMA ContinuesKept ==
  ASSUME TreeInv, work.op \in {"list", "remove"}, work.step \in {"stat", "readlink"}, NEW e \in work.todo, Looks,
         NEW step \in {"readlink", "test"}, NEW isLink \in BOOLEAN,
         work' = [work EXCEPT !.step = step, !.of = e, !.link = isLink],
         step = "readlink" => way = "busybox", step = "test" => way # "sftp", way = "bare" => ~isLink,
         step = "test" /\ e \notin touched /\ way = "busybox" => (isLink <=> IsLink(e)),
         step = "test" /\ e \notin touched /\ way \in {"gnu", "ls"} => isLink /\ IsLink(e)
  PROVE  TreeInv'
<1>1. work \in WorkType /\ e \in EntryNames BY DEF TreeInv, TreeTypes, WorkType
<1>2. /\ work' \in WorkType /\ work'.op = work.op /\ work'.step = step /\ work'.of = e /\ (work'.link <=> isLink)
      /\ work'.todo = work.todo /\ work'.kinds = work.kinds /\ work'.rows = work.rows
      /\ (work'.recursive <=> work.recursive)
  BY <1>1 DEF WorkType
<1>3. TreeTypes' /\ UNCHANGED <<way, touched>> BY <1>2, LooksOnly DEF Looks
<1>4. \A o \in EntryNames : /\ KindOf(o)' = KindOf(o) /\ (IsLink(o)' <=> IsLink(o))
                            /\ LooksLike(o)' = LooksLike(o) /\ ShownKind(o)' = ShownKind(o)
  BY <1>2, LooksOnly
<1>5. TestKnows' BY <1>1, <1>2, <1>3, <1>4 DEF TestKnows
<1>6. work.op = "list" => ListingIs'
  <2> SUFFICES ASSUME work.op = "list" PROVE ListingIs' OBVIOUS
  <2>1. ListingIs BY DEF TreeInv
  <2> QED BY <1>2, <1>3, <1>4, <1>5, <2>1 DEF ListingIs
<1>7. work.op = "remove" => RemovalIs'
  <2> SUFFICES ASSUME work.op = "remove" PROVE RemovalIs' OBVIOUS
  <2>1. PICK o \in EntryNames : work.todo = {o} /\ RemovalFits(o) BY DEF TreeInv, RemovalIs
  <2>2. RemovalFits(o)' BY <1>2, <2>1 DEF RemovalFits
  <2> QED BY <1>2, <1>5, <2>1, <2>2 DEF RemovalIs
<1> QED BY <1>2, <1>3, <1>6, <1>7 DEF TreeInv, UntouchedIsShown

\* A removal goes on with what it found, or is refused.
LEMMA FoundRemoved ==
  ASSUME TreeInv, work.op = "remove", NEW e \in work.todo, NEW kind \in LookedKinds, Looks, Found(e, kind),
         way = "sftp" /\ kind = "dir" /\ e \notin touched => KindOf(e) = "dir",
         way # "sftp" /\ e \notin touched /\ KindOf(e) = "dir" => kind = "dir"
  PROVE  TreeInv'
<1>1. work \in WorkType /\ e \in EntryNames /\ work.todo = {e} BY DEF TreeInv, TreeTypes, WorkType, RemovalIs
<1>2. CASE kind = "dir" /\ ~work.recursive
  <2>1. work' = NoWork BY <1>2 DEF Found
  <2> QED BY <2>1, NoWorkIs, NoWorkKept, LooksOnly
<1>3. CASE ~(kind = "dir" /\ ~work.recursive)
  <2> DEFINE step == IF way = "sftp" /\ kind = "dir" THEN "children" ELSE "rm"
             kinds == [work.kinds EXCEPT ![e] = kind]
  <2>1. work' = [work EXCEPT !.kinds = kinds, !.step = step] BY <1>1, <1>3 DEF Found, WorkType
  <2>2. kinds \in [EntryNames -> LookedKinds \cup {"none"}] /\ kinds[e] = kind BY <1>1 DEF WorkType
  <2>3. step \in {"children", "rm"} /\ (step = "children" <=> way = "sftp" /\ kind = "dir") OBVIOUS
  <2> HIDE DEF step, kinds
  <2>4. /\ work' \in WorkType /\ work'.op = "remove" /\ work'.step = step /\ (work'.link <=> work.link)
        /\ work'.todo = {e} /\ work'.kinds = kinds /\ (work'.recursive <=> work.recursive)
    BY <1>1, <2>1, <2>2, <2>3 DEF WorkType
  <2>5. TreeTypes' /\ UNCHANGED <<way, touched>> /\ KindOf(e)' = KindOf(e)
    BY <1>1, <2>4, LooksOnly DEF Looks
  <2>6. TestKnows' BY <2>3, <2>4, <2>5 DEF TestKnows, TreeInv, RemovalIs
  <2>7. RemovalFits(e)' BY <1>3, <2>2, <2>3, <2>4, <2>5 DEF RemovalFits
  <2> QED BY <1>1, <2>4, <2>5, <2>6, <2>7 DEF TreeInv, RemovalIs, UntouchedIsShown
<1> QED BY <1>2, <1>3

\* What a look tells of an entry nobody touched.
LEMMA ToldIs ==
  ASSUME TreeInv, NEW e \in EntryNames, work.op = "remove" \/ (work.op = "list" /\ work.step = "stat")
  PROVE  Told(e) \in LookedKinds /\ (e \notin touched => Told(e) = LooksLike(e))
<1>1. LooksLike(e) \in LookedKinds BY KindsAre DEF TreeInv
<1>2. CASE way = "ls" /\ work.op = "list"
  <2>1. ListingIs /\ work.step = "stat" BY <1>2 DEF TreeInv
  <2>2. work.kinds[e] # "none" /\ (e \notin touched => work.kinds[e] = LooksLike(e)) BY <2>1 DEF ListingIs
  <2>3. work.kinds[e] \in LookedKinds \cup {"none"} BY DEF TreeInv, TreeTypes, WorkType
  <2> QED BY <1>2, <2>2, <2>3 DEF Told
<1>3. CASE ~(way = "ls" /\ work.op = "list") BY <1>1, <1>3 DEF Told
<1> QED BY <1>2, <1>3

\* The stat of an entry, over SFTP or by any of the shells, keeps the invariant.
LEMMA StatKept == ASSUME TreeInv, NEW e \in EntryNames, Stat(e) PROVE TreeInv'
<1>1. work \in WorkType /\ work.step = "stat" /\ e \in work.todo /\ Looks /\ TreeTypes
  BY DEF Stat, TreeInv, TreeTypes
<1>2. work.op = "list" \/ work.op = "remove" BY <1>1 DEF WorkType, TreeInv
<1>3. PICK kind \in LookedKinds : kind = Told(e) /\ (e \notin touched => kind = LooksLike(e)) BY <1>1, <1>2, ToldIs
<1>4. TestKnows BY <1>2 DEF TreeInv, ListingIs, RemovalIs
<1>5. work.link \in BOOLEAN /\ work.of \in EntryNames \cup {"none"} BY <1>1 DEF WorkType
<1>6. work.op = "list" /\ e \notin touched => KindOf(e) # "absent" BY <1>1 DEF TreeInv, ListingIs
<1>7. CASE kind = "absent" /\ work.op = "list"
  <2> DEFINE row == IF way = "sftp" THEN "other" ELSE "none"
  <2>1. Missing(e) BY <1>3, <1>7 DEF Stat
  <2>2. work' = [work EXCEPT !.todo = work.todo \ {e}, !.rows[e] = row] BY <1>1, <1>7, <2>1 DEF Missing, WorkType
  <2>3. row \in RowKinds BY DEF RowKinds
  <2>4. e \in touched
    <3>1. LooksLike(e) = "absent" => KindOf(e) = "absent" BY DEF LooksLike
    <3> QED BY <1>3, <1>6, <1>7, <3>1
  <2> HIDE DEF row
  <2>5. work' = [work EXCEPT !.step = "stat", !.of = work.of, !.todo = work.todo \ {e}, !.rows[e] = row]
    BY <1>1, <2>2 DEF WorkType
  <2> QED BY <1>1, <1>5, <1>7, <2>3, <2>4, <2>5, FoundListed
<1>8. CASE kind = "absent" /\ work.op = "remove"
  <2>1. work' = NoWork BY <1>3, <1>8 DEF Stat, Missing
  <2> QED BY <1>1, <2>1, NoWorkIs, NoWorkKept, LooksOnly
<1>9. ASSUME kind # "absent", Found(e, kind), way = "sftp" \/ kind # "link"
      PROVE  TreeInv'
  <2>1. CASE work.op = "list"
    <3>1. work' = [work EXCEPT !.step = "stat", !.of = "none", !.todo = work.todo \ {e}, !.rows[e] = kind]
      BY <1>1, <1>9, <2>1 DEF Found, WorkType
    <3>2. kind \in RowKinds BY <1>3, <1>9 DEF LookedKinds, RowKinds
    <3>3. e \notin touched => kind = ShownKind(e)
      BY <1>3, <1>9 DEF ShownKind, LooksLike, IsLink
    <3> QED BY <1>1, <2>1, <3>1, <3>2, <3>3, FoundListed
  <2>2. CASE work.op = "remove"
    <3>1. e \notin touched => (kind = "dir" <=> KindOf(e) = "dir") BY <1>3 DEF LooksLike, IsLink
    <3> QED BY <1>1, <1>9, <2>2, <3>1, FoundRemoved
  <2> QED BY <1>2, <2>1, <2>2
<1>10. CASE kind # "absent" /\ way = "sftp"
  <2>1. Found(e, kind) BY <1>3, <1>10 DEF Stat
  <2> QED BY <1>9, <1>10, <2>1
<1>11. CASE kind # "absent" /\ way \in {"busybox", "bare"}
  <2>1. PICK step \in {"readlink", "test"} :
          Continue(e, step) /\ (step = "readlink" <=> way = "busybox")
    BY <1>3, <1>11 DEF Stat
  <2>2. work' = [work EXCEPT !.step = step, !.of = e, !.link = work.link] BY <1>1, <2>1 DEF Continue, WorkType
  <2>3. way = "bare" => ~work.link BY <1>4 DEF TestKnows
  <2> QED BY <1>1, <1>2, <1>5, <1>11, <2>1, <2>2, <2>3, ContinuesKept
<1>12. CASE kind = "link" /\ way \in {"gnu", "ls"}
  <2>1. work' = [work EXCEPT !.step = "test", !.of = e, !.link = TRUE] BY <1>3, <1>12 DEF Stat
  <2>2. e \notin touched => IsLink(e) BY <1>3, <1>12 DEF LooksLike, IsLink
  <2> QED BY <1>1, <1>2, <1>12, <2>1, <2>2, ContinuesKept
<1>13. CASE kind \notin {"absent", "link"} /\ way \in {"gnu", "ls"}
  <2>1. Found(e, kind) BY <1>3, <1>13 DEF Stat
  <2> QED BY <1>9, <1>13, <2>1
<1>14. way \in {"sftp", "busybox", "bare", "gnu", "ls"} BY <1>1 DEF TreeTypes, Ways
<1> QED BY <1>2, <1>7, <1>8, <1>10, <1>11, <1>12, <1>13, <1>14

\* The readlink of busybox keeps the invariant: it tells a link from what it points to.
LEMMA ReadlinkKept == ASSUME TreeInv, NEW e \in EntryNames, Readlink(e) PROVE TreeInv'
<1>1. /\ work \in WorkType /\ work.step = "readlink" /\ work.of = e /\ Looks
      /\ work' = [work EXCEPT !.step = "test", !.link = IsLink(e)]
  BY DEF Readlink, TreeInv, TreeTypes
<1>2. work.op = "list" \/ work.op = "remove" BY <1>1 DEF WorkType, TreeInv
<1>3. TestKnows BY <1>2 DEF TreeInv, ListingIs, RemovalIs
<1>4. e \in work.todo /\ way = "busybox" BY <1>1, <1>3 DEF TestKnows
<1>5. PICK isLink \in BOOLEAN : isLink <=> IsLink(e) BY DEF IsLink
<1>6. work' = [work EXCEPT !.step = "test", !.of = e, !.link = isLink]
  <2>1. IsLink(e) \in BOOLEAN BY DEF IsLink
  <2>2. IsLink(e) = isLink BY <1>5, <2>1
  <2> QED BY <1>1, <2>2 DEF WorkType
<1> QED BY <1>1, <1>2, <1>4, <1>5, <1>6, ContinuesKept

\* The test for a directory keeps the invariant: with what is known of the link it gives the
\* kind shown.
LEMMA TestDirKept == ASSUME TreeInv, NEW e \in EntryNames, TestDir(e) PROVE TreeInv'
<1> DEFINE kind == IF TestsDir(e) THEN "dir" ELSE IF work.link THEN "link" ELSE "file"
<1>1. /\ work \in WorkType /\ work.step = "test" /\ work.of = e /\ Looks /\ Found(e, kind) /\ TreeTypes
  BY DEF TestDir, TreeInv, TreeTypes
<1>2. work.op = "list" \/ work.op = "remove" BY <1>1 DEF WorkType, TreeInv
<1>3. TestKnows BY <1>2 DEF TreeInv, ListingIs, RemovalIs
<1>4. e \in work.todo /\ way \in {"busybox", "bare", "gnu", "ls"} BY <1>1, <1>3 DEF TestKnows, TreeTypes, Ways
<1>5. kind \in {"dir", "link", "file"} OBVIOUS
<1>6. KindOf(e) = "dir" => kind = "dir" BY DEF TestsDir
<1>7. CASE work.op = "list"
  <2>1. e \notin touched => kind = ShownKind(e)
    <3> SUFFICES ASSUME e \notin touched PROVE kind = ShownKind(e) OBVIOUS
    <3>1. KindOf(e) # "absent" BY <1>1, <1>4, <1>7 DEF TreeInv, ListingIs
    <3>2. KindOf(e) \in {"file", "dir", "link", "dirlink"} BY <1>1, <3>1, KindsAre DEF EntryKinds
    <3>3. CASE KindOf(e) \in {"dir", "dirlink"} BY <1>4, <3>3 DEF ShownKind, TestsDir, LooksLike, IsLink
    <3>4. CASE KindOf(e) \in {"file", "link"}
      <4>1. kind = IF work.link THEN "link" ELSE "file" BY <3>4 DEF TestsDir
      <4>2. IsLink(e) <=> KindOf(e) = "link" BY <3>4 DEF IsLink
      <4>3. CASE way = "bare"
        <5>1. ~work.link BY <1>3, <4>3 DEF TestKnows
        <5> QED BY <3>4, <4>1, <4>3, <5>1 DEF ShownKind, LooksLike, IsLink
      <4>4. CASE way # "bare"
        <5>1. work.link <=> KindOf(e) = "link" BY <1>1, <1>3, <1>4, <4>2, <4>4 DEF TestKnows
        <5>2. ShownKind(e) = KindOf(e) BY <3>4, <4>4 DEF ShownKind, LooksLike, IsLink
        <5> QED BY <3>4, <4>1, <5>1, <5>2
      <4> QED BY <4>3, <4>4
    <3> QED BY <3>2, <3>3, <3>4
  <2>2. kind \in RowKinds BY <1>5 DEF RowKinds
  <2> HIDE DEF kind
  <2>3. work' = [work EXCEPT !.step = "stat", !.of = "none", !.todo = work.todo \ {e}, !.rows[e] = kind]
    BY <1>1, <1>7 DEF Found, WorkType
  <2> QED BY <1>1, <1>4, <1>7, <2>1, <2>2, <2>3, FoundListed
<1>8. CASE work.op = "remove"
  <2>1. kind \in LookedKinds BY <1>5 DEF LookedKinds
  <2>2. way # "sftp" BY <1>4
  <2> HIDE DEF kind
  <2> QED BY <1>1, <1>4, <1>6, <1>8, <2>1, <2>2, FoundRemoved
<1> QED BY <1>2, <1>7, <1>8

-----------------------------------------------------------------------------
(* Listings begin and end *)

\* A new listing or removal begins with nothing touched.
LEMMA BeginsWork ==
  ASSUME TreeInv, BeginWork, work' \in WorkType
  PROVE  TreeTypes' /\ touched' = {} /\ way' = way
<1>1. treeCount' \in [works: 0..TreeWorks, changes: 0..TreeChanges]
  BY TreeAssumption DEF BeginWork, TreeInv, TreeTypes
<1> QED BY <1>1 DEF BeginWork, TreeInv, TreeTypes

\* A listing that begins keeps the invariant.
LEMMA ListDirKept == ASSUME TreeInv, ListDir PROVE TreeInv'
<1>1. NoWork.rows = NoRows /\ ~NoWork.link BY DEF NoWork
<1>2. /\ work' \in WorkType /\ work'.op = "list" /\ work'.step = "names"
      /\ work'.rows = NoRows /\ ~work'.link
  BY <1>1, NoWorkIs DEF ListDir, WorkType
<1>3. TreeTypes' BY <1>2, BeginsWork DEF ListDir
<1>4. ListingIs' BY <1>2 DEF ListingIs, TestKnows
<1> QED BY <1>2, <1>3, <1>4 DEF TreeInv, UntouchedIsShown

\* The names are asked for, and the invariant holds of the rows to come.
LEMMA AsksNamesKept == ASSUME TreeInv, AsksNames PROVE TreeInv'
<1> DEFINE todo == {e \in EntryNames : KindOf(e) # "absent"}
           kinds == [e \in EntryNames |-> LooksLike(e)]
<1>1. /\ work \in WorkType /\ TreeTypes /\ work.step = "names"
      /\ work' = [work EXCEPT !.step = "stat", !.todo = todo, !.kinds = kinds]
      /\ touched' = {} /\ UNCHANGED <<tree, way, treeCount>>
  BY DEF AsksNames, TreeInv, TreeTypes
<1>2. work.op = "list"
  <2>1. work.op # "remove" BY <1>1 DEF TreeInv, RemovalIs, RemovalFits
  <2> QED BY <1>1, <2>1 DEF TreeInv, WorkType
<1>3. TestKnows /\ work.rows = NoRows BY <1>1, <1>2 DEF TreeInv, ListingIs
<1>4. kinds \in [EntryNames -> LookedKinds \cup {"none"}] BY <1>1, KindsAre
<1>5. \A e \in EntryNames : /\ kinds[e] = LooksLike(e) /\ kinds[e] # "none"
                            /\ e \in todo <=> KindOf(e) # "absent"
  BY <1>1, KindsAre DEF LookedKinds
<1> HIDE DEF todo, kinds
<1>6. /\ work' \in WorkType /\ work'.op = "list" /\ work'.step = "stat" /\ (work'.link <=> work.link)
      /\ work'.todo = todo /\ work'.kinds = kinds /\ work'.rows = NoRows
  <2>1. todo \subseteq EntryNames BY DEF todo
  <2> QED BY <1>1, <1>2, <1>3, <1>4, <2>1 DEF WorkType
<1>7. TestKnows' BY <1>1, <1>3, <1>6 DEF TestKnows
<1>8. \A e \in EntryNames : KindOf(e)' = KindOf(e) /\ LooksLike(e)' = LooksLike(e) /\ ShownKind(e)' = ShownKind(e)
  BY <1>1 DEF KindOf, LooksLike, IsLink, ShownKind
<1>9. \A e \in EntryNames : KindOf(e) = "absent" => ShownKind(e) = "none" BY DEF ShownKind
<1>10. \A e \in EntryNames : NoRows[e] = "none" BY DEF NoRows
<1>11. ASSUME NEW e \in EntryNames
       PROVE  /\ work'.kinds[e] # "none" /\ work'.kinds[e] = LooksLike(e)'
              /\ e \notin work'.todo => work'.rows[e] = ShownKind(e)'
              /\ e \in work'.todo => KindOf(e)' # "absent"
  BY <1>5, <1>6, <1>8, <1>9, <1>10
<1>12. ListingIs' BY <1>6, <1>7, <1>11 DEF ListingIs
<1>13. TreeTypes' BY <1>1, <1>6 DEF TreeTypes
<1> QED BY <1>6, <1>12, <1>13 DEF TreeInv, UntouchedIsShown

\* The names have come: each is to be looked at.
LEMMA ListedKept == ASSUME TreeInv, Listed PROVE TreeInv'
<1>1. /\ work \in WorkType /\ work.op = "list" /\ work.step = "stat" /\ work.todo = {}
      /\ Looks /\ work' = [NoWork EXCEPT !.op = "listed", !.rows = work.rows]
  BY DEF Listed, TreeInv, TreeTypes
<1>2. work' \in WorkType /\ work'.op = "listed" /\ work'.step = "none" /\ work'.rows = work.rows
  BY <1>1, NoWorkIs DEF WorkType
<1>3. \A e \in EntryNames \ touched : work.rows[e] = ShownKind(e)
  BY <1>1 DEF TreeInv, ListingIs
<1>4. UntouchedIsShown'
  <2>1. \A e \in EntryNames : ShownKind(e)' = ShownKind(e) BY <1>1, <1>2, LooksOnly
  <2>2. touched' = touched BY <1>1 DEF Looks
  <2> QED BY <1>2, <1>3, <2>1, <2>2 DEF UntouchedIsShown
<1>5. TreeTypes' BY <1>1, <1>2, LooksOnly
<1> QED BY <1>2, <1>4, <1>5 DEF TreeInv

-----------------------------------------------------------------------------
(* Removals *)

\* A removal that begins keeps the invariant.
LEMMA RemoveEntryKept == ASSUME TreeInv, RemoveEntry PROVE TreeInv'
<1>1. PICK e \in EntryNames, r \in BOOLEAN :
        work' = [NoWork EXCEPT !.op = "remove", !.step = "stat", !.todo = {e}, !.recursive = r]
  BY DEF RemoveEntry
<1>2. ~NoWork.link BY DEF NoWork
<1>3. /\ work' \in WorkType /\ work'.op = "remove" /\ work'.step = "stat" /\ work'.todo = {e} /\ ~work'.link
  BY <1>1, <1>2, NoWorkIs DEF WorkType
<1>4. TreeTypes' BY <1>3, BeginsWork DEF RemoveEntry
<1>5. TestKnows' /\ RemovalFits(e)' BY <1>3 DEF TestKnows, RemovalFits
<1> QED BY <1>3, <1>4, <1>5 DEF TreeInv, RemovalIs, UntouchedIsShown

\* The entry that is removed.
LEMMA RemovedIs ==
  ASSUME TreeInv, work.op = "remove"
  PROVE  RemovedEntry \in EntryNames /\ work.todo = {RemovedEntry} /\ TestKnows /\ RemovalFits(RemovedEntry)
<1>1. PICK e \in EntryNames : work.todo = {e} /\ TestKnows /\ RemovalFits(e) BY DEF TreeInv, RemovalIs
<1>2. RemovedEntry = e BY <1>1 DEF RemovedEntry
<1> QED BY <1>1, <1>2

\* The tree without an entry, or without what it holds, is a tree.
LEMMA TreeStays ==
  ASSUME TreeTypes, NEW e \in EntryNames
  PROVE  Without(e) \in TreeType /\ [tree EXCEPT !.filled = @ \ {e}] \in TreeType
         /\ [tree EXCEPT !.elsewhere = FALSE] \in TreeType
BY DEF Without, TreeTypes, TreeType

\* The last command of a removal.
LEMMA RemovalEndsKept ==
  ASSUME TreeInv, tree' \in TreeType, work' = NoWork, UNCHANGED <<way, touched, treeCount>>
  PROVE  TreeInv'
<1>1. TreeTypes' BY NoWorkIs DEF TreeInv, TreeTypes
<1> QED BY <1>1, NoWorkKept

\* The next step inside a directory.
LEMMA GoesInsideKept ==
  ASSUME TreeInv, work.op = "remove", work.step \in {"children", "child"}, NEW step \in {"child", "rmdir"},
         work' = [work EXCEPT !.step = step], tree' \in TreeType, tree'.kind = tree.kind,
         UNCHANGED <<way, touched, treeCount>>
  PROVE  TreeInv'
<1>1. PICK e \in EntryNames : work.todo = {e} /\ TestKnows /\ RemovalFits(e) BY RemovedIs
<1>2. /\ work' \in WorkType /\ work'.op = "remove" /\ work'.step = step /\ work'.todo = work.todo
      /\ (work'.link <=> work.link) /\ (work'.recursive <=> work.recursive)
  BY DEF TreeInv, TreeTypes, WorkType
<1>3. TreeTypes' BY <1>2 DEF TreeInv, TreeTypes
<1>4. TestKnows' BY <1>1, <1>2 DEF TestKnows
<1>5. RemovalFits(e)' BY <1>1, <1>2 DEF RemovalFits, KindOf
<1> QED BY <1>1, <1>2, <1>3, <1>4, <1>5 DEF TreeInv, RemovalIs, UntouchedIsShown

\* The removal of an entry, by rm, over SFTP or by rmdir, keeps the invariant.
LEMMA RemovesKept ==
  ASSUME TreeInv, RmShell \/ RmSftp \/ RmDir
  PROVE  TreeInv'
<1>1. work.op = "remove" BY DEF RmShell, RmSftp, RmDir, Removing
<1>2. RemovedEntry \in EntryNames /\ TreeTypes BY <1>1, RemovedIs DEF TreeInv
<1>3. tree \in TreeType /\ Without(RemovedEntry) \in TreeType BY <1>2, TreeStays DEF TreeTypes
<1>4. tree' \in {tree, Without(RemovedEntry)} BY DEF RmShell, RmSftp, RmDir
<1>5. work' = NoWork /\ UNCHANGED <<way, touched, treeCount>> BY DEF RmShell, RmSftp, RmDir, RemovalEnds
<1> QED BY <1>3, <1>4, <1>5, RemovalEndsKept

\* The children of a directory to be removed are listed.
LEMMA ChildrenKept == ASSUME TreeInv, Children PROVE TreeInv'
<1>1. work.op = "remove" /\ work.step = "children" /\ UNCHANGED <<tree, way, touched, treeCount>>
  BY DEF Children, Removing, Looks
<1>2. tree' \in TreeType BY <1>1 DEF TreeInv, TreeTypes
<1>3. \/ work' = NoWork
      \/ \E step \in {"child", "rmdir"} : work' = [work EXCEPT !.step = step]
  BY DEF Children
<1> QED BY <1>1, <1>2, <1>3, RemovalEndsKept, GoesInsideKept

\* The removal of a child keeps the invariant.
LEMMA RmChildKept == ASSUME TreeInv, RmChild PROVE TreeInv'
<1> DEFINE e == RemovedEntry
<1>1. work.op = "remove" /\ work.step = "child" /\ UNCHANGED <<way, touched, treeCount>>
  BY DEF RmChild, Removing
<1>2. e \in EntryNames /\ TreeTypes BY <1>1, RemovedIs DEF TreeInv
<1>3. CASE ~Holds(e)
  <2>1. work' = NoWork /\ UNCHANGED tree BY <1>3 DEF RmChild
  <2>2. tree' \in TreeType BY <2>1 DEF TreeInv, TreeTypes
  <2> QED BY <1>1, <2>1, <2>2, RemovalEndsKept
<1>4. CASE Holds(e)
  <2>1. work' = [work EXCEPT !.step = "rmdir"] BY <1>4 DEF RmChild
  <2>2. tree' \in {[tree EXCEPT !.filled = @ \ {e}], [tree EXCEPT !.elsewhere = FALSE]} BY <1>4 DEF RmChild
  <2>3. tree' \in TreeType BY <1>2, <2>2, TreeStays
  <2>4. tree'.kind = tree.kind BY <1>2, <2>2 DEF TreeTypes, TreeType
  <2> QED BY <1>1, <2>1, <2>3, <2>4, GoesInsideKept
<1> QED BY <1>3, <1>4

\* Every step of the backend keeps its invariant.
LEMMA TreeKept == ASSUME TreeInv, [TreeNext]_treeVars PROVE TreeInv'
<1>1. CASE UNCHANGED treeVars
  <2>1. UNCHANGED <<tree, way, work, touched, treeCount>> BY <1>1 DEF treeVars
  <2> QED BY <2>1 DEF TreeInv, TreeTypes, ListingIs, RemovalIs, RemovalFits, TestKnows, UntouchedIsShown,
                      KindOf, IsLink, LooksLike, ShownKind
<1>2. CASE TreeNext
  BY <1>2, OthersChangeKept, WorkFailsKept, ListDirKept, AsksNamesKept, ListedKept, RemoveEntryKept,
     StatKept, ReadlinkKept, TestDirKept, RemovesKept, ChildrenKept, RmChildKept DEF TreeNext
<1> QED BY <1>1, <1>2

\* What nobody touched is shown as it is.
LEMMA TreeSafe == TreeInv => TreeTypeOK /\ UntouchedIsShown
BY DEF TreeInv, TreeTypes, TreeTypeOK, TreeType, WorkType, LookedKinds

\* A step of a removal takes nothing but its entry.
LEMMA RemovalStep ==
  ASSUME TreeInv, [TreeNext]_treeVars, work.op = "remove", RemovedEntry \notin touched
  PROVE  LET e == RemovedEntry IN
         /\ tree'.elsewhere = tree.elsewhere
         /\ \A o \in EntryNames \ {e} : tree'.kind[o] # tree.kind[o] => o \in touched'
         /\ tree.kind[e] = "dir" /\ tree'.kind[e] = "absent" /\ e \notin touched' => work.recursive
<1> DEFINE e == RemovedEntry
<1> SUFFICES /\ tree'.elsewhere = tree.elsewhere
             /\ \A o \in EntryNames \ {e} : tree'.kind[o] # tree.kind[o] => o \in touched'
             /\ tree.kind[e] = "dir" /\ tree'.kind[e] = "absent" /\ e \notin touched' => work.recursive
  OBVIOUS
<1>1. e \in EntryNames /\ e \notin touched /\ RemovalFits(e) BY RemovedIs
<1>2. tree \in TreeType BY DEF TreeInv, TreeTypes
<1>3. CASE OthersChange
  <2>1. PICK o \in EntryNames, k \in EntryKinds \cup {"absent"} :
          /\ tree' = [tree EXCEPT !.kind[o] = k, !.filled = @ \cup {o}]
          /\ touched' = touched \cup {o}
    BY <1>3 DEF OthersChange
  <2>2. tree'.elsewhere = tree.elsewhere /\ \A p \in EntryNames \ {o} : tree'.kind[p] = tree.kind[p]
    BY <1>2, <2>1 DEF TreeType
  <2> HIDE DEF e
  <2> QED BY <1>1, <2>1, <2>2
<1>4. CASE RmShell
  <2> DEFINE kept == work.kinds[e] = "file" /\ KindOf(e) = "dir"
  <2>1. tree' = IF kept THEN tree ELSE Without(e) BY <1>4 DEF RmShell
  <2>2. work.step = "rm" /\ way # "sftp" BY <1>4 DEF RmShell, Removing
  <2> HIDE DEF e
  <2>3. /\ Without(e).elsewhere = tree.elsewhere
        /\ \A o \in EntryNames \ {e} : Without(e).kind[o] = tree.kind[o]
    BY <1>1, <1>2 DEF Without, TreeType
  <2>4. tree.kind[e] = "dir" => work.recursive BY <1>1, <2>2 DEF RemovalFits, KindOf
  <2> HIDE DEF kept
  <2> QED BY <2>1, <2>3, <2>4
<1>5. CASE RmSftp
  <2>1. tree' = IF KindOf(e) = "dir" THEN tree ELSE Without(e) BY <1>5 DEF RmSftp
  <2> HIDE DEF e
  <2>2. /\ Without(e).elsewhere = tree.elsewhere
        /\ \A o \in EntryNames \ {e} : Without(e).kind[o] = tree.kind[o]
    BY <1>1, <1>2 DEF Without, TreeType
  <2> QED BY <2>1, <2>2 DEF KindOf
<1>6. CASE RmChild
  <2>1. work.step = "child" BY <1>6 DEF RmChild, Removing
  <2>2. KindOf(e) = "dir" BY <1>1, <2>1 DEF RemovalFits
  <2>3. tree' = tree \/ tree' = [tree EXCEPT !.filled = @ \ {e}] BY <1>6, <2>2 DEF RmChild
  <2>4. tree'.elsewhere = tree.elsewhere /\ tree'.kind = tree.kind BY <1>2, <2>3 DEF TreeType
  <2> HIDE DEF e
  <2> QED BY <2>4
<1>7. CASE RmDir
  <2>1. work.step = "rmdir" BY <1>7 DEF RmDir, Removing
  <2>2. work.recursive BY <1>1, <2>1 DEF RemovalFits
  <2>3. tree' = tree \/ tree' = Without(e) BY <1>7 DEF RmDir
  <2> HIDE DEF e
  <2>4. /\ Without(e).elsewhere = tree.elsewhere
        /\ \A o \in EntryNames \ {e} : Without(e).kind[o] = tree.kind[o]
    BY <1>1, <1>2 DEF Without, TreeType
  <2> QED BY <2>2, <2>3, <2>4
<1>8. CASE UNCHANGED tree BY <1>8
<1>9. OthersChange \/ RmShell \/ RmSftp \/ RmChild \/ RmDir \/ UNCHANGED tree
  BY DEF TreeNext, treeVars, WorkFails, Looks, ListDir, BeginWork, AsksNames, Listed, RemoveEntry,
         Stat, Readlink, TestDir, Children
<1> HIDE DEF e
<1> QED BY <1>3, <1>4, <1>5, <1>6, <1>7, <1>8, <1>9

-----------------------------------------------------------------------------
(* The shell of the file manager *)

Commands == [of: 1..Frames, printed: BOOLEAN]
OutLines == [of: 1..Frames, line: {"text", "token"}]
ShellType == [link: BOOLEAN, kept: BOOLEAN, ended: BOOLEAN, typed: Seq(Commands), out: Seq(OutLines)]
CallType == [at: {"idle", "wants", "opens", "reads", "transfers"}, doing: Doings,
             seq: 0..Frames, read: Seq(0..Frames), end: CallEnds]
ModeType == [mode: HostModes \cup {"unknown"}, readlink: BOOLEAN]
HostType == [mode: HostModes, readlink: BOOLEAN]

TextOf(s) == [of |-> s, line |-> "text"]
TokenOf(s) == [of |-> s, line |-> "token"]
CommandOf(s, p) == [of |-> s, printed |-> p]

\* Where the one command in the shell is: typed, half printed, printed; how much
\* of it has been read; or the shell ended on the way.
Streams(s, read, sh) ==
  \/ sh.typed = <<CommandOf(s, FALSE)>> /\ sh.out = <<>> /\ read = <<>> /\ ~sh.ended
  \/ sh.typed = <<CommandOf(s, TRUE)>> /\ sh.out = <<TextOf(s)>> /\ read = <<>> /\ ~sh.ended
  \/ sh.typed = <<CommandOf(s, TRUE)>> /\ sh.out = <<>> /\ read = <<s>> /\ ~sh.ended
  \/ sh.typed = <<>> /\ sh.out = <<TextOf(s), TokenOf(s)>> /\ read = <<>>
  \/ sh.typed = <<>> /\ sh.out = <<TokenOf(s)>> /\ read = <<s>>
  \/ sh.typed = <<>> /\ sh.out = <<TextOf(s)>> /\ read = <<>> /\ sh.ended
  \/ sh.typed = <<>> /\ sh.out = <<>> /\ read \in {<<>>, <<s>>} /\ sh.ended

Quiet(sh) == sh.typed = <<>> /\ sh.out = <<>>
HasLock == {"opens", "reads", "transfers"}

CallFits(b, c, lock, sh, host) ==
  /\ c \in CallType
  /\ lock = b <=> c.at \in HasLock
  /\ c.at \in {"wants", "opens"} => c.read = <<>>
  /\ \A i \in DOMAIN c.read : c.read[i] = c.seq
  /\ c.at = "opens" => Quiet(sh) /\ ~sh.kept /\ ~sh.ended
  /\ c.at = "transfers" => Quiet(sh)
  /\ c.at = "reads" => sh.kept /\ c.seq \in 1..Frames /\ Streams(c.seq, c.read, sh)
  /\ c.doing = "busybox" => host.mode # "gnu"
  /\ c.doing = "ls" => host.mode \notin {"gnu", "busybox"}

ShellInv ==
  /\ shellHost \in HostType /\ shell \in ShellType /\ shellLock \in Browsers \cup {NoBrowser}
  /\ frames \in 0..Frames /\ shellMode \in ModeType /\ ModeIsHosts
  /\ shellLock = NoBrowser => Quiet(shell)
  /\ browsing \in [Browsers -> CallType]
  /\ \A b \in Browsers : CallFits(b, browsing[b], shellLock, shell, shellHost)

\* The numbers of frames are counted within their bound.
LEMMA FramesCount == 0 \in 0..Frames /\ \A n \in 0..Frames : n < Frames => n + 1 \in 0..Frames /\ n + 1 \in 1..Frames
BY ShellAssumption

\* Sequences of no, one and two elements.
LEMMA ShortSequences ==
  ASSUME NEW S, NEW x \in S, NEW y \in S
  PROVE  /\ <<>> \in Seq(S) /\ <<x>> \in Seq(S) /\ <<x, y>> \in Seq(S)
         /\ Append(<<>>, x) = <<x>> /\ Append(<<x>>, y) = <<x, y>>
         /\ Head(<<x>>) = x /\ Head(<<x, y>>) = x /\ Tail(<<x>>) = <<>> /\ Tail(<<x, y>>) = <<y>>
         /\ <<x>> # <<>> /\ <<x, y>> # <<>>
<1>1. <<>> \in Seq(S) /\ <<x>> \in Seq(S) /\ <<x, y>> \in Seq(S) OBVIOUS
<1>2. Append(<<>>, x) = <<x>> OBVIOUS
<1>3. Append(<<x>>, y) = <<x, y>>
  <2>1. PICK s : s = <<x>> OBVIOUS
  <2>2. PICK t : t = Append(s, y) OBVIOUS
  <2>3. s \in Seq(S) BY <2>1
  <2>7. Len(s) = 1 /\ s[1] = x BY <2>1
  <2>6. /\ t \in Seq(S) /\ Len(t) = Len(s) + 1 /\ t[Len(s) + 1] = y
        /\ \A i \in 1..Len(s) : t[i] = s[i]
    BY <2>2, <2>3, AppendIn
  <2>4. t \in Seq(S) /\ Len(t) = 2 /\ t[1] = x /\ t[2] = y BY <2>6, <2>7
  <2>5. t = <<x, y>> BY <2>4
  <2> QED BY <2>1, <2>2, <2>5
<1>4. Head(<<x>>) = x /\ Head(<<x, y>>) = x OBVIOUS
<1>5. Tail(<<x>>) = <<>> OBVIOUS
<1>6. Tail(<<x, y>>) = <<y>> OBVIOUS
<1>7. <<x>> # <<>> /\ <<x, y>> # <<>> OBVIOUS
<1> QED BY <1>1, <1>2, <1>3, <1>4, <1>5, <1>6, <1>7

\* A browser without a call waits for nothing and has read nothing.
LEMMA NoCallIs ==
  /\ NoCall \in CallType /\ NoCall.at = "idle" /\ NoCall.doing = "names" /\ NoCall.read = <<>>
  /\ DOMAIN NoCall.read = {}
<1>1. <<>> \in Seq(0..Frames) /\ DOMAIN <<>> = {} OBVIOUS
<1> QED BY <1>1, FramesCount DEF NoCall, CallType, Doings, CallEnds

\* The initial states of the shell satisfy its invariant.
LEMMA ShellInitial == ShellInit => ShellInv
<1> SUFFICES ASSUME ShellInit PROVE ShellInv OBVIOUS
<1>1. shellHost \in HostType /\ shellLock = NoBrowser /\ frames \in 0..Frames
  BY FramesCount DEF ShellInit, HostType
<1>2. shell \in ShellType /\ Quiet(shell)
  <2>1. <<>> \in Seq(Commands) /\ <<>> \in Seq(OutLines) OBVIOUS
  <2> QED BY <2>1 DEF ShellInit, ShellType, Quiet
<1>3. shellMode \in ModeType /\ ModeIsHosts BY DEF ShellInit, ModeType, ModeIsHosts
<1>4. browsing \in [Browsers -> CallType] BY NoCallIs DEF ShellInit
<1>5. ASSUME NEW b \in Browsers PROVE CallFits(b, browsing[b], shellLock, shell, shellHost)
  <2>1. browsing[b] = NoCall BY DEF ShellInit
  <2>2. shellLock # b BY <1>1, ShellAssumption
  <2> QED BY <2>1, <2>2, NoCallIs DEF CallFits, HasLock
<1> QED BY <1>1, <1>2, <1>3, <1>4, <1>5 DEF ShellInv

\* Who has not the lock fits whatever becomes of the shell.
LEMMA OthersFit ==
  ASSUME ShellInv, NEW b \in Browsers, NEW r, browsing' = [browsing EXCEPT ![b] = r], UNCHANGED shellHost,
         \/ UNCHANGED <<shell, shellLock>>
         \/ shellLock \in {b, NoBrowser} /\ shellLock' \in {b, NoBrowser},
         CallFits(b, r, shellLock', shell', shellHost)
  PROVE  /\ browsing' \in [Browsers -> CallType] /\ browsing'[b] = r
         /\ \A d \in Browsers : CallFits(d, browsing'[d], shellLock', shell', shellHost')
<1>1. r \in CallType BY DEF CallFits
<1>2. browsing' \in [Browsers -> CallType] /\ browsing'[b] = r /\ \A d \in Browsers \ {b} : browsing'[d] = browsing[d]
  BY <1>1 DEF ShellInv
<1>3. ASSUME NEW d \in Browsers \ {b} PROVE CallFits(d, browsing'[d], shellLock', shell', shellHost')
  <2>1. CallFits(d, browsing[d], shellLock, shell, shellHost) BY DEF ShellInv
  <2>2. CASE UNCHANGED <<shell, shellLock>> BY <1>2, <2>1, <2>2
  <2>3. CASE shellLock \in {b, NoBrowser} /\ shellLock' \in {b, NoBrowser}
    <3>1. shellLock # d /\ shellLock' # d BY <2>3, ShellAssumption
    <3>2. browsing[d].at \notin HasLock BY <2>1, <3>1 DEF CallFits
    <3> QED BY <1>2, <2>1, <3>1, <3>2 DEF CallFits, HasLock
  <2> QED BY <2>2, <2>3
<1> QED BY <1>2, <1>3

\* A call that waits for the lock fits any shell and any holder of the lock but itself.
LEMMA AskedFits ==
  ASSUME NEW b \in Browsers, NEW doing \in Doings, NEW lock, NEW sh, lock # b,
         doing = "busybox" => shellHost.mode # "gnu",
         doing = "ls" => shellHost.mode \notin {"gnu", "busybox"}
  PROVE  CallFits(b, [NoCall EXCEPT !.at = "wants", !.doing = doing], lock, sh, shellHost)
<1> DEFINE r == [NoCall EXCEPT !.at = "wants", !.doing = doing]
<1>1. r \in CallType /\ r.at = "wants" /\ r.doing = doing /\ r.read = <<>> /\ DOMAIN r.read = {}
  BY NoCallIs DEF CallType
<1> HIDE DEF r
<1>2. CallFits(b, r, lock, sh, shellHost) BY <1>1 DEF CallFits, HasLock
<1> QED BY <1>2 DEF r

\* A listing or a transfer that asks for the lock keeps the invariant.
LEMMA StartsKept ==
  ASSUME ShellInv, NEW b \in Browsers, StartsBrowsing(b) \/ StartsTransfer(b)
  PROVE  ShellInv'
<1>1. browsing[b].at = "idle" /\ UNCHANGED <<shellHost, shell, shellLock, frames, shellMode>>
  BY DEF StartsBrowsing, StartsTransfer
<1>2. PICK doing \in {"gnu", "names", "scp"} :
        browsing' = [browsing EXCEPT ![b] = [NoCall EXCEPT !.at = "wants", !.doing = doing]]
  <2>1. CASE StartsTransfer(b) BY <2>1 DEF StartsTransfer, Asks
  <2>2. CASE StartsBrowsing(b)
    <3>1. FirstOf(shellMode.mode) \in {"gnu", "names"} BY DEF FirstOf
    <3> QED BY <2>2, <3>1 DEF StartsBrowsing, Asks
  <2> QED BY <2>1, <2>2
<1>3. shellLock' # b
  <2>1. CallFits(b, browsing[b], shellLock, shell, shellHost) BY DEF ShellInv
  <2> QED BY <2>1, <1>1 DEF CallFits, HasLock
<1>4. doing \in Doings BY DEF Doings, Probes
<1>5. CallFits(b, [NoCall EXCEPT !.at = "wants", !.doing = doing], shellLock', shell', shellHost)
  BY <1>3, <1>4, AskedFits
<1>6. /\ browsing' \in [Browsers -> CallType]
      /\ \A d \in Browsers : CallFits(d, browsing'[d], shellLock', shell', shellHost')
  BY <1>1, <1>2, <1>5, OthersFit
<1> QED BY <1>1, <1>6 DEF ShellInv, ModeIsHosts

\* A frame for the first command in a quiet shell.
LEMMA FrameWritten ==
  ASSUME ShellInv, NEW b \in Browsers, NEW s \in ShellType, Quiet(s), ~s.ended, s.kept, WriteFrame(b, s),
         browsing[b].at \in {"wants", "opens"}, shellLock \in {b, NoBrowser}, shellLock' = b,
         UNCHANGED <<shellHost, shellMode>>
  PROVE  ShellInv'
<1> DEFINE n == frames + 1
           c == CommandOf(n, FALSE)
           r == [browsing[b] EXCEPT !.at = "reads", !.seq = n]
<1>1. n \in 0..Frames /\ n \in 1..Frames BY FramesCount DEF WriteFrame, ShellInv
<1>2. c \in Commands BY <1>1 DEF CommandOf, Commands
<1>3. frames' = n /\ browsing' = [browsing EXCEPT ![b] = r] BY DEF WriteFrame, ShellInv, CallType
<1>4. shell' = [s EXCEPT !.typed = Append(<<>>, c)]
  BY DEF WriteFrame, Quiet, CommandOf
<1> HIDE DEF n, c
<1>5. Append(<<>>, c) = <<c>> /\ <<c>> \in Seq(Commands) BY <1>2, ShortSequences
<1>6. shell' \in ShellType /\ shell'.typed = <<c>> /\ shell'.out = <<>> /\ shell'.kept /\ ~shell'.ended
  BY <1>4, <1>5 DEF ShellType, Quiet
<1>7. /\ r \in CallType /\ r.at = "reads" /\ r.seq = n /\ r.read = <<>> /\ r.doing = browsing[b].doing
      /\ (r.doing = "busybox" => shellHost.mode # "gnu")
      /\ (r.doing = "ls" => shellHost.mode \notin {"gnu", "busybox"})
  <2>1. browsing[b] \in CallType /\ browsing[b].read = <<>> BY DEF ShellInv, CallFits
  <2>2. r \in CallType /\ r.at = "reads" /\ r.seq = n /\ r.read = <<>> /\ r.doing = browsing[b].doing
    BY <2>1, <1>1 DEF CallType
  <2>3. CallFits(b, browsing[b], shellLock, shell, shellHost) BY DEF ShellInv
  <2> HIDE DEF r
  <2> QED BY <2>2, <2>3 DEF CallFits
<1> HIDE DEF r
<1>8. Streams(r.seq, r.read, shell') BY <1>6, <1>7 DEF Streams, c
<1>9. DOMAIN r.read = {} BY <1>7
<1>10. CallFits(b, r, shellLock', shell', shellHost) BY <1>1, <1>6, <1>7, <1>8, <1>9 DEF CallFits, HasLock
<1>11. /\ browsing' \in [Browsers -> CallType]
       /\ \A d \in Browsers : CallFits(d, browsing'[d], shellLock', shell', shellHost')
  BY <1>3, <1>10, OthersFit
<1>12. shellLock' # NoBrowser BY ShellAssumption
<1> QED BY <1>1, <1>3, <1>6, <1>11, <1>12 DEF ShellInv, ModeIsHosts

\* A shell that was dropped has nothing under way.
LEMMA Dropped ==
  ASSUME ShellInv
  PROVE  /\ ShellDropped \in ShellType /\ Quiet(ShellDropped) /\ ~ShellDropped.kept /\ ~ShellDropped.ended
<1>1. <<>> \in Seq(Commands) /\ <<>> \in Seq(OutLines) /\ shell \in ShellType BY DEF ShellInv
<1> QED BY <1>1 DEF ShellDropped, ShellType, Quiet

\* Who takes the lock finds a shell in which no other command is under way.
LEMMA TakeKept ==
  ASSUME ShellInv, NEW b \in Browsers, TakeLock(b)
  PROVE  ShellInv'
<1>1. /\ browsing[b].at = "wants" /\ shellLock = NoBrowser /\ shellLock' = b /\ UNCHANGED <<shellHost, shellMode>>
  BY DEF TakeLock
<1>2. shell \in ShellType /\ Quiet(shell) /\ CallFits(b, browsing[b], shellLock, shell, shellHost)
  BY <1>1 DEF ShellInv
<1>3. shellLock' # NoBrowser BY <1>1, ShellAssumption
<1> DEFINE r(at) == [browsing[b] EXCEPT !.at = at]
<1>4. ASSUME NEW at \in {"opens", "transfers"}
      PROVE  /\ r(at) \in CallType /\ r(at).at = at /\ r(at).read = <<>>
             /\ (r(at).doing = "busybox" => shellHost.mode # "gnu")
             /\ (r(at).doing = "ls" => shellHost.mode \notin {"gnu", "busybox"})
  <2>1. browsing[b] \in CallType /\ browsing[b].read = <<>> BY <1>1, <1>2 DEF CallFits
  <2>2. r(at) \in CallType /\ r(at).at = at /\ r(at).read = <<>> /\ r(at).doing = browsing[b].doing
    BY <2>1 DEF CallType
  <2> HIDE DEF r
  <2> QED BY <2>2, <1>2 DEF CallFits
<1>5. CASE browsing' = [browsing EXCEPT ![b].at = "transfers"] /\ UNCHANGED <<shell, frames>>
  <2>1. browsing' = [browsing EXCEPT ![b] = r("transfers")] BY <1>5
  <2> HIDE DEF r
  <2>2. DOMAIN r("transfers").read = {} BY <1>4
  <2>3. CallFits(b, r("transfers"), shellLock', shell', shellHost)
    BY <1>1, <1>2, <1>4, <1>5, <2>2 DEF CallFits, HasLock
  <2>4. /\ browsing' \in [Browsers -> CallType]
        /\ \A d \in Browsers : CallFits(d, browsing'[d], shellLock', shell', shellHost')
    BY <1>1, <2>1, <2>3, OthersFit
  <2> QED BY <1>1, <1>3, <1>5, <2>4 DEF ShellInv, ModeIsHosts
<1>6. CASE Alive /\ WriteFrame(b, shell)
  <2>1. shell.kept /\ ~shell.ended
    <3>1. shell.out = <<>> BY <1>2 DEF Quiet
    <3>2. shell.kept \in BOOLEAN /\ shell.ended \in BOOLEAN BY <1>2 DEF ShellType
    <3> QED BY <1>6, <3>1, <3>2 DEF Alive
  <2> QED BY <1>1, <1>2, <1>6, <2>1, FrameWritten
<1>7. CASE browsing' = [browsing EXCEPT ![b].at = "opens"] /\ shell' = ShellDropped /\ UNCHANGED frames
  <2>1. browsing' = [browsing EXCEPT ![b] = r("opens")] BY <1>7
  <2> HIDE DEF r
  <2>2. DOMAIN r("opens").read = {} BY <1>4
  <2>3. CallFits(b, r("opens"), shellLock', shell', shellHost)
    BY <1>1, <1>4, <1>7, <2>2, Dropped DEF CallFits, HasLock
  <2>4. /\ browsing' \in [Browsers -> CallType]
        /\ \A d \in Browsers : CallFits(d, browsing'[d], shellLock', shell', shellHost')
    BY <1>1, <2>1, <2>3, OthersFit
  <2> QED BY <1>1, <1>3, <1>7, <2>4, Dropped DEF ShellInv, ModeIsHosts
<1> QED BY <1>5, <1>6, <1>7 DEF TakeLock

\* A new shell is quiet, and its command the first.
LEMMA OpensKept ==
  ASSUME ShellInv, NEW b \in Browsers, ShellOpens(b)
  PROVE  ShellInv'
<1>1. browsing[b].at = "opens" /\ UNCHANGED <<shellHost, shellLock, shellMode>> BY DEF ShellOpens
<1>2. CallFits(b, browsing[b], shellLock, shell, shellHost) /\ shell \in ShellType BY DEF ShellInv
<1>3. shellLock = b /\ Quiet(shell) /\ ~shell.ended BY <1>1, <1>2 DEF CallFits, HasLock
<1> DEFINE s == [shell EXCEPT !.kept = TRUE]
<1>4. s \in ShellType /\ Quiet(s) /\ ~s.ended /\ s.kept BY <1>2, <1>3 DEF ShellType, Quiet
<1>5. WriteFrame(b, s) BY DEF ShellOpens
<1> HIDE DEF s
<1> QED BY <1>1, <1>3, <1>4, <1>5, FrameWritten

\* A call that is over leaves the lock, with the shell quiet.
LEMMA CallOver ==
  ASSUME ShellInv, NEW b \in Browsers, browsing[b].at \in HasLock, NEW e \in CallEnds,
         browsing' = [browsing EXCEPT ![b] = [NoCall EXCEPT !.end = e]], shellLock' = NoBrowser,
         UNCHANGED <<shellHost, frames, shellMode>>, shell' \in ShellType, Quiet(shell')
  PROVE  ShellInv'
<1> DEFINE r == [NoCall EXCEPT !.end = e]
<1>1. /\ r \in CallType /\ r.at = "idle" /\ r.read = <<>> /\ DOMAIN r.read = {} /\ r.doing = "names"
  BY NoCallIs DEF CallType
<1>2. browsing' = [browsing EXCEPT ![b] = r] OBVIOUS
<1> HIDE DEF r
<1>3. CallFits(b, r, shellLock', shell', shellHost) BY <1>1, ShellAssumption DEF CallFits, HasLock
<1>4. shellLock = b
  <2>1. CallFits(b, browsing[b], shellLock, shell, shellHost) BY DEF ShellInv
  <2> QED BY <2>1 DEF CallFits
<1>5. /\ browsing' \in [Browsers -> CallType]
      /\ \A d \in Browsers : CallFits(d, browsing'[d], shellLock', shell', shellHost')
  BY <1>2, <1>3, <1>4, OthersFit
<1> QED BY <1>5 DEF ShellInv, ModeIsHosts

\* A call that is refused, given up or ended gives the lock back and keeps the invariant.
LEMMA EndsKept ==
  ASSUME ShellInv, NEW b \in Browsers, OpenRefused(b) \/ OpenHangs(b) \/ GiveUp(b) \/ TransferEnds(b)
  PROVE  ShellInv'
<1>1. CallFits(b, browsing[b], shellLock, shell, shellHost) /\ shell \in ShellType BY DEF ShellInv
<1>2. PICK e \in {"answered", "failed"} :
        /\ browsing' = [browsing EXCEPT ![b] = [NoCall EXCEPT !.end = e]] /\ shellLock' = NoBrowser
        /\ UNCHANGED <<shellHost, frames, shellMode>>
  BY DEF OpenRefused, OpenHangs, GiveUp, TransferEnds, CallFails
<1>3. e \in CallEnds BY DEF CallEnds
<1>4. browsing[b].at \in HasLock BY DEF OpenRefused, OpenHangs, GiveUp, TransferEnds, HasLock
<1>5. shell' \in ShellType /\ Quiet(shell')
  <2>1. CASE OpenRefused(b) BY <1>1, <2>1 DEF OpenRefused, CallFits
  <2>2. CASE OpenHangs(b)
    <3>1. Quiet(shell) BY <1>1, <2>2 DEF OpenHangs, CallFits
    <3>2. shell' = [shell EXCEPT !.link = FALSE] BY <2>2 DEF OpenHangs
    <3> QED BY <1>1, <3>1, <3>2 DEF ShellType, Quiet
  <2>3. CASE GiveUp(b) BY <2>3, Dropped DEF GiveUp
  <2>4. CASE TransferEnds(b) BY <1>1, <2>4 DEF TransferEnds, CallFits
  <2> QED BY <2>1, <2>2, <2>3, <2>4
<1> QED BY <1>2, <1>3, <1>4, <1>5, CallOver

-----------------------------------------------------------------------------
(* What is read *)

\* The token comes last, after one line of text.
LEMMA TokenIsLast ==
  ASSUME NEW s \in 1..Frames, NEW read, NEW sh \in ShellType, Streams(s, read, sh), sh.out # <<>>
  PROVE  \/ /\ Head(sh.out) = TextOf(s) /\ read = <<>>
            /\ \A z \in ShellType : z.typed = sh.typed /\ z.out = Tail(sh.out) /\ z.ended = sh.ended
                 => Streams(s, <<s>>, z)
         \/ /\ Head(sh.out) = TokenOf(s) /\ read = <<s>> /\ sh.typed = <<>> /\ Tail(sh.out) = <<>>
<1>1. TextOf(s) \in OutLines /\ TokenOf(s) \in OutLines BY DEF TextOf, TokenOf, OutLines
<1> DEFINE x == TextOf(s)
           y == TokenOf(s)
<1>2. /\ Head(<<x>>) = x /\ Head(<<y>>) = y /\ Head(<<x, y>>) = x
      /\ Tail(<<x>>) = <<>> /\ Tail(<<y>>) = <<>> /\ Tail(<<x, y>>) = <<y>>
  BY <1>1, ShortSequences
<1> HIDE DEF x, y
<1>3. CASE sh.out = <<x>> /\ read = <<>> /\ ((sh.typed = <<CommandOf(s, TRUE)>> /\ ~sh.ended) \/ (sh.typed = <<>> /\ sh.ended))
  BY <1>2, <1>3 DEF Streams, x, y
<1>4. CASE sh.out = <<x, y>> /\ read = <<>> /\ sh.typed = <<>>
  BY <1>2, <1>4 DEF Streams, x, y
<1>5. CASE sh.out = <<y>> /\ read = <<s>> /\ sh.typed = <<>>
  BY <1>2, <1>5 DEF y
<1>6. \/ sh.out = <<x>> /\ read = <<>> /\ ((sh.typed = <<CommandOf(s, TRUE)>> /\ ~sh.ended) \/ (sh.typed = <<>> /\ sh.ended))
      \/ sh.out = <<x, y>> /\ read = <<>> /\ sh.typed = <<>>
      \/ sh.out = <<y>> /\ read = <<s>> /\ sh.typed = <<>>
  BY DEF Streams, x, y
<1> QED BY <1>3, <1>4, <1>5, <1>6

\* What follows an answer: the same call in the next step, or over.
LEMMA ProbeKept ==
  ASSUME ShellInv, NEW b \in Browsers, NEW ok \in BOOLEAN, ProbeAnswered(b, ok),
         ok => HostCan(browsing[b].doing),
         ~ok /\ browsing[b].doing = "gnu" => ~HostCan("gnu"),
         ~ok /\ browsing[b].doing # "gnu" => ~HostCan(browsing[b].doing),
         browsing[b].at = "reads"
  PROVE  /\ shellMode' \in ModeType
         /\ shellMode'.mode \in {"unknown", shellHost.mode} /\ (shellHost.readlink => shellMode'.readlink)
         /\ \E r \in CallType :
              /\ browsing' = [browsing EXCEPT ![b] = r] /\ r.at \in {"idle", "wants"}
              /\ (r.at = "wants" => r.read = <<>>) /\ (\A i \in DOMAIN r.read : r.read[i] = r.seq)
              /\ (r.doing = "busybox" => shellHost.mode # "gnu")
              /\ (r.doing = "ls" => shellHost.mode \notin {"gnu", "busybox"})
<1>1. CallFits(b, browsing[b], shellLock, shell, shellHost) BY DEF ShellInv
<1>2. shellMode \in ModeType /\ shellHost \in HostType /\ ModeIsHosts BY DEF ShellInv
<1> DEFINE was == browsing[b].doing
           calling(d) == [NoCall EXCEPT !.at = "wants", !.doing = d]
<1>3. ASSUME NEW d \in Doings
      PROVE  calling(d) \in CallType /\ calling(d).at = "wants" /\ calling(d).doing = d /\ calling(d).read = <<>>
             /\ DOMAIN calling(d).read = {}
  BY NoCallIs DEF CallType
<1> DEFINE Next0(d, m) == browsing' = [browsing EXCEPT ![b] = calling(d)] /\ shellMode' = m
<1>4. ASSUME NEW d \in Doings, NEW m, Next0(d, m), m \in ModeType,
             m.mode \in {"unknown", shellHost.mode}, shellHost.readlink => m.readlink,
             d = "busybox" => shellHost.mode # "gnu", d = "ls" => shellHost.mode \notin {"gnu", "busybox"}
      PROVE  /\ shellMode' \in ModeType
             /\ shellMode'.mode \in {"unknown", shellHost.mode} /\ (shellHost.readlink => shellMode'.readlink)
             /\ \E r \in CallType :
                  /\ browsing' = [browsing EXCEPT ![b] = r] /\ r.at \in {"idle", "wants"}
                  /\ (r.at = "wants" => r.read = <<>>) /\ (\A i \in DOMAIN r.read : r.read[i] = r.seq)
                  /\ (r.doing = "busybox" => shellHost.mode # "gnu")
                  /\ (r.doing = "ls" => shellHost.mode \notin {"gnu", "busybox"})
  <2>1. PICK r : r = calling(d) OBVIOUS
  <2>2. r \in CallType /\ r.at = "wants" /\ r.doing = d /\ r.read = <<>> /\ DOMAIN r.read = {} BY <1>3, <2>1
  <2>3. browsing' = [browsing EXCEPT ![b] = r] BY <1>4, <2>1
  <2> HIDE DEF calling
  <2> QED BY <1>4, <2>2, <2>3
<1>5. CASE was = "gnu" /\ ok
  <2> DEFINE m == [shellMode EXCEPT !.mode = "gnu"]
  <2>1. shellHost.mode = "gnu" BY <1>5 DEF HostCan
  <2>2. m \in ModeType /\ m.mode = "gnu" /\ m.readlink = shellMode.readlink BY <1>2 DEF ModeType, HostModes
  <2>3. Next0("names", m) BY <1>5 DEF ProbeAnswered, Continues, Asks
  <2> HIDE DEF m, Next0
  <2> QED BY <1>2, <1>4, <2>1, <2>2, <2>3 DEF Doings, ModeIsHosts
<1>6. CASE was = "gnu" /\ ~ok
  <2>1. shellHost.mode # "gnu" BY <1>6 DEF HostCan
  <2>2. Next0("busybox", shellMode) BY <1>6 DEF ProbeAnswered, Continues, Asks
  <2> HIDE DEF Next0
  <2> QED BY <1>2, <1>4, <2>1, <2>2 DEF Doings, Probes, ModeIsHosts
<1>7. CASE was = "busybox" /\ ok
  <2> DEFINE m == [shellMode EXCEPT !.mode = "busybox"]
  <2>1. shellHost.mode = "busybox" BY <1>1, <1>7 DEF HostCan, CallFits
  <2>2. m \in ModeType /\ m.mode = "busybox" /\ m.readlink = shellMode.readlink BY <1>2 DEF ModeType, HostModes
  <2>3. Next0("readlink", m) BY <1>7 DEF ProbeAnswered, Continues, Asks
  <2> HIDE DEF m, Next0
  <2> QED BY <1>2, <1>4, <2>1, <2>2, <2>3 DEF Doings, Probes, ModeIsHosts
<1>8. CASE was = "busybox" /\ ~ok
  <2>1. shellHost.mode \notin {"gnu", "busybox"} BY <1>8 DEF HostCan
  <2>2. Next0("ls", shellMode) BY <1>8 DEF ProbeAnswered, Continues, Asks
  <2> HIDE DEF Next0
  <2> QED BY <1>2, <1>4, <2>1, <2>2 DEF Doings, Probes, ModeIsHosts
<1>9. CASE was = "readlink"
  <2> DEFINE m == [shellMode EXCEPT !.readlink = ok]
  <2>1. shellHost.readlink => ok BY <1>9 DEF HostCan
  <2>2. m \in ModeType /\ m.mode = shellMode.mode /\ m.readlink = ok BY <1>2 DEF ModeType
  <2>3. Next0("names", m) BY <1>9 DEF ProbeAnswered, Continues, Asks
  <2> HIDE DEF m, Next0
  <2> QED BY <1>2, <1>4, <2>1, <2>2, <2>3 DEF Doings, ModeIsHosts
<1>10. CASE was = "ls" /\ ok
  <2> DEFINE m == [shellMode EXCEPT !.mode = "ls"]
  <2>1. shellHost.mode = "ls"
    <3>1. shellHost.mode # "nothing" BY <1>10 DEF HostCan
    <3> QED BY <3>1, <1>1, <1>2, <1>10 DEF CallFits, HostType, HostModes
  <2>2. m \in ModeType /\ m.mode = "ls" /\ m.readlink = shellMode.readlink BY <1>2 DEF ModeType, HostModes
  <2>3. Next0("names", m) BY <1>10 DEF ProbeAnswered, Continues, Asks
  <2> HIDE DEF m, Next0
  <2> QED BY <1>2, <1>4, <2>1, <2>2, <2>3 DEF Doings, ModeIsHosts
<1>11. CASE was \notin {"gnu", "busybox", "readlink"} /\ ~(was = "ls" /\ ok)
  <2> DEFINE e == IF ok THEN "answered" ELSE "failed"
             r == [browsing[b] EXCEPT !.at = "idle", !.end = e]
  <2>1. UNCHANGED shellMode /\ browsing' = [browsing EXCEPT ![b].at = "idle", ![b].end = e]
    BY <1>11 DEF ProbeAnswered
  <2>2. browsing' = [browsing EXCEPT ![b] = r] BY <2>1
  <2>3. e \in CallEnds /\ browsing[b] \in CallType BY <1>1 DEF CallEnds, CallFits
  <2> HIDE DEF e
  <2>4. /\ r \in CallType /\ r.at = "idle" /\ r.read = browsing[b].read /\ r.seq = browsing[b].seq
        /\ r.doing = browsing[b].doing
    BY <2>3 DEF CallType
  <2> HIDE DEF r
  <2>5. (\A i \in DOMAIN r.read : r.read[i] = r.seq) /\ r.doing # "busybox"
        /\ (r.doing = "ls" => shellHost.mode \notin {"gnu", "busybox"})
    BY <2>4, <1>1, <1>11 DEF CallFits
  <2> QED BY <2>1, <2>2, <2>4, <2>5, <1>2 DEF ModeIsHosts
<1> QED BY <1>5, <1>6, <1>7, <1>8, <1>9, <1>10, <1>11

\* A line that is read is of the command that reads it, to its token.
LEMMA ReadsKept ==
  ASSUME ShellInv, NEW b \in Browsers, ReadsLine(b)
  PROVE  ShellInv'
<1>1. browsing[b].at = "reads" /\ shell.out # <<>> /\ shell' = [shell EXCEPT !.out = Tail(shell.out)]
      /\ UNCHANGED <<shellHost, frames>>
  BY DEF ReadsLine
<1> DEFINE c == browsing[b]
           s == c.seq
<1>2. /\ CallFits(b, c, shellLock, shell, shellHost) /\ shell \in ShellType /\ shellHost \in HostType
      /\ c \in CallType
  BY DEF ShellInv, CallFits
<1>3. shellLock = b /\ s \in 1..Frames /\ Streams(s, c.read, shell) /\ shell.kept BY <1>1, <1>2 DEF CallFits, HasLock
<1>4. Tail(shell.out) \in Seq(OutLines)
  <2>1. shell.out \in Seq(OutLines) BY <1>2 DEF ShellType
  <2> QED BY <2>1, <1>1
<1>5. /\ shell' \in ShellType /\ shell'.typed = shell.typed /\ shell'.out = Tail(shell.out)
      /\ shell'.ended = shell.ended /\ shell'.kept
  BY <1>1, <1>2, <1>3, <1>4 DEF ShellType
<1>6. CASE Head(shell.out) = TextOf(s) /\ c.read = <<>> /\ Streams(s, <<s>>, shell')
  <2> DEFINE r == [c EXCEPT !.read = Append(<<>>, s)]
  <2>1. /\ browsing' = [browsing EXCEPT ![b].read = Append(browsing[b].read, Head(shell.out).of)]
        /\ UNCHANGED <<shellLock, shellMode>>
    BY <1>6 DEF ReadsLine, TextOf
  <2>2. Append(<<>>, s) = <<s>> /\ <<s>> \in Seq(0..Frames)
    <3>1. s \in 0..Frames BY <1>3
    <3> QED BY <3>1, ShortSequences
  <2>9. PICK v : v = Append(browsing[b].read, Head(shell.out).of) OBVIOUS
  <2>10. v = Append(<<>>, s) BY <2>9, <1>6 DEF TextOf
  <2>11. browsing' = [browsing EXCEPT ![b].read = v] BY <2>1, <2>9
  <2>3. browsing' = [browsing EXCEPT ![b] = r] BY <2>10, <2>11
  <2>4. r \in CallType /\ r.at = "reads" /\ r.seq = s /\ r.read = <<s>> /\ r.doing = c.doing
    BY <2>2, <1>1, <1>2 DEF CallType
  <2> HIDE DEF r
  <2>5. \A i \in DOMAIN r.read : r.read[i] = r.seq BY <2>4
  <2>6. CallFits(b, r, shellLock', shell', shellHost)
    BY <1>2, <1>3, <1>5, <1>6, <2>1, <2>4, <2>5 DEF CallFits, HasLock
  <2>7. /\ browsing' \in [Browsers -> CallType]
        /\ \A d \in Browsers : CallFits(d, browsing'[d], shellLock', shell', shellHost')
    BY <1>1, <1>3, <2>1, <2>3, <2>6, OthersFit
  <2>8. shellLock' # NoBrowser BY <1>3, <2>1, ShellAssumption
  <2> QED BY <1>1, <1>5, <2>1, <2>7, <2>8 DEF ShellInv, ModeIsHosts
<1>7. CASE Head(shell.out) = TokenOf(s) /\ c.read = <<s>> /\ shell.typed = <<>> /\ Tail(shell.out) = <<>>
  <2> DEFINE ok == Succeeds(b, c.read)
  <2>1. ProbeAnswered(b, ok) /\ shellLock' = NoBrowser BY <1>7 DEF ReadsLine, TokenOf
  <2>2. Len(c.read) = 1 BY <1>7
  <2>3. ok <=> HostCan(c.doing) BY <2>2 DEF Succeeds
  <2>4. ok \in BOOLEAN BY DEF Succeeds
  <2> HIDE DEF ok
  <2>5. /\ shellMode' \in ModeType
        /\ shellMode'.mode \in {"unknown", shellHost.mode} /\ (shellHost.readlink => shellMode'.readlink)
    BY <1>1, <2>1, <2>3, <2>4, ProbeKept
  <2>6. PICK r \in CallType :
          /\ browsing' = [browsing EXCEPT ![b] = r] /\ r.at \in {"idle", "wants"}
          /\ (r.at = "wants" => r.read = <<>>) /\ (\A i \in DOMAIN r.read : r.read[i] = r.seq)
          /\ (r.doing = "busybox" => shellHost.mode # "gnu")
          /\ (r.doing = "ls" => shellHost.mode \notin {"gnu", "busybox"})
    BY <1>1, <2>1, <2>3, <2>4, ProbeKept
  <2>7. CallFits(b, r, shellLock', shell', shellHost)
    BY <2>1, <2>6, ShellAssumption DEF CallFits, HasLock
  <2>8. /\ browsing' \in [Browsers -> CallType]
        /\ \A d \in Browsers : CallFits(d, browsing'[d], shellLock', shell', shellHost')
    BY <1>1, <1>3, <2>1, <2>6, <2>7, OthersFit
  <2>9. Quiet(shell') BY <1>5, <1>7 DEF Quiet
  <2> QED BY <1>1, <1>5, <2>1, <2>5, <2>8, <2>9 DEF ShellInv, ModeIsHosts
<1> QED BY <1>1, <1>2, <1>3, <1>5, <1>6, <1>7, TokenIsLast

-----------------------------------------------------------------------------
(* The register *)

\* Only the coroutine that reads sees what the shell does.
LEMMA HostKept ==
  ASSUME ShellInv, UNCHANGED <<shellHost, shellLock, frames, shellMode, browsing>>,
         shell' \in ShellType, Quiet(shell) => Quiet(shell'), shell'.kept = shell.kept,
         ~shell.kept => shell'.ended = shell.ended,
         \A b \in Browsers : browsing[b].at = "reads" => Streams(browsing[b].seq, browsing[b].read, shell')
  PROVE  ShellInv'
<1>1. ASSUME NEW b \in Browsers PROVE CallFits(b, browsing[b], shellLock, shell', shellHost)
  <2>1. CallFits(b, browsing[b], shellLock, shell, shellHost) BY DEF ShellInv
  <2> QED BY <2>1 DEF CallFits
<1> QED BY <1>1 DEF ShellInv, ModeIsHosts

\* A shell that closes, or loses its link, keeps the invariant.
LEMMA ClosesKept ==
  ASSUME ShellInv, ShellCloses \/ ShellLinkLost
  PROVE  ShellInv'
<1>1. UNCHANGED <<shellHost, shellLock, frames, shellMode, browsing>> BY DEF ShellCloses, ShellLinkLost
<1>2. shell \in ShellType BY DEF ShellInv
<1>3. CASE ShellLinkLost
  <2>1. /\ shell' \in ShellType /\ shell'.kept = shell.kept /\ shell'.ended = shell.ended
        /\ shell'.typed = shell.typed /\ shell'.out = shell.out
    BY <1>2, <1>3 DEF ShellLinkLost, ShellType
  <2>2. Quiet(shell) => Quiet(shell') BY <2>1 DEF Quiet
  <2>3. ASSUME NEW b \in Browsers, browsing[b].at = "reads"
        PROVE  Streams(browsing[b].seq, browsing[b].read, shell')
    <3>1. Streams(browsing[b].seq, browsing[b].read, shell) BY <2>3 DEF ShellInv, CallFits
    <3> QED BY <2>1, <3>1 DEF Streams
  <2> QED BY <1>1, <2>1, <2>2, <2>3, HostKept
<1>4. CASE ShellCloses
  <2>1. /\ shell' \in ShellType /\ shell'.kept = shell.kept /\ shell'.ended /\ shell.kept
        /\ shell'.typed = <<>> /\ shell'.out = shell.out
    <3>1. <<>> \in Seq(Commands) OBVIOUS
    <3> QED BY <3>1, <1>2, <1>4 DEF ShellCloses, ShellType
  <2>2. Quiet(shell) => Quiet(shell') BY <2>1 DEF Quiet
  <2>3. ASSUME NEW b \in Browsers, browsing[b].at = "reads"
        PROVE  Streams(browsing[b].seq, browsing[b].read, shell')
    <3>1. Streams(browsing[b].seq, browsing[b].read, shell) BY <2>3 DEF ShellInv, CallFits
    <3> QED BY <2>1, <3>1 DEF Streams
  <2> QED BY <1>1, <2>1, <2>2, <2>3, HostKept
<1> QED BY <1>3, <1>4

\* The register prints the lines of the oldest command that has not been answered.
LEMMA PrintsKept ==
  ASSUME ShellInv, HostPrints
  PROVE  ShellInv'
<1>1. UNCHANGED <<shellHost, shellLock, frames, shellMode, browsing>> BY DEF HostPrints
<1>2. shell \in ShellType /\ shell.kept /\ ~shell.ended /\ shell.typed # <<>> BY DEF ShellInv, HostPrints
<1>3. PICK b \in Browsers : browsing[b].at = "reads"
  <2>1. ~Quiet(shell) /\ shellLock # NoBrowser /\ shellLock \in Browsers BY <1>2 DEF Quiet, ShellInv
  <2>2. CallFits(shellLock, browsing[shellLock], shellLock, shell, shellHost) BY <2>1 DEF ShellInv
  <2> QED BY <2>1, <2>2 DEF CallFits, HasLock
<1> DEFINE s == browsing[b].seq
           x == TextOf(s)
           y == TokenOf(s)
           c0 == CommandOf(s, FALSE)
           c1 == CommandOf(s, TRUE)
<1>4. CallFits(b, browsing[b], shellLock, shell, shellHost) BY DEF ShellInv
<1>5. s \in 1..Frames /\ Streams(s, browsing[b].read, shell) BY <1>3, <1>4 DEF CallFits
<1>15. s \in 1..Frames BY <1>5
<1>16. x \in OutLines /\ y \in OutLines BY <1>15 DEF TextOf, TokenOf, OutLines
<1>17. c0 \in Commands /\ c1 \in Commands BY <1>15 DEF CommandOf, Commands
<1>18. c0.of = s /\ c1.of = s /\ ~c0.printed /\ c1.printed /\ c1 = [c0 EXCEPT !.printed = TRUE]
  <2>1. c0.of = s /\ c1.of = s BY DEF CommandOf
  <2>2. c0.printed = FALSE BY DEF CommandOf
  <2>3. c1.printed = TRUE BY DEF CommandOf
  <2> HIDE DEF c0, c1
  <2>4. c1 = [c0 EXCEPT !.printed = TRUE] BY <1>17, <2>1, <2>2, <2>3 DEF Commands
  <2> QED BY <2>1, <2>2, <2>3, <2>4
<1>19. x = [of |-> s, line |-> "text"] /\ y = [of |-> s, line |-> "token"] BY DEF TextOf, TokenOf
<1>7. \/ shell.typed = <<c0>> /\ shell.out = <<>> /\ browsing[b].read = <<>>
      \/ shell.typed = <<c1>> /\ shell.out = <<x>> /\ browsing[b].read = <<>>
      \/ shell.typed = <<c1>> /\ shell.out = <<>> /\ browsing[b].read = <<s>>
  BY <1>2, <1>5 DEF Streams
<1> HIDE DEF x, y, c0, c1
<1>8. /\ Append(<<>>, x) = <<x>> /\ Append(<<>>, y) = <<y>> /\ Append(<<x>>, y) = <<x, y>>
      /\ <<x>> \in Seq(OutLines) /\ <<y>> \in Seq(OutLines) /\ <<x, y>> \in Seq(OutLines)
  <2>1. Append(<<>>, x) = <<x>> /\ <<x>> \in Seq(OutLines) BY <1>16, ShortSequences
  <2>2. Append(<<>>, y) = <<y>> /\ <<y>> \in Seq(OutLines) BY <1>16, ShortSequences
  <2>3. Append(<<x>>, y) = <<x, y>> /\ <<x, y>> \in Seq(OutLines) BY <1>16, ShortSequences
  <2> QED BY <2>1, <2>2, <2>3
<1>9. /\ Head(<<c0>>) = c0 /\ Head(<<c1>>) = c1 /\ Tail(<<c1>>) = <<>>
      /\ <<c1>> \in Seq(Commands) /\ <<>> \in Seq(Commands)
  <2>1. Head(<<c0>>) = c0 BY <1>17, ShortSequences
  <2>2. Head(<<c1>>) = c1 /\ Tail(<<c1>>) = <<>> /\ <<c1>> \in Seq(Commands) /\ <<>> \in Seq(Commands)
    BY <1>17, ShortSequences
  <2> QED BY <2>1, <2>2
<1>10. ASSUME NEW t \in Seq(Commands), NEW o \in Seq(OutLines), shell' = [shell EXCEPT !.typed = t, !.out = o]
       PROVE  /\ shell' \in ShellType /\ shell'.typed = t /\ shell'.out = o /\ shell'.kept = shell.kept
              /\ ~shell'.ended /\ shell'.ended = shell.ended
  BY <1>2, <1>10 DEF ShellType
<1>11. Streams(s, browsing[b].read, shell') /\ shell' \in ShellType /\ shell'.kept = shell.kept
       /\ shell'.ended = shell.ended
  <2>1. CASE shell.typed = <<c0>> /\ shell.out = <<>> /\ browsing[b].read = <<>>
    <3>1. PICK c : c = Head(shell.typed) OBVIOUS
    <3>2. c = c0 BY <3>1, <1>9, <2>1
    <3>3. ~c.printed /\ c.of = s BY <3>2, <1>18
    <3>5. PICK o : o = Append(shell.out, [of |-> c.of, line |-> "text"]) OBVIOUS
    <3>6. o = <<x>> BY <3>3, <3>5, <2>1, <1>8, <1>19
    <3>7. PICK t : t = [shell.typed EXCEPT ![1].printed = TRUE] OBVIOUS
    <3>8. t = <<c1>>
      <4>1. PICK q \in Seq(Commands) : q = <<c0>>
        <5>1. <<c0>> \in Seq(Commands) BY <1>17, ShortSequences
        <5> QED BY <5>1
      <4>2. Len(q) = 1 /\ q[1] = c0 BY <4>1
      <4>3. t = [q EXCEPT ![1].printed = TRUE] BY <3>7, <2>1, <4>1
      <4>4. t = [q EXCEPT ![1] = [q[1] EXCEPT !.printed = TRUE]] BY <4>3
      <4>5. [q[1] EXCEPT !.printed = TRUE] = c1 BY <4>2, <1>18
      <4>6. t = [q EXCEPT ![1] = c1] BY <4>4, <4>5
      <4>7. DOMAIN q = 1..Len(q) /\ \A i \in DOMAIN q : q[i] \in Commands BY Elements
      <4>8. DOMAIN q = 1..1 BY <4>2, <4>7
      <4>9. t \in [1..1 -> Commands] /\ t[1] = c1
        <5>1. q = [i \in 1..1 |-> q[i]] BY <4>8, <4>1
        <5>2. q \in [1..1 -> Commands] BY <4>7, <4>8, <5>1
        <5> QED BY <5>2, <4>6, <1>17
      <4>10. t \in Seq(Commands) /\ Len(t) = 1
        <5>1. PICK u : u = [i \in 1..1 |-> c1] OBVIOUS
        <5>2. u \in Seq(Commands) BY <5>1, <1>17
        <5>3. Len(u) = 1 BY <5>1
        <5>4. t = u BY <5>1, <4>9
        <5> QED BY <5>2, <5>3, <5>4
      <4> QED BY <4>9, <4>10
    <3>9. shell' = [shell EXCEPT !.typed[1].printed = TRUE, !.out = o] BY <3>1, <3>3, <3>5 DEF HostPrints
    <3>10. shell' = [shell EXCEPT !.typed = t, !.out = o] BY <3>7, <3>9, <1>2 DEF ShellType
    <3>4. /\ shell' \in ShellType /\ shell'.typed = <<c1>> /\ shell'.out = <<x>> /\ shell'.kept = shell.kept
          /\ ~shell'.ended /\ shell'.ended = shell.ended
      BY <1>8, <1>9, <1>10, <3>6, <3>8, <3>10
    <3> QED BY <2>1, <3>4 DEF Streams, x, c1
  <2>2. ASSUME shell.typed = <<c1>>, NEW o \in Seq(OutLines), Append(shell.out, y) = o
        PROVE  /\ shell' \in ShellType /\ shell'.typed = <<>> /\ shell'.out = o /\ shell'.kept = shell.kept
               /\ ~shell'.ended /\ shell'.ended = shell.ended
    <3>1. shell' = [shell EXCEPT !.typed = <<>>, !.out = Append(shell.out, y)]
      <4>1. PICK c : c = Head(shell.typed) OBVIOUS
      <4>2. c = c1 BY <4>1, <1>9, <2>2
      <4>3. c.printed /\ c.of = s BY <4>2, <1>18
      <4>4. shell' = [shell EXCEPT !.typed = Tail(shell.typed), !.out = Append(shell.out, [of |-> c.of, line |-> "token"])]
        BY <4>1, <4>3 DEF HostPrints
      <4> QED BY <4>3, <4>4, <2>2, <1>9, <1>19
    <3>2. shell' = [shell EXCEPT !.typed = <<>>, !.out = o] BY <2>2, <3>1
    <3> QED BY <1>9, <1>10, <3>2
  <2>3. CASE shell.typed = <<c1>> /\ shell.out = <<x>> /\ browsing[b].read = <<>>
    <3>1. /\ shell' \in ShellType /\ shell'.typed = <<>> /\ shell'.out = <<x, y>> /\ shell'.kept = shell.kept
          /\ ~shell'.ended /\ shell'.ended = shell.ended
      BY <1>8, <2>2, <2>3
    <3> QED BY <2>3, <3>1 DEF Streams, x, y
  <2>4. CASE shell.typed = <<c1>> /\ shell.out = <<>> /\ browsing[b].read = <<s>>
    <3>1. /\ shell' \in ShellType /\ shell'.typed = <<>> /\ shell'.out = <<y>> /\ shell'.kept = shell.kept
          /\ ~shell'.ended /\ shell'.ended = shell.ended
      BY <1>8, <2>2, <2>4
    <3> QED BY <2>4, <3>1 DEF Streams, y
  <2> QED BY <1>7, <2>1, <2>3, <2>4
<1>12. ASSUME NEW d \in Browsers, browsing[d].at = "reads" PROVE d = b
  <2>1. CallFits(d, browsing[d], shellLock, shell, shellHost) BY DEF ShellInv
  <2> QED BY <1>3, <1>4, <1>12, <2>1 DEF CallFits, HasLock
<1>13. ~Quiet(shell) BY <1>2 DEF Quiet
<1> QED BY <1>1, <1>11, <1>12, <1>13, HostKept

\* Every step of the shell keeps its invariant.
LEMMA ShellKept ==
  ASSUME ShellInv, [ShellNext]_shellVars
  PROVE  ShellInv'
<1>1. CASE UNCHANGED shellVars
  <2>1. UNCHANGED <<shellHost, shell, shellLock, frames, shellMode, browsing>> BY <1>1 DEF shellVars
  <2> QED BY <2>1 DEF ShellInv, ModeIsHosts
<1>2. CASE \E b \in Browsers : BrowserStep(b)
  BY <1>2, StartsKept, TakeKept, OpensKept, EndsKept, ReadsKept DEF BrowserStep
<1> QED BY <1>1, <1>2, PrintsKept, ClosesKept DEF ShellNext

\* The output is of the command that reads it, the mode that of the register, and a transfer
\* alone in the shell.
LEMMA ShellSafe == ShellInv => ShellTypeOK /\ OutputIsOwn /\ ModeIsHosts /\ TransferIsAlone
<1> SUFFICES ASSUME ShellInv PROVE ShellTypeOK /\ OutputIsOwn /\ ModeIsHosts /\ TransferIsAlone OBVIOUS
<1>1. \A b \in Browsers : CallFits(b, browsing[b], shellLock, shell, shellHost) /\ browsing[b] \in CallType
  BY DEF ShellInv
<1>2. OutputIsOwn BY <1>1 DEF CallFits, OutputIsOwn
<1>3. TransferIsAlone
  <2> SUFFICES ASSUME NEW b \in Browsers, browsing[b].at = "transfers"
               PROVE  shell.typed = <<>> /\ \A d \in Browsers : browsing[d].at \notin {"opens", "reads"}
    BY DEF TransferIsAlone
  <2>1. Quiet(shell) /\ shellLock = b BY <1>1 DEF CallFits, HasLock
  <2>2. ASSUME NEW d \in Browsers, browsing[d].at \in {"opens", "reads"} PROVE FALSE
    <3>1. shellLock = d BY <1>1, <2>2 DEF CallFits, HasLock
    <3> QED BY <2>1, <2>2, <3>1
  <2> QED BY <2>1, <2>2 DEF Quiet
<1>4. /\ \A i \in DOMAIN shell.typed : shell.typed[i] \in Commands
      /\ \A i \in DOMAIN shell.out : shell.out[i] \in OutLines
  <2>1. shell.typed \in Seq(Commands) /\ shell.out \in Seq(OutLines) BY DEF ShellInv, ShellType
  <2> QED BY <2>1, Elements
<1>5. /\ DOMAIN shell = {"link", "kept", "ended", "typed", "out"}
      /\ {shell.link, shell.kept, shell.ended} \subseteq BOOLEAN
  BY DEF ShellInv, ShellType
<1>6. ShellTypeOK
  BY <1>1, <1>4, <1>5 DEF ShellInv, ShellTypeOK, HostType, ModeType, CallType, Commands, OutLines
<1> QED BY <1>2, <1>3, <1>6 DEF ShellInv

-----------------------------------------------------------------------------
Rising(s) == \A i, j \in 1..Len(s) : i < j => s[i] < s[j]
Below(s, n) == \A i \in 1..Len(s) : s[i] < n
Precedes(s, t) == \A i \in 1..Len(s), j \in 1..Len(t) : s[i] < t[j]

PaperType == [past: Seq(Nat), screen: Seq(Nat), next: Nat, row: 1..3]

\* A good paper: lines in the order of printing, the next one not yet printed.
GoodPaper(p) ==
  /\ p \in PaperType
  /\ Len(p.past) <= History /\ Len(p.screen) \in 2..3 /\ p.next \in 1..(Lines + 4)
  /\ Rising(p.past) /\ Rising(p.screen) /\ Precedes(p.past, p.screen)
  /\ Below(p.past, p.next) /\ Below(p.screen, p.next)

ScreenInv ==
  /\ ScreenTypeOK
  /\ GoodPaper(paper)
  /\ DecodedAsSent
  /\ ViewIsInHistory

\* The last character that has come whole ends at most two bytes before the end of what came.
LEMMA LastEndIs ==
  ASSUME NEW n \in 0..Bytes
  PROVE  LastEnd(n) \in CharacterEnds /\ LastEnd(n) <= n /\ n - LastEnd(n) \in 0..2
<1> DEFINE P(e) == e \in CharacterEnds /\ e <= n /\ \A f \in CharacterEnds : f <= n => f <= e
<1>1. \E e \in CharacterEnds : e <= n /\ n <= e + 2
  BY ScreenAssumption
<1>2. CharacterEnds \subseteq Nat /\ n \in Nat
  BY ScreenAssumption
<1>3. \E e : P(e)
  <2>1. PICK b \in CharacterEnds : b <= n /\ n <= b + 2 BY <1>1
  <2>2. \A f \in CharacterEnds : f <= n => f <= b \/ f = b + 1 \/ f = b + 2
    BY <2>1, <1>2
  <2>3. CASE b + 2 \in CharacterEnds /\ b + 2 <= n BY <2>1, <2>2, <2>3, <1>2
  <2>4. CASE ~(b + 2 \in CharacterEnds /\ b + 2 <= n) /\ b + 1 \in CharacterEnds /\ b + 1 <= n
    BY <2>1, <2>2, <2>4, <1>2
  <2>5. CASE ~(b + 2 \in CharacterEnds /\ b + 2 <= n) /\ ~(b + 1 \in CharacterEnds /\ b + 1 <= n)
    BY <2>1, <2>2, <2>5, <1>2
  <2> QED BY <2>3, <2>4, <2>5
<1>4. P(LastEnd(n))
  BY <1>3 DEF LastEnd
<1>5. n <= LastEnd(n) + 2
  <2>1. PICK b \in CharacterEnds : b <= n /\ n <= b + 2 BY <1>1
  <2>2. b <= LastEnd(n) BY <2>1, <1>4
  <2>3. b \in Nat /\ LastEnd(n) \in Nat BY <1>2, <1>4
  <2> HIDE DEF P
  <2> QED BY <2>1, <2>2, <2>3, <1>2
<1>6. LastEnd(n) \in CharacterEnds /\ LastEnd(n) <= n /\ LastEnd(n) \in Nat /\ n \in Nat BY <1>2, <1>4
<1> HIDE DEF P
<1>7. n - LastEnd(n) \in 0..2 BY <1>5, <1>6
<1> QED BY <1>6, <1>7

\* The bounds of the screen are numbers.
LEMMA ScreenNumbers ==
  /\ History \in Nat /\ History >= 1 /\ Lines \in Nat /\ Gestures \in Nat /\ Bytes \in Nat
BY ScreenAssumption

\* What is on paper in order is what the property calls lines in order.
LEMMA PaperOrder ==
  ASSUME GoodPaper(paper)
  PROVE  LinesInOrder
<1> DEFINE s == paper.past
           t == paper.screen
           all == s \o t
<1>1. s \in Seq(Nat) /\ t \in Seq(Nat) BY DEF GoodPaper, PaperType
<1>2. Len(s) \in Nat /\ Len(t) \in Nat BY <1>1
<1>3. Len(all) = Len(s) + Len(t) BY <1>1
<1>4. \A i \in 1..Len(all) : all[i] = IF i <= Len(s) THEN s[i] ELSE t[i - Len(s)]
  BY <1>1
<1>5. Rising(s) /\ Rising(t) /\ Precedes(s, t) BY DEF GoodPaper
<1> SUFFICES ASSUME NEW i \in 1..Len(all), NEW j \in 1..Len(all), i < j
             PROVE  all[i] < all[j]
  BY DEF LinesInOrder
<1> HIDE DEF s, t
<1>6. CASE j <= Len(s)
  <2>1. i \in 1..Len(s) /\ j \in 1..Len(s) BY <1>6, <1>2, <1>3
  <2>2. all[i] = s[i] /\ all[j] = s[j] BY <2>1, <1>4, <1>2, <1>3
  <2> HIDE DEF all
  <2> QED BY <2>1, <2>2, <1>5 DEF Rising
<1>7. CASE i <= Len(s) /\ ~(j <= Len(s))
  <2>1. i \in 1..Len(s) /\ j - Len(s) \in 1..Len(t) BY <1>7, <1>2, <1>3
  <2>2. all[i] = s[i] /\ all[j] = t[j - Len(s)] BY <1>7, <1>4, <1>2, <1>3
  <2> HIDE DEF all
  <2> QED BY <2>1, <2>2, <1>5 DEF Precedes
<1>8. CASE ~(i <= Len(s))
  <2>1. i - Len(s) \in 1..Len(t) /\ j - Len(s) \in 1..Len(t) /\ i - Len(s) < j - Len(s) /\ ~(j <= Len(s))
    BY <1>8, <1>2, <1>3
  <2>2. all[i] = t[i - Len(s)] /\ all[j] = t[j - Len(s)] BY <1>8, <2>1, <1>4, <1>2, <1>3
  <2> HIDE DEF all
  <2> QED BY <2>1, <2>2, <1>5 DEF Rising
<1> QED BY <1>6, <1>7, <1>8

\* Lines in order stay so without the first, which is less than the others.
LEMMA RisingTail ==
  ASSUME NEW s \in Seq(Nat), Len(s) >= 1, Rising(s)
  PROVE  /\ Tail(s) \in Seq(Nat) /\ Len(Tail(s)) = Len(s) - 1 /\ Rising(Tail(s))
         /\ Head(s) \in Nat /\ Head(s) = s[1]
         /\ \A i \in 1..Len(Tail(s)) : Tail(s)[i] = s[i + 1] /\ i + 1 \in 1..Len(s)
         /\ \A i \in 1..Len(Tail(s)) : Head(s) < Tail(s)[i]
<1>1. Len(s) \in Nat /\ s # <<>> OBVIOUS
<1>2. Tail(s) \in Seq(Nat) /\ Len(Tail(s)) = Len(s) - 1 BY <1>1
<1>3. \A i \in 1..Len(Tail(s)) : Tail(s)[i] = s[i + 1] /\ i + 1 \in 1..Len(s) BY <1>1, <1>2
<1>4. Head(s) = s[1] /\ s[1] \in Nat BY <1>1
<1>5. \A i \in 1..Len(Tail(s)) : Head(s) < Tail(s)[i]
  BY <1>1, <1>2, <1>3, <1>4 DEF Rising
<1>6. Rising(Tail(s))
  BY <1>1, <1>2, <1>3 DEF Rising
<1> QED BY <1>2, <1>3, <1>4, <1>5, <1>6

\* A new line comes after all others.
LEMMA RisingAppend ==
  ASSUME NEW s \in Seq(Nat), NEW n \in Nat, Rising(s), Below(s, n)
  PROVE  /\ Append(s, n) \in Seq(Nat) /\ Len(Append(s, n)) = Len(s) + 1
         /\ Rising(Append(s, n)) /\ Below(Append(s, n), n + 1)
         /\ \A i \in 1..Len(s) : Append(s, n)[i] = s[i]
         /\ Append(s, n)[Len(s) + 1] = n
<1> DEFINE t == Append(s, n)
<1>1. Len(s) \in Nat OBVIOUS
<1>2. t \in Seq(Nat) /\ Len(t) = Len(s) + 1 OBVIOUS
<1>3. \A i \in 1..Len(s) : t[i] = s[i] OBVIOUS
<1>4. t[Len(s) + 1] = n OBVIOUS
<1>5. \A i \in 1..Len(t) : i \in 1..Len(s) \/ i = Len(s) + 1 BY <1>1, <1>2
<1>6. \A i \in 1..Len(s) : s[i] \in Nat OBVIOUS
<1> HIDE DEF t
<1>9. \A i \in 1..Len(t) : t[i] \in Nat /\ t[i] <= n /\ (i # Len(s) + 1 => t[i] < n)
  <2> SUFFICES ASSUME NEW i \in 1..Len(t) PROVE t[i] \in Nat /\ t[i] <= n /\ (i # Len(s) + 1 => t[i] < n)
    OBVIOUS
  <2>1. CASE i \in 1..Len(s)
    <3>1. s[i] < n /\ s[i] \in Nat /\ t[i] = s[i] BY <2>1, <1>3, <1>6 DEF Below
    <3> QED BY <3>1
  <2>2. CASE i = Len(s) + 1 BY <2>2, <1>4
  <2> QED BY <2>1, <2>2, <1>5
<1>7. Rising(t)
  <2> SUFFICES ASSUME NEW i \in 1..Len(t), NEW j \in 1..Len(t), i < j PROVE t[i] < t[j] BY DEF Rising
  <2>1. i \in 1..Len(s) /\ i # Len(s) + 1 BY <1>1, <1>2
  <2>2. CASE j = Len(s) + 1 BY <2>1, <2>2, <1>4, <1>9
  <2>3. CASE j \in 1..Len(s) BY <2>1, <2>3, <1>3 DEF Rising
  <2> QED BY <2>2, <2>3, <1>5
<1>8. Below(t, n + 1)
  <2> SUFFICES ASSUME NEW i \in 1..Len(t) PROVE t[i] < n + 1 BY DEF Below
  <2>1. t[i] \in Nat /\ t[i] <= n BY <1>9
  <2> QED BY <2>1
<1> QED BY <1>2, <1>3, <1>4, <1>7, <1>8 DEF t

\* A line feed at the bottom moves the first line of the screen behind the history, which it
\* may shorten.
LEMMA ScrolledGood ==
  ASSUME GoodPaper(paper), paper.next < Lines + 4
  PROVE  GoodPaper(ScrolledUp) /\ Len(paper.past) <= Len(ScrolledUp.past)
<1> DEFINE s == paper.past
           t == paper.screen
           n == paper.next
           out == Append(s, Head(t))
           s2 == IF Len(out) > History THEN Tail(out) ELSE out
           t2 == Append(Tail(t), n)
<1>1. /\ s \in Seq(Nat) /\ t \in Seq(Nat) /\ n \in Nat /\ paper.row \in 1..3
      /\ Len(s) <= History /\ Len(t) \in 2..3
      /\ Rising(s) /\ Rising(t) /\ Precedes(s, t) /\ Below(s, n) /\ Below(t, n)
      /\ Len(s) \in Nat /\ History \in Nat /\ Lines \in Nat
  BY ScreenNumbers DEF GoodPaper, PaperType
<1>0. Len(t) \in Nat /\ Len(t) >= 1 /\ 1 \in 1..Len(t)
  <2>1. Len(t) \in 2..3 BY <1>1
  <2> QED BY <2>1
<1>2. ScrolledUp = [paper EXCEPT !.past = s2, !.screen = t2, !.next = n + 1] /\ paper \in PaperType
  BY DEF ScrolledUp, GoodPaper
<1> HIDE DEF s, t, n
<1>3. /\ Tail(t) \in Seq(Nat) /\ Len(Tail(t)) = Len(t) - 1 /\ Rising(Tail(t))
      /\ Head(t) \in Nat /\ Head(t) = t[1]
      /\ \A i \in 1..Len(Tail(t)) : Tail(t)[i] = t[i + 1] /\ i + 1 \in 1..Len(t)
      /\ \A i \in 1..Len(Tail(t)) : Head(t) < Tail(t)[i]
  BY <1>0, <1>1, RisingTail
<1>4. Below(s, Head(t))
  <2>1. 1 \in 1..Len(t) BY <1>0
  <2> SUFFICES ASSUME NEW i \in 1..Len(s) PROVE s[i] < Head(t) BY DEF Below
  <2>2. Precedes(s, t) /\ Head(t) = t[1] BY <1>1, <1>3
  <2>3. s[i] < t[1] BY <2>1, <2>2 DEF Precedes
  <2> QED BY <2>2, <2>3
<1>5. /\ out \in Seq(Nat) /\ Len(out) = Len(s) + 1 /\ Rising(out)
      /\ \A i \in 1..Len(s) : out[i] = s[i]
      /\ out[Len(s) + 1] = Head(t)
  BY <1>1, <1>3, <1>4, RisingAppend
<1>6. Below(Tail(t), n) BY <1>1, <1>3 DEF Below
<1>7. /\ t2 \in Seq(Nat) /\ Len(t2) = Len(t) /\ Rising(t2) /\ Below(t2, n + 1)
      /\ \A i \in 1..(Len(t) - 1) : t2[i] = Tail(t)[i]
      /\ t2[Len(t)] = n
  <2>1. /\ t2 \in Seq(Nat) /\ Len(t2) = Len(Tail(t)) + 1 /\ Rising(t2) /\ Below(t2, n + 1)
        /\ \A i \in 1..Len(Tail(t)) : t2[i] = Tail(t)[i]
        /\ t2[Len(Tail(t)) + 1] = n
    BY <1>1, <1>3, <1>6, RisingAppend
  <2>2. Len(Tail(t)) + 1 = Len(t) /\ Len(Tail(t)) = Len(t) - 1 BY <1>1, <1>3
  <2> HIDE DEF t2
  <2> QED BY <2>1, <2>2
<1>8. Precedes(out, t2) /\ Below(out, n + 1)
  <2>1. Head(t) < n BY <1>1, <1>3 DEF Below
  <2>2. \A i \in 1..Len(out) : out[i] \in Nat /\ out[i] <= Head(t)
    <3> SUFFICES ASSUME NEW i \in 1..Len(out) PROVE out[i] \in Nat /\ out[i] <= Head(t) OBVIOUS
    <3>1. CASE i = Len(s) + 1 BY <3>1, <1>5, <1>3
    <3>2. CASE i \in 1..Len(s) BY <3>2, <1>5, <1>4, <1>3, <1>1 DEF Below
    <3> QED BY <3>1, <3>2, <1>5, <1>1
  <2>3. \A j \in 1..Len(t2) : t2[j] \in Nat /\ Head(t) < t2[j]
    <3> SUFFICES ASSUME NEW j \in 1..Len(t2) PROVE t2[j] \in Nat /\ Head(t) < t2[j] OBVIOUS
    <3>1. CASE j = Len(t) BY <3>1, <1>7, <2>1, <1>1
    <3>2. CASE j \in 1..(Len(t) - 1)
      <4>1. t2[j] = Tail(t)[j] BY <3>2, <1>7
      <4>2. j \in 1..Len(Tail(t)) BY <3>2, <1>3
      <4>3. Head(t) < Tail(t)[j] /\ Tail(t)[j] \in Nat BY <4>2, <1>3
      <4> HIDE DEF t2
      <4> QED BY <4>1, <4>3
    <3>3. j \in 1..Len(t) BY <1>7
    <3> HIDE DEF t2
    <3> QED BY <3>1, <3>2, <3>3, <1>1
  <2> HIDE DEF out, t2
  <2> DEFINE h == Head(t)
  <2>4. h \in Nat /\ n \in Nat BY <1>1, <1>3
  <2> HIDE DEF h
  <2>5. \A i \in 1..Len(out) : out[i] \in Nat /\ out[i] <= h BY <2>2 DEF h
  <2>6. \A j \in 1..Len(t2) : t2[j] \in Nat /\ h < t2[j] BY <2>3 DEF h
  <2>7. h < n BY <2>1 DEF h
  <2>8. Precedes(out, t2)
    <3> SUFFICES ASSUME NEW i \in 1..Len(out), NEW j \in 1..Len(t2) PROVE out[i] < t2[j] BY DEF Precedes
    <3>1. out[i] \in Nat /\ out[i] <= h /\ t2[j] \in Nat /\ h < t2[j] BY <2>5, <2>6
    <3> QED BY <3>1, <2>4
  <2>9. Below(out, n + 1)
    <3> SUFFICES ASSUME NEW i \in 1..Len(out) PROVE out[i] < n + 1 BY DEF Below
    <3>1. out[i] \in Nat /\ out[i] <= h BY <2>5
    <3> QED BY <3>1, <2>4, <2>7
  <2> QED BY <2>8, <2>9
<1>9. /\ s2 \in Seq(Nat) /\ Len(s2) <= History /\ Len(s) <= Len(s2)
      /\ Rising(s2) /\ Precedes(s2, t2) /\ Below(s2, n + 1)
  <2>1. CASE Len(out) > History
    <3>1. s2 = Tail(out) BY <2>1
    <3>2. /\ Tail(out) \in Seq(Nat) /\ Len(Tail(out)) = Len(out) - 1 /\ Rising(Tail(out))
          /\ \A i \in 1..Len(Tail(out)) : Tail(out)[i] = out[i + 1] /\ i + 1 \in 1..Len(out)
      <4>1. Len(out) >= 1 BY <1>5, <1>1
      <4> HIDE DEF out
      <4> QED BY <1>5, <4>1, RisingTail
    <3> HIDE DEF s2, out, t2
    <3>3. Precedes(Tail(out), t2) /\ Below(Tail(out), n + 1)
      BY <1>8, <3>2 DEF Precedes, Below
    <3> QED BY <3>1, <3>2, <3>3, <1>5, <1>1
  <2>2. CASE ~(Len(out) > History)
    <3>1. s2 = out BY <2>2
    <3>2. Len(out) <= History BY <2>2, <1>5, <1>1
    <3> HIDE DEF s2, out, t2
    <3> QED BY <3>1, <3>2, <1>5, <1>8, <1>1
  <2> QED BY <2>1, <2>2
<1>10. n + 1 \in 1..(Lines + 4) /\ n + 1 \in Nat BY <1>1 DEF n
<1>11. s = paper.past /\ ScrolledUp \in PaperType /\ ScrolledUp.past = s2 /\ ScrolledUp.screen = t2 /\ ScrolledUp.next = n + 1
  <2> HIDE DEF s2, t2
  <2> QED BY <1>2, <1>7, <1>9, <1>10, <1>1 DEF PaperType, s
<1> HIDE DEF s2, t2
<1> QED BY <1>7, <1>9, <1>10, <1>11, <1>1 DEF GoodPaper

\* What the steps read of the invariant.
LEMMA ScreenTypes ==
  ASSUME ScreenInv
  PROVE  /\ paper \in PaperType
         /\ Len(paper.past) \in Nat /\ Len(paper.past) <= History /\ Rows \in 2..3
         /\ wire \in [read: 0..Bytes, held: 0..2, spoilt: BOOLEAN]
         /\ view \in [alt: BOOLEAN, offset: 0..History, saved: 0..3]
         /\ mark \in [row: 0..(History + 3), line: 0..(Lines + 4)]
         /\ mouse \in [mode: BOOLEAN, down: BOOLEAN, button: BOOLEAN]
         /\ gestures \in 0..Gestures
         /\ view.offset <= Len(paper.past)
<1>1. paper \in PaperType BY DEF ScreenInv, GoodPaper
<1>2. Len(paper.past) \in Nat BY <1>1 DEF PaperType
<1> QED BY <1>1, <1>2 DEF ScreenInv, ScreenTypeOK, ViewIsInHistory

\* A good paper has the type the invariant wants.
LEMMA PaperTypes ==
  ASSUME ScreenInv, GoodPaper(paper'), wire' \in [read: 0..Bytes, held: 0..2, spoilt: BOOLEAN],
         view' \in [alt: BOOLEAN, offset: 0..History, saved: 0..3],
         mark' \in [row: 0..(History + 3), line: 0..(Lines + 4)],
         mouse' \in [mode: BOOLEAN, down: BOOLEAN, button: BOOLEAN], gestures' \in 0..Gestures
  PROVE  ScreenTypeOK'
<1>1. Len(paper'.past) <= History /\ Len(paper'.screen) \in {2, 3} /\ paper'.next \in 1..(Lines + 4)
      /\ paper' \in PaperType
  BY DEF GoodPaper
<1>2. paper'.row \in 1..3 BY <1>1 DEF PaperType
<1> QED BY <1>1, <1>2 DEF ScreenTypeOK, Rows

\* An empty history is in order and before everything.
LEMMA NoPast == Rising(<<>>) /\ (\A t : Precedes(<<>>, t)) /\ (\A n : Below(<<>>, n)) /\ Len(<<>>) = 0
BY DEF Rising, Precedes, Below

\* The initial states of the screen satisfy its invariant.
LEMMA ScreenInitial == ScreenInit => ScreenInv
<1> SUFFICES ASSUME ScreenInit PROVE ScreenInv OBVIOUS
<1> USE ScreenNumbers DEF ScreenInit
<1>1. paper.past = <<>> /\ paper.screen = <<1, 2, 3>> /\ paper.next = 4 /\ paper.row = 3 /\ Len(paper.past) = 0 /\ Len(paper.screen) = 3
  OBVIOUS
<1>2. paper \in PaperType
  <2>1. <<1, 2, 3>> \in Seq(Nat) /\ <<>> \in Seq(Nat) OBVIOUS
  <2> QED BY <2>1 DEF PaperType
<1>3. GoodPaper(paper)
  BY <1>1, <1>2 DEF GoodPaper, Rising, Precedes, Below
<1>4. ScreenTypeOK
  <2>1. wire \in [read: 0..Bytes, held: 0..2, spoilt: BOOLEAN] OBVIOUS
  <2>2. view \in [alt: BOOLEAN, offset: 0..History, saved: 0..3] OBVIOUS
  <2>3. mark \in [row: 0..(History + 3), line: 0..(Lines + 4)] BY DEF NoMark
  <2>4. mouse \in [mode: BOOLEAN, down: BOOLEAN, button: BOOLEAN] OBVIOUS
  <2>5. gestures \in 0..Gestures OBVIOUS
  <2> QED BY <1>1, <2>1, <2>2, <2>3, <2>4, <2>5 DEF ScreenTypeOK, Rows
<1>5. DecodedAsSent /\ ViewIsInHistory
  <2>1. wire.read - wire.held = 0 /\ ~wire.spoilt /\ view.offset = 0 OBVIOUS
  <2>2. 0 \in CharacterEnds BY ScreenAssumption
  <2> QED BY <1>1, <2>1, <2>2 DEF DecodedAsSent, ViewIsInHistory
<1> QED BY <1>3, <1>4, <1>5 DEF ScreenInv

\* What a step that leaves the paper alone has to show.
LEMMA PaperStays ==
  ASSUME ScreenInv, UNCHANGED paper
  PROVE  GoodPaper(paper') /\ Rows' = Rows /\ Rows \in 2..3 /\ Len(paper'.past) = Len(paper.past) /\ Len(paper.past) \in Nat
BY DEF ScreenInv, GoodPaper, Rows, PaperType

\* A chunk that ends within a character keeps the invariant: what is held back is decoded with
\* the next.
LEMMA ReadKept ==
  ASSUME ScreenInv, ReadChunk
  PROVE  ScreenInv'
<1>1. PICK n \in 1..(Bytes - wire.read) : wire' = Decode(n) BY DEF ReadChunk
<1> DEFINE to == wire.read + n
<1>2. /\ wire \in [read: 0..Bytes, held: 0..2, spoilt: BOOLEAN] /\ Bytes \in Nat
      /\ ~wire.spoilt /\ wire.read - wire.held \in CharacterEnds
  BY ScreenNumbers DEF ScreenInv, ScreenTypeOK, DecodedAsSent
<1>3. to \in 0..Bytes BY <1>1, <1>2
<1>4. LastEnd(to) \in CharacterEnds /\ LastEnd(to) <= to /\ to - LastEnd(to) \in 0..2 BY <1>3, LastEndIs
<1>5. wire' = [read |-> to, held |-> to - LastEnd(to), spoilt |-> wire.spoilt]
  BY <1>1, <1>2 DEF Decode
<1>6. LastEnd(to) \in Nat
  <2>1. CharacterEnds \subseteq Nat BY ScreenAssumption
  <2> QED BY <1>4, <2>1
<1> HIDE DEF to
<1>7. to \in Nat BY <1>3, <1>2
<1>8. wire'.read - wire'.held = LastEnd(to) BY <1>5, <1>6, <1>7
<1>9. DecodedAsSent' BY <1>2, <1>4, <1>5, <1>8 DEF DecodedAsSent
<1>10. wire' \in [read: 0..Bytes, held: 0..2, spoilt: BOOLEAN]
  BY <1>2, <1>3, <1>4, <1>5
<1>11. UNCHANGED <<paper, view, mark, mouse, gestures>> BY DEF ReadChunk
<1> QED BY <1>9, <1>10, <1>11, PaperStays, ScreenTypes, PaperTypes DEF ScreenInv, ScreenTypeOK, ViewIsInHistory

\* A line feed, on either screen, keeps the lines in order and the view in the history.
LEMMA FeedKept ==
  ASSUME ScreenInv, LineFeed
  PROVE  ScreenInv'
<1>1. UNCHANGED <<wire, view, mark, mouse, gestures>> /\ paper.next < Lines + 4 BY DEF LineFeed
<1>2. GoodPaper(paper) BY DEF ScreenInv
<1>3. GoodPaper(paper') /\ Len(paper.past) <= Len(paper'.past)
  <2>1. CASE paper.row = Rows
    BY <2>1, <1>1, <1>2, ScrolledGood DEF LineFeed
  <2>2. CASE paper.row # Rows
    <3> DEFINE r == IF paper.row < Rows THEN paper.row + 1 ELSE Rows
    <3>0. paper \in PaperType /\ Rows \in 2..3 /\ Len(paper.past) \in Nat BY ScreenTypes
    <3>1. paper' = [paper EXCEPT !.row = r] BY <2>2 DEF LineFeed
    <3>2. r \in 1..3
      <4>1. paper.row \in 1..3 BY <3>0 DEF PaperType
      <4> QED BY <4>1, <3>0
    <3> HIDE DEF r
    <3>3. /\ paper' \in PaperType /\ paper'.past = paper.past /\ paper'.screen = paper.screen
          /\ paper'.next = paper.next
      BY <3>0, <3>1, <3>2 DEF PaperType
    <3> QED BY <3>0, <3>3, <1>2 DEF GoodPaper
  <2> QED BY <2>1, <2>2
<1>4. ScreenTypeOK' BY <1>1, <1>3, PaperTypes, ScreenTypes
<1>5. DecodedAsSent' BY <1>1 DEF ScreenInv, DecodedAsSent
<1>6. ViewIsInHistory'
  <2>1. Len(paper.past) \in Nat /\ Len(paper'.past) \in Nat /\ view.offset \in Nat
    BY <1>2, <1>3, ScreenNumbers DEF GoodPaper, PaperType, ScreenInv, ScreenTypeOK
  <2> QED BY <2>1, <1>1, <1>3 DEF ScreenInv, ViewIsInHistory
<1> QED BY <1>3, <1>4, <1>5, <1>6 DEF ScreenInv

\* The end of a full-screen program gives the main screen back.
LEMMA ExitKept ==
  ASSUME ScreenInv, ExitAlternate
  PROVE  ScreenInv'
<1> DEFINE r == IF view.saved = 0 THEN paper.row ELSE view.saved
<1>1. view \in [alt: BOOLEAN, offset: 0..History, saved: 0..3] /\ GoodPaper(paper) /\ paper \in PaperType
  BY DEF ScreenInv, ScreenTypeOK, GoodPaper
<1>2. paper' = [paper EXCEPT !.row = r] /\ r \in 1..3
  BY <1>1 DEF ExitAlternate, PaperType
<1> HIDE DEF r
<1>3. /\ paper'.past = paper.past /\ paper'.screen = paper.screen /\ paper'.next = paper.next
      /\ paper' \in PaperType
  BY <1>1, <1>2 DEF PaperType
<1>4. GoodPaper(paper') BY <1>1, <1>3 DEF GoodPaper
<1>5. view' \in [alt: BOOLEAN, offset: 0..History, saved: 0..3] /\ view'.offset \in {0, view.offset}
  <2>1. 0 \in 0..History BY ScreenNumbers
  <2>2. view \in [alt: BOOLEAN, offset: 0..History, saved: 0..3] BY <1>1
  <2> QED BY <2>1, <2>2 DEF ExitAlternate
<1>6. UNCHANGED <<wire, mark, mouse, gestures>> BY DEF ExitAlternate
<1>7. ScreenTypeOK' BY <1>1, <1>2, <1>3, <1>4, <1>5, <1>6, PaperTypes, ScreenTypes
<1>8. Len(paper.past) \in Nat BY <1>1 DEF PaperType
<1> QED BY <1>3, <1>4, <1>5, <1>6, <1>7, <1>8 DEF ScreenInv, DecodedAsSent, ViewIsInHistory

\* A screen that grows or shrinks keeps its lines in order.
LEMMA ResizeKept ==
  ASSUME ScreenInv, ResizeScreen
  PROVE  ScreenInv'
<1> DEFINE s == paper.past
           t == paper.screen
           n == paper.next
           t2 == IF Len(t) = 3 THEN Tail(t) ELSE Append(t, n)
           n2 == IF Len(t) = 3 THEN n ELSE n + 1
<1>1. /\ s \in Seq(Nat) /\ t \in Seq(Nat) /\ n \in Nat /\ paper.row \in 1..3 /\ paper \in PaperType
      /\ Len(s) <= History /\ Len(t) \in 2..3 /\ n \in 1..(Lines + 4)
      /\ Rising(s) /\ Rising(t) /\ Precedes(s, t) /\ Below(s, n) /\ Below(t, n)
      /\ Len(s) \in Nat /\ History \in Nat /\ Lines \in Nat
  BY ScreenNumbers DEF GoodPaper, PaperType, ScreenInv
<1>2. /\ paper' = [paper EXCEPT !.screen = t2, !.next = n2] /\ paper'.next <= Lines + 4
      /\ UNCHANGED <<wire, view, mark, mouse>> /\ gestures < Gestures /\ gestures' = gestures + 1
  BY <1>1 DEF ResizeScreen, Rows, Gesture, PaperType
<1> HIDE DEF s, t, n
<1>3. /\ t2 \in Seq(Nat) /\ Len(t2) \in 2..3 /\ Rising(t2) /\ Precedes(s, t2)
      /\ Below(s, n2) /\ Below(t2, n2) /\ n2 \in Nat /\ n2 >= 1
  <2>1. CASE Len(t) = 3
    <3>0. Len(t) >= 1 BY <2>1
    <3>1. /\ Tail(t) \in Seq(Nat) /\ Len(Tail(t)) = Len(t) - 1 /\ Rising(Tail(t))
          /\ \A i \in 1..Len(Tail(t)) : Tail(t)[i] = t[i + 1] /\ i + 1 \in 1..Len(t)
      BY <1>1, <3>0, RisingTail
    <3>2. Precedes(s, Tail(t)) /\ Below(Tail(t), n) BY <3>1, <1>1 DEF Precedes, Below
    <3>3. t2 = Tail(t) /\ n2 = n BY <2>1
    <3> HIDE DEF t2, n2
    <3> QED BY <2>1, <3>1, <3>2, <3>3, <1>1
  <2>2. CASE Len(t) # 3
    <3>1. /\ Append(t, n) \in Seq(Nat) /\ Len(Append(t, n)) = Len(t) + 1
          /\ Rising(Append(t, n)) /\ Below(Append(t, n), n + 1)
          /\ \A i \in 1..Len(t) : Append(t, n)[i] = t[i]
          /\ Append(t, n)[Len(t) + 1] = n
      BY <1>1, RisingAppend
    <3> DEFINE u == Append(t, n)
    <3> HIDE DEF u
    <3>2. Precedes(s, u)
      <4>1. /\ Len(u) = Len(t) + 1 /\ Len(t) \in Nat /\ u[Len(t) + 1] = n
            /\ \A j \in 1..Len(t) : u[j] = t[j]
        BY <3>1, <1>1 DEF u
      <4>2. SUFFICES ASSUME NEW i \in 1..Len(s), NEW j \in 1..Len(u) PROVE s[i] < u[j]
        BY DEF Precedes
      <4>3. CASE j \in 1..Len(t) BY <1>1, <4>1, <4>3 DEF Precedes
      <4>4. CASE j = Len(t) + 1 BY <1>1, <4>1, <4>4 DEF Below
      <4>5. j \in 1..Len(t) \/ j = Len(t) + 1 BY <4>1
      <4> QED BY <4>3, <4>4, <4>5
    <3>3. \A i \in 1..Len(s) : s[i] \in Nat BY <1>1
    <3>4. Below(s, n + 1) BY <1>1, <3>3 DEF Below
    <3>5. t2 = u /\ n2 = n + 1 BY <2>2 DEF u
    <3> HIDE DEF t2, n2
    <3>6. u \in Seq(Nat) /\ Len(u) = Len(t) + 1 /\ Rising(u) /\ Below(u, n + 1) BY <3>1 DEF u
    <3>7. Len(u) \in 2..3 /\ n + 1 \in Nat /\ n + 1 >= 1
      <4>1. Len(t) \in 2..3 /\ n \in Nat BY <1>1
      <4>2. Len(t) = 2 BY <4>1, <2>2
      <4> QED BY <4>1, <4>2, <3>6
    <3> QED BY <3>2, <3>4, <3>5, <3>6, <3>7
  <2> QED BY <2>1, <2>2
<1> HIDE DEF t2, n2
<1>4. /\ paper' \in PaperType /\ paper'.past = s /\ paper'.screen = t2 /\ paper'.next = n2
      /\ s = paper.past
  BY <1>1, <1>2, <1>3 DEF PaperType, s
<1>5. GoodPaper(paper') BY <1>1, <1>2, <1>3, <1>4 DEF GoodPaper
<1>6. gestures' \in 0..Gestures BY <1>2, ScreenNumbers, ScreenTypes
<1>7. ScreenTypeOK' BY <1>1, <1>2, <1>3, <1>4, <1>5, <1>6, PaperTypes, ScreenTypes
<1> QED BY <1>2, <1>4, <1>5, <1>7 DEF ScreenInv, DecodedAsSent, ViewIsInHistory

\* The clearing of the scrollback takes the view back to the screen.
LEMMA ClearKept ==
  ASSUME ScreenInv, ClearScrollback
  PROVE  ScreenInv'
<1>1. GoodPaper(paper) /\ paper \in PaperType BY DEF ScreenInv, GoodPaper
<1>2. paper' = [paper EXCEPT !.past = <<>>] /\ view' = [view EXCEPT !.offset = 0]
      /\ UNCHANGED <<wire, mark, mouse>> /\ gestures < Gestures /\ gestures' = gestures + 1
  BY DEF ClearScrollback, Gesture
<1>3. paper' \in PaperType /\ paper'.past = <<>> /\ paper'.screen = paper.screen /\ paper'.next = paper.next
  <2>1. <<>> \in Seq(Nat) OBVIOUS
  <2> QED BY <2>1, <1>1, <1>2 DEF PaperType
<1>4. GoodPaper(paper') BY <1>1, <1>3, NoPast, ScreenNumbers DEF GoodPaper
<1>5. gestures' \in 0..Gestures BY <1>2, ScreenNumbers, ScreenTypes
<1>6. view' \in [alt: BOOLEAN, offset: 0..History, saved: 0..3] /\ view'.offset = 0
  <2>1. view \in [alt: BOOLEAN, offset: 0..History, saved: 0..3] BY ScreenTypes
  <2>2. 0 \in 0..History BY ScreenNumbers
  <2>3. view' = [view EXCEPT !.offset = 0] BY <1>2
  <2> QED BY <2>1, <2>2, <2>3
<1>7. ScreenTypeOK' BY <1>1, <1>2, <1>3, <1>4, <1>5, <1>6, PaperTypes, ScreenTypes
<1> QED BY <1>2, <1>3, <1>4, <1>6, <1>7 DEF ScreenInv, DecodedAsSent, ViewIsInHistory

\* A reset keeps the invariant.
LEMMA ResetKept ==
  ASSUME ScreenInv, Reset
  PROVE  ScreenInv'
<1> DEFINE n == paper.next
           k == Len(paper.screen)
           t2 == [i \in 1..k |-> n + i - 1]
<1>1. k \in 2..3 /\ n \in 1..(Lines + 4) /\ Lines \in Nat /\ n \in Nat
  BY ScreenNumbers DEF ScreenInv, GoodPaper
<1>2. /\ n + k <= Lines + 4
      /\ paper' = [past |-> <<>>, screen |-> t2, next |-> n + k, row |-> 1]
      /\ view' = [view EXCEPT !.alt = FALSE, !.offset = 0]
      /\ mouse' = [mouse EXCEPT !.mode = FALSE] /\ UNCHANGED <<wire, mark>>
      /\ gestures < Gestures /\ gestures' = gestures + 1
  BY DEF Reset, Rows, Gesture
<1> HIDE DEF n, k
<1>3. t2 \in Seq(Nat) /\ Len(t2) = k /\ \A i \in 1..k : t2[i] = n + i - 1
  <2>1. \A i \in 1..k : n + i - 1 \in Nat BY <1>1
  <2> QED BY <1>1, <2>1
<1> HIDE DEF t2
<1>4. paper' \in PaperType /\ paper'.past = <<>> /\ paper'.screen = t2 /\ paper'.next = n + k
  <2>1. <<>> \in Seq(Nat) OBVIOUS
  <2> QED BY <2>1, <1>1, <1>2, <1>3 DEF PaperType
<1>5. Rising(t2) /\ Below(t2, n + k) BY <1>3, <1>1 DEF Rising, Below
<1>6. GoodPaper(paper')
  <2>1. n + k \in 1..(Lines + 4)
    <3>1. n + k <= Lines + 4 BY <1>2
    <3>2. n \in Nat /\ n >= 1 /\ k \in 2..3 /\ Lines \in Nat BY <1>1
    <3>3. CASE k = 2 BY <3>1, <3>2, <3>3
    <3>4. CASE k = 3 BY <3>1, <3>2, <3>4
    <3> QED BY <3>2, <3>3, <3>4
  <2>2. Len(paper'.past) <= History BY <1>4, NoPast, ScreenNumbers
  <2>3. Len(paper'.screen) \in 2..3
    <3>1. k \in 2..3 BY <1>1
    <3> QED BY <3>1, <1>3, <1>4
  <2>4. Rising(paper'.past) /\ Rising(paper'.screen) /\ Precedes(paper'.past, paper'.screen)
        /\ Below(paper'.past, paper'.next) /\ Below(paper'.screen, paper'.next)
    BY <1>4, <1>5, NoPast
  <2>5. paper'.next \in 1..(Lines + 4) BY <2>1, <1>4
  <2> QED BY <1>4, <2>2, <2>3, <2>4, <2>5 DEF GoodPaper
<1>7. gestures' \in 0..Gestures BY <1>2, ScreenNumbers, ScreenTypes
<1>8. view' \in [alt: BOOLEAN, offset: 0..History, saved: 0..3] /\ view'.offset = 0
  <2>1. view \in [alt: BOOLEAN, offset: 0..History, saved: 0..3] BY ScreenTypes
  <2>2. 0 \in 0..History BY ScreenNumbers
  <2>3. view' = [view EXCEPT !.alt = FALSE, !.offset = 0] BY <1>2
  <2> QED BY <2>1, <2>2, <2>3
<1>9. mouse' \in [mode: BOOLEAN, down: BOOLEAN, button: BOOLEAN]
  BY <1>2 DEF ScreenInv, ScreenTypeOK
<1>10. ScreenTypeOK' BY <1>1, <1>2, <1>3, <1>4, <1>5, <1>6, <1>7, <1>8, <1>9, PaperTypes, ScreenTypes
<1> QED BY <1>2, <1>4, <1>6, <1>8, <1>10 DEF ScreenInv, DecodedAsSent, ViewIsInHistory

\* Every row shows a line, or none.
LEMMA LineAtIs ==
  ASSUME ScreenInv, NEW row \in 0..(History + 3)
  PROVE  LineAt(row) \in 0..(Lines + 4)
<1> DEFINE s == paper.past
           t == paper.screen
           all == s \o t
<1>1. s \in Seq(Nat) /\ t \in Seq(Nat) /\ paper.next \in 1..(Lines + 4) /\ Lines \in Nat
      /\ Below(s, paper.next) /\ Below(t, paper.next)
  BY ScreenNumbers DEF ScreenInv, GoodPaper, PaperType
<1>2. Len(s) \in Nat /\ Len(t) \in Nat /\ Len(all) = Len(s) + Len(t) BY <1>1
<1>3. \A i \in 1..Len(all) : all[i] = IF i <= Len(s) THEN s[i] ELSE t[i - Len(s)] BY <1>1
<1>4. \A i \in 1..Len(all) : all[i] \in 0..(Lines + 4)
  <2> SUFFICES ASSUME NEW i \in 1..Len(all) PROVE all[i] \in 0..(Lines + 4) OBVIOUS
  <2> HIDE DEF s, t
  <2>1. CASE i <= Len(s)
    <3>1. i \in 1..Len(s) /\ all[i] = s[i] BY <2>1, <1>2, <1>3
    <3>2. s[i] \in Nat /\ s[i] < paper.next BY <3>1, <1>1 DEF Below
    <3> QED BY <3>1, <3>2, <1>1
  <2>2. CASE ~(i <= Len(s))
    <3>1. i - Len(s) \in 1..Len(t) /\ all[i] = t[i - Len(s)] BY <2>2, <1>2, <1>3
    <3>2. t[i - Len(s)] \in Nat /\ t[i - Len(s)] < paper.next BY <3>1, <1>1 DEF Below
    <3> QED BY <3>1, <3>2, <1>1
  <2> QED BY <2>1, <2>2
<1> HIDE DEF all
<1>5. LineAt(row) \in {0, Lines + 4} \/ (row \in 1..Len(all) /\ LineAt(row) = all[row])
  BY DEF LineAt, all
<1> QED BY <1>1, <1>4, <1>5

\* A press of the mouse, which marks the line it is on, keeps the invariant.
LEMMA PressKept ==
  ASSUME ScreenInv, Press
  PROVE  ScreenInv'
<1>1. UNCHANGED <<wire, paper, view>> /\ gestures < Gestures /\ gestures' = gestures + 1
  BY DEF Press, Gesture
<1>2. gestures' \in 0..Gestures BY <1>1, ScreenNumbers DEF ScreenInv, ScreenTypeOK
<1>3. mouse' \in [mode: BOOLEAN, down: BOOLEAN, button: BOOLEAN]
  BY DEF Press, ScreenInv, ScreenTypeOK
<1>4. mark' \in [row: 0..(History + 3), line: 0..(Lines + 4)]
  <2>1. CASE UNCHANGED mark BY <2>1 DEF ScreenInv, ScreenTypeOK
  <2>2. ASSUME NEW y \in 1..Rows, mark' = [row |-> Len(paper.past) - view.offset + y,
                                           line |-> LineAt(Len(paper.past) - view.offset + y)]
        PROVE  mark' \in [row: 0..(History + 3), line: 0..(Lines + 4)]
    <3> DEFINE row == Len(paper.past) - view.offset + y
    <3>1. /\ Len(paper.past) \in Nat /\ Len(paper.past) <= History /\ view.offset \in Nat
          /\ view.offset <= Len(paper.past) /\ Rows \in 2..3 /\ History \in Nat
      BY ScreenNumbers DEF ScreenInv, ScreenTypeOK, ViewIsInHistory, GoodPaper, PaperType
    <3>2. row \in 0..(History + 3) BY <3>1
    <3>3. LineAt(row) \in 0..(Lines + 4) BY <3>2, LineAtIs
    <3> HIDE DEF row
    <3> QED BY <2>2, <3>2, <3>3 DEF row
  <2> QED BY <2>1, <2>2 DEF Press
<1> QED BY <1>1, <1>2, <1>3, <1>4, PaperStays, ScreenTypes, PaperTypes DEF ScreenInv, DecodedAsSent, ViewIsInHistory

\* Every step of the terminal's screen keeps its invariant.
LEMMA ScreenKept ==
  ASSUME ScreenInv, [ScreenNext]_screenVars
  PROVE  ScreenInv'
<1>1. CASE UNCHANGED screenVars
  BY <1>1, PaperStays, ScreenTypes, PaperTypes DEF screenVars, ScreenInv, ScreenTypeOK, DecodedAsSent, ViewIsInHistory
<1>2. CASE EnterAlternate
  <2>1. view' \in [alt: BOOLEAN, offset: 0..History, saved: 0..3] /\ view'.offset \in {0, view.offset}
    <3>1. paper.row \in 0..3 /\ view \in [alt: BOOLEAN, offset: 0..History, saved: 0..3] /\ 0 \in 0..History
      BY ScreenNumbers DEF ScreenInv, ScreenTypeOK
    <3> QED BY <3>1, <1>2 DEF EnterAlternate
  <2> QED BY <1>2, <2>1, PaperStays, ScreenTypes, PaperTypes DEF EnterAlternate, ScreenInv, ScreenTypeOK, DecodedAsSent, ViewIsInHistory
<1>3. CASE MouseMode
  BY <1>3, PaperStays, ScreenTypes, PaperTypes DEF MouseMode, ScreenInv, ScreenTypeOK, DecodedAsSent, ViewIsInHistory
<1>4. CASE Scroll
  <2>1. PICK n \in 0..Len(paper.past) : view' = [view EXCEPT !.offset = n] BY <1>4 DEF Scroll
  <2>2. Len(paper.past) \in Nat /\ Len(paper.past) <= History /\ History \in Nat
    BY ScreenNumbers DEF ScreenInv, ScreenTypeOK, GoodPaper, PaperType
  <2>3. n \in 0..History /\ n <= Len(paper.past) BY <2>2
  <2>6. view \in [alt: BOOLEAN, offset: 0..History, saved: 0..3] BY ScreenTypes
  <2>4. view' \in [alt: BOOLEAN, offset: 0..History, saved: 0..3] /\ view'.offset = n
    BY SMTT(30), <2>1, <2>3, <2>6
  <2>5. gestures' \in 0..Gestures BY <1>4, ScreenNumbers, ScreenTypes DEF Scroll, Gesture
  <2> QED BY <1>4, <2>3, <2>4, <2>5, PaperStays, ScreenTypes, PaperTypes DEF Scroll, ScreenInv, DecodedAsSent, ViewIsInHistory
<1>5. CASE Key
  <2>1. view' \in [alt: BOOLEAN, offset: 0..History, saved: 0..3] /\ view'.offset = 0
    <3>1. view \in [alt: BOOLEAN, offset: 0..History, saved: 0..3] BY ScreenTypes
    <3>2. 0 \in 0..History BY ScreenNumbers
    <3>3. view' = [view EXCEPT !.offset = 0] BY <1>5 DEF Key
    <3> QED BY <3>1, <3>2, <3>3
  <2>2. gestures' \in 0..Gestures BY <1>5, ScreenNumbers, ScreenTypes DEF Key, Gesture
  <2> QED BY <1>5, <2>1, <2>2, PaperStays, ScreenTypes, PaperTypes DEF Key, ScreenInv, ScreenTypeOK, DecodedAsSent, ViewIsInHistory
<1>6. CASE ReleaseButton
  BY <1>6, PaperStays, ScreenTypes, PaperTypes DEF ReleaseButton, ScreenInv, ScreenTypeOK, DecodedAsSent, ViewIsInHistory
<1> QED
  BY <1>1, <1>2, <1>3, <1>4, <1>5, <1>6, ReadKept, FeedKept, ExitKept, ResizeKept, ClearKept,
     ResetKept, PressKept DEF ScreenNext, Host, ScreenOperator

\* The screen holds what was sent, in order, and the view is within the history.
LEMMA ScreenSafe == ScreenInv => ScreenTypeOK /\ DecodedAsSent /\ LinesInOrder /\ ViewIsInHistory
BY PaperOrder DEF ScreenInv

-----------------------------------------------------------------------------
(* The keys of a VNC viewer *)

RemoteKeys == Letters \cup {"shift"}
KeyCommands == [type: {"key"}, sym: Keysyms, down: BOOLEAN]
PointerCommands == [type: {"pointer"}, down: BOOLEAN, motion: BOOLEAN]
ViewerCommands == KeyCommands \cup PointerCommands
ButtonType == [mask: BOOLEAN, down: BOOLEAN]
HandsType == [keys: SUBSET KeyboardKeys, focus: BOOLEAN]
CommandsType == [queue: Seq(ViewerCommands), move: SUBSET BOOLEAN]
RemoteType == [keys: SUBSET RemoteKeys, button: BOOLEAN]

Presses(k) == {c \in KeyCommands : c.sym[1] = k /\ c.down}
Releases(k) == {c \in KeyCommands : c.sym[1] = k /\ ~c.down}
ButtonDowns == {c \in PointerCommands : c.down}
ButtonUps == {c \in PointerCommands : ~c.down}

\* With the queue q sent, what was down or not is not: the last of its presses
\* and releases in the queue is a release, or it is up and has none.
Clears(q, press, release, down) ==
  \/ \E i \in DOMAIN q : q[i] \in release /\ \A j \in DOMAIN q : j > i => q[j] \notin press
  \/ ~down /\ \A j \in DOMAIN q : q[j] \notin press

\* The button with the move that is held back sent.
Held(c, r) == IF c.move = {} THEN r.button ELSE TRUE \in c.move

IsUncounted(k, p) == \A s \in Keysyms : s[1] = k => p[s] = 0
KeyIsCounted(k, p, c, r) == IsUncounted(k, p) => Clears(c.queue, Presses(k), Releases(k), k \in r.keys)
ButtonIsCounted(b, c, r) == ~b.mask => Clears(c.queue, ButtonDowns, ButtonUps, Held(c, r))

AllIsCounted ==
  /\ \A k \in RemoteKeys : KeyIsCounted(k, pressed, commands, remote)
  /\ ButtonIsCounted(button, commands, remote)

KeysInv ==
  /\ worker \in {"off", "dials", "on", "ended"} /\ pressed \in [Keysyms -> 0..Count]
  /\ button \in ButtonType /\ hands \in HandsType /\ commands \in CommandsType /\ remote \in RemoteType
  /\ worker # "on" => commands = NothingQueued /\ remote = NothingDown
  /\ AllIsCounted

\* The bound of presses is a number.
LEMMA CountIs == Count \in Nat /\ 0 \in 0..Count
BY KeysAssumption

\* With nothing queued, down and pressed every field has its type.
LEMMA NothingIs ==
  /\ NothingQueued \in CommandsType /\ NothingDown \in RemoteType /\ NothingPressed \in [Keysyms -> 0..Count]
  /\ NothingQueued.queue = <<>> /\ NothingQueued.move = {} /\ NothingDown.keys = {} /\ ~NothingDown.button
<1>1. <<>> \in Seq(ViewerCommands) OBVIOUS
<1> QED BY <1>1, CountIs DEF NothingQueued, NothingDown, NothingPressed, CommandsType, RemoteType

\* The fields of a key command.
LEMMA KeyCommandIs ==
  ASSUME NEW s \in Keysyms, NEW d \in BOOLEAN
  PROVE  /\ KeyCommand(s, d) \in KeyCommands /\ KeyCommand(s, d).sym = s /\ KeyCommand(s, d).down = d
         /\ KeyCommand(s, d).type = "key"
BY DEF KeyCommand, KeyCommands

\* The fields of a pointer command.
LEMMA PointerCommandIs ==
  ASSUME NEW d \in BOOLEAN, NEW m \in BOOLEAN
  PROVE  /\ PointerCommand(d, m) \in PointerCommands /\ PointerCommand(d, m).down = d
         /\ PointerCommand(d, m).type = "pointer"
BY DEF PointerCommand, PointerCommands

\* A keysym is of a key the register knows.
LEMMA KeysymIs ==
  ASSUME NEW s \in Keysyms
  PROVE  s[1] \in RemoteKeys
<1>1. CASE s \in Letters \X BOOLEAN
  <2>1. PICK l \in Letters, b \in BOOLEAN : s = <<l, b>> BY <1>1
  <2> QED BY <2>1 DEF RemoteKeys
<1>2. CASE s = <<"shift", FALSE>> BY <1>2 DEF RemoteKeys
<1> QED BY <1>1, <1>2 DEF Keysyms, ShiftSym

\* A viewer that begins counts nothing, and nothing is down.
LEMMA NothingIsCounted ==
  ASSUME commands = NothingQueued, remote = NothingDown
  PROVE  AllIsCounted
<1>1. commands.queue = <<>> /\ commands.move = {} /\ remote.keys = {} /\ ~remote.button BY NothingIs
<1>2. DOMAIN commands.queue = {} BY <1>1
<1>3. ~Held(commands, remote) BY <1>1 DEF Held
<1> QED BY <1>1, <1>2, <1>3 DEF AllIsCounted, KeyIsCounted, ButtonIsCounted, Clears

\* The same of the state a step leads to.
LEMMA NothingIsCountedNext ==
  ASSUME commands' = NothingQueued, remote' = NothingDown
  PROVE  AllIsCounted'
<1>1. commands'.queue = <<>> /\ commands'.move = {} /\ remote'.keys = {} /\ ~remote'.button BY NothingIs
<1>2. DOMAIN commands'.queue = {} BY <1>1
<1>3. ~Held(commands', remote') BY <1>1 DEF Held
<1> QED BY <1>1, <1>2, <1>3 DEF AllIsCounted, KeyIsCounted, ButtonIsCounted, Clears

-----------------------------------------------------------------------------
(* Commands at the end of the queue *)

\* A release that waits in the queue is still there when commands without a press are added,
\* and one that is added clears what waits.
LEMMA ClearsStill ==
  ASSUME NEW S, NEW q \in Seq(S), NEW c \in Seq(S), NEW press, NEW release, NEW down,
         \A i \in DOMAIN c : c[i] \notin press,
         Clears(q, press, release, down) \/ \E i \in DOMAIN c : c[i] \in release
  PROVE  Clears(q \o c, press, release, down)
<1>1. PICK t : t = q \o c OBVIOUS
<1>2. /\ DOMAIN t = 1..(Len(q) + Len(c)) /\ Len(q) \in Nat /\ Len(c) \in Nat
      /\ DOMAIN q = 1..Len(q) /\ DOMAIN c = 1..Len(c)
  BY <1>1, Concatenated
<1>3. \A i \in 1..Len(q) : t[i] = q[i] BY <1>1, Concatenated
<1>4. \A i \in 1..Len(c) : t[Len(q) + i] = c[i] BY <1>1, Concatenated
<1>5. ASSUME NEW j \in DOMAIN t, j > Len(q) PROVE t[j] \notin press
  <2> DEFINE i == j - Len(q)
  <2>1. i \in 1..Len(c) /\ Len(q) + i = j BY <1>2, <1>5
  <2> QED BY <2>1, <1>2, <1>4
<1>6. CASE \E i \in DOMAIN c : c[i] \in release
  <2>1. PICK i \in DOMAIN c : c[i] \in release BY <1>6
  <2> DEFINE n == Len(q) + i
  <2>2. n \in DOMAIN t /\ t[n] \in release /\ n > Len(q) BY <2>1, <1>2, <1>4
  <2>3. \A j \in DOMAIN t : j > n => t[j] \notin press
    <3>1. \A j \in DOMAIN t : j > n => j > Len(q) BY <1>2, <2>2
    <3> QED BY <3>1, <1>5
  <2> QED BY <1>1, <2>2, <2>3 DEF Clears
<1>7. CASE \E i \in DOMAIN q : q[i] \in release /\ \A j \in DOMAIN q : j > i => q[j] \notin press
  <2>1. PICK i \in DOMAIN q : q[i] \in release /\ \A j \in DOMAIN q : j > i => q[j] \notin press BY <1>7
  <2>2. i \in DOMAIN t /\ t[i] \in release BY <2>1, <1>2, <1>3
  <2>3. ASSUME NEW j \in DOMAIN t, j > i PROVE t[j] \notin press
    <3>1. CASE j > Len(q) BY <3>1, <1>5
    <3>2. CASE ~(j > Len(q))
      <4>1. j \in 1..Len(q) BY <3>2, <1>2
      <4> QED BY <4>1, <2>1, <2>3, <1>2, <1>3
    <3> QED BY <3>1, <3>2
  <2> QED BY <1>1, <2>2, <2>3 DEF Clears
<1>8. CASE ~down /\ \A j \in DOMAIN q : q[j] \notin press
  <2>1. ASSUME NEW j \in DOMAIN t PROVE t[j] \notin press
    <3>1. CASE j > Len(q) BY <3>1, <1>5
    <3>2. CASE ~(j > Len(q))
      <4>1. j \in 1..Len(q) BY <3>2, <1>2
      <4> QED BY <4>1, <1>8, <1>2, <1>3
    <3> QED BY <3>1, <3>2
  <2> QED BY <1>1, <1>8, <2>1 DEF Clears
<1> QED BY <1>6, <1>7, <1>8 DEF Clears

\* The first command is sent.
LEMMA ClearsAfter ==
  ASSUME NEW S, NEW q \in Seq(S), q # <<>>, NEW press, NEW release, NEW down, NEW now,
         Clears(q, press, release, down), press \cap release = {},
         Head(q) \in release => ~now, Head(q) \notin release \cup press /\ ~down => ~now
  PROVE  Clears(Tail(q), press, release, now)
<1>1. PICK t : t = Tail(q) OBVIOUS
<1>2. /\ t \in Seq(S) /\ Len(t) = Len(q) - 1 /\ Len(q) \in Nat /\ Len(q) >= 1 /\ Head(q) = q[1]
      /\ \A i \in 1..Len(q) - 1 : t[i] = q[i + 1]
  BY <1>1
<1>3. DOMAIN t = 1..Len(q) - 1 /\ DOMAIN q = 1..Len(q) BY <1>2
<1>4. \A i \in DOMAIN t : i + 1 \in DOMAIN q /\ t[i] = q[i + 1] /\ i + 1 > 1 BY <1>2, <1>3
<1>5. CASE \E i \in DOMAIN q : q[i] \in release /\ \A j \in DOMAIN q : j > i => q[j] \notin press
  <2>1. PICK i \in DOMAIN q : q[i] \in release /\ \A j \in DOMAIN q : j > i => q[j] \notin press BY <1>5
  <2>2. CASE i = 1
    <3>1. ~now BY <2>1, <2>2, <1>2
    <3>2. \A j \in DOMAIN t : t[j] \notin press BY <2>1, <2>2, <1>4
    <3> QED BY <1>1, <3>1, <3>2 DEF Clears
  <2>3. CASE i # 1
    <3> DEFINE n == i - 1
    <3>1. n \in DOMAIN t /\ n + 1 = i BY <2>3, <1>3, <1>2
    <3>2. t[n] \in release BY <2>1, <3>1, <1>4
    <3>3. ASSUME NEW j \in DOMAIN t, j > n PROVE t[j] \notin press
      <4>1. j + 1 > i BY <3>1, <3>3, <1>3, <1>2
      <4> QED BY <4>1, <2>1, <1>4
    <3> QED BY <1>1, <3>1, <3>2, <3>3 DEF Clears
  <2> QED BY <2>2, <2>3
<1>6. CASE ~down /\ \A j \in DOMAIN q : q[j] \notin press
  <2>1. 1 \in DOMAIN q BY <1>2, <1>3
  <2>2. ~now BY <2>1, <1>2, <1>6
  <2>3. \A j \in DOMAIN t : t[j] \notin press BY <1>4, <1>6
  <2> QED BY <1>1, <2>2, <2>3 DEF Clears
<1> QED BY <1>5, <1>6 DEF Clears

\* Without a connection nothing is queued.
LEMMA QueueIgnored ==
  ASSUME KeysInv, worker # "on", NEW c, Queue(c)
  PROVE  commands' = commands
BY DEF KeysInv, CommandsType, Queue

\* With one, commands join the end of the queue.
LEMMA QueueGrows ==
  ASSUME KeysInv, worker = "on", NEW c \in Seq(ViewerCommands), Queue(c)
  PROVE  /\ commands' \in CommandsType /\ commands'.queue = commands.queue \o c /\ commands'.move = commands.move
<1>1. commands \in CommandsType BY DEF KeysInv
<1>2. PICK t : t = commands.queue \o c OBVIOUS
<1>3. t \in Seq(ViewerCommands) BY <1>1, <1>2, Concatenated DEF CommandsType
<1>4. commands' = [commands EXCEPT !.queue = t] BY <1>2 DEF Queue
<1> QED BY <1>1, <1>2, <1>3, <1>4 DEF CommandsType

\* What is queued while the viewer is connected: for each key that is counted no
\* longer a release, and no press; the same for the button.
LEMMA QueuedIsCounted ==
  ASSUME KeysInv, worker = "on", UNCHANGED remote, NEW c \in Seq(ViewerCommands), Queue(c),
         \A k \in RemoteKeys : IsUncounted(k, pressed') =>
           /\ \A i \in DOMAIN c : c[i] \notin Presses(k)
           /\ IsUncounted(k, pressed) \/ \E i \in DOMAIN c : c[i] \in Releases(k),
         ~button'.mask =>
           /\ \A i \in DOMAIN c : c[i] \notin ButtonDowns
           /\ ~button.mask \/ \E i \in DOMAIN c : c[i] \in ButtonUps
  PROVE  AllIsCounted' /\ commands' \in CommandsType
<1>1. commands' \in CommandsType /\ commands'.queue = commands.queue \o c /\ commands'.move = commands.move
  BY QueueGrows
<1>2. commands.queue \in Seq(ViewerCommands) BY DEF KeysInv, CommandsType
<1>3. ASSUME NEW k \in RemoteKeys, IsUncounted(k, pressed')
      PROVE  Clears(commands'.queue, Presses(k), Releases(k), k \in remote'.keys)
  <2>1. KeyIsCounted(k, pressed, commands, remote) BY DEF KeysInv, AllIsCounted
  <2>2. /\ \A i \in DOMAIN c : c[i] \notin Presses(k)
        /\ IsUncounted(k, pressed) \/ \E i \in DOMAIN c : c[i] \in Releases(k)
    BY <1>3
  <2>3. \/ Clears(commands.queue, Presses(k), Releases(k), k \in remote.keys)
        \/ \E i \in DOMAIN c : c[i] \in Releases(k)
    BY <2>1, <2>2 DEF KeyIsCounted
  <2>4. Clears(commands.queue \o c, Presses(k), Releases(k), k \in remote.keys) BY <1>2, <2>2, <2>3, ClearsStill
  <2> QED BY <1>1, <2>4
<1>4. ASSUME ~button'.mask
      PROVE  Clears(commands'.queue, ButtonDowns, ButtonUps, Held(commands', remote'))
  <2>1. ButtonIsCounted(button, commands, remote) BY DEF KeysInv, AllIsCounted
  <2>2. /\ \A i \in DOMAIN c : c[i] \notin ButtonDowns
        /\ ~button.mask \/ \E i \in DOMAIN c : c[i] \in ButtonUps
    BY <1>4
  <2>3. \/ Clears(commands.queue, ButtonDowns, ButtonUps, Held(commands, remote))
        \/ \E i \in DOMAIN c : c[i] \in ButtonUps
    BY <2>1, <2>2 DEF ButtonIsCounted
  <2>4. Clears(commands.queue \o c, ButtonDowns, ButtonUps, Held(commands, remote)) BY <1>2, <2>2, <2>3, ClearsStill
  <2>5. Held(commands', remote') = Held(commands, remote) BY <1>1 DEF Held
  <2> QED BY <1>1, <2>4, <2>5
<1> QED BY <1>1, <1>3, <1>4 DEF AllIsCounted, KeyIsCounted, ButtonIsCounted

-----------------------------------------------------------------------------
(* The handlers of the widget *)

\* A sequence of one command.
LEMMA OneCommand ==
  ASSUME NEW S, NEW x \in S
  PROVE  /\ <<x>> \in Seq(S) /\ DOMAIN <<x>> = {1} /\ <<x>>[1] = x
         /\ <<>> \in Seq(S) /\ DOMAIN <<>> = {}
<1>1. <<x>> \in Seq(S) /\ Len(<<x>>) = 1 /\ <<x>>[1] = x OBVIOUS
<1>2. DOMAIN <<x>> = {1} OBVIOUS
<1>3. <<>> \in Seq(S) /\ DOMAIN <<>> = {} OBVIOUS
<1> QED BY <1>1, <1>2, <1>3

\* Every key has a keysym, whatever modifiers are held.
LEMMA KeysymIn == ASSUME NEW k \in KeyboardKeys, hands \in HandsType PROVE Keysym(k) \in Keysyms
<1>1. k \notin Shifts => k \in Letters BY DEF KeyboardKeys
<1>2. (hands.keys \cap Shifts # {}) \in BOOLEAN OBVIOUS
<1> QED BY <1>1, <1>2 DEF Keysym, Keysyms

\* A key that is pressed, or repeats, keeps the counts true.
LEMMA KeyPressKept ==
  ASSUME KeysInv, NEW k \in KeyboardKeys, KeyPress(k)
  PROVE  KeysInv'
<1> DEFINE s == Keysym(k)
<1>1. /\ hands' = [hands EXCEPT !.keys = hands.keys \cup {k}] /\ UNCHANGED <<worker, button, remote>>
  BY DEF KeyPress
<1>2. hands' \in HandsType BY <1>1 DEF KeysInv, HandsType
<1>3. s \in Keysyms BY KeysymIn DEF KeysInv
<1>4. CASE UNCHANGED <<pressed, commands>>
  BY <1>1, <1>2, <1>4 DEF KeysInv, AllIsCounted
<1>5. CASE /\ worker = "on" /\ pressed[s] < Count /\ pressed' = [pressed EXCEPT ![s] = pressed[s] + 1]
           /\ Queue(IF pressed[s] = 0 THEN <<KeyCommand(s, TRUE)>> ELSE <<>>)
  <2> HIDE DEF s
  <2>1. pressed \in [Keysyms -> 0..Count] /\ pressed[s] \in 0..Count BY <1>3 DEF KeysInv
  <2> DEFINE n == pressed[s] + 1
  <2>2. n \in 0..Count /\ n # 0 BY <2>1, <1>5, CountIs
  <2>3. pressed' = [pressed EXCEPT ![s] = n] BY <1>5
  <2> HIDE DEF n
  <2>4. pressed' \in [Keysyms -> 0..Count] /\ pressed'[s] # 0 /\ \A r \in Keysyms \ {s} : pressed'[r] = pressed[r]
    BY <1>3, <2>1, <2>2, <2>3
  <2> DEFINE x == KeyCommand(s, TRUE)
             c == IF pressed[s] = 0 THEN <<x>> ELSE <<>>
  <2>5. x \in ViewerCommands /\ x.sym = s /\ x.down = TRUE /\ x.type = "key"
    BY <1>3, KeyCommandIs DEF ViewerCommands
  <2> HIDE DEF x
  <2>6. c \in Seq(ViewerCommands) /\ \A i \in DOMAIN c : c[i] = x BY <2>5, OneCommand
  <2>7. Queue(c) BY <1>5 DEF x
  <2> HIDE DEF c
  <2>8. ASSUME NEW r \in RemoteKeys, IsUncounted(r, pressed')
        PROVE  /\ \A i \in DOMAIN c : c[i] \notin Presses(r)
               /\ IsUncounted(r, pressed) \/ \E i \in DOMAIN c : c[i] \in Releases(r)
    <3>1. s[1] # r BY <2>4, <2>8, <1>3 DEF IsUncounted
    <3>2. \A i \in DOMAIN c : c[i] \notin Presses(r) BY <2>5, <2>6, <3>1 DEF Presses
    <3>3. IsUncounted(r, pressed) BY <2>4, <2>8, <3>1 DEF IsUncounted
    <3> QED BY <3>2, <3>3
  <2>9. \A i \in DOMAIN c : c[i] \notin ButtonDowns BY <2>5, <2>6 DEF ButtonDowns, PointerCommands
  <2>10. AllIsCounted' /\ commands' \in CommandsType
    BY <1>1, <1>5, <2>6, <2>7, <2>8, <2>9, QueuedIsCounted
  <2> QED BY <1>1, <1>2, <1>5, <2>4, <2>10 DEF KeysInv
<1> QED BY <1>4, <1>5 DEF KeyPress

\* A key that is released keeps the counts true: its release waits in the queue.
LEMMA KeyReleaseKept ==
  ASSUME KeysInv, NEW k \in KeyboardKeys, KeyRelease(k)
  PROVE  KeysInv'
<1> DEFINE s == Keysym(k)
<1>1. /\ hands' = [hands EXCEPT !.keys = hands.keys \ {k}] /\ UNCHANGED <<worker, button, remote>>
  BY DEF KeyRelease
<1>2. hands' \in HandsType BY <1>1 DEF KeysInv, HandsType
<1>3. s \in Keysyms BY KeysymIn DEF KeysInv
<1>4. CASE UNCHANGED <<pressed, commands>>
  BY <1>1, <1>2, <1>4 DEF KeysInv, AllIsCounted
<1>5. CASE /\ worker = "on" /\ pressed' = [pressed EXCEPT ![s] = IF pressed[s] = 0 THEN 0 ELSE pressed[s] - 1]
           /\ Queue(IF pressed[s] <= 1 THEN <<KeyCommand(s, FALSE)>> ELSE <<>>)
  <2> HIDE DEF s
  <2>1. pressed \in [Keysyms -> 0..Count] /\ pressed[s] \in 0..Count BY <1>3 DEF KeysInv
  <2> DEFINE n == IF pressed[s] = 0 THEN 0 ELSE pressed[s] - 1
  <2>2. n \in 0..Count /\ (n = 0 => pressed[s] <= 1) BY <2>1, CountIs
  <2>3. pressed' = [pressed EXCEPT ![s] = n] BY <1>5
  <2> HIDE DEF n
  <2>4. pressed' \in [Keysyms -> 0..Count] /\ pressed'[s] = n /\ \A r \in Keysyms \ {s} : pressed'[r] = pressed[r]
    BY <1>3, <2>1, <2>2, <2>3
  <2> DEFINE x == KeyCommand(s, FALSE)
             c == IF pressed[s] <= 1 THEN <<x>> ELSE <<>>
  <2>5. x \in ViewerCommands /\ x \in KeyCommands /\ x.sym = s /\ x.down = FALSE /\ x.type = "key"
    BY <1>3, KeyCommandIs DEF ViewerCommands
  <2> HIDE DEF x
  <2>6. c \in Seq(ViewerCommands) /\ (\A i \in DOMAIN c : c[i] = x) /\ (pressed[s] <= 1 => DOMAIN c = {1})
    BY <2>5, OneCommand
  <2>7. Queue(c) BY <1>5 DEF x
  <2> HIDE DEF c
  <2>8. ASSUME NEW r \in RemoteKeys, IsUncounted(r, pressed')
        PROVE  /\ \A i \in DOMAIN c : c[i] \notin Presses(r)
               /\ IsUncounted(r, pressed) \/ \E i \in DOMAIN c : c[i] \in Releases(r)
    <3>1. \A i \in DOMAIN c : c[i] \notin Presses(r) BY <2>5, <2>6 DEF Presses
    <3>2. CASE s[1] = r
      <4>1. pressed[s] <= 1 BY <2>2, <2>4, <2>8, <3>2, <1>3 DEF IsUncounted
      <4>2. 1 \in DOMAIN c /\ c[1] = x BY <4>1, <2>6
      <4>3. x \in Releases(r) BY <2>5, <3>2 DEF Releases
      <4> QED BY <3>1, <4>2, <4>3
    <3>3. CASE s[1] # r
      <4>1. IsUncounted(r, pressed) BY <2>4, <2>8, <3>3 DEF IsUncounted
      <4> QED BY <3>1, <4>1
    <3> QED BY <3>2, <3>3
  <2>9. \A i \in DOMAIN c : c[i] \notin ButtonDowns BY <2>5, <2>6 DEF ButtonDowns, PointerCommands
  <2>10. AllIsCounted' /\ commands' \in CommandsType
    BY <1>1, <1>5, <2>6, <2>7, <2>8, <2>9, QueuedIsCounted
  <2> QED BY <1>1, <1>2, <1>5, <2>4, <2>10 DEF KeysInv
<1> QED BY <1>4, <1>5 DEF KeyRelease

\* There are finitely many keysyms.
LEMMA KeysymsFinite == IsFiniteSet(Keysyms)
<1>1. IsFiniteSet(BOOLEAN)
  <2>1. IsFiniteSet({TRUE}) BY FS_Singleton
  <2>2. IsFiniteSet({TRUE} \cup {FALSE}) BY <2>1, FS_AddElement
  <2>3. {TRUE} \cup {FALSE} = BOOLEAN OBVIOUS
  <2> QED BY <2>2, <2>3
<1>2. IsFiniteSet(Letters) BY KeysAssumption
<1>3. IsFiniteSet(Letters \X BOOLEAN) BY <1>1, <1>2, FS_Product
<1> QED BY <1>3, FS_AddElement DEF Keysyms

\* The releases of all that is counted.
LEMMA ReleasesAre ==
  ASSUME NEW P \in SUBSET Keysyms
  PROVE  LET c == SetToSeq({KeyCommand(s, FALSE) : s \in P})
         IN  c \in Seq(ViewerCommands) /\ ToSet(c) = {KeyCommand(s, FALSE) : s \in P}
<1> DEFINE R == {KeyCommand(s, FALSE) : s \in P}
           f == [s \in P |-> KeyCommand(s, FALSE)]
<1>1. IsFiniteSet(P) BY KeysymsFinite, FS_Subset
<1>2. f \in Surjection(P, R) BY DEF Surjection
<1>3. IsFiniteSet(R) BY <1>1, <1>2, FS_Surjection
<1>4. \A x \in R : x \in ViewerCommands BY KeyCommandIs DEF ViewerCommands
<1> HIDE DEF R
<1>5. SetToSeq(R) \in Seq(R) /\ ToSet(SetToSeq(R)) = R BY <1>3, SequenceOfSet
<1>6. SetToSeq(R) \in Seq(ViewerCommands) BY <1>4, <1>5, SeqWidens
<1> QED BY <1>5, <1>6 DEF R

\* A window that loses the focus releases every key it counts.
LEMMA FocusOutKept ==
  ASSUME KeysInv, FocusOut
  PROVE  KeysInv'
<1>1. /\ hands' = [hands EXCEPT !.focus = FALSE] /\ UNCHANGED <<worker, remote>>
      /\ button' = [button EXCEPT !.mask = FALSE] /\ pressed' = NothingPressed
  BY DEF FocusOut, ReleasesInput
<1>2. hands' \in HandsType BY <1>1 DEF KeysInv, HandsType
<1>3. button' \in ButtonType BY <1>1 DEF KeysInv, ButtonType
<1>4. pressed' \in [Keysyms -> 0..Count] BY <1>1, NothingIs
<1> DEFINE P == {r \in Keysyms : pressed[r] > 0}
           R == {KeyCommand(s, FALSE) : s \in P}
           b == SetToSeq(R)
           x == PointerCommand(FALSE, FALSE)
           a == IF button.mask THEN <<x>> ELSE <<>>
<1>5. b \in Seq(ViewerCommands) /\ ToSet(b) = R BY ReleasesAre
<1>6. \A y \in R : y \in KeyCommands /\ ~y.down /\ y.type = "key"
  <2> SUFFICES ASSUME NEW y \in R PROVE y \in KeyCommands /\ ~y.down /\ y.type = "key" OBVIOUS
  <2>1. PICK s \in P : y = KeyCommand(s, FALSE) OBVIOUS
  <2>2. FALSE \in BOOLEAN /\ s \in Keysyms OBVIOUS
  <2>3. KeyCommand(s, FALSE) \in KeyCommands /\ KeyCommand(s, FALSE).down = FALSE /\ KeyCommand(s, FALSE).type = "key"
    BY <2>2, KeyCommandIs
  <2> HIDE DEF P, R
  <2> QED BY <2>1, <2>3
<1>7. \A s \in P : KeyCommand(s, FALSE) \in R /\ KeyCommand(s, FALSE) \in Releases(s[1])
  BY KeyCommandIs DEF Releases
<1>8. x \in ViewerCommands /\ x \in PointerCommands /\ ~x.down /\ x.type = "pointer"
  BY PointerCommandIs DEF ViewerCommands
<1> HIDE DEF R, x
<1>9. a \in Seq(ViewerCommands) /\ (\A i \in DOMAIN a : a[i] = x) /\ (button.mask => DOMAIN a = {1})
  BY <1>8, OneCommand
<1>10. Queue(a \o b) BY DEF FocusOut, ReleasesInput, R, x
<1> HIDE DEF a, b
<1>11. PICK c : c = a \o b OBVIOUS
<1>12. /\ c \in Seq(ViewerCommands) /\ DOMAIN c = 1..(Len(a) + Len(b)) /\ Len(a) \in Nat /\ Len(b) \in Nat
  BY <1>5, <1>9, <1>11, Concatenated
<1>13. (\A i \in 1..Len(a) : c[i] = a[i]) /\ (\A i \in 1..Len(b) : c[Len(a) + i] = b[i])
  BY <1>5, <1>9, <1>11, Concatenated
<1>14. DOMAIN a = 1..Len(a) /\ DOMAIN b = 1..Len(b) BY <1>5, <1>9, Elements
<1>15. ASSUME NEW i \in DOMAIN c PROVE c[i] = x \/ c[i] \in R
  <2>1. CASE i <= Len(a)
    <3>1. i \in 1..Len(a) BY <2>1, <1>12
    <3> QED BY <3>1, <1>9, <1>13, <1>14
  <2>2. CASE ~(i <= Len(a))
    <3> DEFINE j == i - Len(a)
    <3>1. j \in 1..Len(b) /\ Len(a) + j = i BY <2>2, <1>12
    <3>2. b[j] \in R BY <3>1, <1>5, <1>14 DEF ToSet
    <3> QED BY <3>1, <3>2, <1>13
  <2> QED BY <2>1, <2>2
<1>16. \A y \in R : \E i \in DOMAIN c : c[i] = y
  <2> SUFFICES ASSUME NEW y \in R PROVE \E i \in DOMAIN c : c[i] = y OBVIOUS
  <2>1. PICK j \in 1..Len(b) : b[j] = y BY <1>5, <1>14 DEF ToSet
  <2>2. Len(a) + j \in DOMAIN c BY <1>12
  <2> QED BY <2>1, <2>2, <1>13
<1>17. button.mask => \E i \in DOMAIN c : c[i] = x
  <2> SUFFICES ASSUME button.mask PROVE \E i \in DOMAIN c : c[i] = x OBVIOUS
  <2>1. 1 \in DOMAIN a /\ a[1] = x BY <1>9
  <2>2. 1 \in 1..Len(a) BY <2>1, <1>14
  <2>3. 1 \in DOMAIN c BY <2>2, <1>12
  <2> QED BY <2>1, <2>2, <2>3, <1>13
<1>18. CASE worker # "on"
  <2>1. commands' = commands BY <1>18, <1>10, QueueIgnored
  <2>2. commands' = NothingQueued /\ remote' = NothingDown BY <1>1, <1>18, <2>1 DEF KeysInv
  <2>3. AllIsCounted' BY <2>2, NothingIsCountedNext
  <2> QED BY <1>1, <1>2, <1>3, <1>4, <2>1, <2>2, <2>3 DEF KeysInv
<1>19. CASE worker = "on"
  <2>1. ASSUME NEW r \in RemoteKeys, IsUncounted(r, pressed')
        PROVE  /\ \A i \in DOMAIN c : c[i] \notin Presses(r)
               /\ IsUncounted(r, pressed) \/ \E i \in DOMAIN c : c[i] \in Releases(r)
    <3>1. \A i \in DOMAIN c : c[i] \notin Presses(r) BY <1>6, <1>8, <1>15 DEF Presses, KeyCommands
    <3>2. CASE \E s \in Keysyms : s[1] = r /\ pressed[s] # 0
      <4>1. PICK s \in Keysyms : s[1] = r /\ pressed[s] # 0 BY <3>2
      <4>2. pressed[s] \in 0..Count BY DEF KeysInv
      <4>3. s \in P BY <4>1, <4>2, CountIs
      <4> QED BY <3>1, <4>1, <4>3, <1>7, <1>16
    <3>3. CASE ~ \E s \in Keysyms : s[1] = r /\ pressed[s] # 0 BY <3>1, <3>3 DEF IsUncounted
    <3> QED BY <3>2, <3>3
  <2>2. \A i \in DOMAIN c : c[i] \notin ButtonDowns BY <1>6, <1>8, <1>15 DEF ButtonDowns, PointerCommands
  <2>3. ~button.mask \/ \E i \in DOMAIN c : c[i] \in ButtonUps BY <1>8, <1>17 DEF ButtonUps
  <2>4. AllIsCounted' /\ commands' \in CommandsType
    BY <1>1, <1>10, <1>11, <1>12, <1>19, <2>1, <2>2, <2>3, QueuedIsCounted
  <2> QED BY <1>1, <1>2, <1>3, <1>4, <1>19, <2>4 DEF KeysInv
<1> QED BY <1>18, <1>19

\* The button and the movements of the mouse keep the invariant.
LEMMA MouseKept ==
  ASSUME KeysInv, MousePress \/ MouseRelease \/ MouseMove
  PROVE  KeysInv'
<1>1. UNCHANGED <<worker, pressed, remote>> BY DEF MousePress, MouseRelease, MouseMove
<1>2. hands' \in HandsType
  <2>1. hands \in HandsType BY DEF KeysInv
  <2>2. CASE UNCHANGED hands BY <2>1, <2>2
  <2>3. CASE MousePress
    <3> DEFINE f == hands.focus \/ worker = "on"
    <3>1. f \in BOOLEAN /\ hands' = [hands EXCEPT !.focus = f] BY <2>3 DEF MousePress
    <3> HIDE DEF f
    <3> QED BY <2>1, <3>1 DEF HandsType
  <2> QED BY <2>2, <2>3 DEF MouseRelease, MouseMove
<1>3. button' \in ButtonType /\ (worker = "on" /\ MousePress => button'.mask)
  <2>1. button \in ButtonType BY DEF KeysInv
  <2>2. CASE MousePress
    <3> DEFINE m == button.mask \/ worker = "on"
    <3>1. m \in BOOLEAN /\ button' = [mask |-> m, down |-> TRUE] BY <2>2 DEF MousePress
    <3>2. worker = "on" => m OBVIOUS
    <3> HIDE DEF m
    <3> QED BY <3>1, <3>2 DEF ButtonType
  <2>3. CASE MouseRelease
    <3> DEFINE m == button.mask /\ worker # "on"
    <3>1. m \in BOOLEAN /\ button' = [mask |-> m, down |-> FALSE] BY <2>3 DEF MouseRelease
    <3>2. worker = "on" => ~m OBVIOUS
    <3> HIDE DEF m
    <3>3. button' \in ButtonType BY <3>1 DEF ButtonType
    <3>4. CASE worker = "on" /\ MousePress BY <2>3, <3>4 DEF MousePress, MouseRelease
    <3> QED BY <3>3, <3>4
  <2>4. CASE MouseMove
    <3>1. UNCHANGED button BY <2>4 DEF MouseMove
    <3>2. CASE worker = "on" /\ MousePress
      <4> DEFINE m == button.mask \/ worker = "on"
      <4>1. m \in BOOLEAN /\ button' = [mask |-> m, down |-> TRUE] BY <3>2 DEF MousePress
      <4>2. m BY <3>2
      <4> HIDE DEF m
      <4> QED BY <4>1, <4>2 DEF ButtonType
    <3> QED BY <2>1, <3>1, <3>2
  <2> QED BY <2>2, <2>3, <2>4
<1>4. PICK d \in BOOLEAN, m \in BOOLEAN :
        /\ Queue(<<PointerCommand(d, m)>>)
        /\ worker = "on" /\ ~button'.mask => ~d
  <2>1. button.mask \in BOOLEAN BY DEF KeysInv, ButtonType
  <2>2. CASE MousePress
    <3>1. Queue(<<PointerCommand(TRUE, FALSE)>>) BY <2>2 DEF MousePress
    <3> QED BY <3>1, <2>2, <1>3
  <2>3. CASE MouseRelease
    <3>1. Queue(<<PointerCommand(FALSE, FALSE)>>) BY <2>3 DEF MouseRelease
    <3> QED BY <3>1
  <2>4. CASE MouseMove
    <3>1. Queue(<<PointerCommand(button.mask, TRUE)>>) /\ UNCHANGED button BY <2>4 DEF MouseMove
    <3> QED BY <2>1, <3>1
  <2> QED BY <2>2, <2>3, <2>4
<1> DEFINE x == PointerCommand(d, m)
           c == <<x>>
<1>5. x \in ViewerCommands /\ x \in PointerCommands /\ x.down = d /\ x.type = "pointer"
  BY PointerCommandIs DEF ViewerCommands
<1> HIDE DEF x
<1>6. c \in Seq(ViewerCommands) /\ DOMAIN c = {1} /\ c[1] = x BY <1>5, OneCommand
<1>7. Queue(c) BY <1>4 DEF x
<1> HIDE DEF c
<1>8. CASE worker # "on"
  <2>1. commands' = commands BY <1>7, <1>8, QueueIgnored
  <2>2. commands' = NothingQueued /\ remote' = NothingDown BY <1>1, <1>8, <2>1 DEF KeysInv
  <2>3. AllIsCounted' BY <2>2, NothingIsCountedNext
  <2> QED BY <1>1, <1>2, <1>3, <2>1, <2>2, <2>3 DEF KeysInv
<1>9. CASE worker = "on"
  <2>1. ASSUME NEW r \in RemoteKeys, IsUncounted(r, pressed')
        PROVE  /\ \A i \in DOMAIN c : c[i] \notin Presses(r)
               /\ IsUncounted(r, pressed) \/ \E i \in DOMAIN c : c[i] \in Releases(r)
    <3>1. \A i \in DOMAIN c : c[i] \notin Presses(r) BY <1>5, <1>6 DEF Presses, KeyCommands
    <3>2. IsUncounted(r, pressed) BY <1>1, <2>1
    <3> QED BY <3>1, <3>2
  <2>2. ASSUME ~button'.mask
        PROVE  /\ \A i \in DOMAIN c : c[i] \notin ButtonDowns
               /\ ~button.mask \/ \E i \in DOMAIN c : c[i] \in ButtonUps
    <3>1. ~d BY <1>4, <1>9, <2>2
    <3> QED BY <3>1, <1>5, <1>6 DEF ButtonDowns, ButtonUps
  <2>3. AllIsCounted' /\ commands' \in CommandsType
    BY <1>1, <1>6, <1>7, <1>9, <2>1, <2>2, QueuedIsCounted
  <2> QED BY <1>1, <1>2, <1>3, <1>9, <2>3 DEF KeysInv
<1> QED BY <1>8, <1>9

-----------------------------------------------------------------------------
(* The worker *)

\* A press is no release.
LEMMA ApartCommands ==
  ASSUME NEW k
  PROVE  Presses(k) \cap Releases(k) = {} /\ ButtonDowns \cap ButtonUps = {}
BY DEF Presses, Releases, ButtonDowns, ButtonUps

\* Whether the button is held at the register is a truth value.
LEMMA HeldIs ==
  ASSUME remote \in RemoteType
  PROVE  Held(commands, remote) \in BOOLEAN
<1>1. remote.button \in BOOLEAN BY DEF RemoteType
<1>2. (TRUE \in commands.move) \in BOOLEAN OBVIOUS
<1>3. CASE commands.move = {}
  <2>1. Held(commands, remote) = remote.button BY <1>3 DEF Held
  <2> QED BY <1>1, <2>1
<1>4. CASE commands.move # {}
  <2>1. Held(commands, remote) = (TRUE \in commands.move) BY <1>4 DEF Held
  <2> QED BY <1>2, <2>1
<1> QED BY <1>3, <1>4

\* What a command makes of the register, the move before it sent.
LEMMA PressedIs ==
  ASSUME remote \in RemoteType, commands \in CommandsType, NEW cmd \in ViewerCommands
  PROVE  LET r == Pressed(cmd, Moved(remote))
         IN  /\ r \in RemoteType
             /\ cmd \in PointerCommands => r.keys = remote.keys /\ r.button = cmd.down
             /\ cmd \in KeyCommands =>
                  /\ r.button = Held(commands, remote)
                  /\ r.keys = IF cmd.down THEN remote.keys \cup {cmd.sym[1]} ELSE remote.keys \ {cmd.sym[1]}
<1> DEFINE h == Held(commands, remote)
           w == Moved(remote)
<1>1. h \in BOOLEAN BY HeldIs
<1>2. w = [remote EXCEPT !.button = h] BY DEF Moved, Held
<1> HIDE DEF h, w
<1>3. w \in RemoteType /\ w.keys = remote.keys /\ w.button = h BY <1>1, <1>2 DEF RemoteType
<1>4. CASE cmd \in PointerCommands
  <2>1. cmd.type = "pointer" /\ cmd.down \in BOOLEAN /\ cmd \notin KeyCommands BY <1>4 DEF PointerCommands, KeyCommands
  <2>2. Pressed(cmd, w) = [w EXCEPT !.button = cmd.down] BY <2>1 DEF Pressed
  <2>3. Pressed(cmd, w) \in RemoteType /\ Pressed(cmd, w).keys = w.keys /\ Pressed(cmd, w).button = cmd.down
    BY <1>3, <2>1, <2>2 DEF RemoteType
  <2> QED BY <1>3, <2>1, <2>3 DEF w
<1>5. CASE cmd \in KeyCommands
  <2>1. cmd.type = "key" /\ cmd.sym \in Keysyms /\ cmd \notin PointerCommands BY <1>5 DEF PointerCommands, KeyCommands
  <2>2. cmd.sym[1] \in RemoteKeys BY <2>1, KeysymIs
  <2> DEFINE ks == IF cmd.down THEN w.keys \cup {cmd.sym[1]} ELSE w.keys \ {cmd.sym[1]}
  <2>3. Pressed(cmd, w) = [w EXCEPT !.keys = ks] BY <2>1 DEF Pressed
  <2>4. ks \subseteq RemoteKeys BY <1>3, <2>2 DEF RemoteType
  <2>5. ks = IF cmd.down THEN remote.keys \cup {cmd.sym[1]} ELSE remote.keys \ {cmd.sym[1]} BY <1>3
  <2> HIDE DEF ks
  <2>6. Pressed(cmd, w) \in RemoteType /\ Pressed(cmd, w).keys = ks /\ Pressed(cmd, w).button = w.button
    BY <1>3, <2>3, <2>4 DEF RemoteType
  <2> QED BY <1>3, <2>1, <2>5, <2>6 DEF w, h
<1> QED BY <1>4, <1>5 DEF ViewerCommands

\* A command that the worker sends reaches the register, and the counts stay true.
LEMMA DrainKept ==
  ASSUME KeysInv, Drain
  PROVE  KeysInv'
<1>1. worker = "on" /\ UNCHANGED <<worker, pressed, button, hands>> /\ Sends BY DEF Drain
<1>2. /\ commands \in CommandsType /\ remote \in RemoteType /\ commands.queue \in Seq(ViewerCommands)
  BY DEF KeysInv, CommandsType
<1> DEFINE q == commands.queue
           cmd == Head(q)
           t == Tail(q)
<1>3. CASE q = <<>>
  <2>1. commands' = NothingQueued /\ remote' = Moved(remote) BY <1>1, <1>3 DEF Sends
  <2> DEFINE h == Held(commands, remote)
  <2>2. remote' = [remote EXCEPT !.button = h] BY <2>1 DEF Moved, Held
  <2>3. h \in BOOLEAN BY <1>2, HeldIs
  <2>4. commands' \in CommandsType /\ commands'.queue = <<>> /\ commands'.move = {} BY <2>1, NothingIs
  <2> HIDE DEF h
  <2>5. remote' \in RemoteType /\ remote'.keys = remote.keys /\ remote'.button = h
    BY <1>2, <2>2, <2>3 DEF RemoteType
  <2>6. commands'.queue = commands.queue BY <1>3, <2>4
  <2>7. Held(commands', remote') = Held(commands, remote) BY <2>4, <2>5 DEF Held, h
  <2>8. AllIsCounted' BY <1>1, <2>5, <2>6, <2>7 DEF KeysInv, AllIsCounted, KeyIsCounted, ButtonIsCounted
  <2> QED BY <1>1, <2>4, <2>5, <2>8 DEF KeysInv
<1>4. CASE q # <<>>
  <2>1. cmd \in ViewerCommands /\ t \in Seq(ViewerCommands) BY <1>2, <1>4
  <2> HIDE DEF cmd, t
  <2>2. /\ commands' \in CommandsType /\ commands'.queue = t /\ remote' \in RemoteType
        /\ cmd \in PointerCommands => remote'.keys = remote.keys /\ (Held(commands', remote') <=> cmd.down)
        /\ cmd \in KeyCommands =>
             /\ Held(commands', remote') = Held(commands, remote)
             /\ remote'.keys = IF cmd.down THEN remote.keys \cup {cmd.sym[1]} ELSE remote.keys \ {cmd.sym[1]}
    <3>1. CASE cmd.type = "pointer" /\ cmd.motion
      <4>1. cmd \in PointerCommands /\ cmd \notin KeyCommands /\ cmd.down \in BOOLEAN
        BY <3>1, <2>1 DEF ViewerCommands, PointerCommands, KeyCommands
      <4>2. commands' = [[commands EXCEPT !.queue = t] EXCEPT !.move = {cmd.down}] /\ UNCHANGED remote
        BY <1>1, <1>4, <3>1 DEF Sends, cmd, t
      <4>3. commands' \in CommandsType /\ commands'.queue = t /\ commands'.move = {cmd.down}
        BY <1>2, <2>1, <4>1, <4>2 DEF CommandsType
      <4>4. Held(commands', remote') <=> cmd.down
        <5>1. PICK d \in BOOLEAN : d = cmd.down BY <4>1
        <5>2. commands'.move = {d} /\ commands'.move # {} BY <4>3, <5>1
        <5>3. Held(commands', remote') = (TRUE \in {d}) BY <5>2 DEF Held
        <5>4. (TRUE \in {d}) <=> d OBVIOUS
        <5> QED BY <5>1, <5>3, <5>4
      <4> QED BY <1>2, <4>1, <4>2, <4>3, <4>4
    <3>2. CASE ~(cmd.type = "pointer" /\ cmd.motion)
      <4>1. /\ commands' = [[commands EXCEPT !.queue = t] EXCEPT !.move = {}]
            /\ remote' = Pressed(cmd, Moved(remote))
        BY <1>1, <1>4, <3>2 DEF Sends, cmd, t
      <4>2. commands' \in CommandsType /\ commands'.queue = t /\ commands'.move = {}
        BY <1>2, <2>1, <4>1 DEF CommandsType
      <4>3. Held(commands', remote') = remote'.button BY <4>2 DEF Held
      <4> QED BY <1>2, <2>1, <4>1, <4>2, <4>3, PressedIs
    <3> QED BY <3>1, <3>2
  <2>3. ASSUME NEW k \in RemoteKeys, IsUncounted(k, pressed')
        PROVE  Clears(t, Presses(k), Releases(k), k \in remote'.keys)
    <3>1. Clears(q, Presses(k), Releases(k), k \in remote.keys)
      BY <1>1, <2>3 DEF KeysInv, AllIsCounted, KeyIsCounted
    <3>2. cmd \in Releases(k) => k \notin remote'.keys BY <2>2 DEF Releases
    <3>3. cmd \notin Releases(k) \cup Presses(k) /\ k \notin remote.keys => k \notin remote'.keys
      <4>1. CASE cmd \in PointerCommands BY <2>2, <4>1
      <4>2. CASE cmd \in KeyCommands BY <2>2, <4>2 DEF Releases, Presses
      <4> QED BY <2>1, <4>1, <4>2 DEF ViewerCommands
    <3> QED BY <1>2, <1>4, <3>1, <3>2, <3>3, ApartCommands, ClearsAfter DEF cmd, t
  <2>4. ASSUME ~button'.mask
        PROVE  Clears(t, ButtonDowns, ButtonUps, Held(commands', remote'))
    <3>1. Clears(q, ButtonDowns, ButtonUps, Held(commands, remote))
      BY <1>1, <2>4 DEF KeysInv, AllIsCounted, ButtonIsCounted
    <3>2. cmd \in ButtonUps => ~Held(commands', remote') BY <2>2 DEF ButtonUps
    <3>3. cmd \notin ButtonUps \cup ButtonDowns /\ ~Held(commands, remote) => ~Held(commands', remote')
      <4>1. CASE cmd \in PointerCommands BY <4>1 DEF ButtonUps, ButtonDowns
      <4>2. CASE cmd \in KeyCommands BY <2>2, <4>2
      <4> QED BY <2>1, <4>1, <4>2 DEF ViewerCommands
    <3> DEFINE h1 == Held(commands, remote)
               h2 == Held(commands', remote')
    <3> HIDE DEF h1, h2
    <3>4. Clears(q, ButtonDowns, ButtonUps, h1) /\ (cmd \in ButtonUps => ~h2)
          /\ (cmd \notin ButtonUps \cup ButtonDowns /\ ~h1 => ~h2)
      BY <3>1, <3>2, <3>3 DEF h1, h2
    <3>5. Clears(t, ButtonDowns, ButtonUps, h2)
      BY <1>2, <1>4, <3>4, ApartCommands, ClearsAfter DEF cmd, t
    <3> QED BY <3>5 DEF h2
  <2>5. AllIsCounted' BY <2>2, <2>3, <2>4 DEF AllIsCounted, KeyIsCounted, ButtonIsCounted
  <2> QED BY <1>1, <2>2, <2>5 DEF KeysInv
<1> QED BY <1>3, <1>4

-----------------------------------------------------------------------------
(* The connection *)

\* A connection that begins, breaks or ends forgets the queue and what is down alike.
LEMMA ConnectionKept ==
  ASSUME KeysInv, Reconnect \/ WorkerConnects \/ LinkBreaks \/ EndIsHandled \/ Disconnects
  PROVE  KeysInv'
<1>1. hands' \in HandsType /\ worker' \in {"off", "dials", "on", "ended"}
  BY DEF KeysInv, Reconnect, WorkerConnects, LinkBreaks, EndIsHandled, Disconnects
<1>2. commands' = NothingQueued /\ remote' = NothingDown
  BY DEF KeysInv, Reconnect, WorkerConnects, LinkBreaks, EndIsHandled, Disconnects, Forgotten
<1>3. button' \in ButtonType /\ pressed' \in [Keysyms -> 0..Count]
  <2>1. button \in ButtonType /\ pressed \in [Keysyms -> 0..Count] BY DEF KeysInv
  <2>2. CASE UNCHANGED <<pressed, button>> BY <2>1, <2>2
  <2>3. CASE pressed' = NothingPressed /\ button' = [button EXCEPT !.mask = FALSE]
    <3>1. button' \in ButtonType BY <2>1, <2>3 DEF ButtonType
    <3> QED BY <2>3, <3>1, NothingIs
  <2> QED BY <2>2, <2>3 DEF Reconnect, WorkerConnects, LinkBreaks, EndIsHandled, Disconnects
<1>4. AllIsCounted' BY <1>2, NothingIsCountedNext
<1>5. commands' \in CommandsType /\ remote' \in RemoteType BY <1>2, NothingIs
<1> QED BY <1>1, <1>2, <1>3, <1>4, <1>5 DEF KeysInv

\* The initial states of the keys satisfy their invariant.
LEMMA KeysInitial == KeysInit => KeysInv
<1> SUFFICES ASSUME KeysInit PROVE KeysInv OBVIOUS
<1>1. commands = NothingQueued /\ remote = NothingDown /\ worker = "off" /\ pressed = NothingPressed BY DEF KeysInit
<1>2. AllIsCounted BY <1>1, NothingIsCounted
<1>3. button \in ButtonType /\ hands \in HandsType BY DEF KeysInit, ButtonType, HandsType
<1> QED BY <1>1, <1>2, <1>3, NothingIs DEF KeysInv

\* Every step of the keys keeps their invariant.
LEMMA KeysKept ==
  ASSUME KeysInv, [KeysNext]_keyVars
  PROVE  KeysInv'
<1>1. CASE UNCHANGED keyVars
  <2>1. UNCHANGED <<worker, pressed, button, hands, commands, remote>> BY <1>1 DEF keyVars
  <2> QED BY <2>1 DEF KeysInv, AllIsCounted
<1>2. CASE KeysNext
  BY <1>2, KeyPressKept, KeyReleaseKept, FocusOutKept, MouseKept, DrainKept, ConnectionKept DEF KeysNext
<1> QED BY <1>1, <1>2

\* What the register holds down is counted by the viewer, or its release is on the way.
LEMMA KeysSafe == KeysInv => KeysTypeOK /\ RemoteIsCounted
<1> SUFFICES ASSUME KeysInv PROVE KeysTypeOK /\ RemoteIsCounted OBVIOUS
<1>1. KeysTypeOK BY DEF KeysInv, KeysTypeOK, ButtonType, HandsType, CommandsType, RemoteType, RemoteKeys
<1>2. RemoteIsCounted
  <2> SUFFICES ASSUME commands = NothingQueued
               PROVE  /\ \A k \in remote.keys : \E s \in Keysyms : s[1] = k /\ pressed[s] > 0
                      /\ remote.button => button.mask
    BY DEF RemoteIsCounted
  <2>1. DOMAIN commands.queue = {} /\ commands.move = {}
    <3>1. commands.queue = <<>> /\ commands.move = {} BY NothingIs
    <3> QED BY <3>1
  <2>2. ASSUME NEW k \in remote.keys PROVE \E s \in Keysyms : s[1] = k /\ pressed[s] > 0
    <3>1. k \in RemoteKeys BY DEF KeysInv, RemoteType
    <3>2. ~Clears(commands.queue, Presses(k), Releases(k), k \in remote.keys) BY <2>1 DEF Clears
    <3>3. ~IsUncounted(k, pressed) BY <3>1, <3>2 DEF KeysInv, AllIsCounted, KeyIsCounted
    <3>4. PICK s \in Keysyms : s[1] = k /\ pressed[s] # 0 BY <3>3 DEF IsUncounted
    <3>5. pressed[s] \in 0..Count BY DEF KeysInv
    <3>6. pressed[s] > 0 BY <3>4, <3>5, CountIs
    <3> QED BY <3>4, <3>6
  <2>3. remote.button => button.mask
    <3> SUFFICES ASSUME remote.button, ~button.mask PROVE FALSE
      <4>1. button.mask \in BOOLEAN BY DEF KeysInv, ButtonType
      <4> QED BY <4>1
    <3>1. Clears(commands.queue, ButtonDowns, ButtonUps, Held(commands, remote))
      BY DEF KeysInv, AllIsCounted, ButtonIsCounted
    <3>2. Held(commands, remote) BY <2>1 DEF Held
    <3> QED BY <2>1, <3>1, <3>2 DEF Clears
  <2> QED BY <2>2, <2>3
<1> QED BY <1>1, <1>2

-----------------------------------------------------------------------------
(* The list of tables and the SQL console *)

BaseType == [now: Databases, list: Databases, loads: SUBSET Databases, asked: Asked]
CardType == [seq: Asked, timer: BOOLEAN, open: SUBSET Asked, shown: Asked]
ConsoleType == [last: Asked, runs: SUBSET (Asked \X Statements),
                export: {NoExport, "runs", "over"}, button: BOOLEAN, current: 0..(Questions + 1)]
ResultType == [of: Asked, kept: BOOLEAN]

\* A timer that runs leaves a number for its question.
ConsoleInv ==
  /\ base \in BaseType /\ card \in CardType /\ console \in ConsoleType /\ result \in ResultType
  /\ opened \in BOOLEAN
  /\ card.timer => card.seq < Questions
  /\ ButtonComesBack

\* The numbers of questions are counted within their bound.
LEMMA AskedIs == 0 \in Asked /\ \A n \in Asked : n < Questions => n + 1 \in Asked
BY ConsoleAssumption DEF Asked

\* The initial states of the viewer of the database satisfy its invariant.
LEMMA ConsoleInitial == ConsoleInit => ConsoleInv
<1> SUFFICES ASSUME ConsoleInit PROVE ConsoleInv OBVIOUS
<1>1. base \in BaseType BY ConsoleAssumption, AskedIs DEF ConsoleInit, BaseType
<1>2. card \in CardType /\ ~card.timer BY AskedIs DEF ConsoleInit, CardType
<1>3. 0 \in 0..(Questions + 1) BY ConsoleAssumption
<1>4. console \in ConsoleType /\ console.button BY AskedIs, <1>3 DEF ConsoleInit, ConsoleType
<1>5. result \in ResultType BY AskedIs DEF ConsoleInit, ResultType
<1> QED BY <1>1, <1>2, <1>4, <1>5 DEF ConsoleInit, ConsoleInv, ButtonComesBack

\* A database that is selected, and the list that comes late, keep the invariant.
LEMMA TablesKept ==
  ASSUME ConsoleInv, SelectDatabase \/ TablesAnswer
  PROVE  ConsoleInv'
<1>1. base' \in BaseType
  <2>1. base \in BaseType BY DEF ConsoleInv
  <2>2. CASE SelectDatabase
    <3>1. PICK d \in Databases :
            base' = [base EXCEPT !.now = d, !.loads = base.loads \cup {d}, !.asked = base.asked + 1]
      BY <2>2 DEF SelectDatabase
    <3>2. base.asked + 1 \in Asked BY <2>1, <2>2, AskedIs DEF SelectDatabase, BaseType
    <3> QED BY <2>1, <3>1, <3>2 DEF BaseType
  <2>3. CASE TablesAnswer
    <3>1. PICK d \in base.loads, ok \in BOOLEAN :
            base' = [base EXCEPT !.loads = base.loads \ {d}, !.list = IF ok THEN d ELSE base.list]
      BY <2>3 DEF TablesAnswer
    <3> DEFINE l == IF ok THEN d ELSE base.list
    <3>2. l \in Databases BY <2>1 DEF BaseType
    <3>3. base' = [base EXCEPT !.loads = base.loads \ {d}, !.list = l] BY <3>1
    <3> HIDE DEF l
    <3> QED BY <2>1, <3>2, <3>3 DEF BaseType
  <2> QED BY <2>2, <2>3
<1>2. UNCHANGED <<card, console, result, opened>> BY DEF SelectDatabase, TablesAnswer
<1> QED BY <1>1, <1>2 DEF ConsoleInv, ButtonComesBack

\* A card that is asked for or comes keeps the invariant: what is shown is of the last click.
LEMMA CardKept ==
  ASSUME ConsoleInv, ClickTable \/ LoadInfo \/ InfoAnswer
  PROVE  ConsoleInv'
<1>1. card \in CardType BY DEF ConsoleInv
<1>2. UNCHANGED <<base, console, result, opened>> BY DEF ClickTable, LoadInfo, InfoAnswer
<1>3. card' \in CardType /\ (card'.timer => card'.seq < Questions)
  <2>1. CASE ClickTable BY <2>1, <1>1 DEF ClickTable, CardType
  <2>2. CASE LoadInfo
    <3> DEFINE n == card.seq + 1
    <3>1. card.timer /\ card.seq < Questions /\ card.seq \in Asked
      BY <2>2, <1>1 DEF LoadInfo, CardType, ConsoleInv
    <3>2. n \in Asked BY <3>1, AskedIs
    <3>3. card' = [card EXCEPT !.timer = FALSE, !.seq = n, !.open = card.open \cup {n}]
      BY <2>2 DEF LoadInfo
    <3> HIDE DEF n
    <3> QED BY <1>1, <3>2, <3>3 DEF CardType
  <2>3. CASE InfoAnswer
    <3>1. PICK n \in card.open :
            card' = [card EXCEPT !.open = card.open \ {n}, !.shown = IF n = card.seq THEN n ELSE card.shown]
      BY <2>3 DEF InfoAnswer
    <3> DEFINE s == IF n = card.seq THEN n ELSE card.shown
    <3>2. s \in Asked BY <1>1 DEF CardType
    <3>3. card' = [card EXCEPT !.open = card.open \ {n}, !.shown = s] BY <3>1
    <3> HIDE DEF s
    <3>4. card' \in CardType /\ card'.timer = card.timer /\ card'.seq = card.seq
      BY <1>1, <3>2, <3>3 DEF CardType
    <3> QED BY <3>4 DEF ConsoleInv
  <2> QED BY <2>1, <2>2, <2>3
<1> QED BY <1>2, <1>3 DEF ConsoleInv, ButtonComesBack

\* A statement and an export, and their answers, keep the invariant.
LEMMA ConsoleKept ==
  ASSUME ConsoleInv, Execute \/ ConsoleAnswer \/ ExportResult \/ ExportEnds
  PROVE  ConsoleInv'
<1>1. console \in ConsoleType /\ result \in ResultType BY DEF ConsoleInv
<1>2. UNCHANGED <<base, card, opened>> BY DEF Execute, ConsoleAnswer, ExportResult, ExportEnds
<1>3. CASE Execute
  <2> DEFINE n == console.last + 1
  <2>1. PICK s \in Statements :
          console' = [console EXCEPT !.last = n, !.runs = console.runs \cup {<<n, s>>},
                                     !.button = FALSE, !.current = n]
    BY <1>3 DEF Execute
  <2>2. n \in Asked BY <1>1, <1>3, AskedIs DEF Execute, ConsoleType
  <2>3. n \in 0..(Questions + 1) BY <2>2, ConsoleAssumption DEF Asked
  <2> HIDE DEF n
  <2>4. <<n, s>> \in Asked \X Statements BY <2>2
  <2>5. console' \in ConsoleType /\ console'.runs # {} BY <1>1, <2>1, <2>2, <2>3, <2>4 DEF ConsoleType
  <2> QED BY <1>2, <1>3, <2>5 DEF Execute, ConsoleInv, ButtonComesBack
<1>4. CASE ConsoleAnswer
  <2>1. PICK r \in console.runs :
          /\ console' = [console EXCEPT !.runs = console.runs \ {r}, !.button = TRUE]
          /\ result' = [of |-> r[1], kept |-> r[2] # "returning"] \/ UNCHANGED result
    BY <1>4 DEF ConsoleAnswer
  <2>2. console' \in ConsoleType /\ console'.button BY <1>1, <2>1 DEF ConsoleType
  <2>3. r[1] \in Asked BY <1>1 DEF ConsoleType
  <2> DEFINE k == r[2] # "returning"
  <2>4. k \in BOOLEAN /\ (result' = [of |-> r[1], kept |-> k] \/ UNCHANGED result) BY <2>1
  <2> HIDE DEF k
  <2>5. result' \in ResultType BY <1>1, <2>3, <2>4 DEF ResultType
  <2> QED BY <1>2, <2>2, <2>5 DEF ConsoleInv, ButtonComesBack
<1>5. CASE ExportResult
  <2>1. Questions + 1 \in 0..(Questions + 1) BY ConsoleAssumption
  <2> DEFINE q == Questions + 1
  <2>2. console' = [console EXCEPT !.export = "runs", !.current = q] BY <1>5 DEF ExportResult
  <2>3. q \in 0..(Questions + 1) BY <2>1
  <2> HIDE DEF q
  <2>4. console' \in ConsoleType /\ console'.button = console.button /\ console'.runs = console.runs
    BY <1>1, <2>2, <2>3 DEF ConsoleType
  <2> QED BY <1>2, <1>5, <2>4 DEF ExportResult, ConsoleInv, ButtonComesBack
<1>6. CASE ExportEnds
  <2>1. console' \in ConsoleType /\ console'.button = console.button /\ console'.runs = console.runs
    BY <1>1, <1>6 DEF ExportEnds, ConsoleType
  <2> QED BY <1>2, <1>6, <2>1 DEF ExportEnds, ConsoleInv, ButtonComesBack
<1> QED BY <1>3, <1>4, <1>5, <1>6

\* The closing of the viewer keeps the invariant.
LEMMA ViewerCloses ==
  ASSUME ConsoleInv, CloseViewer
  PROVE  ConsoleInv'
<1>1. base' \in BaseType
  <2>1. base \in BaseType /\ base' = [base EXCEPT !.loads = {}] BY DEF ConsoleInv, CloseViewer
  <2> QED BY <2>1 DEF BaseType
<1>2. card' \in CardType /\ ~card'.timer
  <2>1. card \in CardType /\ card' = [card EXCEPT !.timer = FALSE, !.open = {}] BY DEF ConsoleInv, CloseViewer
  <2> QED BY <2>1 DEF CardType
<1>3. console' \in ConsoleType
  <2> DEFINE e == IF console.export = "runs" THEN "over" ELSE console.export
  <2>1. console \in ConsoleType /\ console' = [console EXCEPT !.runs = {}, !.export = e]
    BY DEF ConsoleInv, CloseViewer
  <2>2. e \in {NoExport, "runs", "over"} BY <2>1 DEF ConsoleType
  <2> HIDE DEF e
  <2> QED BY <2>1, <2>2 DEF ConsoleType
<1> QED BY <1>1, <1>2, <1>3 DEF CloseViewer, ConsoleInv, ButtonComesBack

\* Every step of the viewer of the database keeps its invariant.
LEMMA DbConsoleKept ==
  ASSUME ConsoleInv, [ConsoleNext]_consoleVars
  PROVE  ConsoleInv'
<1>1. CASE UNCHANGED consoleVars
  <2>1. UNCHANGED <<base, card, console, result, opened>> BY <1>1 DEF consoleVars
  <2> QED BY <2>1 DEF ConsoleInv, ButtonComesBack
<1>2. CASE ConsoleNext BY <1>2, TablesKept, CardKept, ConsoleKept, ViewerCloses DEF ConsoleNext
<1> QED BY <1>1, <1>2

\* The button of the console is off only while a statement runs.
LEMMA DbConsoleSafe == ConsoleInv => ConsoleTypeOK /\ ButtonComesBack
BY DEF ConsoleInv, ConsoleTypeOK, BaseType, CardType, ConsoleType, ResultType

\* The card that is shown changes to that of the last click only.
LEMMA CardIsLastStep ==
  ASSUME ConsoleInv, [ConsoleNext]_consoleVars, card'.shown # card.shown
  PROVE  card'.shown = card'.seq
<1>1. card \in CardType BY DEF ConsoleInv
<1>2. CASE InfoAnswer
  <2>1. PICK n \in card.open :
          card' = [card EXCEPT !.open = card.open \ {n}, !.shown = IF n = card.seq THEN n ELSE card.shown]
    BY <1>2 DEF InfoAnswer
  <2>2. CASE n = card.seq BY <1>1, <2>1, <2>2 DEF CardType
  <2>3. CASE n # card.seq BY <1>1, <2>1, <2>3 DEF CardType
  <2> QED BY <2>2, <2>3
<1>3. CASE card' = card BY <1>3
<1>4. CASE ClickTable \/ LoadInfo \/ CloseViewer
  BY <1>1, <1>4 DEF ClickTable, LoadInfo, CloseViewer, CardType
<1> QED BY <1>2, <1>3, <1>4
    DEF ConsoleNext, consoleVars, SelectDatabase, TablesAnswer, Execute, ConsoleAnswer, ExportResult, ExportEnds

-----------------------------------------------------------------------------
(* The viewers of a tab *)

FlowType == {Idle} \cup [of: Flows, at: {"start", "wait", "delay"}]
RestoreType == [open: BOOLEAN, resume: BOOLEAN, down: BOOLEAN]
ViewerStates == {"idle", "connecting", "connected", "error"}
ViewersType == [Viewers -> ViewerStates]
StepsType == [orders: 0..Orders, drops: 0..Drops, refreshed: BOOLEAN]

\* A flow for the embedded viewer is wanted, as a viewer is that is on.
FlowIsWanted == flow.of = "embedded" => wanted

PreviewInv == PreviewTypeOK /\ DisconnectHolds /\ FlowIsWanted

\* The initial states of the viewers satisfy their invariant.
LEMMA PreviewInitial == PreviewInit => PreviewInv
<1> SUFFICES ASSUME PreviewInit PROVE PreviewInv OBVIOUS
<1>1. steps \in StepsType
  <2>1. 0 \in 0..Orders /\ 0 \in 0..Drops BY PreviewAssumption
  <2> QED BY <2>1 DEF PreviewInit, StepsType
<1>2. viewer \in ViewersType /\ viewer["embedded"] = "idle"
  BY DEF PreviewInit, ViewersType, ViewerStates, Viewers
<1> QED BY <1>1, <1>2 DEF PreviewInit, PreviewInv, PreviewTypeOK, StepsType, DisconnectHolds, FlowIsWanted,
    ViewersType, ViewerStates, On, Idle, Viewers

\* What the steps read of the invariant.
LEMMA PreviewIs ==
  ASSUME PreviewInv
  PROVE  /\ flow \in FlowType /\ viewer \in ViewersType /\ window \in {"none", "shown", "hidden"}
         /\ ssh \in {"up", "lost", "gone", "dialling", "down"} /\ restore \in RestoreType
         /\ clients \in BOOLEAN /\ wanted \in BOOLEAN /\ steps \in StepsType
         /\ flow.of = "embedded" => wanted
         /\ viewer["embedded"] \in On => wanted
BY DEF PreviewInv, PreviewTypeOK, FlowType, ViewersType, ViewerStates, RestoreType, StepsType,
       DisconnectHolds, FlowIsWanted

\* What a step has to show.
LEMMA PreviewOf ==
  ASSUME flow' \in FlowType, viewer' \in ViewersType, window' \in {"none", "shown", "hidden"},
         ssh' \in {"up", "lost", "gone", "dialling", "down"}, restore' \in RestoreType,
         clients' \in BOOLEAN, wanted' \in BOOLEAN, steps' \in StepsType,
         flow'.of = "embedded" => wanted', viewer'["embedded"] \in On => wanted'
  PROVE  PreviewInv'
BY DEF PreviewInv, PreviewTypeOK, FlowType, ViewersType, ViewerStates, RestoreType, StepsType,
       DisconnectHolds, FlowIsWanted

\* What a viewer enters: the others stay, and the tab concludes what it concludes.
LEMMA EntersIs ==
  ASSUME PreviewInv, NEW v \in Viewers, NEW state \in ViewerStates, Enters(v, state)
  PROVE  /\ viewer' \in ViewersType /\ viewer'[v] = state
         /\ \A o \in Viewers \ {v} : viewer'[o] = viewer[o]
         /\ restore' \in RestoreType
<1>1. viewer \in ViewersType /\ restore \in RestoreType BY PreviewIs
<1>2. Reported(restore, state) \in RestoreType BY <1>1 DEF Reported, RestoreType, ViewerStates
<1> QED BY <1>1, <1>2 DEF Enters, ViewersType

\* A new flow.
LEMMA SpawnIs ==
  ASSUME NEW kind \in Flows, Spawn(kind)
  PROVE  flow' \in FlowType /\ flow'.of = kind
BY DEF Spawn, FlowType

\* No task is one of no viewer.
LEMMA IdleIs == Idle \in FlowType /\ Idle.of # "embedded" BY DEF Idle, FlowType

\* The coroutine of a flow: it does not become another, and what it connects is wanted.
LEMMA FlowStepKept == ASSUME PreviewInv, FlowStep PROVE PreviewInv'
<1>1. /\ flow \in FlowType /\ viewer \in ViewersType /\ window \in {"none", "shown", "hidden"}
      /\ ssh \in {"up", "lost", "gone", "dialling", "down"} /\ restore \in RestoreType
      /\ clients \in BOOLEAN /\ wanted \in BOOLEAN /\ steps \in StepsType
      /\ flow.of = "embedded" => wanted
      /\ viewer["embedded"] \in On => wanted
  BY PreviewIs
<1>2. UNCHANGED <<ssh, wanted, steps>> BY DEF FlowStep, ShowsWindow, StartsServer, ServerAnswers, FlowEnds
<1>3. /\ flow' \in FlowType
      /\ flow'.of = "embedded" => wanted
  <2>1. ASSUME NEW at \in {"wait", "delay"}, flow.at \in {"start", "wait"}, flow' = [flow EXCEPT !.at = at]
        PROVE  flow' \in FlowType /\ flow'.of = flow.of
    <3>1. flow \in [of: Flows, at: {"start", "wait", "delay"}] BY <1>1, <2>1 DEF FlowType, Idle
    <3> QED BY <2>1, <3>1 DEF FlowType
  <2>2. flow' \in {flow, Idle} \/ \E at \in {"wait", "delay"} :
           flow.at \in {"start", "wait"} /\ flow' = [flow EXCEPT !.at = at]
    BY DEF FlowStep, ShowsWindow, StartsServer, ServerAnswers, FlowEnds
  <2> QED BY <1>1, <2>1, <2>2, IdleIs
<1>4. /\ window' \in {"none", "shown", "hidden"} /\ clients' \in BOOLEAN
  BY <1>1 DEF FlowStep, ShowsWindow, StartsServer, ServerAnswers, FlowEnds
<1>5. /\ viewer' \in ViewersType /\ restore' \in RestoreType
      /\ viewer'["embedded"] \in On => wanted
  <2>1. CASE StartsServer
    <3>1. viewer' \in ViewersType /\ viewer'["embedded"] \in {viewer["embedded"], "error"}
      BY <1>1, <2>1 DEF StartsServer, ViewersType, ViewerStates, Viewers
    <3> QED BY <1>1, <2>1, <3>1 DEF StartsServer, On
  <2>2. CASE FlowEnds
    <3>1. flow.of \in Flows BY <1>1, <2>2 DEF FlowEnds, FlowType, Idle
    <3>2. CASE flow.of = "external" BY <1>1, <2>2, <3>2 DEF FlowEnds
    <3>3. CASE flow.of # "external"
      <4>1. flow.of \in Viewers /\ Enters(flow.of, "connecting") BY <2>2, <3>1, <3>3 DEF FlowEnds, Flows, Viewers
      <4>2. /\ viewer' \in ViewersType /\ restore' \in RestoreType
            /\ \A o \in Viewers \ {flow.of} : viewer'[o] = viewer[o]
        BY <4>1, EntersIs DEF ViewerStates
      <4> QED BY <1>1, <4>2 DEF Viewers
    <3> QED BY <3>2, <3>3
  <2>3. CASE ShowsWindow \/ ServerAnswers BY <1>1, <2>3 DEF ShowsWindow, ServerAnswers
  <2> QED BY <2>1, <2>2, <2>3 DEF FlowStep
<1> QED BY <1>1, <1>2, <1>3, <1>4, <1>5, PreviewOf

\* A viewer answers or fails.
LEMMA ViewerStepKept == ASSUME PreviewInv, ViewerAnswers \/ ViewerFails PROVE PreviewInv'
<1>1. /\ flow \in FlowType /\ viewer \in ViewersType /\ window \in {"none", "shown", "hidden"}
      /\ ssh \in {"up", "lost", "gone", "dialling", "down"}
      /\ clients \in BOOLEAN /\ wanted \in BOOLEAN /\ steps \in StepsType
      /\ flow.of = "embedded" => wanted
      /\ viewer["embedded"] \in On => wanted
  BY PreviewIs
<1>2. UNCHANGED <<flow, window, ssh, clients, wanted, steps>> BY DEF ViewerAnswers, ViewerFails
<1>3. PICK v \in Viewers, state \in {"connected", "error"} :
        Enters(v, state) /\ viewer[v] \in On
  BY DEF ViewerAnswers, ViewerFails, On
<1>4. /\ viewer' \in ViewersType /\ restore' \in RestoreType
      /\ \A o \in Viewers \ {v} : viewer'[o] = viewer[o]
  BY <1>3, EntersIs DEF ViewerStates
<1>5. viewer'["embedded"] \in On => viewer["embedded"] \in On BY <1>3, <1>4 DEF Viewers
<1> QED BY <1>1, <1>2, <1>4, <1>5, PreviewOf

\* The ping and the dial of the session.
LEMMA LinkKept == ASSUME PreviewInv, PingFails \/ PingReturns \/ Dialled \/ LinkLost PROVE PreviewInv'
<1>1. /\ flow \in FlowType /\ viewer \in ViewersType /\ window \in {"none", "shown", "hidden"}
      /\ ssh \in {"up", "lost", "gone", "dialling", "down"} /\ restore \in RestoreType
      /\ clients \in BOOLEAN /\ wanted \in BOOLEAN /\ steps \in StepsType
      /\ flow.of = "embedded" => wanted
      /\ viewer["embedded"] \in On => wanted
  BY PreviewIs
<1>2. UNCHANGED <<viewer, window, clients>> BY DEF PingFails, PingReturns, Dialled, LinkLost
<1>3. /\ flow' \in FlowType /\ wanted' \in BOOLEAN
      /\ flow'.of = "embedded" => wanted'
      /\ wanted => wanted'
  <2>1. \/ UNCHANGED <<flow, wanted>>
        \/ Spawn("embedded") /\ wanted' = TRUE
    BY DEF PingFails, PingReturns, Survives, Redials, Dialled, LinkLost
  <2> QED BY <1>1, <2>1, SpawnIs DEF Flows
<1>4. ssh' \in {"up", "lost", "gone", "dialling", "down"}
  BY <1>1 DEF PingFails, PingReturns, Survives, Redials, Dialled, LinkLost
<1>5. restore' \in RestoreType
  <2>1. CASE PingFails BY <1>1, <2>1 DEF PingFails, RestoreType
  <2>2. CASE PingReturns
    <3>1. PICK resume \in BOOLEAN : resume <=> restore.open \/ restore.resume OBVIOUS
    <3>2. restore' = [restore EXCEPT !.down = FALSE, !.resume = resume]
      BY <1>1, <2>2, <3>1 DEF PingReturns, RestoreType
    <3> QED BY <1>1, <3>2 DEF RestoreType
  <2>3. CASE Dialled \/ LinkLost BY <1>1, <2>3 DEF Dialled, LinkLost, RestoreType
  <2> QED BY <2>1, <2>2, <2>3
<1>6. steps' \in StepsType
  <2>1. CASE LinkLost
    <3>1. steps.drops + 1 \in 0..Drops BY <1>1, <2>1, PreviewAssumption DEF LinkLost, StepsType
    <3> QED BY <1>1, <2>1, <3>1 DEF LinkLost, StepsType
  <2>2. CASE ~LinkLost BY <1>1, <2>2 DEF PingFails, PingReturns, Dialled
  <2> QED BY <2>1, <2>2
<1> QED BY <1>1, <1>2, <1>3, <1>4, <1>5, <1>6, PreviewOf

\* The operator: a disconnect cancels the task and the viewer.
LEMMA PreviewOperatorKept ==
  ASSUME PreviewInv, ConnectVnc \/ DisconnectVnc \/ OpenClient \/ CloseWindow \/ RefreshTab
  PROVE  PreviewInv'
<1>1. /\ flow \in FlowType /\ viewer \in ViewersType /\ window \in {"none", "shown", "hidden"}
      /\ ssh \in {"up", "lost", "gone", "dialling", "down"} /\ restore \in RestoreType
      /\ clients \in BOOLEAN /\ wanted \in BOOLEAN /\ steps \in StepsType
      /\ flow.of = "embedded" => wanted
      /\ viewer["embedded"] \in On => wanted
  BY PreviewIs
<1>2. steps' \in StepsType
  <2>1. steps.orders < Orders
    BY DEF Orders1, ConnectVnc, DisconnectVnc, OpenClient, CloseWindow, RefreshTab
  <2>2. steps.orders + 1 \in 0..Orders BY <1>1, <2>1, PreviewAssumption DEF StepsType
  <2>3. PICK refreshed \in BOOLEAN : steps' = [steps EXCEPT !.orders = steps.orders + 1, !.refreshed = refreshed]
    BY <1>1 DEF Orders1, ConnectVnc, DisconnectVnc, OpenClient, CloseWindow, RefreshTab, StepsType
  <2> QED BY <1>1, <2>2, <2>3 DEF StepsType
<1>3. CASE ConnectVnc
  BY <1>1, <1>2, <1>3, SpawnIs, PreviewOf DEF ConnectVnc, Flows
<1>4. CASE DisconnectVnc
  <2>1. viewer' \in ViewersType /\ viewer'["embedded"] \notin On
    BY <1>1, <1>4 DEF DisconnectVnc, ViewersType, ViewerStates, Viewers, On
  <2>2. restore' \in RestoreType BY <1>1, <1>4 DEF DisconnectVnc, RestoreType
  <2> QED BY <1>1, <1>2, <1>4, <2>1, <2>2, IdleIs, PreviewOf DEF DisconnectVnc
<1>5. CASE OpenClient
  <2>1. flow' \in FlowType /\ flow'.of # "embedded" BY <1>5, SpawnIs DEF OpenClient, Flows
  <2>2. window' \in {"none", "shown", "hidden"} BY <1>1, <1>5 DEF OpenClient
  <2> QED BY <1>1, <1>2, <1>5, <2>1, <2>2, PreviewOf DEF OpenClient
<1>6. CASE CloseWindow
  <2>1. Enters("window", "idle") /\ window' = "hidden" /\ UNCHANGED <<flow, ssh, clients, wanted>>
    BY <1>6 DEF CloseWindow
  <2>2. viewer' \in ViewersType /\ restore' \in RestoreType /\ viewer'["embedded"] = viewer["embedded"]
    BY <2>1, EntersIs DEF Viewers, ViewerStates
  <2> QED BY <1>1, <1>2, <2>1, <2>2, PreviewOf
<1>7. CASE RefreshTab
  <2>1. viewer' \in ViewersType /\ viewer'["embedded"] \in {viewer["embedded"], "idle"}
    BY <1>1, <1>7 DEF RefreshTab, ViewersType, ViewerStates, Viewers
  <2>2. restore' \in RestoreType BY <1>1, <1>7 DEF RefreshTab, RestoreType
  <2>3. flow' \in {flow, Idle} /\ ssh' = "dialling" /\ UNCHANGED <<window, clients, wanted>>
    BY <1>7 DEF RefreshTab
  <2>4. viewer'["embedded"] \in On => wanted BY <1>1, <2>1 DEF On
  <2> QED BY <1>1, <1>2, <2>1, <2>2, <2>3, <2>4, IdleIs, PreviewOf
<1> QED BY <1>3, <1>4, <1>5, <1>6, <1>7

\* Every step of the viewers keeps the invariant.
LEMMA PreviewKept == ASSUME PreviewInv, [PreviewNext]_previewVars PROVE PreviewInv'
<1>1. CASE UNCHANGED previewVars
  BY <1>1 DEF previewVars, PreviewInv, PreviewTypeOK, DisconnectHolds, FlowIsWanted
<1>2. CASE PreviewNext
  BY <1>2, FlowStepKept, ViewerStepKept, LinkKept, PreviewOperatorKept DEF PreviewNext, LinkStep
<1> QED BY <1>1, <1>2

\* No viewer is on after a disconnect.
LEMMA PreviewSafe == PreviewInv => PreviewTypeOK /\ DisconnectHolds
BY DEF PreviewInv

-----------------------------------------------------------------------------
(* The sessions of the terminal *)

StreamType == [kept: BOOLEAN, channel: BOOLEAN,
               reader: {"none", "reading", "cancelled", "ended"} \cup Flooding]
TermLineType == [kept: BOOLEAN, up: BOOLEAN]
GridType == [widget: Grids, asked: Grids, remote: Grids]
PtyTypes == [Terminals -> StreamType]

\* The sessions whose reader is in the middle of a flood.
Flooded == {s \in Terminals : pty[s].reader \in Flooding}

\* A session has no reader before its PTY was made, and no coroutine before its tab.
NotYetReading ==
  \A s \in Terminals :
    /\ dial[s] \in {"none", "first", "pause", "second", "create"} => pty[s].reader = "none"
    /\ ttab[s] = "none" => dial[s] = "none"

TerminalInv == TerminalTypeOK /\ NotYetReading /\ CollectorFollows

\* The number of floods is a number, and the guard is in its type.
LEMMA FloodsFit ==
  IsFiniteSet(Flooded) /\ Cardinality(Flooded) \in Nat /\ Cardinality(Flooded) <= Cardinality(Terminals)
  /\ Cardinality(Terminals) \in Nat
<1>1. IsFiniteSet(Terminals) BY TerminalAssumption
<1>2. Flooded \subseteq Terminals BY DEF Flooded
<1> QED BY <1>1, <1>2, FS_Subset, FS_CardinalityType

\* The property of the collector, in terms of the sessions that flood, in this state and the
\* next.
LEMMA FollowsIs ==
  ASSUME TerminalTypeOK
  PROVE  /\ CollectorFollows <=> /\ collector.guard = Cardinality(Flooded)
                                 /\ collector.on <=> Cardinality(Flooded) = 0
         /\ CollectorFollows' <=> /\ collector'.guard = Cardinality(Flooded')
                                  /\ collector'.on <=> Cardinality(Flooded') = 0
BY DEF CollectorFollows, Flooded

\* The initial states of the terminals satisfy their invariant.
LEMMA TerminalInitial == TerminalInit => TerminalInv
<1> SUFFICES ASSUME TerminalInit PROVE TerminalInv OBVIOUS
<1>1. Cardinality(Terminals) \in Nat BY FloodsFit
<1>2. TerminalTypeOK
  <2>1. NoLine \in TermLineType /\ NoPty \in StreamType BY DEF NoLine, NoPty, TermLineType, StreamType
  <2>2. collector \in [guard: 0..Cardinality(Terminals), on: BOOLEAN, lost: 0..Losses]
    <3>1. 0 \in 0..Cardinality(Terminals) /\ 0 \in 0..Losses BY <1>1, TerminalAssumption
    <3> QED BY <3>1 DEF TerminalInit
  <2>3. /\ line \in [Terminals -> TermLineType] /\ pty \in PtyTypes /\ grid \in [Terminals -> GridType]
        /\ dial \in [Terminals -> {"none"}] /\ closer \in [Terminals -> {"none"}]
        /\ ttab \in [Terminals -> {"none"}] /\ notice \in [Terminals -> {FALSE}]
    BY <2>1 DEF TerminalInit, PtyTypes, GridType, Grids
  <2> QED BY <2>2, <2>3 DEF TerminalTypeOK, TermLineType, PtyTypes, StreamType, GridType
<1>3. NotYetReading BY DEF TerminalInit, NotYetReading, NoPty
<1>4. Flooded = {} BY DEF Flooded, TerminalInit, NoPty, Flooding
<1>5. Cardinality(Flooded) = 0 BY <1>4, FS_EmptySet
<1> QED BY <1>2, <1>3, <1>5, FollowsIs DEF TerminalInv, TerminalInit

\* A step in which no reader begins or ends to flood.
LEMMA FloodStays ==
  ASSUME TerminalInv, NEW s \in Terminals, TerminalTypeOK',
         \A o \in Terminals \ {s} : pty'[o].reader = pty[o].reader,
         pty'[s].reader \in Flooding <=> pty[s].reader \in Flooding,
         collector'.guard = collector.guard, collector'.on <=> collector.on
  PROVE  CollectorFollows'
<1>1. Flooded' = Flooded BY DEF Flooded
<1> QED BY <1>1, FollowsIs DEF TerminalInv

\* A flood begins.
LEMMA AcquireFollows ==
  ASSUME TerminalInv, NEW s \in Terminals, Acquire,
         \A o \in Terminals \ {s} : pty'[o].reader = pty[o].reader,
         pty'[s].reader \in Flooding, pty[s].reader \notin Flooding
  PROVE  /\ collector' \in [guard: 0..Cardinality(Terminals), on: BOOLEAN, lost: 0..Losses]
         /\ CollectorFollows'
<1>1. Flooded' = Flooded \cup {s} /\ s \notin Flooded BY DEF Flooded
<1>2. Cardinality(Flooded') = Cardinality(Flooded) + 1 BY <1>1, FloodsFit, FS_AddElement
<1>3. Cardinality(Flooded') <= Cardinality(Terminals)
  <2>1. IsFiniteSet(Terminals) /\ Flooded' \subseteq Terminals BY <1>1, TerminalAssumption DEF Flooded
  <2> QED BY <2>1, FS_Subset
<1>4. /\ collector \in [guard: 0..Cardinality(Terminals), on: BOOLEAN, lost: 0..Losses]
      /\ collector.guard = Cardinality(Flooded)
  BY FollowsIs DEF TerminalInv, TerminalTypeOK
<1>5. Cardinality(Flooded) \in Nat /\ Cardinality(Terminals) \in Nat BY FloodsFit
<1>6. collector.guard + 1 \in 0..Cardinality(Terminals) /\ Cardinality(Flooded') # 0 BY <1>2, <1>3, <1>4, <1>5
<1>7. /\ collector' \in [guard: 0..Cardinality(Terminals), on: BOOLEAN, lost: 0..Losses]
      /\ collector'.guard = collector.guard + 1 /\ collector'.on = FALSE
  BY <1>4, <1>6 DEF Acquire
<1> QED BY <1>2, <1>4, <1>6, <1>7, FollowsIs DEF TerminalInv

\* A flood ends: given to the end, or broken off.
LEMMA ReleaseFollows ==
  ASSUME TerminalInv, NEW s \in Terminals, Release,
         \A o \in Terminals \ {s} : pty'[o].reader = pty[o].reader,
         pty[s].reader \in Flooding, pty'[s].reader \notin Flooding
  PROVE  /\ collector' \in [guard: 0..Cardinality(Terminals), on: BOOLEAN, lost: 0..Losses]
         /\ CollectorFollows'
<1>1. Flooded' = Flooded \ {s} /\ s \in Flooded BY DEF Flooded
<1>2. Cardinality(Flooded') = Cardinality(Flooded) - 1 BY <1>1, FloodsFit, FS_RemoveElement
<1>3. Cardinality(Flooded') \in Nat BY <1>1, FloodsFit, FS_RemoveElement, FS_CardinalityType
<1>4. /\ collector \in [guard: 0..Cardinality(Terminals), on: BOOLEAN, lost: 0..Losses]
      /\ collector.guard = Cardinality(Flooded)
      /\ collector.on <=> Cardinality(Flooded) = 0
  BY FollowsIs DEF TerminalInv, TerminalTypeOK
<1>5. Cardinality(Flooded) \in Nat /\ Cardinality(Flooded) <= Cardinality(Terminals)
      /\ Cardinality(Terminals) \in Nat
  BY FloodsFit
<1>6. PICK on \in BOOLEAN : on <=> (collector.on \/ collector.guard = 1) BY <1>4
<1>7. collector.guard - 1 \in 0..Cardinality(Terminals) BY <1>2, <1>3, <1>4, <1>5
<1>8. collector' = [collector EXCEPT !.guard = collector.guard - 1, !.on = on]
  BY <1>4, <1>6 DEF Release
<1>9. /\ collector' \in [guard: 0..Cardinality(Terminals), on: BOOLEAN, lost: 0..Losses]
      /\ collector'.guard = collector.guard - 1 /\ collector'.on = on
  BY <1>4, <1>7, <1>8
<1>10. on <=> Cardinality(Flooded') = 0 BY <1>2, <1>3, <1>4, <1>5, <1>6
<1> QED BY <1>2, <1>4, <1>9, <1>10, FollowsIs DEF TerminalInv

-----------------------------------------------------------------------------
\* What the steps read of the invariant.
LEMMA SessionIs ==
  ASSUME TerminalInv, NEW s \in Terminals
  PROVE  /\ pty \in PtyTypes /\ pty[s] \in StreamType /\ line \in [Terminals -> TermLineType]
         /\ line[s] \in TermLineType /\ grid \in [Terminals -> GridType] /\ grid[s] \in GridType
         /\ Cancelled(pty[s].reader) \in {"none", "reading", "cancelled", "ended"} \cup Flooding
         /\ Cancelled(pty[s].reader) \in Flooding <=> pty[s].reader \in Flooding
         /\ pty[s].reader = "none" => Cancelled(pty[s].reader) = "none"
<1>1. /\ pty \in PtyTypes /\ pty[s] \in StreamType /\ line \in [Terminals -> TermLineType]
      /\ line[s] \in TermLineType /\ grid \in [Terminals -> GridType] /\ grid[s] \in GridType
  BY DEF TerminalInv, TerminalTypeOK, PtyTypes, StreamType, TermLineType, GridType
<1>2. pty[s].reader \in {"none", "reading", "cancelled", "ended"} \cup Flooding BY <1>1 DEF StreamType
<1> QED BY <1>1, <1>2 DEF Cancelled, Flooding

\* A step of one session that changes neither floods nor the collector.
LEMMA StepKept ==
  ASSUME TerminalInv, NEW s \in Terminals, NEW p \in StreamType, pty' = [pty EXCEPT ![s] = p],
         p.reader \in Flooding <=> pty[s].reader \in Flooding,
         dial' \in [Terminals -> {"none", "first", "pause", "second", "create", "done"}],
         \A o \in Terminals \ {s} : dial'[o] = dial[o] /\ ttab'[o] = ttab[o],
         line' \in [Terminals -> TermLineType], grid' \in [Terminals -> GridType],
         closer' \in [Terminals -> {"none", "stops", "abort", "over"}],
         ttab' \in [Terminals -> {"none", "open", "marked", "closed"}],
         notice' \in [Terminals -> BOOLEAN],
         dial'[s] \in {"none", "first", "pause", "second", "create"} => p.reader = "none",
         ttab'[s] = "none" => dial'[s] = "none",
         collector' \in [guard: 0..Cardinality(Terminals), on: BOOLEAN, lost: 0..Losses],
         collector'.guard = collector.guard, collector'.on <=> collector.on
  PROVE  TerminalInv'
<1>1. pty \in PtyTypes BY SessionIs
<1>2. /\ pty' \in PtyTypes /\ pty'[s] = p
      /\ \A o \in Terminals \ {s} : pty'[o] = pty[o]
  BY <1>1 DEF PtyTypes
<1>3. TerminalTypeOK' BY <1>2 DEF TerminalTypeOK, PtyTypes, StreamType, TermLineType, GridType
<1>4. NotYetReading' BY <1>2 DEF NotYetReading, TerminalInv
<1>5. CollectorFollows' BY <1>2, <1>3, FloodStays
<1> QED BY <1>3, <1>4, <1>5 DEF TerminalInv

\* The same, of a step that leaves the stream of the session alone too.
LEMMA QuietStepKept ==
  ASSUME TerminalInv, NEW s \in Terminals, UNCHANGED <<pty, collector>>,
         dial' \in [Terminals -> {"none", "first", "pause", "second", "create", "done"}],
         \A o \in Terminals \ {s} : dial'[o] = dial[o] /\ ttab'[o] = ttab[o],
         line' \in [Terminals -> TermLineType], grid' \in [Terminals -> GridType],
         closer' \in [Terminals -> {"none", "stops", "abort", "over"}],
         ttab' \in [Terminals -> {"none", "open", "marked", "closed"}],
         notice' \in [Terminals -> BOOLEAN],
         dial'[s] \in {"none", "first", "pause", "second", "create"} => pty[s].reader = "none",
         ttab'[s] = "none" => dial'[s] = "none"
  PROVE  TerminalInv'
<1>1. pty[s] \in StreamType /\ pty' = [pty EXCEPT ![s] = pty[s]]
  <2>1. pty \in PtyTypes /\ pty[s] \in StreamType BY SessionIs
  <2> QED BY <2>1 DEF PtyTypes
<1>2. collector' \in [guard: 0..Cardinality(Terminals), on: BOOLEAN, lost: 0..Losses]
  BY DEF TerminalInv, TerminalTypeOK
<1> QED BY <1>1, <1>2, StepKept

-----------------------------------------------------------------------------
\* An abort, by the operator or after a failure, keeps the invariant: the collector waits for
\* the reader.
LEMMA AbortKept ==
  ASSUME TerminalInv, NEW s \in Terminals, Abort(s), ttab' = [ttab EXCEPT ![s] = "closed"],
         UNCHANGED <<line, pty, notice, grid, collector>>
  PROVE  TerminalInv'
<1>1. /\ dial' \in [Terminals -> {"none", "first", "pause", "second", "create", "done"}]
      /\ closer' \in [Terminals -> {"none", "stops", "abort", "over"}]
      /\ ttab' \in [Terminals -> {"none", "open", "marked", "closed"}]
      /\ dial'[s] = "done" /\ ttab'[s] = "closed"
      /\ \A o \in Terminals \ {s} : dial'[o] = dial[o] /\ ttab'[o] = ttab[o]
  BY DEF TerminalInv, TerminalTypeOK, Abort
<1>2. /\ line' \in [Terminals -> TermLineType] /\ grid' \in [Terminals -> GridType]
      /\ notice' \in [Terminals -> BOOLEAN]
  BY SessionIs DEF TerminalInv, TerminalTypeOK
<1> QED BY <1>1, <1>2, QuietStepKept

\* The menu, the closing of the tab, a new tab and another size.
LEMMA OperateKept == ASSUME TerminalInv, NEW s \in Terminals, Operate(s) PROVE TerminalInv'
<1>1. /\ TerminalTypeOK /\ NotYetReading /\ line \in [Terminals -> TermLineType]
      /\ line[s] \in TermLineType /\ pty[s] \in StreamType /\ grid \in [Terminals -> GridType]
      /\ grid[s] \in GridType
  BY SessionIs DEF TerminalInv
<1>2. CASE NewConnection(s)
  <2>1. pty[s].reader = "none" BY <1>1, <1>2 DEF NewConnection, NotYetReading
  <2>2. /\ dial' \in [Terminals -> {"none", "first", "pause", "second", "create", "done"}]
        /\ ttab' \in [Terminals -> {"none", "open", "marked", "closed"}]
        /\ dial'[s] = "first" /\ ttab'[s] = "open"
        /\ \A o \in Terminals \ {s} : dial'[o] = dial[o] /\ ttab'[o] = ttab[o]
    BY <1>1, <1>2 DEF NewConnection, TerminalTypeOK
  <2>3. line' \in [Terminals -> TermLineType] BY <1>1, <1>2 DEF NewConnection, TermLineType
  <2> QED BY <1>1, <1>2, <2>1, <2>2, <2>3, QuietStepKept DEF NewConnection, TerminalTypeOK
<1>3. CASE CloseSession(s) BY <1>3, AbortKept DEF CloseSession
<1>4. CASE Disconnect(s)
  <2> DEFINE r == Cancelled(pty[s].reader)
             Cut(p) == line' = [line EXCEPT ![s] = [kept |-> FALSE, up |-> line[s].up /\ ~line[s].kept]]
  <2>1. /\ UNCHANGED <<dial, ttab, notice, grid, collector>> /\ ttab[s] # "none"
    BY <1>4 DEF Disconnect, TabOpen
  <2>2. /\ r \in {"none", "reading", "cancelled", "ended"} \cup Flooding
        /\ r \in Flooding <=> pty[s].reader \in Flooding
        /\ pty[s].reader = "none" => r = "none"
    BY SessionIs
  <2>3. PICK p \in StreamType :
          /\ pty' = [pty EXCEPT ![s] = p] /\ p.reader \in {pty[s].reader, r}
          /\ line' \in [Terminals -> TermLineType]
          /\ closer' \in [Terminals -> {"none", "stops", "abort", "over"}]
    <3>1. CASE pty[s].reader \in {"reading", "flood"} /\ pty[s].kept
      <4>1. pty' = [pty EXCEPT ![s] = [pty[s] EXCEPT !.reader = r]] /\ UNCHANGED line
            /\ closer' = [closer EXCEPT ![s] = "stops"]
        BY <1>4, <3>1, <1>1, SessionIs DEF Disconnect, PtyTypes, StreamType
      <4>2. [pty[s] EXCEPT !.reader = r] \in StreamType /\ [pty[s] EXCEPT !.reader = r].reader = r
        BY <1>1, <2>2 DEF StreamType
      <4>3. closer' \in [Terminals -> {"none", "stops", "abort", "over"}] BY <1>1, <4>1 DEF TerminalTypeOK
      <4> QED BY <1>1, <4>1, <4>2, <4>3
    <3>2. CASE ~(pty[s].reader \in {"reading", "flood"} /\ pty[s].kept)
      <4>1. /\ pty' = [pty EXCEPT ![s] = [pty[s] EXCEPT !.kept = FALSE, !.channel = FALSE]]
            /\ Shut(s, FALSE) /\ UNCHANGED closer
        BY <1>4, <3>2, <1>1, SessionIs DEF Disconnect, PtyTypes, StreamType
      <4>2. /\ [pty[s] EXCEPT !.kept = FALSE, !.channel = FALSE] \in StreamType
            /\ [pty[s] EXCEPT !.kept = FALSE, !.channel = FALSE].reader = pty[s].reader
        BY <1>1 DEF StreamType
      <4>3. line' \in [Terminals -> TermLineType] BY <1>1, <4>1 DEF Shut, TermLineType
      <4> QED BY <1>1, <4>1, <4>2, <4>3 DEF TerminalTypeOK
    <3> QED BY <3>1, <3>2
  <2> HIDE DEF r
  <2>4. p.reader \in Flooding <=> pty[s].reader \in Flooding BY <2>2, <2>3
  <2>5. dial[s] \in {"none", "first", "pause", "second", "create"} => p.reader = "none"
    BY <1>1, <2>2, <2>3 DEF NotYetReading
  <2> QED BY <1>1, <2>1, <2>3, <2>4, <2>5, StepKept DEF TerminalTypeOK
<1>5. CASE Resize(s)
  <2>1. PICK at \in Grids : grid' = [grid EXCEPT ![s].widget = "large", ![s].remote = at]
    BY <1>1, <1>5 DEF Resize, GridType, Grids
  <2>2. grid' \in [Terminals -> GridType] BY <1>1, <2>1 DEF GridType, Grids
  <2>3. ttab[s] # "none" BY <1>5 DEF Resize, TabOpen
  <2> QED BY <1>1, <1>5, <2>2, <2>3, QuietStepKept DEF Resize, TerminalTypeOK, NotYetReading
<1> QED BY <1>2, <1>3, <1>4, <1>5 DEF Operate

\* The coroutine that connects, and create_process.
LEMMA DiallingKept ==
  ASSUME TerminalInv, NEW s \in Terminals, Dialling(s) \/ PtyStarts(s) \/ PtyFails(s)
  PROVE  TerminalInv'
<1>1. /\ TerminalTypeOK /\ NotYetReading /\ line \in [Terminals -> TermLineType]
      /\ line[s] \in TermLineType /\ pty \in PtyTypes /\ pty[s] \in StreamType
      /\ grid \in [Terminals -> GridType] /\ grid[s] \in GridType
  BY SessionIs DEF TerminalInv
<1>2. dial[s] \in {"first", "pause", "second", "create"}
  BY DEF Dialling, AttemptFails, PauseEnds, Connected, PtyStarts, PtyFails
<1>3. pty[s].reader = "none" /\ ttab[s] # "none" BY <1>1, <1>2 DEF NotYetReading
<1>4. ASSUME ConnectionFailed(s) PROVE TerminalInv' BY <1>4, AbortKept DEF ConnectionFailed
<1>5. ASSUME NEW d \in {"pause", "second"}, dial' = [dial EXCEPT ![s] = d],
             UNCHANGED <<line, pty, closer, ttab, notice, grid, collector>>
      PROVE  TerminalInv'
  <2>1. /\ dial' \in [Terminals -> {"none", "first", "pause", "second", "create", "done"}]
        /\ \A o \in Terminals \ {s} : dial'[o] = dial[o]
    BY <1>1, <1>5 DEF TerminalTypeOK
  <2> QED BY <1>1, <1>3, <1>5, <2>1, QuietStepKept DEF TerminalTypeOK
<1>6. CASE Connected(s)
  <2>1. line' \in [Terminals -> TermLineType] BY <1>1, <1>6 DEF Connected, TermLineType
  <2>2. UNCHANGED <<closer, ttab, notice, collector>> BY <1>6 DEF Connected
  <2>3. PICK d \in {"create", "done"}, p \in StreamType :
          /\ dial' = [dial EXCEPT ![s] = d] /\ pty' = [pty EXCEPT ![s] = p] /\ p.reader = "none"
          /\ grid' \in [Terminals -> GridType]
    <3>1. CASE line[s].kept
      <4>1. /\ dial' = [dial EXCEPT ![s] = "create"]
            /\ pty' = [pty EXCEPT ![s] = [pty[s] EXCEPT !.kept = TRUE]]
            /\ grid' = [grid EXCEPT ![s].asked = grid[s].widget]
        BY <1>1, <1>6, <3>1 DEF Connected, PtyTypes, StreamType
      <4>2. /\ [pty[s] EXCEPT !.kept = TRUE] \in StreamType
            /\ [pty[s] EXCEPT !.kept = TRUE].reader = "none"
        BY <1>1, <1>3 DEF StreamType
      <4>3. grid' \in [Terminals -> GridType] BY <1>1, <4>1 DEF GridType
      <4> QED BY <4>1, <4>2, <4>3
    <3>2. CASE ~line[s].kept
      <4>1. dial' = [dial EXCEPT ![s] = "done"] /\ pty' = [pty EXCEPT ![s] = pty[s]] /\ grid' = grid
        BY <1>1, <1>6, <3>2 DEF Connected, PtyTypes
      <4> QED BY <1>1, <1>3, <4>1
    <3> QED BY <3>1, <3>2
  <2>4. /\ dial' \in [Terminals -> {"none", "first", "pause", "second", "create", "done"}]
        /\ \A o \in Terminals \ {s} : dial'[o] = dial[o]
    BY <1>1, <2>3 DEF TerminalTypeOK
  <2>5. p.reader \in Flooding <=> pty[s].reader \in Flooding BY <1>3, <2>3
  <2> QED BY <1>1, <1>3, <2>1, <2>2, <2>3, <2>4, <2>5, StepKept DEF TerminalTypeOK
<1>7. CASE PtyStarts(s)
  <2>1. /\ pty' = [pty EXCEPT ![s] = [pty[s] EXCEPT !.channel = line[s].up, !.reader = "reading"]]
        /\ UNCHANGED <<line, closer, ttab, notice, collector>>
    BY <1>1, <1>7 DEF PtyStarts, PtyTypes, StreamType
  <2>2. PICK p \in StreamType : p = [pty[s] EXCEPT !.channel = line[s].up, !.reader = "reading"]
    BY <1>1 DEF StreamType, TermLineType
  <2>3. p.reader = "reading" BY <1>1, <2>2 DEF StreamType
  <2>4. p.reader \notin Flooding /\ pty[s].reader \notin Flooding BY <1>3, <2>3 DEF Flooding
  <2>5. /\ dial' \in [Terminals -> {"none", "first", "pause", "second", "create", "done"}]
        /\ dial'[s] = "done" /\ \A o \in Terminals \ {s} : dial'[o] = dial[o]
    BY <1>1, <1>7 DEF TerminalTypeOK, PtyStarts
  <2>6. grid' \in [Terminals -> GridType] BY <1>1, <1>7 DEF PtyStarts, GridType
  <2> QED BY <1>1, <1>3, <2>1, <2>2, <2>4, <2>5, <2>6, StepKept DEF TerminalTypeOK
<1> QED BY <1>4, <1>5, <1>6, <1>7 DEF Dialling, AttemptFails, PauseEnds, PtyFails

\* The loop: what abort and close left to it.
LEMMA ClosersKept ==
  ASSUME TerminalInv, NEW s \in Terminals, AbortRuns(s) \/ CloserGoesOn(s)
  PROVE  TerminalInv'
<1> DEFINE r == Cancelled(pty[s].reader)
<1>1. /\ TerminalTypeOK /\ NotYetReading /\ line \in [Terminals -> TermLineType]
      /\ line[s] \in TermLineType /\ pty \in PtyTypes /\ pty[s] \in StreamType
      /\ r \in {"none", "reading", "cancelled", "ended"} \cup Flooding
      /\ r \in Flooding <=> pty[s].reader \in Flooding
      /\ pty[s].reader = "none" => r = "none"
  BY SessionIs DEF TerminalInv
<1>2. UNCHANGED <<dial, ttab, notice, grid, collector>> BY DEF AbortRuns, CloserGoesOn
<1>3. PICK p \in StreamType, kept \in BOOLEAN, c \in {"none", "over"} :
        /\ pty' = [pty EXCEPT ![s] = p] /\ p.reader \in {pty[s].reader, r}
        /\ Shut(s, kept) /\ closer' = [closer EXCEPT ![s] = c]
  <2>1. CASE AbortRuns(s)
    <3>1. [kept |-> FALSE, channel |-> FALSE, reader |-> r] \in StreamType BY <1>1 DEF StreamType
    <3>2. line[s].kept \in BOOLEAN BY <1>1 DEF TermLineType
    <3> QED BY <2>1, <3>1, <3>2 DEF AbortRuns
  <2>2. CASE CloserGoesOn(s)
    <3>1. pty' = [pty EXCEPT ![s] = [pty[s] EXCEPT !.kept = FALSE, !.channel = FALSE]]
      BY <1>1, <2>2 DEF CloserGoesOn, PtyTypes, StreamType
    <3>2. /\ [pty[s] EXCEPT !.kept = FALSE, !.channel = FALSE] \in StreamType
          /\ [pty[s] EXCEPT !.kept = FALSE, !.channel = FALSE].reader = pty[s].reader
      BY <1>1 DEF StreamType
    <3> QED BY <2>2, <3>1, <3>2 DEF CloserGoesOn
  <2> QED BY <2>1, <2>2
<1> HIDE DEF r
<1>4. line' \in [Terminals -> TermLineType] BY <1>1, <1>3 DEF Shut, TermLineType
<1>5. closer' \in [Terminals -> {"none", "stops", "abort", "over"}] BY <1>1, <1>3 DEF TerminalTypeOK
<1>6. p.reader \in Flooding <=> pty[s].reader \in Flooding BY <1>1, <1>3
<1>7. /\ dial[s] \in {"none", "first", "pause", "second", "create"} => p.reader = "none"
      /\ ttab[s] = "none" => dial[s] = "none"
  BY <1>1, <1>3 DEF NotYetReading
<1>8. grid \in [Terminals -> GridType] BY SessionIs
<1> QED BY <1>1, <1>2, <1>3, <1>4, <1>5, <1>6, <1>7, <1>8, StepKept DEF TerminalTypeOK

\* The reader: a flood begins and ends, the reader ends, its channel too, and the tab hears of it.
LEMMA ReaderKept ==
  ASSUME TerminalInv, NEW s \in Terminals,
         FloodStarts(s) \/ FloodEnds(s) \/ ReaderEnds(s) \/ OnPtyClosed(s) \/ ShellEnds(s)
  PROVE  TerminalInv'
<1>1. /\ TerminalTypeOK /\ NotYetReading /\ line \in [Terminals -> TermLineType]
      /\ line[s] \in TermLineType /\ pty \in PtyTypes /\ pty[s] \in StreamType
      /\ grid \in [Terminals -> GridType]
  BY SessionIs DEF TerminalInv
<1>2. ASSUME NEW r \in {"reading", "flood", "ended"}, pty' = [pty EXCEPT ![s].reader = r],
             pty[s].reader # "none", notice' \in [Terminals -> BOOLEAN],
             UNCHANGED <<dial, line, closer, ttab, grid>>,
             \/ Acquire /\ r \in Flooding /\ pty[s].reader \notin Flooding
             \/ Release /\ r \notin Flooding /\ pty[s].reader \in Flooding
             \/ UNCHANGED collector /\ r \notin Flooding /\ pty[s].reader \notin Flooding
      PROVE  TerminalInv'
  <2>1. /\ pty' \in PtyTypes /\ pty'[s].reader = r
        /\ \A o \in Terminals \ {s} : pty'[o].reader = pty[o].reader
    BY <1>1, <1>2 DEF PtyTypes, StreamType, Flooding
  <2>2. NotYetReading' BY <1>1, <1>2, <2>1 DEF NotYetReading
  <2>3. CASE UNCHANGED collector /\ r \notin Flooding /\ pty[s].reader \notin Flooding
    <3>1. TerminalTypeOK' BY <1>1, <1>2, <2>1, <2>3 DEF TerminalTypeOK, PtyTypes, StreamType
    <3> QED BY <2>1, <2>2, <2>3, <3>1, FloodStays DEF TerminalInv
  <2>4. CASE ~(UNCHANGED collector /\ r \notin Flooding /\ pty[s].reader \notin Flooding)
    <3>1. /\ collector' \in [guard: 0..Cardinality(Terminals), on: BOOLEAN, lost: 0..Losses]
          /\ CollectorFollows'
      BY <1>2, <2>1, <2>4, AcquireFollows, ReleaseFollows
    <3>2. TerminalTypeOK' BY <1>1, <1>2, <2>1, <3>1 DEF TerminalTypeOK, PtyTypes, StreamType
    <3> QED BY <2>2, <3>1, <3>2 DEF TerminalInv
  <2> QED BY <2>3, <2>4
<1>3. CASE FloodStarts(s) BY <1>1, <1>2, <1>3 DEF FloodStarts, Flooding, TerminalTypeOK
<1>4. CASE FloodEnds(s) BY <1>1, <1>2, <1>4 DEF FloodEnds, Flooding, TerminalTypeOK
<1>5. CASE ReaderEnds(s)
  <2>1. notice' \in [Terminals -> BOOLEAN] BY <1>1, <1>5 DEF ReaderEnds, TerminalTypeOK
  <2>2. "ended" \notin Flooding /\ pty[s].reader # "none" BY <1>5 DEF ReaderEnds, Flooding
  <2> QED BY <1>2, <1>5, <2>1, <2>2 DEF ReaderEnds
<1>6. CASE OnPtyClosed(s)
  <2>1. /\ notice' \in [Terminals -> BOOLEAN] /\ ttab' \in [Terminals -> {"none", "open", "marked", "closed"}]
        /\ ttab'[s] = "none" => ttab[s] = "none"
        /\ \A o \in Terminals \ {s} : ttab'[o] = ttab[o]
        /\ UNCHANGED <<dial, line, pty, closer, grid, collector>>
    BY <1>1, <1>6 DEF OnPtyClosed, TerminalTypeOK
  <2> QED BY <1>1, <2>1, QuietStepKept DEF TerminalTypeOK, NotYetReading
<1>7. CASE ShellEnds(s)
  <2>1. /\ pty' = [pty EXCEPT ![s] = [pty[s] EXCEPT !.channel = FALSE]]
        /\ UNCHANGED <<dial, closer, ttab, notice, grid>>
    BY <1>1, <1>7 DEF ShellEnds, PtyTypes, StreamType
  <2>8. /\ [pty[s] EXCEPT !.channel = FALSE] \in StreamType
        /\ [pty[s] EXCEPT !.channel = FALSE].reader = pty[s].reader
    BY <1>1 DEF StreamType
  <2>2. PICK p \in StreamType : p = [pty[s] EXCEPT !.channel = FALSE] /\ p.reader = pty[s].reader
    BY <2>8
  <2>3. line' \in [Terminals -> TermLineType]
    <3>1. PICK up \in BOOLEAN : line' = [line EXCEPT ![s].up = up]
      BY <1>1, <1>7 DEF ShellEnds, TermLineType
    <3> QED BY <1>1, <3>1 DEF TermLineType
  <2>4. /\ collector \in [guard: 0..Cardinality(Terminals), on: BOOLEAN, lost: 0..Losses]
        /\ collector.lost < Losses /\ collector' = [collector EXCEPT !.lost = collector.lost + 1]
    BY <1>1, <1>7 DEF ShellEnds, TerminalTypeOK
  <2>5. collector.lost + 1 \in 0..Losses BY <2>4, TerminalAssumption
  <2>6. /\ collector' \in [guard: 0..Cardinality(Terminals), on: BOOLEAN, lost: 0..Losses]
        /\ collector'.guard = collector.guard /\ collector'.on = collector.on
    BY <2>4, <2>5
  <2>7. /\ dial[s] \in {"none", "first", "pause", "second", "create"} => p.reader = "none"
        /\ ttab[s] = "none" => dial[s] = "none"
    BY <1>1, <2>2 DEF NotYetReading
  <2> QED BY <1>1, <2>1, <2>2, <2>3, <2>6, <2>7, StepKept DEF TerminalTypeOK
<1> QED BY <1>3, <1>4, <1>5, <1>6, <1>7

\* Every step of the terminal keeps the invariant.
LEMMA TerminalKept == ASSUME TerminalInv, [TerminalNext]_termVars PROVE TerminalInv'
<1>1. CASE UNCHANGED termVars
  BY <1>1 DEF termVars, TerminalInv, TerminalTypeOK, NotYetReading, CollectorFollows
<1>2. CASE TerminalNext
  BY <1>2, OperateKept, DiallingKept, ClosersKept, ReaderKept DEF TerminalNext, Loop
<1> QED BY <1>1, <1>2

\* The garbage collector is off exactly while a reader floods.
LEMMA TerminalSafe == TerminalInv => TerminalTypeOK /\ CollectorFollows
BY DEF TerminalInv

-----------------------------------------------------------------------------
(* An open table of the database viewer *)

ThreadType == [kind: WorkKinds, of: 0..Requests, at: {"idle", "runs", "over"}, late: BOOLEAN]
QueuedType == [from: Workers \cup {Nothing}, ok: BOOLEAN]
TableType == [tab: {"open", "closed", "deleted"}, meta: BOOLEAN, aborted: BOOLEAN, jobs: 0..Jobs]

\* Nobody asks for the deletion of a tab that is open.
AnswerType == [from: Workers, ok: BOOLEAN]
DeletionIsAsked == table.tab = "open" => queued \in Seq(AnswerType)

\* What runs while the tab is open is under account, so that shutdown finds it.
RunningIsTracked == table.tab = "open" => \A w \in Workers : Running(w) => w \in tracked

PanelInv ==
  /\ PanelTypeOK /\ queued \in Seq(QueuedType)
  /\ DeletionIsAsked /\ RunningIsTracked /\ ShutdownStopsAll

\* What the steps read of the invariant.
LEMMA PanelIs ==
  ASSUME PanelInv
  PROVE  /\ threads \in [Workers -> ThreadType] /\ current \in Workers \cup {Nothing}
         /\ tracked \subseteq Workers /\ asked \in 1..Requests /\ rows \in 0..Requests
         /\ progress \in BOOLEAN /\ table \in TableType /\ queued \in Seq(QueuedType)
         /\ asked \in 0..Requests
         /\ table.tab = "open" => queued \in Seq(AnswerType)
<1>1. asked \in 1..Requests BY DEF PanelInv, PanelTypeOK
<1>2. asked \in 0..Requests BY <1>1, PanelAssumption
<1> QED BY <1>1, <1>2 DEF PanelInv, PanelTypeOK, ThreadType, TableType, DeletionIsAsked

\* What a step has to show: it keeps the types, and every thread that runs after
\* it did so before, or is under account and late where the tab is not open.
LEMMA PanelOf ==
  ASSUME PanelInv,
         threads' \in [Workers -> ThreadType], current' \in Workers \cup {Nothing},
         tracked' \subseteq Workers, asked' \in 1..Requests, rows' \in 0..Requests,
         progress' \in BOOLEAN, table' \in TableType, queued' \in Seq(QueuedType),
         table'.tab = "open" => queued' \in Seq(AnswerType),
         \A w \in Workers : threads'[w].at = "runs" =>
           /\ table'.tab = "open" => w \in tracked'
           /\ table'.tab # "open" => threads'[w].late
  PROVE  PanelInv'
BY DEF PanelInv, PanelTypeOK, ThreadType, TableType, DeletionIsAsked, RunningIsTracked, ShutdownStopsAll,
       Running

\* The initial states of a table satisfy its invariant.
LEMMA PanelInitial == PanelInit => PanelInv
<1> SUFFICES ASSUME PanelInit PROVE PanelInv OBVIOUS
<1>1. current \in Workers
  <2>1. \E w \in Workers : TRUE BY PanelAssumption
  <2>2. (CHOOSE w \in Workers : TRUE) \in Workers BY <2>1
  <2> QED BY <2>2 DEF PanelInit
<1>2. 0 \in 0..Requests /\ 1 \in 0..Requests /\ 1 \in 1..Requests /\ 0 \in 0..Jobs BY PanelAssumption
<1>3. /\ Unused \in ThreadType /\ Unused.at = "idle"
      /\ [Unused EXCEPT !.of = 1, !.at = "runs"] \in ThreadType
  BY <1>2 DEF Unused, ThreadType, WorkKinds
<1>4. /\ threads \in [Workers -> ThreadType]
      /\ \A w \in Workers : threads[w].at = "runs" => w = current
  BY <1>3 DEF PanelInit
<1>5. /\ tracked = {current} /\ asked \in 1..Requests /\ rows \in 0..Requests /\ progress \in BOOLEAN
      /\ queued \in Seq(QueuedType) /\ queued \in Seq(AnswerType)
      /\ table \in TableType /\ table.tab = "open"
  BY <1>2 DEF PanelInit, TableType
<1> QED BY <1>1, <1>4, <1>5 DEF PanelInv, PanelTypeOK, ThreadType, TableType, DeletionIsAsked,
    RunningIsTracked, ShutdownStopsAll, Running

-----------------------------------------------------------------------------
\* Workers that are told to stop: no other begins to run.
LEMMA StoppedIs ==
  ASSUME PanelInv, NEW ws
  PROVE  /\ Stopped(ws) \in [Workers -> ThreadType]
         /\ \A w \in Workers : Stopped(ws)[w].at = "runs" =>
              Running(w) /\ w \notin ws /\ Stopped(ws)[w] = threads[w]
<1>1. threads \in [Workers -> ThreadType] BY PanelIs
<1>2. ASSUME NEW w \in Workers
      PROVE  /\ Stopped(ws)[w] \in ThreadType
             /\ Stopped(ws)[w].at = "runs" => Running(w) /\ w \notin ws /\ Stopped(ws)[w] = threads[w]
  <2>1. threads[w] \in ThreadType BY <1>1
  <2>2. CASE w \in ws /\ Running(w)
    <3>1. Stopped(ws)[w] = [threads[w] EXCEPT !.at = "over"] BY <2>2 DEF Stopped
    <3>2. Stopped(ws)[w] \in ThreadType /\ Stopped(ws)[w].at = "over" BY <2>1, <3>1 DEF ThreadType
    <3> QED BY <3>2
  <2>3. CASE ~(w \in ws /\ Running(w))
    <3>1. Stopped(ws)[w] = threads[w] BY <2>3 DEF Stopped
    <3> QED BY <2>1, <2>3, <3>1 DEF Running
  <2> QED BY <2>2, <2>3
<1>3. Stopped(ws) = [w \in Workers |-> Stopped(ws)[w]] BY DEF Stopped
<1> QED BY <1>2, <1>3

\* A worker starts: it is under account, and late where the tab is not open.
LEMMA WorkerStartsKept ==
  ASSUME PanelInv, NEW ws, NEW kind \in WorkKinds, NEW of \in 0..Requests,
         Start(Stopped(ws), kind, of), table' \in TableType, table'.tab = table.tab,
         asked' \in 1..Requests, rows' \in 0..Requests, queued' \in Seq(QueuedType),
         table.tab = "open" => queued' \in Seq(AnswerType)
  PROVE  PanelInv'
<1>1. PICK c \in Workers : c = current'
  <2>1. \E w \in Workers : Free(w) BY DEF Start
  <2>2. (CHOOSE w \in Workers : Free(w)) \in Workers BY <2>1
  <2> QED BY <2>2 DEF Start
<1>2. /\ threads' = [Stopped(ws) EXCEPT ![c] = [kind |-> kind, of |-> of, at |-> "runs",
                                                late |-> table.tab # "open"]]
      /\ tracked' = tracked \cup {c} /\ progress' = TRUE
  BY <1>1 DEF Start
<1>3. PICK new : new = [kind |-> kind, of |-> of, at |-> "runs", late |-> table.tab # "open"] OBVIOUS
<1>4. new \in ThreadType /\ (table.tab # "open" => new.late) BY <1>3 DEF ThreadType
<1>5. PICK ths : ths = Stopped(ws) OBVIOUS
<1>6. /\ ths \in [Workers -> ThreadType]
      /\ \A w \in Workers : ths[w].at = "runs" => Running(w) /\ ths[w] = threads[w]
  BY <1>5, StoppedIs
<1>7. threads' = [ths EXCEPT ![c] = new] BY <1>2, <1>3, <1>5
<1>8. /\ threads' \in [Workers -> ThreadType] /\ threads'[c] = new
      /\ \A w \in Workers \ {c} : threads'[w] = ths[w]
  BY <1>4, <1>6, <1>7
<1>9. \A w \in Workers : threads'[w].at = "runs" =>
        /\ table'.tab = "open" => w \in tracked'
        /\ table'.tab # "open" => threads'[w].late
  BY <1>2, <1>4, <1>6, <1>8 DEF PanelInv, RunningIsTracked, ShutdownStopsAll
<1>10. tracked' \subseteq Workers BY <1>1, <1>2, PanelIs
<1> QED BY <1>1, <1>2, <1>8, <1>9, <1>10, PanelOf

\* A worker ends, or leaves the account.
LEMMA WorkerKept == ASSUME PanelInv, NEW w \in Workers, WorkerEnds(w) \/ Finished(w) PROVE PanelInv'
<1>1. /\ threads \in [Workers -> ThreadType] /\ current \in Workers \cup {Nothing}
      /\ tracked \subseteq Workers /\ asked \in 1..Requests /\ rows \in 0..Requests
      /\ progress \in BOOLEAN /\ table \in TableType /\ queued \in Seq(QueuedType)
      /\ table.tab = "open" => queued \in Seq(AnswerType)
  BY PanelIs
<1>2. CASE WorkerEnds(w)
  <2>1. PICK ok \in BOOLEAN : queued' = Append(queued, [from |-> w, ok |-> ok]) BY <1>2 DEF WorkerEnds
  <2>2. /\ queued' \in Seq(QueuedType)
        /\ table.tab = "open" => queued' \in Seq(AnswerType)
    <3>1. [from |-> w, ok |-> ok] \in QueuedType /\ [from |-> w, ok |-> ok] \in AnswerType
      BY DEF QueuedType, AnswerType
    <3> QED BY <1>1, <2>1, <3>1, AppendIn
  <2>3. /\ threads' \in [Workers -> ThreadType]
        /\ \A o \in Workers : threads'[o].at = "runs" => threads'[o] = threads[o]
    BY <1>1, <1>2 DEF WorkerEnds, ThreadType
  <2>4. \A o \in Workers : threads'[o].at = "runs" =>
          /\ table.tab = "open" => o \in tracked
          /\ table.tab # "open" => threads'[o].late
    BY <2>3 DEF PanelInv, RunningIsTracked, ShutdownStopsAll, Running
  <2> QED BY <1>1, <1>2, <2>2, <2>3, <2>4, PanelOf DEF WorkerEnds
<1>3. CASE Finished(w)
  <2>1. /\ UNCHANGED <<threads, current, queued, asked, rows, progress, table>>
        /\ tracked' = tracked \ {w} /\ threads[w].at = "over"
    BY <1>3 DEF Finished
  <2>2. \A o \in Workers : threads[o].at = "runs" =>
          /\ table.tab = "open" => o \in tracked'
          /\ table.tab # "open" => threads[o].late
    BY <2>1 DEF PanelInv, RunningIsTracked, ShutdownStopsAll, Running
  <2> QED BY <1>1, <2>1, <2>2, PanelOf
<1> QED BY <1>2, <1>3

\* The threads go on as they are.
LEMMA SameThreadsKept ==
  ASSUME PanelInv, UNCHANGED <<threads, tracked>>, current' \in Workers \cup {Nothing},
         asked' \in 1..Requests, rows' \in 0..Requests, progress' \in BOOLEAN,
         table' \in TableType, table.tab # "open" => table'.tab # "open",
         table'.tab # "open" => table.tab # "open", queued' \in Seq(QueuedType),
         table.tab = "open" => queued' \in Seq(AnswerType)
  PROVE  PanelInv'
<1>1. \A w \in Workers : threads'[w].at = "runs" =>
        /\ table'.tab = "open" => w \in tracked'
        /\ table'.tab # "open" => threads'[w].late
  BY DEF PanelInv, RunningIsTracked, ShutdownStopsAll, Running
<1> QED BY <1>1, PanelIs, PanelOf

\* The GUI thread: an answer, or the deletion.
LEMMA PanelHandleKept == ASSUME PanelInv, HandleNext PROVE PanelInv'
<1> DEFINE m == Head(queued)
<1>1. /\ threads \in [Workers -> ThreadType] /\ current \in Workers \cup {Nothing}
      /\ tracked \subseteq Workers /\ asked \in 1..Requests /\ rows \in 0..Requests
      /\ progress \in BOOLEAN /\ table \in TableType /\ queued \in Seq(QueuedType)
      /\ table.tab = "open" => queued \in Seq(AnswerType)
      /\ asked \in 0..Requests
  BY PanelIs
<1>2. /\ queued # <<>> /\ table.tab # "deleted" /\ queued' = Tail(queued)
      /\ IF m.from = Nothing THEN OnDelete ELSE OnLoad(m) \/ OnWritten(m) \/ OnOther(m)
  BY DEF HandleNext
<1>3. /\ m \in QueuedType /\ queued' \in Seq(QueuedType)
      /\ table.tab = "open" => m \in AnswerType /\ queued' \in Seq(AnswerType)
  BY <1>1, <1>2
<1> HIDE DEF m
<1>4. CASE m.from = Nothing
  <2>1. OnDelete BY <1>2, <1>4
  <2>2. PICK aborted \in BOOLEAN : aborted <=> \E w \in Workers : Running(w) OBVIOUS
  <2>3. table' = [table EXCEPT !.tab = "deleted", !.aborted = aborted]
    BY <2>1, <2>2 DEF OnDelete
  <2>4. table' \in TableType /\ table'.tab = "deleted" BY <1>1, <2>3 DEF TableType
  <2>5. UNCHANGED <<threads, current, tracked, asked, rows, progress>> BY <2>1 DEF OnDelete
  <2>6. table.tab # "open" BY <1>3, <1>4, PanelAssumption DEF AnswerType, Nothing
  <2> QED BY <1>1, <1>3, <2>4, <2>5, <2>6, SameThreadsKept
<1>5. CASE m.from # Nothing
  <2>1. m.from \in Workers /\ m.ok \in BOOLEAN BY <1>3, <1>5 DEF QueuedType
  <2>2. threads[m.from] \in ThreadType BY <1>1, <2>1
  <2>3. CASE OnLoad(m)
    <3>1. rows' \in 0..Requests
      <4>1. 0 \in 0..Requests BY PanelAssumption
      <4> QED BY <2>2, <2>3, <4>1 DEF OnLoad, ThreadType
    <3>2. PICK meta \in BOOLEAN : meta <=> (table.meta \/ m.ok) OBVIOUS
    <3>3. table' = [table EXCEPT !.meta = meta] BY <1>1, <2>1, <2>3, <3>2 DEF OnLoad, TableType
    <3>4. table' \in TableType /\ table'.tab = table.tab BY <1>1, <3>3 DEF TableType
    <3> QED BY <1>1, <1>3, <2>3, <3>1, <3>4, SameThreadsKept DEF OnLoad
  <2>4. CASE OnWritten(m)
    <3>1. /\ Start(Stopped(Busy), "load", asked) /\ rows' = 0 /\ UNCHANGED <<table, asked>>
      BY <2>4 DEF OnWritten, LoadTable
    <3>2. 0 \in 0..Requests /\ "load" \in WorkKinds BY PanelAssumption DEF WorkKinds
    <3> QED BY <1>1, <1>3, <3>1, <3>2, WorkerStartsKept
  <2>5. CASE OnOther(m) BY <1>1, <1>3, <2>5, SameThreadsKept DEF OnOther
  <2> QED BY <1>2, <1>5, <2>3, <2>4, <2>5
<1> QED BY <1>4, <1>5

\* The operator.
LEMMA PanelOperatorKept == ASSUME PanelInv, Ask \/ WrongFilter \/ Work \/ CloseTable PROVE PanelInv'
<1>1. /\ threads \in [Workers -> ThreadType] /\ current \in Workers \cup {Nothing}
      /\ tracked \subseteq Workers /\ asked \in 1..Requests /\ rows \in 0..Requests
      /\ progress \in BOOLEAN /\ table \in TableType /\ queued \in Seq(QueuedType)
      /\ table.tab = "open" => queued \in Seq(AnswerType)
      /\ asked \in 0..Requests
  BY PanelIs
<1>2. asked < Requests => asked + 1 \in 1..Requests /\ asked + 1 \in 0..Requests
  BY <1>1, PanelAssumption
<1>3. 0 \in 0..Requests /\ "load" \in WorkKinds BY PanelAssumption DEF WorkKinds
<1>4. CASE Ask
  <2>1. /\ Start(Stopped(Busy), "load", asked + 1) /\ rows' = 0 /\ asked < Requests
        /\ asked' = asked + 1 /\ UNCHANGED <<table, queued>>
    BY <1>4 DEF Ask, LoadTable
  <2> QED BY <1>1, <1>2, <1>3, <2>1, WorkerStartsKept
<1>5. CASE WrongFilter BY <1>1, <1>2, <1>5, SameThreadsKept DEF WrongFilter
<1>6. CASE Work
  <2>0. Busy \in SUBSET Workers BY DEF Busy
  <2>1. PICK kind \in WorkKinds, ws \in SUBSET Workers : Start(Stopped(ws), kind, asked)
    BY <1>6, <2>0 DEF Work
  <2>2. table.jobs < Jobs /\ table' = [table EXCEPT !.jobs = table.jobs + 1] /\ UNCHANGED <<queued, asked, rows>>
    BY <1>6 DEF Work
  <2>3. table.jobs + 1 \in 0..Jobs BY <1>1, <2>2, PanelAssumption DEF TableType
  <2>4. table' \in TableType /\ table'.tab = table.tab BY <1>1, <2>2, <2>3 DEF TableType
  <2> QED BY <1>1, <2>1, <2>2, <2>4, WorkerStartsKept
<1>7. CASE CloseTable
  <2>1. /\ table.tab = "open" /\ table' = [table EXCEPT !.tab = "closed"]
        /\ threads' = Stopped(tracked) /\ tracked' = {} /\ current' = Nothing
        /\ queued' = Append(queued, [from |-> Nothing, ok |-> TRUE])
        /\ UNCHANGED <<asked, rows, progress>>
    BY <1>7 DEF CloseTable
  <2>2. table' \in TableType /\ table'.tab = "closed" BY <1>1, <2>1 DEF TableType
  <2>3. [from |-> Nothing, ok |-> TRUE] \in QueuedType BY DEF QueuedType
  <2>4. queued' \in Seq(QueuedType) BY <1>1, <2>1, <2>3, AppendIn
  <2>5. /\ threads' \in [Workers -> ThreadType]
        /\ \A w \in Workers : threads'[w].at # "runs"
    BY <2>1, StoppedIs DEF PanelInv, RunningIsTracked
  <2> QED BY <1>1, <2>1, <2>2, <2>4, <2>5, PanelOf
<1> QED BY <1>4, <1>5, <1>6, <1>7

\* Every step of the table keeps the invariant.
LEMMA PanelKept == ASSUME PanelInv, [PanelNext]_panelVars PROVE PanelInv'
<1>1. CASE UNCHANGED panelVars
  BY <1>1, PanelIs, SameThreadsKept DEF panelVars
<1>2. CASE PanelNext
  BY <1>2, WorkerKept, PanelHandleKept, PanelOperatorKept DEF PanelNext
<1> QED BY <1>1, <1>2

\* No worker outlives the closing of its tab.
LEMMA PanelSafe == PanelInv => PanelTypeOK /\ ShutdownStopsAll
BY DEF PanelInv

-----------------------------------------------------------------------------
(* The windows together: they share nothing, so each keeps its invariant *)

WindowsInv == FilesInv /\ PreviewInv /\ TerminalInv /\ PanelInv

\* A step of the windows is a step of each of them, or leaves it alone.
LEMMA WindowsStep ==
  ASSUME [WindowsNext]_windowVars
  PROVE  /\ [FilesNext]_filesVars /\ [PreviewNext]_previewVars
         /\ [TerminalNext]_termVars /\ [PanelNext]_panelVars
<1>1. CASE UNCHANGED windowVars BY <1>1 DEF windowVars
<1>2. CASE WindowsNext
  BY <1>2 DEF WindowsNext, FilesFront, PreviewFront, TerminalFront, TableFront
<1> QED BY <1>1, <1>2

\* The invariant of the windows of a tab, for any terminals, workers, files and bounds.
THEOREM WindowsInductive == WindowsSpec => []WindowsInv
<1>1. WindowsInit => WindowsInv
  BY FilesInitial, PreviewInitial, TerminalInitial, PanelInitial DEF WindowsInit, WindowsInv
<1>2. WindowsInv /\ [WindowsNext]_windowVars => WindowsInv'
  <2> SUFFICES ASSUME WindowsInv, [WindowsNext]_windowVars PROVE WindowsInv' OBVIOUS
  <2>1. /\ [FilesNext]_filesVars /\ [PreviewNext]_previewVars
        /\ [TerminalNext]_termVars /\ [PanelNext]_panelVars
    BY WindowsStep
  <2>2. FilesInv' BY <2>1, FilesKept DEF WindowsInv
  <2>3. PreviewInv' BY <2>1, PreviewKept DEF WindowsInv
  <2>4. TerminalInv' BY <2>1, TerminalKept DEF WindowsInv
  <2>5. PanelInv' BY <2>1, PanelKept DEF WindowsInv
  <2> QED BY <2>2, <2>3, <2>4, <2>5 DEF WindowsInv
<1> QED BY <1>1, <1>2, PTL DEF WindowsSpec

\* The state of the file manager, the viewers, the terminals and the tables stays in its types.
THEOREM WindowsTypes == WindowsSpec => []WindowsTypeOK
<1>1. WindowsInv => WindowsTypeOK
  BY FilesSafe, PreviewSafe, TerminalSafe, PanelSafe DEF WindowsInv, WindowsTypeOK
<1> QED BY WindowsInductive, <1>1, PTL

\* What was stopped stays stopped: no embedded viewer is on after a disconnect, no worker that
\* was started before the closing of its table outlives it, and the garbage collector is off
\* exactly while the reader of some terminal floods.
THEOREM StoppedForGood == WindowsSpec => []StoppedStays
<1>1. WindowsInv => StoppedStays
  BY PreviewSafe, TerminalSafe, PanelSafe DEF WindowsInv, StoppedStays
<1> QED BY WindowsInductive, <1>1, PTL
=============================================================================
