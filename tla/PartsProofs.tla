----------------------------- MODULE PartsProofs ------------------------------
(***************************************************************************)
(* TLAPS proofs about the parts of the program that share nothing but the  *)
(* process, for any bounds: each part keeps its invariant, and all of them *)
(* together give the properties of MCParts.                                *)
(***************************************************************************)
EXTENDS MCParts, WindowsProofs

-----------------------------------------------------------------------------
(* The fixes and the drops of a tab *)

\* One fix is under way and keeps _fix_busy set; from its plan on, the plan is its own.
FixInv ==
  /\ \A c, d \in Checks : fixes[c] # "none" /\ fixes[d] # "none" => c = d
  /\ \A c \in Checks : fixes[c] # "none" => fixBusy
  /\ \A c \in Checks : fixes[c] \in {"timer", "dialog", "apply"} => plan.id = c
  /\ written # NoPlan => written.asked = written.id

\* A probe is open only until its answer is there.
DropInv ==
  \A d \in Uploads : /\ drops[d].probe => drops[d].at = "probed"
                     /\ drops[d].at = "ended" => ~drops[d].conn

TabJobsInv == TabJobsTypeOK /\ FixInv /\ DropInv

\* The jobs of a tab start in their invariant.
LEMMA TabJobsInitial == TabJobsInit => TabJobsInv
<1> SUFFICES ASSUME TabJobsInit PROVE TabJobsInv
  OBVIOUS
<1> USE TabJobsAssumption DEF TabJobsInit
<1>1. TabJobsTypeOK
  <2>1. tab \in [ip: Registers, session: Maybe, next: Maybe, moves: 0..Moves, open: BOOLEAN]
    BY DEF Maybe
  <2>2. /\ fixBusy \in BOOLEAN
        /\ fixes \in [Checks -> {"none", "plan", "timer", "dialog", "apply", "write"}]
    OBVIOUS
  <2>3. /\ plan \in [id: Checks \cup {Nobody}, of: Maybe, shown: Maybe]
        /\ written \in {NoPlan}
    BY DEF NoPlan, Maybe
  <2>4. NoDrop \in [at: {"none", "dial", "probed", "connected", "upload", "closing", "ended"},
                    to: Maybe, probe: BOOLEAN, conn: BOOLEAN, service: BOOLEAN]
    BY DEF NoDrop, Maybe
  <2> QED
    BY <2>1, <2>2, <2>3, <2>4 DEF TabJobsTypeOK
<1>2. FixInv /\ DropInv
  BY DEF FixInv, DropInv, NoDrop
<1> QED
  BY <1>1, <1>2 DEF TabJobsInv

\* The steps, by what they change.
LEMMA TabJobsSteps ==
  ASSUME [TabJobsNext]_tabJobsVars
  PROVE  \/ (OnFixRequested \/ FixStep) /\ UNCHANGED <<tab, drops>>
         \/ (UploadDropped \/ DropStep) /\ UNCHANGED <<tab, fixBusy, plan, fixes, written>>
         \/ (ChangeAddress \/ Retargeted \/ TabConnects \/ TabCloses) /\ UNCHANGED jobs
         \/ UNCHANGED tabJobsVars
BY DEF TabJobsNext, FixStep, PrepareFix, ConfirmFix, FixAnswered, ApplyFix, FixEnds,
       OnFixRequested, UploadDropped, DropStep, DialForDrop, ChooseBackend, UploadEnds,
       CloseDrop, ChangeAddress, Retargeted, TabConnects, TabCloses

\* Connecting, moving and closing keep the type of the tab.
LEMMA TabKept ==
  ASSUME TabJobsTypeOK, ChangeAddress \/ Retargeted \/ TabConnects \/ TabCloses
  PROVE  tab' \in [ip: Registers, session: Maybe, next: Maybe, moves: 0..Moves, open: BOOLEAN]
<1> USE TabJobsAssumption
<1>0. tab \in [ip: Registers, session: Maybe, next: Maybe, moves: 0..Moves, open: BOOLEAN]
  BY DEF TabJobsTypeOK
<1>1. CASE ChangeAddress
  <2>1. PICK r \in Registers : tab' = [tab EXCEPT !.next = r, !.moves = tab.moves + 1]
    BY <1>1 DEF ChangeAddress
  <2>2. tab.moves + 1 \in 0..Moves /\ r \in Maybe
    <3>1. tab.moves \in 0..Moves
      BY <1>0
    <3>2. tab.moves < Moves
      BY <1>1 DEF ChangeAddress
    <3> QED
      BY <3>1, <3>2 DEF Maybe
  <2> QED
    BY <1>0, <2>1, <2>2
<1>2. CASE Retargeted
  <2>1. tab.next \in Registers /\ Nobody \in Maybe
    BY <1>0, <1>2 DEF Retargeted, Maybe
  <2> QED
    BY <1>0, <1>2, <2>1 DEF Retargeted
<1>3. CASE TabConnects \/ TabCloses
  <2>1. tab.ip \in Maybe /\ Nobody \in Maybe
    BY <1>0 DEF Maybe
  <2> QED
    BY <1>0, <1>3, <2>1 DEF TabConnects, TabCloses
<1> QED
  BY <1>1, <1>2, <1>3

\* A step of a dropped upload keeps the drops typed, and closes what it opened.
LEMMA DropsKept ==
  ASSUME TabJobsTypeOK, DropInv, UploadDropped \/ DropStep
  PROVE  /\ drops' \in [Uploads -> [at: {"none", "dial", "probed", "connected", "upload",
                                         "closing", "ended"},
                                    to: Maybe, probe: BOOLEAN, conn: BOOLEAN, service: BOOLEAN]]
         /\ DropInv'
<1> DEFINE Ats == {"none", "dial", "probed", "connected", "upload", "closing", "ended"}
           DropType == [at: Ats, to: Maybe, probe: BOOLEAN, conn: BOOLEAN, service: BOOLEAN]
           Good(r) == (r.probe => r.at = "probed") /\ (r.at = "ended" => ~r.conn)
<1>0. drops \in [Uploads -> DropType]
  BY DEF TabJobsTypeOK
<1>1. ASSUME NEW d \in Uploads, NEW r \in DropType, DropGoes(d, r), Good(r)
      PROVE  drops' \in [Uploads -> DropType] /\ DropInv'
  <2>1. drops' = [drops EXCEPT ![d] = r]
    BY <1>1 DEF DropGoes
  <2> HIDE DEF DropType
  <2>2. drops' \in [Uploads -> DropType]
    BY <1>0, <1>1, <2>1
  <2>3. drops'[d] = r /\ \A e \in Uploads : e # d => drops'[e] = drops[e]
    BY <1>0, <2>1
  <2>4. ASSUME NEW e \in Uploads PROVE Good(drops'[e])
    BY <1>1, <2>3 DEF DropInv
  <2> QED
    BY <2>2, <2>4 DEF DropInv
<1>2. CASE UploadDropped
  <2>1. PICK d \in Uploads : DropGoes(d, [NoDrop EXCEPT !.at = "dial"])
    BY <1>2 DEF UploadDropped
  <2>2. /\ [NoDrop EXCEPT !.at = "dial"] \in DropType
        /\ Good([NoDrop EXCEPT !.at = "dial"])
    BY DEF NoDrop, Maybe
  <2> QED
    BY <1>1, <2>1, <2>2
<1>3. CASE DialForDrop
  <2>1. PICK d \in Uploads : ConnectWithTofu(d)
    BY <1>3 DEF DialForDrop
  <2>2. drops[d] \in DropType /\ Good(drops[d])
    BY <1>0 DEF DropInv
  <2>3. CASE drops[d].at = "dial" /\ DropGoes(d, [drops[d] EXCEPT !.at = "probed", !.probe = TRUE])
    <3> DEFINE r == [drops[d] EXCEPT !.at = "probed", !.probe = TRUE]
    <3>1. r \in DropType /\ r.at = "probed"
      BY <2>2
    <3> HIDE DEF r
    <3>2. Good(r)
      BY <3>1
    <3> QED
      BY <1>1, <2>3, <3>1, <3>2 DEF r
  <2>4. CASE DropGoes(d, [drops[d] EXCEPT !.at = "connected", !.probe = FALSE,
                                          !.conn = TRUE, !.to = tab.ip])
    <3> DEFINE r == [drops[d] EXCEPT !.at = "connected", !.probe = FALSE,
                                     !.conn = TRUE, !.to = tab.ip]
    <3>1. tab.ip \in Maybe
      BY DEF TabJobsTypeOK, Maybe
    <3>2. r \in DropType /\ r.at = "connected" /\ r.probe = FALSE
      BY <2>2, <3>1
    <3> HIDE DEF r
    <3>3. Good(r)
      BY <3>2
    <3> QED
      BY <1>1, <2>4, <3>2, <3>3 DEF r
  <2>5. CASE DropGoes(d, [drops[d] EXCEPT !.at = "closing", !.probe = FALSE])
    <3> DEFINE r == [drops[d] EXCEPT !.at = "closing", !.probe = FALSE]
    <3>1. r \in DropType /\ r.at = "closing" /\ r.probe = FALSE
      BY <2>2
    <3> HIDE DEF r
    <3>2. Good(r)
      BY <3>1
    <3> QED
      BY <1>1, <2>5, <3>1, <3>2 DEF r
  <2> QED
    BY <2>1, <2>3, <2>4, <2>5 DEF ConnectWithTofu
<1>4. ASSUME NEW d \in Uploads, drops[d].at # "probed", NEW at \in Ats \ {"probed", "ended"},
             NEW s \in BOOLEAN, DropGoes(d, [drops[d] EXCEPT !.at = at, !.service = s])
      PROVE  drops' \in [Uploads -> DropType] /\ DropInv'
  <2> DEFINE r == [drops[d] EXCEPT !.at = at, !.service = s]
  <2>1. r \in DropType /\ r.at = at /\ r.probe = drops[d].probe /\ drops[d].probe = FALSE
    BY <1>0, <1>4 DEF DropInv
  <2> HIDE DEF r
  <2>2. Good(r)
    BY <1>4, <2>1
  <2> QED
    BY <1>1, <1>4, <2>1, <2>2 DEF r
<1>5. ASSUME NEW d \in Uploads, drops[d].at # "probed",
             DropGoes(d, [drops[d] EXCEPT !.at = "closing"])
      PROVE  drops' \in [Uploads -> DropType] /\ DropInv'
  <2> DEFINE r == [drops[d] EXCEPT !.at = "closing"]
  <2>1. r \in DropType /\ r.at = "closing" /\ r.probe = drops[d].probe /\ drops[d].probe = FALSE
    BY <1>0, <1>5 DEF DropInv
  <2> HIDE DEF r
  <2>2. Good(r)
    BY <1>5, <2>1
  <2> QED
    BY <1>1, <1>5, <2>1, <2>2 DEF r
<1>6. CASE ChooseBackend
  BY <1>4, <1>5, <1>6 DEF ChooseBackend
<1>7. CASE UploadEnds
  BY <1>5, <1>7 DEF UploadEnds
<1>8. CASE CloseDrop
  <2>1. PICK d \in Uploads : /\ drops[d].at = "closing"
                             /\ DropGoes(d, [drops[d] EXCEPT !.at = "ended", !.conn = FALSE])
    BY <1>8 DEF CloseDrop
  <2> DEFINE r == [drops[d] EXCEPT !.at = "ended", !.conn = FALSE]
  <2>2. /\ r \in DropType /\ r.conn = FALSE /\ r.probe = drops[d].probe
        /\ drops[d].probe = FALSE
    BY <1>0, <2>1 DEF DropInv
  <2> HIDE DEF r
  <2>3. Good(r)
    BY <2>2
  <2> QED
    BY <1>1, <2>1, <2>2, <2>3 DEF r
<1> QED
  BY <1>2, <1>3, <1>6, <1>7, <1>8 DEF DropStep

\* A step of a fix keeps its flags typed, and one fix at a time.
LEMMA FixKept ==
  ASSUME TabJobsTypeOK, FixInv, OnFixRequested \/ FixStep
  PROVE  /\ fixBusy' \in BOOLEAN
         /\ plan' \in [id: Checks \cup {Nobody}, of: Maybe, shown: Maybe]
         /\ fixes' \in [Checks -> {"none", "plan", "timer", "dialog", "apply", "write"}]
         /\ written' \in [id: Checks, of: Maybe, shown: Maybe, to: Registers, asked: Checks]
                           \cup {NoPlan}
         /\ FixInv'
<1> DEFINE Ats == {"none", "plan", "timer", "dialog", "apply", "write"}
           Plans == [id: Checks \cup {Nobody}, of: Maybe, shown: Maybe]
           Wrote == [id: Checks, of: Maybe, shown: Maybe, to: Registers, asked: Checks]
                      \cup {NoPlan}
<1>0. /\ tab.ip \in Registers /\ tab.session \in Maybe /\ fixBusy \in BOOLEAN
      /\ plan \in Plans /\ fixes \in [Checks -> Ats] /\ written \in Wrote /\ NoPlan \in Plans
  BY DEF TabJobsTypeOK, NoPlan, Maybe
<1> SUFFICES fixBusy' \in BOOLEAN /\ plan' \in Plans /\ fixes' \in [Checks -> Ats]
             /\ written' \in Wrote /\ FixInv'
  OBVIOUS
\* Whatever the fix of c does next, the others are not under way.
<1>1. ASSUME NEW c \in Checks, NEW at \in Ats, FixGoes(c, at),
             \A d \in Checks : d # c => fixes[d] = "none",
             at # "none" => fixBusy', at \in {"timer", "dialog", "apply"} => plan'.id = c,
             fixBusy' \in BOOLEAN, plan' \in Plans, written' \in Wrote,
             written' # NoPlan => written'.asked = written'.id
      PROVE  fixes' \in [Checks -> Ats] /\ FixInv'
  <2>1. /\ fixes' \in [Checks -> Ats] /\ fixes'[c] = at
        /\ \A d \in Checks : d # c => fixes'[d] = "none"
    BY <1>0, <1>1 DEF FixGoes
  <2>2. FixInv'
    BY <1>1, <2>1 DEF FixInv, NoPlan
  <2> QED
    BY <2>1, <2>2
<1>2. ASSUME NEW c \in Checks, fixes[c] # "none"
      PROVE  fixBusy /\ \A d \in Checks : d # c => fixes[d] = "none"
  BY <1>2 DEF FixInv
<1>3. CASE OnFixRequested
  <2>1. PICK c \in Checks : fixes[c] = "none" /\ FixGoes(c, "plan")
    BY <1>3 DEF OnFixRequested
  <2>2. \A d \in Checks : fixes[d] = "none"
    BY <1>3 DEF OnFixRequested, FixInv
  <2>3. fixBusy' = TRUE /\ plan' = plan /\ written' = written
    BY <1>3 DEF OnFixRequested
  <2>4. written' # NoPlan => written'.asked = written'.id
    BY <2>3 DEF FixInv
  <2> QED
    BY <1>0, <1>1, <2>1, <2>2, <2>3, <2>4
<1>4. CASE PrepareFix
  <2>1. PICK c \in Checks :
          /\ fixes[c] = "plan"
          /\ \/ FixGoes(c, "none") /\ fixBusy' \in {FALSE, fixBusy} /\ UNCHANGED plan
             \/ /\ tab.session # Nobody /\ FixGoes(c, "timer") /\ UNCHANGED fixBusy
                /\ plan' = [id |-> c, of |-> tab.session, shown |-> Nobody]
    BY <1>4 DEF PrepareFix
  <2>2. fixBusy /\ \A d \in Checks : d # c => fixes[d] = "none"
    BY <1>2, <2>1
  <2>3. written' = written /\ (written # NoPlan => written.asked = written.id)
    BY <1>4 DEF PrepareFix, FixInv
  <2>4. [id |-> c, of |-> tab.session, shown |-> Nobody] \in Plans
    BY <1>0 DEF Maybe
  <2> HIDE DEF Plans, Wrote
  <2>5. CASE FixGoes(c, "none") /\ fixBusy' \in {FALSE, fixBusy} /\ UNCHANGED plan
    <3>1. fixBusy' \in BOOLEAN
      BY <1>0, <2>5, Zenon
    <3> QED
      BY <1>0, <1>1, <2>2, <2>3, <2>5, <3>1
  <2>6. CASE /\ FixGoes(c, "timer") /\ fixBusy' = fixBusy
             /\ plan' = [id |-> c, of |-> tab.session, shown |-> Nobody]
    <3>1. plan'.id = c
      BY <2>6
    <3> QED
      BY <1>0, <1>1, <2>2, <2>3, <2>4, <2>6, <3>1
  <2> QED
    BY <2>1, <2>5, <2>6
<1>5. CASE ConfirmFix
  <2>1. PICK c \in Checks :
          /\ fixes[c] = "timer"
          /\ \/ FixGoes(c, "none") /\ fixBusy' \in {FALSE, fixBusy} /\ UNCHANGED plan
             \/ /\ FixGoes(c, "dialog")
                /\ plan' = [plan EXCEPT !.shown = tab.ip] /\ UNCHANGED fixBusy
    BY <1>5 DEF ConfirmFix
  <2>2. fixBusy /\ \A d \in Checks : d # c => fixes[d] = "none"
    BY <1>2, <2>1
  <2>3. written' = written /\ (written # NoPlan => written.asked = written.id)
    BY <1>5 DEF ConfirmFix, FixInv
  <2>4. plan.id = c
    BY <2>1 DEF FixInv
  <2>5. [plan EXCEPT !.shown = tab.ip] \in Plans /\ [plan EXCEPT !.shown = tab.ip].id = plan.id
    BY <1>0 DEF Maybe
  <2> HIDE DEF Plans, Wrote
  <2> QED
    BY <1>0, <1>1, <2>1, <2>2, <2>3, <2>4, <2>5
<1>6. CASE FixAnswered
  <2>1. PICK c \in Checks :
          /\ fixes[c] = "dialog"
          /\ \/ FixGoes(c, "apply") /\ UNCHANGED <<fixBusy, plan>>
             \/ FixGoes(c, "none") /\ fixBusy' = FALSE /\ plan' = NoPlan
    BY <1>6 DEF FixAnswered
  <2>2. fixBusy /\ \A d \in Checks : d # c => fixes[d] = "none"
    BY <1>2, <2>1
  <2>3. written' = written /\ (written # NoPlan => written.asked = written.id)
    BY <1>6 DEF FixAnswered, FixInv
  <2>4. plan.id = c
    BY <2>1 DEF FixInv
  <2> HIDE DEF Plans, Wrote
  <2> QED
    BY <1>0, <1>1, <2>1, <2>2, <2>3, <2>4
<1>7. CASE ApplyFix
  <2>1. PICK c \in Checks :
          /\ fixes[c] = "apply" /\ tab.session # Nobody /\ plan.id # Nobody /\ FixGoes(c, "write")
          /\ written' = [id |-> plan.id, of |-> plan.of, shown |-> plan.shown,
                         to |-> tab.session, asked |-> c]
    BY <1>7 DEF ApplyFix
  <2>2. fixBusy /\ \A d \in Checks : d # c => fixes[d] = "none"
    BY <1>2, <2>1
  <2>3. fixBusy' = fixBusy /\ plan' = plan
    BY <1>7 DEF ApplyFix
  <2>4. plan.id = c
    BY <2>1 DEF FixInv
  <2>5. written' \in Wrote /\ written'.asked = written'.id
    BY <1>0, <2>1, <2>4 DEF Maybe
  <2> HIDE DEF Plans, Wrote
  <2> QED
    BY <1>0, <1>1, <2>1, <2>2, <2>3, <2>5
<1>8. CASE FixEnds
  <2>1. PICK c \in Checks : fixes[c] # "none" /\ FixGoes(c, "none")
    BY <1>8 DEF FixEnds
  <2>2. \A d \in Checks : d # c => fixes[d] = "none"
    BY <1>2, <2>1
  <2>3. /\ fixBusy' = FALSE /\ plan' = NoPlan
        /\ written' = written /\ (written # NoPlan => written.asked = written.id)
    BY <1>8 DEF FixEnds, FixInv
  <2> HIDE DEF Plans, Wrote
  <2> QED
    BY <1>0, <1>1, <2>1, <2>2, <2>3
<1> QED
  BY <1>3, <1>4, <1>5, <1>6, <1>7, <1>8 DEF FixStep

\* Every step keeps the invariant of the jobs of a tab.
LEMMA TabJobsKept ==
  ASSUME TabJobsInv, [TabJobsNext]_tabJobsVars
  PROVE  TabJobsInv'
<1>0. TabJobsTypeOK /\ FixInv /\ DropInv
  BY DEF TabJobsInv
<1>1. CASE (OnFixRequested \/ FixStep) /\ UNCHANGED <<tab, drops>>
  <2>1. FixInv' /\ DropInv'
    BY <1>0, <1>1, FixKept DEF DropInv
  <2>2. TabJobsTypeOK'
    BY <1>0, <1>1, FixKept DEF TabJobsTypeOK
  <2> QED
    BY <2>1, <2>2 DEF TabJobsInv
<1>2. CASE (UploadDropped \/ DropStep) /\ UNCHANGED <<tab, fixBusy, plan, fixes, written>>
  <2>1. FixInv' /\ DropInv'
    BY <1>0, <1>2, DropsKept DEF FixInv
  <2>2. TabJobsTypeOK'
    BY <1>0, <1>2, DropsKept DEF TabJobsTypeOK
  <2> QED
    BY <2>1, <2>2 DEF TabJobsInv
<1>3. CASE (ChangeAddress \/ Retargeted \/ TabConnects \/ TabCloses) /\ UNCHANGED jobs
  <2>1. FixInv' /\ DropInv'
    BY <1>0, <1>3 DEF FixInv, DropInv, jobs
  <2>2. TabJobsTypeOK'
    BY <1>0, <1>3, TabKept DEF TabJobsTypeOK, jobs
  <2> QED
    BY <2>1, <2>2 DEF TabJobsInv
<1>4. CASE UNCHANGED tabJobsVars
  BY <1>0, <1>4 DEF TabJobsInv, TabJobsTypeOK, FixInv, DropInv, tabJobsVars
<1> QED
  BY <1>1, <1>2, <1>3, <1>4, TabJobsSteps

\* The invariant gives the two properties of the jobs of a tab.
LEMMA TabJobsSafe == TabJobsInv => OneFix /\ DropsAreClosed
BY DEF TabJobsInv, FixInv, DropInv, OneFix, DropsAreClosed

-----------------------------------------------------------------------------
EditorType == [open: BOOLEAN, layout: Layouts, buttons: Buttons]
BoardType == [open: BOOLEAN, layout: Layouts, buttons: Buttons, ready: BOOLEAN, checks: BOOLEAN]
SendsType == [waiting: SUBSET (1..KeyClicks), out: SUBSET (1..KeyClicks),
              done: Seq(1..KeyClicks), clicked: 0..KeyClicks]

\* Buttons that were made for a layout.
MadeFor(l, buttons) == \A n \in buttons : n = 0 \/ (n \in 1..Len(made) /\ made[n] = l)

\* What each file, each editor and the operator's window has was made for it.
ButtonsAreOwn ==
  /\ \A l \in Layouts : MadeFor(l, LoadLayout(l))
  /\ \A e \in Editors : MadeFor(editors[e].layout, editors[e].buttons)
  /\ MadeFor(board.layout, board.buttons)

KeyboardInv ==
  /\ files \in [Layouts -> Buttons \cup {Unreadable}]
  /\ made \in Seq(Layouts) /\ Len(made) <= Edits
  /\ editors \in [Editors -> EditorType]
  /\ board \in BoardType
  /\ known \in [model: Layouts \cup {NoLayout}, remembered: Layouts \cup {NoLayout}]
  /\ sends \in SendsType
  /\ ButtonsAreOwn
  /\ ClosedSendsNothing

\* The elements of a sequence over a set are in that set.
LEMMA SetOfSeq ==
  ASSUME NEW S, NEW s \in Seq(S)
  PROVE  ToSet(s) \subseteq S
<1>1. \A i \in DOMAIN s : s[i] \in S OBVIOUS
<1> QED BY <1>1 DEF ToSet

\* What the assumption says of the constants of the keyboard.
LEMMA KeyboardNumbers == Edits \in Nat /\ KeyClicks \in Nat /\ Default \in Layouts
BY KeyboardAssumption

\* The keyboard and its editors start in their invariant.
LEMMA KeyboardInitial == KeyboardInit => KeyboardInv
<1> SUFFICES ASSUME KeyboardInit PROVE KeyboardInv OBVIOUS
<1> USE KeyboardNumbers DEF KeyboardInit
<1>1. ClosedEditor \in EditorType BY DEF ClosedEditor, EditorType, Buttons
<1>2. NoBoard \in BoardType BY DEF NoBoard, BoardType, Buttons
<1>3. files \in [Layouts -> Buttons \cup {Unreadable}]
  <2>1. {0} \in Buttons BY DEF Buttons
  <2> QED BY <2>1
<1>4. made \in Seq(Layouts) /\ Len(made) <= Edits OBVIOUS
<1>5. editors \in [Editors -> EditorType] BY <1>1
<1>6. sends \in SendsType
  <2>1. <<>> \in Seq(1..KeyClicks) /\ {} \in SUBSET (1..KeyClicks) /\ 0 \in 0..KeyClicks OBVIOUS
  <2> QED BY <2>1 DEF NoSends, SendsType
<1>7. ButtonsAreOwn
  <2>1. \A l \in Layouts : LoadLayout(l) \subseteq {0} BY DEF LoadLayout
  <2>2. \A e \in Editors : editors[e].buttons = {} BY DEF ClosedEditor
  <2>3. board.buttons = {} BY DEF NoBoard
  <2> QED BY <2>1, <2>2, <2>3 DEF ButtonsAreOwn, MadeFor
<1>8. ClosedSendsNothing BY DEF ClosedSendsNothing, NoSends
<1>9. known \in [model: Layouts \cup {NoLayout}, remembered: Layouts \cup {NoLayout}] OBVIOUS
<1> QED BY <1>2, <1>3, <1>4, <1>5, <1>6, <1>7, <1>8, <1>9 DEF KeyboardInv

\* A resolved layout is a layout, and remembering one keeps the type of what is known.
LEMMA ResolveIs ==
  ASSUME KeyboardInv
  PROVE  /\ Resolve \in Layouts
         /\ \A l \in Layouts : Remember(l) =>
              known' \in [model: Layouts \cup {NoLayout}, remembered: Layouts \cup {NoLayout}]
<1>1. known \in [model: Layouts \cup {NoLayout}, remembered: Layouts \cup {NoLayout}] BY DEF KeyboardInv
<1> QED BY <1>1, KeyboardNumbers DEF Resolve, Remember

\* A loaded layout has only buttons made for it.
LEMMA LoadIs ==
  ASSUME KeyboardInv, NEW l \in Layouts
  PROVE  LoadLayout(l) \in Buttons /\ MadeFor(l, LoadLayout(l))
BY DEF KeyboardInv, LoadLayout, ButtonsAreOwn, Buttons

\* A file that is written with buttons of its own layout stays good.
LEMMA SaveKept ==
  ASSUME KeyboardInv, NEW k \in Layouts, NEW buttons \in Buttons, MadeFor(k, buttons),
         SaveLayout(k, buttons), UNCHANGED made
  PROVE  /\ files' \in [Layouts -> Buttons \cup {Unreadable}]
         /\ \A l \in Layouts : MadeFor(l, LoadLayout(l))'
<1>1. files \in [Layouts -> Buttons \cup {Unreadable}] /\ \A l \in Layouts : MadeFor(l, LoadLayout(l))
  BY DEF KeyboardInv, ButtonsAreOwn
<1>2. files' \in [Layouts -> Buttons \cup {Unreadable}] BY <1>1 DEF SaveLayout
<1>3. ASSUME NEW l \in Layouts PROVE MadeFor(l, LoadLayout(l))'
  <2>1. files'[l] = files[l] \/ files'[l] = Unreadable \/ (l = k /\ files'[l] = buttons)
    BY <1>1 DEF SaveLayout
  <2>2. LoadLayout(l)' = LoadLayout(l) \/ LoadLayout(l)' = {} \/ (l = k /\ LoadLayout(l)' = buttons)
    BY <2>1 DEF LoadLayout
  <2>3. MadeFor(l, {}) BY DEF MadeFor
  <2>4. \A b : MadeFor(l, b) => \A n \in b : n = 0 \/ (n \in 1..Len(made') /\ made'[n] = l)
    BY DEF MadeFor
  <2>5. \A n \in LoadLayout(l)' : n = 0 \/ (n \in 1..Len(made') /\ made'[n] = l)
    BY <2>2, <2>3, <2>4, <1>1
  <2> QED BY <2>5 DEF MadeFor
<1> QED BY <1>2, <1>3

\* What is owned stays owned while nothing new is made.
LEMMA OwnStays ==
  ASSUME KeyboardInv, UNCHANGED made
  PROVE  /\ UNCHANGED files => \A l \in Layouts : MadeFor(l, LoadLayout(l))'
         /\ UNCHANGED editors => \A e \in Editors : MadeFor(editors[e].layout, editors[e].buttons)'
         /\ UNCHANGED board => MadeFor(board.layout, board.buttons)'
BY DEF KeyboardInv, ButtonsAreOwn, MadeFor, LoadLayout

\* An editor that gets a layout with buttons of that layout.
LEMMA EditorKept ==
  ASSUME KeyboardInv, NEW e \in Editors, NEW v \in EditorType, MadeFor(v.layout, v.buttons),
         editors' = [editors EXCEPT ![e] = v], UNCHANGED made
  PROVE  /\ editors' \in [Editors -> EditorType]
         /\ \A d \in Editors : MadeFor(editors[d].layout, editors[d].buttons)'
<1>1. editors \in [Editors -> EditorType] /\ \A d \in Editors : MadeFor(editors[d].layout, editors[d].buttons)
  BY DEF KeyboardInv, ButtonsAreOwn
<1>2. editors' \in [Editors -> EditorType] BY <1>1
<1>3. ASSUME NEW d \in Editors PROVE MadeFor(editors[d].layout, editors[d].buttons)'
  <2>1. editors'[d] = editors[d] \/ editors'[d] = v BY <1>1
  <2>2. \A n \in editors'[d].buttons : n = 0 \/ (n \in 1..Len(made) /\ made[n] = editors'[d].layout)
    BY <2>1, <1>1 DEF MadeFor
  <2> QED BY <2>2 DEF MadeFor
<1> QED BY <1>2, <1>3

\* Editing a button keeps the invariant of the keyboard.
LEMMA EditsKept ==
  ASSUME KeyboardInv, NEW e \in Editors, EditButton(e)
  PROVE  KeyboardInv'
<1>1. /\ made \in Seq(Layouts) /\ Len(made) \in Nat /\ Edits \in Nat /\ Len(made) < Edits
      /\ editors \in [Editors -> EditorType]
      /\ editors[e] \in EditorType
  BY KeyboardNumbers DEF KeyboardInv, EditButton
<1> DEFINE n == Len(made) + 1
           l == editors[e].layout
           b == editors[e].buttons \cup {n}
<1>2. /\ made' = Append(made, l) /\ editors' = [editors EXCEPT ![e].buttons = b]
      /\ UNCHANGED <<files, board, known, sends>>
  BY <1>1 DEF EditButton
<1>3. l \in Layouts /\ n \in 1..Edits BY <1>1 DEF EditorType
<1>4. b \in Buttons BY <1>1, <1>3 DEF EditorType, Buttons
<1>5. made' \in Seq(Layouts) /\ Len(made') = n /\ made'[n] = l /\ \A i \in 1..Len(made) : made'[i] = made[i]
  BY <1>1, <1>2, <1>3
<1> HIDE DEF l, b
<1>6. editors' \in [Editors -> EditorType] BY <1>1, <1>2, <1>4 DEF EditorType
<1>7. \A k, x : MadeFor(k, x) => \A i \in x : i = 0 \/ (i \in 1..Len(made') /\ made'[i] = k)
  BY <1>1, <1>5 DEF MadeFor
<1>8. \A k \in Layouts : MadeFor(k, LoadLayout(k))'
  <2> SUFFICES ASSUME NEW k \in Layouts PROVE MadeFor(k, LoadLayout(k))' OBVIOUS
  <2>1. LoadLayout(k)' = LoadLayout(k) BY <1>2 DEF LoadLayout
  <2>2. MadeFor(k, LoadLayout(k)) BY LoadIs
  <2>3. \A i \in LoadLayout(k)' : i = 0 \/ (i \in 1..Len(made') /\ made'[i] = k) BY <2>1, <2>2, <1>7
  <2> QED BY <2>3 DEF MadeFor
<1>9. \A d \in Editors : MadeFor(editors[d].layout, editors[d].buttons)'
  <2> SUFFICES ASSUME NEW d \in Editors PROVE MadeFor(editors[d].layout, editors[d].buttons)' OBVIOUS
  <2>1. \A i \in editors[d].buttons : i = 0 \/ (i \in 1..Len(made') /\ made'[i] = editors[d].layout)
    BY <1>7 DEF KeyboardInv, ButtonsAreOwn
  <2>2. editors'[d].layout = editors[d].layout /\ editors'[d].buttons \subseteq editors[d].buttons \cup (IF d = e THEN {n} ELSE {})
    BY <1>1, <1>2 DEF EditorType, b
  <2>3. n \in 1..Len(made') /\ (d = e => made'[n] = editors[d].layout) BY <1>3, <1>5 DEF l
  <2>4. \A i \in editors'[d].buttons : i = 0 \/ (i \in 1..Len(made') /\ made'[i] = editors'[d].layout)
    BY <2>1, <2>2, <2>3
  <2> QED BY <2>4 DEF MadeFor
<1>10. MadeFor(board.layout, board.buttons)'
  <2>1. \A i \in board.buttons : i = 0 \/ (i \in 1..Len(made') /\ made'[i] = board.layout)
    BY <1>7 DEF KeyboardInv, ButtonsAreOwn
  <2> QED BY <2>1, <1>2 DEF MadeFor
<1>11. Len(made') <= Edits BY <1>3, <1>5
<1>12. ButtonsAreOwn' BY <1>8, <1>9, <1>10 DEF ButtonsAreOwn
<1> QED BY <1>2, <1>5, <1>6, <1>11, <1>12 DEF KeyboardInv, ClosedSendsNothing

\* Opening, switching, clearing, saving and closing an editor keep the invariant.
LEMMA EditorsKept ==
  ASSUME KeyboardInv, NEW e \in Editors,
         OpenLayoutEditor(e) \/ SwitchEditor(e) \/ ClearButton(e) \/ SaveEditor(e) \/ CloseLayoutEditor(e)
  PROVE  KeyboardInv'
<1>1. editors \in [Editors -> EditorType] /\ editors[e] \in EditorType
      /\ MadeFor(editors[e].layout, editors[e].buttons)
  BY DEF KeyboardInv, ButtonsAreOwn
<1>2. editors[e].layout \in Layouts /\ editors[e].buttons \in Buttons BY <1>1 DEF EditorType
<1>3. UNCHANGED <<made, board, sends>>
  BY DEF OpenLayoutEditor, SwitchEditor, ClearButton, SaveEditor, CloseLayoutEditor
<1>4. /\ files' \in [Layouts -> Buttons \cup {Unreadable}]
      /\ \A l \in Layouts : MadeFor(l, LoadLayout(l))'
  <2>1. UNCHANGED files \/ SaveLayout(editors[e].layout, editors[e].buttons)
    BY DEF OpenLayoutEditor, SwitchEditor, ClearButton, SaveEditor, CloseLayoutEditor
  <2>2. CASE UNCHANGED files BY <2>2, <1>3, OwnStays DEF KeyboardInv
  <2>3. CASE SaveLayout(editors[e].layout, editors[e].buttons) BY <2>3, <1>1, <1>2, <1>3, SaveKept
  <2> QED BY <2>1, <2>2, <2>3
<1>5. known' \in [model: Layouts \cup {NoLayout}, remembered: Layouts \cup {NoLayout}]
  <2>1. UNCHANGED known \/ \E l \in Layouts : Remember(l)
    BY ResolveIs DEF OpenLayoutEditor, SwitchEditor, ClearButton, SaveEditor, CloseLayoutEditor
  <2> QED BY <2>1, ResolveIs DEF KeyboardInv
<1>6. /\ editors' \in [Editors -> EditorType]
      /\ \A d \in Editors : MadeFor(editors[d].layout, editors[d].buttons)'
  <2>1. CASE OpenLayoutEditor(e)
    <3>1. Editor(Resolve) \in EditorType /\ MadeFor(Editor(Resolve).layout, Editor(Resolve).buttons)
      BY ResolveIs, LoadIs DEF Editor, EditorType
    <3> QED BY <3>1, <2>1, <1>3, EditorKept DEF OpenLayoutEditor
  <2>2. CASE SwitchEditor(e)
    <3>1. PICK l \in Layouts : editors' = [editors EXCEPT ![e].layout = l, ![e].buttons = LoadLayout(l)]
      BY <2>2 DEF SwitchEditor
    <3> DEFINE b == LoadLayout(l)
               v == [open |-> editors[e].open, layout |-> l, buttons |-> b]
    <3>2. b \in Buttons /\ MadeFor(l, b) BY LoadIs
    <3>3. editors' = [editors EXCEPT ![e].layout = l, ![e].buttons = b] BY <3>1
    <3> HIDE DEF b
    <3>4. editors' \in [Editors -> EditorType]
          /\ \A d \in Editors : editors'[d] = editors[d] \/ (editors'[d].layout = l /\ editors'[d].buttons = b)
      BY <3>2, <3>3, <1>1 DEF EditorType
    <3>5. ASSUME NEW d \in Editors PROVE MadeFor(editors[d].layout, editors[d].buttons)'
      <4>1. MadeFor(editors[d].layout, editors[d].buttons) BY DEF KeyboardInv, ButtonsAreOwn
      <4>2. \A i \in editors'[d].buttons : i = 0 \/ (i \in 1..Len(made) /\ made[i] = editors'[d].layout)
        BY <3>2, <3>4, <4>1 DEF MadeFor
      <4> QED BY <4>2, <1>3 DEF MadeFor
    <3> QED BY <3>4, <3>5
  <2>3. CASE ClearButton(e)
    <3>1. PICK n \in editors[e].buttons : editors' = [editors EXCEPT ![e].buttons = @ \ {n}]
      BY <2>3 DEF ClearButton
    <3>2. editors' \in [Editors -> EditorType]
          /\ \A d \in Editors : editors'[d].layout = editors[d].layout /\ editors'[d].buttons \subseteq editors[d].buttons
      BY <3>1, <1>1 DEF EditorType, Buttons
    <3>3. ASSUME NEW d \in Editors PROVE MadeFor(editors[d].layout, editors[d].buttons)'
      <4>1. MadeFor(editors[d].layout, editors[d].buttons) BY DEF KeyboardInv, ButtonsAreOwn
      <4>2. \A i \in editors'[d].buttons : i = 0 \/ (i \in 1..Len(made) /\ made[i] = editors'[d].layout)
        BY <3>2, <4>1 DEF MadeFor
      <4> QED BY <4>2, <1>3 DEF MadeFor
    <3> QED BY <3>2, <3>3
  <2>4. CASE SaveEditor(e)
    BY <2>4, <1>1, <1>3, OwnStays DEF SaveEditor
  <2>5. CASE CloseLayoutEditor(e)
    <3>1. ClosedEditor \in EditorType /\ MadeFor(ClosedEditor.layout, ClosedEditor.buttons)
      BY KeyboardNumbers DEF ClosedEditor, EditorType, Buttons, MadeFor
    <3> QED BY <3>1, <2>5, <1>3, EditorKept DEF CloseLayoutEditor
  <2> QED BY <2>1, <2>2, <2>3, <2>4, <2>5
<1>7. MadeFor(board.layout, board.buttons)' BY <1>3, OwnStays
<1>8. ButtonsAreOwn' BY <1>4, <1>6, <1>7 DEF ButtonsAreOwn
<1>9. /\ made' \in Seq(Layouts) /\ Len(made') <= Edits /\ board' \in BoardType /\ sends' \in SendsType
      /\ ClosedSendsNothing'
  BY <1>3 DEF KeyboardInv, ClosedSendsNothing
<1> QED BY <1>4, <1>5, <1>6, <1>8, <1>9 DEF KeyboardInv

\* Every step of the open keyboard and of its sending keeps the invariant.
LEMMA BoardKept ==
  ASSUME KeyboardInv,
         OpenBoard \/ SwitchBoard \/ BoardCheckEnds \/ ClickButton \/ SendGoesOut \/ SendEnds
           \/ CloseBoard \/ ModelIsFound
  PROVE  KeyboardInv'
<1>1. board \in BoardType /\ MadeFor(board.layout, board.buttons) /\ sends \in SendsType /\ ClosedSendsNothing
  BY DEF KeyboardInv, ButtonsAreOwn
<1>2. UNCHANGED <<files, made, editors>>
  BY DEF OpenBoard, SwitchBoard, BoardCheckEnds, ClickButton, SendGoesOut, SendEnds, CloseBoard, ModelIsFound
<1>3. known' \in [model: Layouts \cup {NoLayout}, remembered: Layouts \cup {NoLayout}]
  <2>1. known \in [model: Layouts \cup {NoLayout}, remembered: Layouts \cup {NoLayout}] BY DEF KeyboardInv
  <2>2. UNCHANGED known \/ (\E l \in Layouts : Remember(l)) \/ ModelIsFound
    BY ResolveIs DEF OpenBoard, SwitchBoard, BoardCheckEnds, ClickButton, SendGoesOut, SendEnds, CloseBoard
  <2>3. CASE ModelIsFound BY <2>1, <2>3 DEF ModelIsFound
  <2> QED BY <2>1, <2>2, <2>3, ResolveIs
<1>4. board' \in BoardType /\ MadeFor(board'.layout, board'.buttons)
  <2>1. CASE OpenBoard
    <3>1. board' = Board(Resolve) /\ Resolve \in Layouts BY <2>1, ResolveIs DEF OpenBoard
    <3>2. LoadLayout(Resolve) \in Buttons /\ MadeFor(Resolve, LoadLayout(Resolve)) BY <3>1, LoadIs
    <3> QED BY <3>1, <3>2 DEF Board, BoardType
  <2>2. CASE SwitchBoard
    <3>1. PICK l \in Layouts : board' = [board EXCEPT !.layout = l, !.buttons = LoadLayout(l)]
      BY <2>2 DEF SwitchBoard
    <3>2. LoadLayout(l) \in Buttons /\ MadeFor(l, LoadLayout(l)) BY LoadIs
    <3> DEFINE b == LoadLayout(l)
    <3>3. board' = [board EXCEPT !.layout = l, !.buttons = b] /\ b \in Buttons /\ MadeFor(l, b) BY <3>1, <3>2
    <3> HIDE DEF b
    <3>4. board' \in BoardType /\ board'.layout = l /\ board'.buttons = b BY <3>3, <1>1 DEF BoardType
    <3> QED BY <3>3, <3>4
  <2>3. CASE BoardCheckEnds
    <3>1. board' \in BoardType /\ board'.layout = board.layout /\ board'.buttons = board.buttons
      BY <2>3, <1>1 DEF BoardCheckEnds, BoardType
    <3> QED BY <3>1, <1>1
  <2>4. CASE CloseBoard
    BY <2>4, KeyboardNumbers DEF CloseBoard, NoBoard, BoardType, Buttons, MadeFor
  <2>5. CASE UNCHANGED board BY <2>5, <1>1
  <2> QED BY <2>1, <2>2, <2>3, <2>4, <2>5 DEF ClickButton, SendGoesOut, SendEnds, ModelIsFound
<1>5. sends' \in SendsType /\ (sends'.waiting \subseteq sends.waiting \/ board.open)
  <2>1. CASE ClickButton
    <3>1. sends.clicked \in Nat /\ sends.clicked < KeyClicks /\ KeyClicks \in Nat
      BY <2>1, <1>1, KeyboardNumbers DEF ClickButton, SendsType
    <3> DEFINE n == sends.clicked + 1
    <3>2. n \in 1..KeyClicks /\ n \in 0..KeyClicks BY <3>1
    <3>3. sends' = [sends EXCEPT !.waiting = @ \cup {n}, !.clicked = n] /\ board.open
      BY <2>1, <1>1 DEF ClickButton, SendsType
    <3> HIDE DEF n
    <3> QED BY <3>2, <3>3, <1>1 DEF SendsType
  <2>2. CASE SendGoesOut
    <3>1. PICK n \in sends.waiting : sends' = [sends EXCEPT !.waiting = @ \ {n}, !.out = @ \cup {n}]
      BY <2>2 DEF SendGoesOut
    <3> QED BY <3>1, <1>1 DEF SendsType
  <2>3. CASE SendEnds
    <3>1. PICK n \in sends.out, ok \in BOOLEAN :
            sends' = [sends EXCEPT !.out = @ \ {n}, !.done = IF ok THEN Append(@, n) ELSE @]
      BY <2>3 DEF SendEnds
    <3> DEFINE d == IF ok THEN Append(sends.done, n) ELSE sends.done
    <3>2. n \in 1..KeyClicks /\ sends.done \in Seq(1..KeyClicks) BY <1>1 DEF SendsType
    <3>3. d \in Seq(1..KeyClicks)
      <4>1. Append(sends.done, n) \in Seq(1..KeyClicks) BY <3>2, AppendIn
      <4> QED BY <3>2, <4>1
    <3>4. sends' = [sends EXCEPT !.out = @ \ {n}, !.done = d] BY <3>1, <1>1 DEF SendsType
    <3> HIDE DEF d
    <3> QED BY <3>3, <3>4, <1>1 DEF SendsType
  <2>4. CASE CloseBoard
    BY <2>4, <1>1 DEF CloseBoard, SendsType
  <2>5. CASE UNCHANGED sends BY <2>5, <1>1
  <2> QED BY <2>1, <2>2, <2>3, <2>4, <2>5 DEF OpenBoard, SwitchBoard, BoardCheckEnds, ModelIsFound
<1>6. ClosedSendsNothing'
  <2>1. CASE CloseBoard BY <2>1, <1>1 DEF CloseBoard, SendsType, ClosedSendsNothing
  <2>2. CASE ~CloseBoard
    <3>1. board.open => board'.open
      BY <2>2, <1>1 DEF OpenBoard, SwitchBoard, BoardCheckEnds, ClickButton, SendGoesOut, SendEnds, ModelIsFound, Board, BoardType
    <3> QED BY <3>1, <1>1, <1>5 DEF ClosedSendsNothing
  <2> QED BY <2>1, <2>2
<1>7. ButtonsAreOwn'
  <2>1. MadeFor(board.layout, board.buttons)' BY <1>2, <1>4 DEF MadeFor
  <2> QED BY <2>1, <1>2, OwnStays DEF ButtonsAreOwn
<1>8. files' \in [Layouts -> Buttons \cup {Unreadable}] /\ made' \in Seq(Layouts) /\ Len(made') <= Edits
      /\ editors' \in [Editors -> EditorType]
  BY <1>2 DEF KeyboardInv
<1> QED BY <1>3, <1>4, <1>5, <1>6, <1>7, <1>8 DEF KeyboardInv

\* Every step keeps the invariant of the keyboard.
LEMMA KeyboardKept ==
  ASSUME KeyboardInv, [KeyboardNext]_keyboardVars
  PROVE  KeyboardInv'
<1>1. CASE UNCHANGED keyboardVars
  <2>1. UNCHANGED <<files, made, editors, board, known, sends>> BY <1>1 DEF keyboardVars
  <2>2. ButtonsAreOwn' BY <2>1, OwnStays DEF ButtonsAreOwn
  <2> QED BY <2>1, <2>2 DEF KeyboardInv, ClosedSendsNothing
<1> QED BY <1>1, EditorsKept, EditsKept, BoardKept DEF KeyboardNext

\* The invariant gives the types and the two properties of the keyboard.
LEMMA KeyboardSafe == KeyboardInv => KeyboardTypeOK /\ LayoutsAreOwn /\ ClosedSendsNothing
<1> SUFFICES ASSUME KeyboardInv PROVE KeyboardTypeOK /\ LayoutsAreOwn /\ ClosedSendsNothing OBVIOUS
<1>1. LayoutsAreOwn BY DEF KeyboardInv, ButtonsAreOwn, LayoutsAreOwn, MadeFor
<1>2. sends.waiting \cup sends.out \cup ToSet(sends.done) \subseteq 1..KeyClicks /\ sends.clicked \in 0..KeyClicks
  <2>1. sends \in SendsType BY DEF KeyboardInv
  <2>2. sends.done \in Seq(1..KeyClicks) BY <2>1 DEF SendsType
  <2>3. ToSet(sends.done) \subseteq 1..KeyClicks BY <2>2, SetOfSeq
  <2> QED BY <2>1, <2>3 DEF SendsType
<1> QED BY <1>1, <1>2 DEF KeyboardInv, KeyboardTypeOK, EditorType, BoardType

-----------------------------------------------------------------------------
CashType == [at: Places, moves: Places \cup {NoPlace}, sessions: 0..Sessions]
SessionType == [of: Places \cup {NoPlace}, on: BOOLEAN, type: Types \cup {Unknown},
                source: {Unknown, "auto", "manual"}, detects: BOOLEAN]
ClickedType == [tasks: [Tools -> 0..Clicks], clicks: 0..Clicks]
StartedType == [tool: Tools \cup {"database"}, at: Places, password: Places \cup {NoPlace}]
WindowType == [state: {"new", "open", "closed", "gone"},
               at: Places \cup {NoPlace}, password: Places \cup {NoPlace}]

\* No more tasks than clicks.
TasksAreClicked == \A t \in Tools : clicked.tasks[t] <= clicked.clicks

\* A session that is on is of the address the tab has.
SessionIsOfCash == session.on => session.of = cash.at

\* An entry names an open window of its address.
EntryIsOpen ==
  \A p \in Places : registry[p] # NoWindow =>
    windows[registry[p]].state = "open" /\ windows[registry[p]].at = p

ProgramsInv ==
  /\ cash \in CashType
  /\ session \in SessionType
  /\ clicked \in ClickedType
  /\ started \subseteq StartedType
  /\ windows \in [Windows -> WindowType]
  /\ registry \in [Places -> Windows \cup {NoWindow}]
  /\ TasksAreClicked /\ SessionIsOfCash /\ EntryIsOpen
  /\ PasswordsAreOwn

\* What the assumption says of the constants of the external programs.
LEMMA ProgramsNumbers == FirstAt \in Places /\ Sessions \in Nat /\ Clicks \in Nat
BY ProgramsAssumption

\* The programs of a tab start in their invariant.
LEMMA ProgramsInitial == ProgramsInit => ProgramsInv
<1> SUFFICES ASSUME ProgramsInit PROVE ProgramsInv OBVIOUS
<1> USE ProgramsNumbers DEF ProgramsInit
<1>1. cash \in CashType BY DEF CashType
<1>2. session \in SessionType /\ ~session.on BY DEF NoSession, SessionType
<1>3. clicked \in ClickedType /\ TasksAreClicked BY DEF ClickedType, TasksAreClicked
<1>4. windows \in [Windows -> WindowType] BY DEF WindowType
<1>5. EntryIsOpen BY DEF EntryIsOpen
<1>6. PasswordsAreOwn BY DEF PasswordsAreOwn
<1> QED BY <1>1, <1>2, <1>3, <1>4, <1>5, <1>6 DEF ProgramsInv, SessionIsOfCash

\* A session that comes, goes, moves or finds its type keeps the invariant.
LEMMA SessionsKept ==
  ASSUME ProgramsInv,
         Connects \/ LinkIsLost \/ MoveStarts \/ MoveEnds \/ TypeIsFound \/ SelectType
  PROVE  ProgramsInv'
<1>1. UNCHANGED <<clicked, started, windows, registry>>
  BY DEF Connects, LinkIsLost, MoveStarts, MoveEnds, TypeIsFound, SelectType
<1>2. cash \in CashType /\ session \in SessionType /\ SessionIsOfCash BY DEF ProgramsInv
<1>3. NoSession \in SessionType /\ ~NoSession.on BY DEF NoSession, SessionType
<1>4. cash' \in CashType /\ session' \in SessionType /\ SessionIsOfCash'
  <2>1. CASE Connects
    <3> DEFINE n == cash.sessions + 1
    <3>1. n \in 0..Sessions
      <4>1. cash.sessions \in 0..Sessions /\ cash.sessions < Sessions BY <1>2, <2>1 DEF CashType, Connects
      <4> QED BY <4>1, ProgramsNumbers
    <3>2. cash' = [cash EXCEPT !.sessions = n] /\ session' = [NoSession EXCEPT !.of = cash.at, !.on = TRUE, !.detects = TRUE]
      BY <2>1, <1>2 DEF Connects, CashType
    <3> HIDE DEF n
    <3>3. cash' \in CashType /\ cash'.at = cash.at BY <3>1, <3>2, <1>2 DEF CashType
    <3>4. session' \in SessionType /\ session'.of = cash.at
      <4>1. cash.at \in Places BY <1>2 DEF CashType
      <4> QED BY <4>1, <3>2, <1>3 DEF SessionType
    <3> QED BY <3>3, <3>4 DEF SessionIsOfCash
  <2>2. CASE LinkIsLost
    <3>1. session' \in SessionType /\ session'.on = FALSE BY <2>2, <1>2 DEF LinkIsLost, SessionType
    <3> QED BY <3>1, <2>2, <1>2 DEF LinkIsLost, SessionIsOfCash
  <2>3. CASE MoveStarts
    <3>1. session' \in SessionType /\ session'.on = session.on /\ session'.of = session.of
      BY <2>3, <1>2 DEF MoveStarts, SessionType
    <3>2. cash' \in CashType /\ cash'.at = cash.at BY <2>3, <1>2 DEF MoveStarts, CashType
    <3> QED BY <3>1, <3>2, <1>2 DEF SessionIsOfCash
  <2>4. CASE MoveEnds
    <3>1. cash' \in CashType
      <4>1. cash.moves \in Places BY <2>4, <1>2 DEF MoveEnds, CashType
      <4> QED BY <4>1, <2>4, <1>2 DEF MoveEnds, CashType
    <3> QED BY <3>1, <2>4, <1>3 DEF MoveEnds, SessionIsOfCash
  <2>5. CASE TypeIsFound
    <3>1. PICK t \in Types \cup {Unknown} :
            session' = [session EXCEPT !.detects = FALSE, !.type = t,
                                       !.source = IF t = Unknown THEN Unknown ELSE "auto"]
      BY <2>5 DEF TypeIsFound
    <3> DEFINE s == IF t = Unknown THEN Unknown ELSE "auto"
    <3>2. s \in {Unknown, "auto", "manual"} /\ session' = [session EXCEPT !.detects = FALSE, !.type = t, !.source = s]
      BY <3>1
    <3> HIDE DEF s
    <3>3. session' \in SessionType /\ session'.on = session.on /\ session'.of = session.of
      BY <3>2, <1>2 DEF SessionType
    <3> QED BY <3>3, <2>5, <1>2 DEF TypeIsFound, SessionIsOfCash
  <2>6. CASE SelectType
    <3>1. session' \in SessionType /\ session'.on = session.on /\ session'.of = session.of
      BY <2>6, <1>2 DEF SelectType, SessionType
    <3> QED BY <3>1, <2>6, <1>2 DEF SelectType, SessionIsOfCash
  <2> QED BY <2>1, <2>2, <2>3, <2>4, <2>5, <2>6
<1> QED BY <1>1, <1>4 DEF ProgramsInv, TasksAreClicked, EntryIsOpen, PasswordsAreOwn

\* A task that runs was clicked, and its click stays typed.
LEMMA TaskKept ==
  ASSUME ProgramsInv, NEW t \in Tools, TaskRuns(t)
  PROVE  clicked' \in ClickedType /\ TasksAreClicked'
<1>1. clicked \in ClickedType /\ TasksAreClicked BY DEF ProgramsInv
<1> DEFINE n == clicked.tasks[t] - 1
<1>2. n \in 0..Clicks /\ n <= clicked.clicks
  <2>1. clicked.tasks[t] \in 0..Clicks /\ clicked.tasks[t] > 0 /\ clicked.clicks \in 0..Clicks
        /\ clicked.tasks[t] <= clicked.clicks
    BY <1>1 DEF ClickedType, TasksAreClicked, TaskRuns
  <2> QED BY <2>1, ProgramsNumbers
<1>3. clicked' = [clicked EXCEPT !.tasks[t] = n] BY <1>1 DEF TaskRuns, ClickedType
<1> HIDE DEF n
<1>4. clicked' \in ClickedType /\ clicked'.clicks = clicked.clicks
      /\ \A u \in Tools : clicked'.tasks[u] = IF u = t THEN n ELSE clicked.tasks[u]
  BY <1>1, <1>2, <1>3 DEF ClickedType
<1> QED BY <1>1, <1>2, <1>4 DEF TasksAreClicked

\* The accepted password is the one of the present place, if there is any.
LEMMA AcceptedIs ==
  ASSUME ProgramsInv
  PROVE  Accepted \in {cash.at, NoPlace} /\ (session.on => Accepted = cash.at) /\ cash.at \in Places
BY DEF ProgramsInv, CashType, Accepted, SessionIsOfCash

\* A program is started with the password of its own place, or with none.
LEMMA StartKept ==
  ASSUME ProgramsInv, NEW t \in Tools \cup {"database"}, NEW password \in {cash.at, NoPlace},
         StartProgram(t, password)
  PROVE  started' \subseteq StartedType /\ \A s \in started' : s.password \in {s.at, NoPlace}
<1>1. cash.at \in Places BY AcceptedIs
<1>2. started \subseteq StartedType /\ \A s \in started : s.password \in {s.at, NoPlace}
  BY DEF ProgramsInv, PasswordsAreOwn
<1> DEFINE r == [tool |-> t, at |-> cash.at, password |-> password]
<1>3. r \in StartedType /\ r.password \in {r.at, NoPlace} BY <1>1 DEF StartedType
<1>4. started' = started \cup {r} BY DEF StartProgram
<1> HIDE DEF r
<1> QED BY <1>2, <1>3, <1>4

\* Clicking and launching a program keep the invariant.
LEMMA LaunchKept ==
  ASSUME ProgramsInv, (\E t \in Tools : Click(t)) \/ LaunchProgram \/ LaunchSsh \/ LaunchWinscp
  PROVE  ProgramsInv'
<1>1. UNCHANGED <<cash, session, windows, registry>> BY DEF Click, LaunchProgram, LaunchSsh, LaunchWinscp
<1>2. clicked \in ClickedType /\ TasksAreClicked BY DEF ProgramsInv
<1>3. clicked.clicks < Clicks => clicked.clicks + 1 \in 0..Clicks
  BY <1>2, ProgramsNumbers DEF ClickedType
<1>4. \A u \in Tools : clicked.tasks[u] \in 0..Clicks /\ clicked.tasks[u] <= clicked.clicks /\ clicked.clicks \in 0..Clicks
  BY <1>2 DEF ClickedType, TasksAreClicked
<1>5. clicked' \in ClickedType /\ TasksAreClicked'
  <2>1. ASSUME NEW t \in Tools, Click(t) PROVE clicked' \in ClickedType /\ TasksAreClicked'
    <3> DEFINE k == clicked.clicks + 1
               n == clicked.tasks[t] + 1
    <3>1. k \in 0..Clicks /\ n \in 0..Clicks /\ n <= k
          /\ \A u \in Tools : clicked.tasks[u] <= k /\ clicked.tasks[u] \in 0..Clicks
      BY <2>1, <1>3, <1>4, ProgramsNumbers DEF Click
    <3>2. clicked' = [tasks |-> [clicked.tasks EXCEPT ![t] = n], clicks |-> k]
      BY <2>1, <1>2 DEF Click, ClickedType
    <3> HIDE DEF k, n
    <3>3. clicked.tasks \in [Tools -> 0..Clicks] BY <1>2 DEF ClickedType
    <3>4. [clicked.tasks EXCEPT ![t] = n] \in [Tools -> 0..Clicks]
          /\ \A u \in Tools : [clicked.tasks EXCEPT ![t] = n][u] <= k
      BY <3>1, <3>3
    <3> QED BY <3>1, <3>2, <3>4 DEF ClickedType, TasksAreClicked
  <2>2. CASE LaunchProgram
    <3> DEFINE k == clicked.clicks + 1
    <3>1. k \in 0..Clicks /\ clicked' = [clicked EXCEPT !.clicks = k]
          /\ \A u \in Tools : clicked.tasks[u] <= k
      BY <2>2, <1>2, <1>3, <1>4, ProgramsNumbers DEF LaunchProgram, ClickedType
    <3> HIDE DEF k
    <3> QED BY <3>1, <1>2 DEF ClickedType, TasksAreClicked
  <2>3. CASE LaunchSsh BY <2>3, TaskKept DEF LaunchSsh, Tools
  <2>4. CASE LaunchWinscp BY <2>4, TaskKept DEF LaunchWinscp, Tools
  <2> QED BY <2>1, <2>2, <2>3, <2>4
<1>6. started' \subseteq StartedType /\ \A s \in started' : s.password \in {s.at, NoPlace}
  <2>1. UNCHANGED started \/ \E t \in Tools \cup {"database"}, p \in {cash.at, NoPlace} : StartProgram(t, p)
    BY AcceptedIs DEF Click, LaunchProgram, LaunchSsh, LaunchWinscp, Tools
  <2>2. CASE UNCHANGED started BY <2>2 DEF ProgramsInv, PasswordsAreOwn
  <2> QED BY <2>1, <2>2, StartKept
<1> QED BY <1>1, <1>5, <1>6 DEF ProgramsInv, SessionIsOfCash, EntryIsOpen, PasswordsAreOwn

\* Opening the file manager keeps the invariant.
LEMMA OpenKept ==
  ASSUME ProgramsInv, OpenFileManager
  PROVE  ProgramsInv'
<1>1. UNCHANGED <<cash, session, started>> /\ session.on BY DEF OpenFileManager
<1>2. clicked' \in ClickedType /\ TasksAreClicked' BY TaskKept DEF OpenFileManager, Tools
<1>3. windows \in [Windows -> WindowType] /\ registry \in [Places -> Windows \cup {NoWindow}]
      /\ EntryIsOpen /\ \A w \in Windows : windows[w].password = windows[w].at
  BY DEF ProgramsInv, PasswordsAreOwn
<1>4. cash.at \in Places /\ Accepted = cash.at BY <1>1, AcceptedIs
<1>5. /\ windows' \in [Windows -> WindowType] /\ registry' \in [Places -> Windows \cup {NoWindow}]
      /\ EntryIsOpen' /\ \A w \in Windows : windows'[w].password = windows'[w].at
  <2>1. CASE registry[cash.at] # NoWindow
    <3> DEFINE w == registry[cash.at]
    <3>1. w \in Windows /\ windows[w].state = "open" BY <2>1, <1>3, <1>4 DEF EntryIsOpen
    <3>2. windows' = [windows EXCEPT ![w].state = "open"] /\ UNCHANGED registry
      BY <2>1, <3>1 DEF OpenFileManager
    <3> HIDE DEF w
    <3>3. windows' \in [Windows -> WindowType]
          /\ \A v \in Windows : windows'[v].state = windows[v].state /\ windows'[v].at = windows[v].at
                                /\ windows'[v].password = windows[v].password
      BY <3>1, <3>2, <1>3 DEF WindowType
    <3> QED BY <3>2, <3>3, <1>3 DEF EntryIsOpen
  <2>2. CASE registry[cash.at] = NoWindow
    <3>1. PICK n \in Windows :
            /\ windows[n].state = "new"
            /\ windows' = [windows EXCEPT ![n] = [state |-> "open", at |-> cash.at, password |-> Accepted]]
            /\ registry' = [registry EXCEPT ![cash.at] = n]
      BY <2>2 DEF OpenFileManager
    <3>2. windows' \in [Windows -> WindowType] /\ registry' \in [Places -> Windows \cup {NoWindow}]
      BY <3>1, <1>3, <1>4 DEF WindowType
    <3>3. /\ \A v \in Windows : v # n => windows'[v] = windows[v]
          /\ windows'[n].state = "open" /\ windows'[n].at = cash.at /\ windows'[n].password = cash.at
          /\ \A p \in Places : p # cash.at => registry'[p] = registry[p]
          /\ registry'[cash.at] = n
      BY <3>1, <1>3, <1>4
    <3>4. \A p \in Places : registry[p] # NoWindow => registry[p] \in Windows /\ registry[p] # n
      BY <3>1, <1>3 DEF EntryIsOpen
    <3>5. EntryIsOpen'
      <4> SUFFICES ASSUME NEW p \in Places, registry'[p] # NoWindow
                   PROVE  windows'[registry'[p]].state = "open" /\ windows'[registry'[p]].at = p
        BY DEF EntryIsOpen
      <4>1. CASE p = cash.at BY <4>1, <3>3
      <4>2. CASE p # cash.at
        <5>1. registry'[p] = registry[p] /\ registry[p] \in Windows /\ registry[p] # n BY <4>2, <3>3, <3>4
        <5>2. windows'[registry[p]] = windows[registry[p]] BY <5>1, <3>3
        <5> QED BY <5>1, <5>2, <1>3 DEF EntryIsOpen
      <4> QED BY <4>1, <4>2
    <3> QED BY <3>2, <3>3, <3>5, <1>3
  <2> QED BY <2>1, <2>2
<1> QED BY <1>1, <1>2, <1>5 DEF ProgramsInv, SessionIsOfCash, PasswordsAreOwn

\* Closing a program's window, and its destruction, keep the invariant.
LEMMA CloseKept ==
  ASSUME ProgramsInv, NEW w \in Windows, CloseProgram(w) \/ Destroyed(w)
  PROVE  ProgramsInv'
<1>1. UNCHANGED <<cash, session, clicked, started>> BY DEF CloseProgram, Destroyed
<1>2. windows \in [Windows -> WindowType] /\ registry \in [Places -> Windows \cup {NoWindow}]
      /\ EntryIsOpen /\ \A v \in Windows : windows[v].password = windows[v].at
  BY DEF ProgramsInv, PasswordsAreOwn
<1>3. PICK s \in {"closed", "gone"} : windows' = [windows EXCEPT ![w].state = s]
  BY DEF CloseProgram, Destroyed
<1>4. registry' = [registry EXCEPT ![windows[w].at] = NoWindow] BY DEF CloseProgram, Destroyed
<1>5. windows' \in [Windows -> WindowType]
      /\ \A v \in Windows : windows'[v].at = windows[v].at /\ windows'[v].password = windows[v].password
                            /\ (v # w => windows'[v].state = windows[v].state)
  BY <1>2, <1>3 DEF WindowType
<1>6. registry' \in [Places -> Windows \cup {NoWindow}]
      /\ \A p \in Places : registry'[p] = IF p = windows[w].at THEN NoWindow ELSE registry[p]
  BY <1>2, <1>4
<1>7. EntryIsOpen'
  <2> SUFFICES ASSUME NEW p \in Places, registry'[p] # NoWindow
               PROVE  windows'[registry'[p]].state = "open" /\ windows'[registry'[p]].at = p
    BY DEF EntryIsOpen
  <2>1. registry'[p] = registry[p] /\ p # windows[w].at BY <1>6
  <2>2. registry[p] \in Windows /\ windows[registry[p]].state = "open" /\ windows[registry[p]].at = p
    BY <2>1, <1>2 DEF EntryIsOpen
  <2>3. registry[p] # w BY <2>1, <2>2
  <2> QED BY <2>1, <2>2, <2>3, <1>5
<1> QED BY <1>1, <1>2, <1>5, <1>6, <1>7
    DEF ProgramsInv, TasksAreClicked, SessionIsOfCash, PasswordsAreOwn

\* Every step keeps the invariant of the external programs.
LEMMA ProgramsKept ==
  ASSUME ProgramsInv, [ProgramsNext]_programVars
  PROVE  ProgramsInv'
<1>1. CASE UNCHANGED programVars
  BY <1>1 DEF programVars, ProgramsInv, TasksAreClicked, SessionIsOfCash, EntryIsOpen, PasswordsAreOwn
<1> QED BY <1>1, SessionsKept, LaunchKept, OpenKept, CloseKept DEF ProgramsNext

\* The invariant gives the types and the two properties of the external programs.
LEMMA ProgramsSafe == ProgramsInv => ProgramsTypeOK /\ PasswordsAreOwn /\ ReopenedIsFresh
BY DEF ProgramsInv, ProgramsTypeOK, ReopenedIsFresh, EntryIsOpen, CashType, SessionType,
       ClickedType, StartedType, WindowType

-----------------------------------------------------------------------------
KeystoreType == [seal: Keystores, file: 0..Corrupt, keyring: 0..Keys, made: 0..Keys]
FileType == [readable: BOOLEAN, saved: SettingsRecords]
DialogType == [open: BOOLEAN, typed: 0..Typings, cleared: BOOLEAN]
WizardType == [state: {"none", "open", "saved", "left"}, typed: 0..Typings,
               check: {"none", "runs", "cancelled"}, prev: Passwords, before: SettingsRecords]

\* Passwords that the program can decrypt, where the file holds the key.
Own(p) == keystore.seal # "keyring" /\ p.typed # 0 => p.key = fernet

\* Where the file holds the key: it is the key of the program that runs, and
\* what was saved needs it, unless the file was corrupted since.
KeyIsInFile ==
  keystore.seal # "keyring" =>
    /\ AppRuns => keystore.file = fernet
    /\ file.readable /\ file.saved.passwords.typed # 0 =>
         /\ keystore.file # NoKey
         /\ keystore.file = Corrupt \/ file.saved.passwords.key = keystore.file
    /\ Own(settings.passwords) /\ Own(wizard.prev)

\* Nothing is in memory of a program that does not run.
StoppedIsEmpty == ~AppRuns => settings = Defaults /\ wizard = NoWizard /\ ~dialog.open

\* What a wizard that has saved nothing has to bring back, and the file still has.
WizardUndoes ==
  wizard.state \in {"open", "left"} =>
    /\ ~dialog.open
    /\ file.readable => file.saved = wizard.before
    /\ settings.completed = wizard.before.completed
    /\ wizard.before.passwords =
         IF wizard.check = "none" THEN settings.passwords ELSE wizard.prev

SettingsInv ==
  /\ SettingsTypeOK /\ KeyIsInFile /\ StoppedIsEmpty /\ WizardUndoes

\* What the assumption says of the constants of the settings.
LEMMA SettingsNumbers ==
  /\ Typings \in Nat /\ Typings >= 1 /\ Keys \in Nat /\ Keys >= 1
  /\ Keystores \subseteq {"dpapi", "keyring", "file"}
BY SettingsAssumption

\* The type of each variable, from the invariant.
LEMMA SettingsTypes ==
  ASSUME SettingsInv
  PROVE  /\ keystore \in KeystoreType /\ fernet \in 0..Keys /\ settings \in SettingsRecords
         /\ file \in FileType /\ dialog \in DialogType /\ wizard \in WizardType /\ typed \in 0..Typings
BY DEF SettingsInv, SettingsTypeOK, KeystoreType, FileType, DialogType, WizardType

\* The types of all variables after a step, put together.
LEMMA SettingsTyped ==
  ASSUME keystore' \in KeystoreType, fernet' \in 0..Keys, settings' \in SettingsRecords,
         file' \in FileType, dialog' \in DialogType, wizard' \in WizardType, typed' \in 0..Typings
  PROVE  SettingsTypeOK'
BY DEF SettingsTypeOK, KeystoreType, FileType, DialogType, WizardType

\* The fixed records of the settings, their types and the fields the proofs ask for.
LEMMA Fixed ==
  /\ NoPasswords \in Passwords /\ NoPasswords.typed = 0
  /\ Defaults \in SettingsRecords /\ Defaults.passwords.typed = 0
  /\ NotThere \in FileType /\ ~NotThere.readable
  /\ Closed \in DialogType /\ ~Closed.open
  /\ NoWizard \in WizardType /\ NoWizard.state = "none" /\ NoWizard.prev.typed = 0
  /\ NoWizard.check = "none" /\ NoWizard.prev = NoPasswords
<1>1. NoPasswords \in Passwords /\ NoPasswords.typed = 0
  BY SettingsNumbers DEF NoPasswords, Passwords, NoKey
<1>2. Defaults \in SettingsRecords /\ Defaults.passwords.typed = 0
  BY <1>1 DEF Defaults, SettingsRecords
<1>3. NotThere \in FileType /\ ~NotThere.readable BY <1>2 DEF NotThere, FileType
<1>4. Closed \in DialogType /\ ~Closed.open BY SettingsNumbers DEF Closed, DialogType
<1>5. 0 \in 0..Typings BY SettingsNumbers
<1>6. NoWizard \in WizardType /\ NoWizard.state = "none" /\ NoWizard.prev.typed = 0
      /\ NoWizard.check = "none" /\ NoWizard.prev = NoPasswords
  BY <1>1, <1>2, <1>5 DEF NoWizard, WizardType
<1> QED BY <1>1, <1>2, <1>3, <1>4, <1>6

\* The settings start in their invariant.
LEMMA SettingsInitial == SettingsInit => SettingsInv
<1> SUFFICES ASSUME SettingsInit PROVE SettingsInv OBVIOUS
<1>1. fernet = NoKey /\ settings = Defaults /\ file = NotThere /\ dialog = Closed /\ wizard = NoWizard /\ typed = 0
  BY DEF SettingsInit
<1>2. PICK s \in Keystores : keystore = [seal |-> s, file |-> NoKey, keyring |-> NoKey, made |-> 0]
  BY DEF SettingsInit
<1>3. keystore \in KeystoreType BY <1>2, SettingsNumbers DEF KeystoreType, Corrupt, NoKey
<1>4. SettingsTypeOK
  BY <1>1, <1>3, Fixed, SettingsNumbers DEF SettingsTypeOK, KeystoreType, FileType, DialogType, WizardType, NoKey
<1>5. ~AppRuns BY <1>1 DEF AppRuns
<1> QED BY <1>1, <1>4, <1>5, Fixed DEF SettingsInv, KeyIsInFile, StoppedIsEmpty, WizardUndoes, Own

\* The key after a start: of the file, where the file holds it.
LEMMA KeyIsLoaded ==
  ASSUME SettingsInv, LoadOrCreateKey
  PROVE  /\ keystore' \in KeystoreType /\ fernet' \in 0..Keys /\ keystore'.seal = keystore.seal
         /\ keystore.seal # "keyring" =>
              /\ keystore'.file = fernet' /\ fernet' # NoKey
              /\ keystore.file # NoKey => keystore'.file = keystore.file /\ keystore.file # Corrupt
<1>1. keystore \in KeystoreType BY SettingsTypes
<1>2. keystore.file \in 0..Corrupt /\ keystore.keyring \in 0..Keys /\ keystore.made \in 0..Keys /\ Keys \in Nat
      /\ NoKey = 0 /\ Corrupt = Keys + 1
  BY <1>1, SettingsNumbers DEF KeystoreType, NoKey, Corrupt
<1>3. ASSUME NEW k \in 1..Keys, WriteKey(k)
      PROVE  /\ keystore' \in KeystoreType /\ keystore'.seal = keystore.seal
             /\ keystore.seal # "keyring" => keystore'.file = k
  <2> DEFINE m == IF k > keystore.made THEN k ELSE keystore.made
  <2>1. m \in 0..Keys /\ k \in 0..Keys /\ k \in 0..Corrupt /\ NoKey \in 0..Corrupt BY <1>2
  <2>2. CASE keystore.seal = "keyring"
    <3>1. PICK ok \in BOOLEAN :
            keystore' = [keystore EXCEPT !.file = NoKey, !.keyring = IF ok THEN k ELSE @, !.made = IF k > @ THEN k ELSE @]
      BY <2>2, <1>3 DEF WriteKey
    <3> DEFINE r == IF ok THEN k ELSE keystore.keyring
    <3>2. r \in 0..Keys BY <2>1, <1>2
    <3>3. keystore' = [keystore EXCEPT !.file = NoKey, !.keyring = r, !.made = m] BY <3>1, <1>1 DEF KeystoreType
    <3> HIDE DEF r, m
    <3>4. keystore' \in KeystoreType /\ keystore'.seal = keystore.seal BY <1>1, <2>1, <3>2, <3>3 DEF KeystoreType
    <3> QED BY <3>4, <2>2
  <2>3. CASE keystore.seal # "keyring"
    <3>1. keystore' = [keystore EXCEPT !.file = k, !.made = m] BY <2>3, <1>3, <1>1 DEF WriteKey, KeystoreType
    <3> HIDE DEF m
    <3> QED BY <1>1, <2>1, <3>1 DEF KeystoreType
  <2> QED BY <2>2, <2>3
<1>4. CASE keystore.file # NoKey
  <2>1. CASE keystore.seal = "keyring" /\ keystore.keyring # NoKey
    BY <1>1, <1>2, <1>4, <2>1 DEF LoadOrCreateKey, LoadKey
  <2>2. CASE ~(keystore.seal = "keyring" /\ keystore.keyring # NoKey)
    <3>1. keystore.file # Corrupt /\ fernet' = keystore.file /\ WriteKey(keystore.file)
      BY <1>4, <2>2 DEF LoadOrCreateKey, LoadKey
    <3>2. keystore.file \in 1..Keys BY <3>1, <1>2, <1>4
    <3>3. fernet' \in 0..Keys /\ fernet' # NoKey BY <3>1, <3>2, <1>2
    <3>4. /\ keystore' \in KeystoreType /\ keystore'.seal = keystore.seal
          /\ keystore.seal # "keyring" => keystore'.file = keystore.file
      BY <3>1, <3>2, <1>3
    <3> QED BY <3>1, <3>3, <3>4
  <2> QED BY <2>1, <2>2
<1>5. CASE keystore.file = NoKey
  <2> DEFINE k == keystore.made + 1
  <2>1. keystore.made < Keys /\ fernet' = k /\ WriteKey(k) BY <1>5 DEF LoadOrCreateKey, GenerateKey
  <2>2. k \in 1..Keys BY <2>1, <1>2
  <2> HIDE DEF k
  <2>3. fernet' \in 0..Keys /\ fernet' # NoKey BY <2>1, <2>2, <1>2
  <2>4. /\ keystore' \in KeystoreType /\ keystore'.seal = keystore.seal
        /\ keystore.seal # "keyring" => keystore'.file = k
    BY <2>1, <2>2, <1>3
  <2> QED BY <2>1, <2>3, <2>4, <1>5
<1> QED BY <1>4, <1>5

\* The start of the program, which may open the wizard, keeps the invariant.
LEMMA WizardStartsKept ==
  ASSUME SettingsInv, ProgramStarts
  PROVE  SettingsInv'
<1> DEFINE start == IF file.readable THEN file.saved ELSE Defaults
<1>1. /\ file \in FileType /\ ~AppRuns /\ typed \in 0..Typings
      /\ LoadOrCreateKey /\ settings' = start /\ dialog' = Closed /\ UNCHANGED <<file, typed>>
      /\ wizard' = IF start.completed THEN NoWizard
                   ELSE [NoWizard EXCEPT !.state = "open", !.before = start]
  BY SettingsTypes DEF ProgramStarts
<1>2. start \in SettingsRecords BY <1>1, Fixed DEF FileType
<1>3. file.readable => file.saved = start OBVIOUS
<1>4. start.passwords.typed # 0 => file.readable /\ file.saved = start BY Fixed
<1> HIDE DEF start
<1>5. /\ wizard' \in WizardType /\ wizard'.prev.typed = 0 /\ wizard'.check = "none"
      /\ wizard'.state \in {"open", "left"} => wizard'.before = start
  BY <1>1, <1>2, Fixed DEF WizardType
<1>6. /\ keystore' \in KeystoreType /\ fernet' \in 0..Keys /\ keystore'.seal = keystore.seal
      /\ keystore.seal # "keyring" =>
           /\ keystore'.file = fernet' /\ fernet' # NoKey
           /\ keystore.file # NoKey => keystore'.file = keystore.file /\ keystore.file # Corrupt
  BY <1>1, KeyIsLoaded
<1>7. SettingsTypeOK' BY <1>1, <1>2, <1>5, <1>6, Fixed, SettingsTyped
<1>8. KeyIsInFile'
  <2> SUFFICES ASSUME keystore'.seal # "keyring" PROVE KeyIsInFile' BY DEF KeyIsInFile
  <2>1. keystore'.file = fernet' /\ fernet' # NoKey BY <1>6
  <2>2. file.readable /\ file.saved.passwords.typed # 0 =>
          keystore.file # NoKey /\ (keystore.file = Corrupt \/ file.saved.passwords.key = keystore.file)
    BY <1>6 DEF SettingsInv, KeyIsInFile
  <2>3. file.readable /\ file.saved.passwords.typed # 0 => file.saved.passwords.key = fernet'
    BY <2>1, <2>2, <1>6
  <2>4. Own(settings.passwords)' BY <2>3, <1>1, <1>4 DEF Own
  <2>5. Own(wizard.prev)' BY <1>5 DEF Own
  <2>6. file' = file BY <1>1
  <2> QED BY <2>1, <2>3, <2>4, <2>5, <2>6 DEF KeyIsInFile
<1>9. WizardUndoes' BY <1>1, <1>3, <1>5, Fixed DEF WizardUndoes
<1>10. StoppedIsEmpty'
  <2>1. CASE keystore.seal # "keyring" BY <2>1, <1>6 DEF StoppedIsEmpty, AppRuns
  <2>2. CASE keystore.seal = "keyring"
    <3>1. fernet' # NoKey
      <4>1. keystore \in KeystoreType BY SettingsTypes
      <4>2. keystore.made \in 0..Keys /\ NoKey = 0 /\ Keys \in Nat BY <4>1, SettingsNumbers DEF KeystoreType, NoKey
      <4>3. CASE keystore.file = NoKey BY <4>2, <4>3, <1>1 DEF LoadOrCreateKey, GenerateKey
      <4>4. CASE keystore.file # NoKey BY <4>4, <1>1 DEF LoadOrCreateKey, LoadKey
      <4> QED BY <4>3, <4>4
    <3> QED BY <3>1 DEF StoppedIsEmpty, AppRuns
  <2> QED BY <2>1, <2>2
<1> QED BY <1>7, <1>8, <1>9, <1>10 DEF SettingsInv

\* Stopping and crashing keep the invariant.
LEMMA StopsKept ==
  ASSUME SettingsInv, ProgramStops \/ Crash
  PROVE  SettingsInv'
<1>1. /\ fernet' = NoKey /\ settings' = Defaults /\ dialog' = Closed /\ wizard' = NoWizard /\ UNCHANGED typed
      /\ keystore' \in {keystore, [keystore EXCEPT !.file = Corrupt]} /\ file' \in {file, NotThere}
  BY DEF ProgramStops, Crash
<1>2. keystore \in KeystoreType /\ file \in FileType /\ typed \in 0..Typings BY SettingsTypes
<1>3. Corrupt \in 0..Corrupt /\ NoKey \in 0..Keys /\ Corrupt # NoKey BY SettingsNumbers DEF Corrupt, NoKey
<1>4. keystore' \in KeystoreType /\ keystore'.seal = keystore.seal /\ keystore'.file \in {keystore.file, Corrupt}
  BY <1>1, <1>2, <1>3 DEF KeystoreType
<1>5. SettingsTypeOK' BY <1>1, <1>2, <1>3, <1>4, Fixed, SettingsTyped
<1>6. ~AppRuns' BY <1>1 DEF AppRuns
<1>7. KeyIsInFile'
  <2>1. Own(settings.passwords)' /\ Own(wizard.prev)' BY <1>1, Fixed DEF Own
  <2> QED BY <2>1, <1>1, <1>3, <1>4, <1>6, Fixed DEF SettingsInv, KeyIsInFile
<1> QED BY <1>1, <1>5, <1>6, <1>7, Fixed DEF SettingsInv, StoppedIsEmpty, WizardUndoes

\* A step of a program that runs: what it has to leave behind.
LEMMA RunsKept ==
  ASSUME SettingsInv, AppRuns, UNCHANGED <<keystore, fernet>>,
         settings' \in SettingsRecords, Own(settings'.passwords),
         file' \in FileType, file' = file \/ file'.saved = settings',
         dialog' \in DialogType,
         wizard' \in WizardType, Own(wizard'.prev), WizardUndoes',
         typed' \in 0..Typings
  PROVE  SettingsInv'
<1>1. SettingsTypeOK' BY SettingsTypes, SettingsTyped
<1>2. AppRuns' /\ StoppedIsEmpty' BY DEF AppRuns, StoppedIsEmpty
<1>3. KeyIsInFile'
  <2> SUFFICES ASSUME keystore.seal # "keyring" PROVE KeyIsInFile' BY DEF KeyIsInFile
  <2>1. /\ keystore.file = fernet /\ fernet # NoKey
        /\ file.readable /\ file.saved.passwords.typed # 0 =>
             keystore.file # NoKey /\ (keystore.file = Corrupt \/ file.saved.passwords.key = keystore.file)
    BY DEF SettingsInv, KeyIsInFile, AppRuns
  <2>2. Own(settings.passwords)' /\ Own(wizard.prev)' BY DEF Own
  <2>3. file'.readable /\ file'.saved.passwords.typed # 0 =>
             keystore.file # NoKey /\ (keystore.file = Corrupt \/ file'.saved.passwords.key = keystore.file)
    BY <2>1 DEF Own
  <2> QED BY <2>1, <2>2, <2>3 DEF KeyIsInFile
<1> QED BY <1>1, <1>2, <1>3 DEF SettingsInv

\* What is encrypted now is under the present key, unless the keyring holds it.
LEMMA EncryptedIs ==
  ASSUME SettingsInv, NEW n \in 0..Typings
  PROVE  Encrypted(n) \in Passwords /\ Own(Encrypted(n))
BY SettingsTypes DEF Encrypted, Passwords, Own

\* So are the passwords in memory and those the wizard would restore.
LEMMA OwnNow ==
  ASSUME SettingsInv
  PROVE  Own(settings.passwords) /\ Own(wizard.prev)
BY DEF SettingsInv, KeyIsInFile, Own

\* What is open belongs to a program that runs.
LEMMA OpenRuns ==
  ASSUME SettingsInv, dialog.open \/ wizard.state # "none" \/ wizard.check # "none"
  PROVE  AppRuns
BY Fixed DEF SettingsInv, StoppedIsEmpty

\* Steps that leave settings and file alone, and the wizard.
LEMMA DialogKept ==
  ASSUME SettingsInv, OpenDialog \/ TypeInDialog \/ ShowPasswords \/ ClearPasswords \/ CancelDialog
  PROVE  SettingsInv'
<1>1. UNCHANGED <<keystore, fernet, settings, file, wizard>>
  BY DEF OpenDialog, TypeInDialog, ShowPasswords, ClearPasswords, CancelDialog
<1>2. AppRuns BY OpenRuns DEF OpenDialog, TypeInDialog, ShowPasswords, ClearPasswords, CancelDialog
<1>3. dialog \in DialogType /\ typed \in 0..Typings /\ settings \in SettingsRecords /\ Typings \in Nat
  BY SettingsTypes, SettingsNumbers
<1>4. dialog' \in DialogType /\ typed' \in 0..Typings /\ (wizard.state \in {"open", "left"} => ~dialog'.open)
  <2>0. dialog.open => wizard.state \notin {"open", "left"} BY DEF SettingsInv, WizardUndoes
  <2>1. CASE OpenDialog
    <3>1. SettingsRead \in DialogType BY <1>3 DEF SettingsRead, DialogType
    <3> QED BY <3>1, <2>1, <1>3 DEF OpenDialog
  <2>2. CASE TypeInDialog
    <3> DEFINE n == typed + 1
    <3>1. n \in 0..Typings /\ typed' = n /\ dialog' = [dialog EXCEPT !.typed = n] BY <2>2, <1>3 DEF TypeInDialog
    <3> HIDE DEF n
    <3> QED BY <3>1, <2>0, <2>2, <1>3 DEF DialogType, TypeInDialog
  <2>3. CASE ShowPasswords
    <3>1. settings.passwords.typed \in 0..Typings BY <1>3 DEF SettingsRecords, Passwords
    <3>2. dialog' = [dialog EXCEPT !.typed = settings.passwords.typed] /\ dialog.open /\ UNCHANGED typed
      BY <2>3 DEF ShowPasswords
    <3>3. dialog' \in DialogType BY <3>1, <3>2, <1>3 DEF DialogType
    <3>4. typed' \in 0..Typings BY <3>2, <1>3
    <3>5. wizard.state \notin {"open", "left"} BY <3>2, <2>0
    <3>6. dialog' \in DialogType /\ typed' \in 0..Typings BY <3>3, <3>4
    <3> QED BY <3>5, <3>6
  <2>4. CASE ClearPasswords
    <3>1. dialog' = [dialog EXCEPT !.typed = 0, !.cleared = TRUE] /\ dialog.open /\ UNCHANGED typed
      BY <2>4 DEF ClearPasswords
    <3>2. dialog' \in DialogType
      <4>1. dialog \in DialogType /\ 0 \in 0..Typings BY <1>3
      <4>2. dialog' = [dialog EXCEPT !.typed = 0, !.cleared = TRUE] BY <3>1
      <4> HIDE <3>1
      <4> QED BY <4>1, <4>2 DEF DialogType
    <3>3. typed' \in 0..Typings BY <3>1, <1>3
    <3>4. wizard.state \notin {"open", "left"} BY <3>1, <2>0
    <3>5. dialog' \in DialogType /\ typed' \in 0..Typings BY <3>2, <3>3
    <3> QED BY <3>4, <3>5
  <2>5. CASE CancelDialog BY <2>5, <1>3, Fixed DEF CancelDialog
  <2> QED BY <2>1, <2>2, <2>3, <2>4, <2>5
<1>5. WizardUndoes' BY <1>1, <1>4 DEF SettingsInv, WizardUndoes
<1> QED BY <1>1, <1>2, <1>4, <1>5, OwnNow, SettingsTypes, RunsKept

\* Saving another setting, and saving the dialog, keep the invariant.
LEMMA SavesKept ==
  ASSUME SettingsInv, UpdateOther \/ SaveDialog
  PROVE  SettingsInv'
<1>1. UNCHANGED <<keystore, fernet, wizard, typed>> /\ AppRuns
  BY OpenRuns DEF UpdateOther, SaveDialog
<1>2. settings \in SettingsRecords /\ file \in FileType /\ dialog \in DialogType
  BY SettingsTypes
<1>3. wizard.state \notin {"open", "left"} BY DEF UpdateOther, SaveDialog, SettingsInv, WizardUndoes
<1>4. Edited \in Passwords /\ Own(Edited)
  <2>1. dialog.typed \in 0..Typings BY <1>2 DEF DialogType
  <2>2. settings.passwords \in Passwords BY <1>2 DEF SettingsRecords
  <2>3. Own(NoPasswords) BY Fixed DEF Own
  <2> QED BY <2>1, <2>2, <2>3, Fixed, EncryptedIs, OwnNow DEF Edited
<1>5. settings' \in SettingsRecords /\ Own(settings'.passwords)
  <2>1. settings' = settings \/ settings' = [settings EXCEPT !.passwords = Edited]
    BY DEF UpdateOther, SaveDialog
  <2>2. CASE settings' = [settings EXCEPT !.passwords = Edited]
    <3>1. settings' \in SettingsRecords /\ settings'.passwords = Edited BY <2>2, <1>2, <1>4 DEF SettingsRecords
    <3> QED BY <3>1, <1>4
  <2> QED BY <2>1, <2>2, <1>2, OwnNow
<1>6. file' \in FileType /\ (file' = file \/ file'.saved = settings')
  <2>1. CASE UNCHANGED file BY <2>1, <1>2
  <2>2. CASE Saved BY <2>2, <1>5 DEF FileType, Saved
  <2> QED BY <2>1, <2>2 DEF UpdateOther, SaveDialog
<1>7. dialog' \in DialogType BY <1>2, Fixed DEF UpdateOther, SaveDialog
<1>8. WizardUndoes' BY <1>1, <1>3 DEF WizardUndoes
<1> QED BY <1>1, <1>5, <1>6, <1>7, <1>8, OwnNow, SettingsTypes, RunsKept

\* Every step of the wizard keeps the invariant.
LEMMA WizardKept ==
  ASSUME SettingsInv, TypeInWizard \/ StartCheck \/ CheckEnds \/ SaveWizard \/ LeaveWizard
  PROVE  SettingsInv'
<1>1. UNCHANGED <<keystore, fernet, dialog>>
  BY DEF TypeInWizard, StartCheck, CheckEnds, SaveWizard, LeaveWizard
<1>2. AppRuns BY OpenRuns DEF TypeInWizard, StartCheck, CheckEnds, SaveWizard, LeaveWizard
<1>3. /\ settings \in SettingsRecords /\ file \in FileType /\ dialog \in DialogType
      /\ wizard \in WizardType /\ typed \in 0..Typings
  BY SettingsTypes
<1>4. settings.passwords \in Passwords /\ settings.completed \in BOOLEAN
      /\ wizard.typed \in 0..Typings /\ wizard.prev \in Passwords
  BY <1>3 DEF SettingsRecords, WizardType
<1>5. Own(settings.passwords) /\ Own(wizard.prev) BY OwnNow
<1> DEFINE check == IF wizard.check = "runs" THEN "cancelled" ELSE wizard.check
<1>6. check \in {"none", "runs", "cancelled"} /\ (check = "none" <=> wizard.check = "none")
  BY <1>3 DEF WizardType
<1>7. WizardUndoes BY DEF SettingsInv
<1>8. /\ settings' \in SettingsRecords /\ Own(settings'.passwords)
      /\ file' \in FileType /\ (file' = file \/ file'.saved = settings')
      /\ wizard' \in WizardType /\ Own(wizard'.prev) /\ typed' \in 0..Typings /\ WizardUndoes'
  <2>1. CASE TypeInWizard
    <3> DEFINE n == typed + 1
    <3>1. n \in 0..Typings BY <2>1, <1>3, SettingsNumbers DEF TypeInWizard
    <3>2. typed' = n /\ wizard' = [wizard EXCEPT !.typed = n] /\ UNCHANGED <<settings, file>> BY <2>1 DEF TypeInWizard
    <3> HIDE DEF n
    <3>3. wizard' \in WizardType /\ wizard'.state = wizard.state /\ wizard'.check = wizard.check
          /\ wizard'.prev = wizard.prev /\ wizard'.before = wizard.before
      BY <3>1, <3>2, <1>3 DEF WizardType
    <3> QED BY <3>1, <3>2, <3>3, <1>1, <1>3, <1>5, <1>7 DEF WizardUndoes
  <2>2. CASE StartCheck
    <3> DEFINE p == IF wizard.typed = 0 THEN NoPasswords ELSE Encrypted(wizard.typed)
    <3>1. p \in Passwords /\ Own(p)
      <4>1. Own(NoPasswords) BY Fixed DEF Own
      <4> QED BY <4>1, <1>4, Fixed, EncryptedIs
    <3>2. /\ settings' = [settings EXCEPT !.passwords = p]
          /\ wizard' = [wizard EXCEPT !.check = "runs", !.prev = settings.passwords]
          /\ wizard.check = "none" /\ UNCHANGED <<file, typed>>
      BY <2>2 DEF StartCheck
    <3> HIDE DEF p
    <3>3. settings' \in SettingsRecords /\ settings'.passwords = p /\ settings'.completed = settings.completed
      BY <3>1, <3>2, <1>3 DEF SettingsRecords
    <3>4. wizard' \in WizardType /\ wizard'.state = wizard.state /\ wizard'.check = "runs"
          /\ wizard'.prev = settings.passwords /\ wizard'.before = wizard.before
      BY <3>2, <1>3, <1>4 DEF WizardType
    <3> QED BY <3>1, <3>2, <3>3, <3>4, <1>1, <1>3, <1>5, <1>7 DEF WizardUndoes
  <2>3. CASE CheckEnds
    <3>1. /\ settings' = [settings EXCEPT !.passwords = wizard.prev] /\ wizard.check # "none"
          /\ wizard' = [wizard EXCEPT !.check = "none", !.prev = NoPasswords] /\ UNCHANGED <<file, typed>>
      BY <2>3 DEF CheckEnds
    <3>2. settings' \in SettingsRecords /\ settings'.passwords = wizard.prev /\ settings'.completed = settings.completed
      BY <3>1, <1>3, <1>4 DEF SettingsRecords
    <3>3. wizard' \in WizardType /\ wizard'.state = wizard.state /\ wizard'.check = "none"
          /\ wizard'.prev = NoPasswords /\ wizard'.before = wizard.before
      BY <3>1, <1>3, Fixed DEF WizardType
    <3>4. Own(NoPasswords) BY Fixed DEF Own
    <3> QED BY <3>1, <3>2, <3>3, <3>4, <1>1, <1>3, <1>5, <1>7 DEF WizardUndoes
  <2>4. CASE SaveWizard
    <3> DEFINE p == IF wizard.typed = 0 THEN settings.passwords ELSE Encrypted(wizard.typed)
    <3>1. p \in Passwords /\ Own(p) BY <1>4, <1>5, EncryptedIs
    <3>2. /\ settings' = [passwords |-> p, completed |-> TRUE]
          /\ file' = [readable |-> TRUE, saved |-> settings']
          /\ wizard' = [wizard EXCEPT !.state = "saved", !.check = check] /\ UNCHANGED typed
      BY <2>4, <1>3 DEF SaveWizard, Saved, WizardType
    <3> HIDE DEF p, check
    <3>3. settings' \in SettingsRecords /\ settings'.passwords = p BY <3>1, <3>2 DEF SettingsRecords
    <3>4. wizard' \in WizardType /\ wizard'.state = "saved" /\ wizard'.prev = wizard.prev
      BY <3>2, <1>3, <1>6 DEF WizardType
    <3>5. file' \in FileType /\ file'.saved = settings' BY <3>2, <3>3 DEF FileType
    <3> QED BY <3>1, <3>2, <3>3, <3>4, <3>5, <1>3, <1>5 DEF WizardUndoes
  <2>5. CASE LeaveWizard
    <3>1. /\ wizard' = [wizard EXCEPT !.state = "left", !.check = check]
          /\ wizard.state = "open" /\ UNCHANGED <<settings, file, typed>>
      BY <2>5, <1>3 DEF LeaveWizard, WizardType
    <3> HIDE DEF check
    <3>2. wizard' \in WizardType /\ wizard'.prev = wizard.prev /\ wizard'.check = check
          /\ wizard'.before = wizard.before
      BY <3>1, <1>3, <1>6 DEF WizardType
    <3> QED BY <3>1, <3>2, <1>1, <1>3, <1>5, <1>6, <1>7 DEF WizardUndoes
  <2> QED BY <2>1, <2>2, <2>3, <2>4, <2>5
<1> HIDE DEF check
<1> QED BY <1>1, <1>2, <1>3, <1>8, RunsKept

\* Every step keeps the invariant of the settings.
LEMMA SettingsKept ==
  ASSUME SettingsInv, [SettingsNext]_settingsVars
  PROVE  SettingsInv'
<1>1. CASE UNCHANGED settingsVars
  BY <1>1 DEF settingsVars, SettingsInv, SettingsTypeOK, KeyIsInFile, StoppedIsEmpty, WizardUndoes, Own, AppRuns
<1> QED BY <1>1, WizardStartsKept, StopsKept, DialogKept, SavesKept, WizardKept DEF SettingsNext

\* The invariant gives the types and the two properties of the settings.
LEMMA SettingsSafe == SettingsInv => SettingsTypeOK /\ PasswordsReadable /\ CheckIsUndone
<1> SUFFICES ASSUME SettingsInv PROVE SettingsTypeOK /\ PasswordsReadable /\ CheckIsUndone OBVIOUS
<1>1. PasswordsReadable
  <2>1. fernet \in 0..Keys /\ Keys \in Nat BY SettingsTypes, SettingsNumbers
  <2>2. fernet # Corrupt BY <2>1 DEF Corrupt
  <2> QED BY <2>2 DEF SettingsInv, KeyIsInFile, PasswordsReadable
<1>2. CheckIsUndone
  <2> SUFFICES ASSUME wizard.state = "left", wizard.check = "none"
               PROVE  settings = wizard.before /\ (file.readable => file.saved = wizard.before)
    BY DEF CheckIsUndone
  <2>1. settings \in SettingsRecords /\ wizard.before \in SettingsRecords BY SettingsTypes DEF WizardType
  <2>2. settings.passwords = wizard.before.passwords /\ settings.completed = wizard.before.completed
        /\ (file.readable => file.saved = wizard.before)
    BY DEF SettingsInv, WizardUndoes
  <2>3. settings = [passwords |-> settings.passwords, completed |-> settings.completed]
        /\ wizard.before = [passwords |-> wizard.before.passwords, completed |-> wizard.before.completed]
    BY <2>1 DEF SettingsRecords
  <2> QED BY <2>2, <2>3
<1> QED BY <1>1, <1>2 DEF SettingsInv

\* Passwords vanish with the save of a dialog in which they were cleared, but
\* for a check and the end of the program.
LEMMA ClearedKept ==
  ASSUME SettingsInv, [SettingsNext]_settingsVars,
         settings.passwords.typed # 0, settings'.passwords.typed = 0, AppRuns',
         wizard.check = "none", wizard'.check = "none"
  PROVE  dialog.open /\ dialog.cleared
<1>1. settings \in SettingsRecords /\ settings' # settings BY SettingsTypes
<1>2. CASE ProgramStarts
  BY <1>2, Fixed DEF ProgramStarts, SettingsInv, StoppedIsEmpty
<1>3. CASE ProgramStops \/ Crash
  BY <1>3 DEF ProgramStops, Crash, AppRuns
<1>4. CASE SaveDialog
  <2>1. dialog.open /\ settings' = [settings EXCEPT !.passwords = Edited] BY <1>1, <1>4 DEF SaveDialog
  <2>2. Edited.typed = 0 BY <2>1, <1>1 DEF SettingsRecords
  <2> QED BY <2>1, <2>2 DEF Edited, Encrypted
<1>5. CASE StartCheck \/ CheckEnds
  <2>1. wizard \in WizardType BY SettingsTypes
  <2> QED BY <1>5, <2>1 DEF StartCheck, CheckEnds, WizardType
<1>6. CASE SaveWizard
  BY <1>6 DEF SaveWizard, Encrypted
<1>7. CASE UpdateOther \/ OpenDialog \/ TypeInDialog \/ ShowPasswords \/ ClearPasswords
           \/ CancelDialog \/ TypeInWizard \/ LeaveWizard \/ UNCHANGED settingsVars
  BY <1>1, <1>7 DEF UpdateOther, OpenDialog, TypeInDialog, ShowPasswords, ClearPasswords,
                    CancelDialog, TypeInWizard, LeaveWizard, settingsVars
<1> QED BY <1>2, <1>3, <1>4, <1>5, <1>6, <1>7 DEF SettingsNext

-----------------------------------------------------------------------------
ActionType == [body: 0..NoBody, builtin: BOOLEAN]
FormType == [name: CommandNames \cup {"no name"}, suffix: FileSuffixes, body: 0..NoBody]
CmdEditorType == [mode: {"closed", "idle", "view", "edit", "new"}, file: CommandFiles \cup {NoFile},
                  orig: CommandNames \cup {"no name"}, new: BOOLEAN, form: FormType]
RunType == [body: 0..NoBody, step: 0..CommandSteps, broke: BOOLEAN,
            result: {"none", "runs", "success", "failure"}]

\* A form that can be saved has a name; what is viewed or edited has a file.
EditorHasFile ==
  /\ cmdEditor.form.body # NoBody => cmdEditor.form.name \in CommandNames
  /\ cmdEditor.mode \in {"view", "edit"} => cmdEditor.file \in CommandFiles /\ ~cmdEditor.new
  /\ cmdEditor.mode = "new" => cmdEditor.new
  /\ cmdEditor.mode \in {"closed", "idle"} => ~cmdEditor.new

CommandsInv ==
  /\ dir \in [CommandFiles -> 0..NoBody]
  /\ actions \in [CommandNames -> ActionType]
  /\ cmdEditor \in CmdEditorType
  /\ bodies \in 0..Bodies
  /\ run \in RunType
  /\ EditorHasFile
  /\ FormIsFile
  /\ BreakIsFailure

\* What the assumption says of the bodies of commands, and how the special ones differ from a
\* typed one.
LEMMA CommandsNumbers ==
  /\ Bodies \in Nat /\ Bodies >= 1 /\ CommandSteps \in Nat /\ Builtin \subseteq CommandNames
  /\ NoBody \in 0..NoBody /\ Unloadable \in 0..NoBody /\ Shipped \in 0..NoBody /\ Skipped \in 0..NoBody
  /\ \A n \in 0..Bodies : n \in 0..NoBody /\ n # NoBody
  /\ Unloadable # NoBody /\ Skipped # NoBody
BY CommandsAssumption DEF NoBody, Unloadable, Shipped, Skipped

\* A command file is a name and a suffix.
LEMMA FileIs ==
  ASSUME NEW f \in CommandFiles
  PROVE  f[1] \in CommandNames /\ f[2] \in FileSuffixes /\ f = <<f[1], f[2]>>
BY DEF CommandFiles

\* The closed editor, the run that is over and the action that is nothing, with their types.
LEMMA EditorFixed ==
  /\ NoCmdEditor \in CmdEditorType /\ NoCmdEditor.mode = "closed" /\ ~NoCmdEditor.new
  /\ NoCmdEditor.form.body = NoBody /\ NoCmdEditor.file = NoFile /\ NoRun \in RunType /\ ~NoRun.broke
  /\ NoRun.result = "none" /\ NoAction \in ActionType
<1>1. EmptyForm \in FormType /\ EmptyForm.body = NoBody BY CommandsNumbers DEF EmptyForm, FormType, FileSuffixes
<1>2. NoCmdEditor \in CmdEditorType /\ NoCmdEditor.mode = "closed" /\ ~NoCmdEditor.new
      /\ NoCmdEditor.form.body = NoBody /\ NoCmdEditor.file = NoFile
  BY <1>1 DEF NoCmdEditor, CmdEditorType
<1>3. NoRun \in RunType /\ ~NoRun.broke /\ NoRun.result = "none" BY CommandsNumbers DEF NoRun, RunType
<1>4. NoAction \in ActionType BY CommandsNumbers DEF NoAction, ActionType
<1> QED BY <1>2, <1>3, <1>4

\* The commands start in their invariant.
LEMMA CommandsInitial == CommandsInit => CommandsInv
<1> SUFFICES ASSUME CommandsInit PROVE CommandsInv OBVIOUS
<1>1. dir \in [CommandFiles -> 0..NoBody] BY CommandsNumbers DEF CommandsInit
<1>2. actions \in [CommandNames -> ActionType]
  <2>1. [body |-> Shipped, builtin |-> TRUE] \in ActionType BY CommandsNumbers DEF ActionType
  <2> QED BY <2>1, EditorFixed DEF CommandsInit
<1>3. cmdEditor = NoCmdEditor /\ bodies = 0 /\ run = NoRun BY DEF CommandsInit
<1>4. 0 \in 0..Bodies BY CommandsNumbers
<1> QED BY <1>1, <1>2, <1>3, <1>4, EditorFixed DEF CommandsInv, EditorHasFile, FormIsFile, BreakIsFailure

\* Reading the command files again keeps the invariant.
LEMMA ReloadKept ==
  ASSUME CommandsInv, ReloadCommands
  PROVE  CommandsInv'
<1>1. UNCHANGED <<dir, cmdEditor, bodies, run>> BY DEF ReloadCommands
<1>2. \A n \in CommandNames : LoadedToml(n) \in ActionType /\ LoadedScript(n) \in ActionType
  <2> SUFFICES ASSUME NEW n \in CommandNames PROVE LoadedToml(n) \in ActionType /\ LoadedScript(n) \in ActionType
    OBVIOUS
  <2>1. <<n, "toml">> \in CommandFiles /\ <<n, "py">> \in CommandFiles BY DEF CommandFiles, FileSuffixes
  <2>2. dir[<<n, "toml">>] \in 0..NoBody /\ dir[<<n, "py">>] \in 0..NoBody BY <2>1 DEF CommandsInv
  <2>3. (n \in Builtin) \in BOOLEAN OBVIOUS
  <2>4. [body |-> dir[<<n, "toml">>], builtin |-> n \in Builtin] \in ActionType
        /\ [body |-> dir[<<n, "py">>], builtin |-> FALSE] \in ActionType
    BY <2>2, <2>3 DEF ActionType
  <2> QED BY <2>4, EditorFixed DEF LoadedToml, LoadedScript
<1>3. actions' \in [CommandNames -> ActionType]
  <2> DEFINE v(n) ==
       LET kept == IF actions[n].builtin THEN actions[n] ELSE NoAction
           own == IF LoadedToml(n).builtin THEN LoadedScript(n) ELSE LoadedCommand(n) IN
       IF LoaderRaises \/ own = NoAction THEN kept ELSE own
  <2>1. actions' = [n \in CommandNames |-> v(n)] BY DEF ReloadCommands
  <2>2. \A n \in CommandNames : actions[n] \in ActionType BY DEF CommandsInv
  <2>3. \A n \in CommandNames : v(n) \in ActionType BY <1>2, <2>2, EditorFixed DEF LoadedCommand
  <2> HIDE DEF v
  <2> QED BY <2>1, <2>3
<1> QED BY <1>1, <1>3 DEF CommandsInv, EditorHasFile, FormIsFile, BreakIsFailure

\* The editor alone.
LEMMA CmdEditorStep ==
  ASSUME CommandsInv, UNCHANGED <<dir, actions, run>>, bodies' \in 0..Bodies,
         cmdEditor' \in CmdEditorType, EditorHasFile', FormIsFile'
  PROVE  CommandsInv'
BY DEF CommandsInv, BreakIsFailure

\* Selecting a command in the editor keeps the invariant.
LEMMA SelectKept ==
  ASSUME CommandsInv, Select
  PROVE  CommandsInv'
<1>1. PICK f \in CommandFiles :
        /\ There(f) /\ f[2] # "toml"
        /\ cmdEditor' = IF dir[f] = Unloadable /\ f[2] = "json" THEN [cmdEditor EXCEPT !.file = f]
                        ELSE [cmdEditor EXCEPT !.file = f, !.orig = f[1], !.form = FormOf(f), !.mode = "view"]
  BY DEF Select
<1>2. cmdEditor \in CmdEditorType /\ dir \in [CommandFiles -> 0..NoBody] /\ EditorHasFile
      /\ cmdEditor.mode \in {"idle", "view"} /\ UNCHANGED <<dir, actions, bodies, run>> /\ bodies \in 0..Bodies
  BY DEF CommandsInv, Select
<1>3. f[1] \in CommandNames /\ f[2] \in FileSuffixes /\ dir[f] \in 0..NoBody /\ dir[f] # NoBody
  BY <1>1, <1>2, FileIs DEF There
<1>4. CASE dir[f] = Unloadable /\ f[2] = "json"
  <2>1. cmdEditor' = [cmdEditor EXCEPT !.file = f] BY <1>1, <1>4
  <2>2. cmdEditor' \in CmdEditorType /\ cmdEditor'.file = f /\ cmdEditor'.form = cmdEditor.form
        /\ cmdEditor'.mode = cmdEditor.mode /\ cmdEditor'.new = cmdEditor.new
    BY <2>1, <1>2 DEF CmdEditorType
  <2>3. EditorHasFile' BY <2>2, <1>2 DEF EditorHasFile
  <2>4. FormIsFile' BY <2>2, <1>2, <1>4 DEF FormIsFile
  <2> QED BY <2>2, <2>3, <2>4, <1>2, CmdEditorStep
<1>5. CASE ~(dir[f] = Unloadable /\ f[2] = "json")
  <2> DEFINE g == FormOf(f)
  <2>1. cmdEditor' = [cmdEditor EXCEPT !.file = f, !.orig = f[1], !.form = g, !.mode = "view"] BY <1>1, <1>5
  <2>2. g \in FormType /\ g.body = dir[f] /\ g.name = f[1] BY <1>3 DEF FormOf, FormType
  <2> HIDE DEF g
  <2>3. cmdEditor' \in CmdEditorType /\ cmdEditor'.file = f /\ cmdEditor'.form = g
        /\ cmdEditor'.mode = "view" /\ cmdEditor'.new = cmdEditor.new
    BY <2>1, <2>2, <1>2, <1>3 DEF CmdEditorType
  <2>4. ~cmdEditor.new
    BY <1>2 DEF EditorHasFile, CommandsInv, New
  <2>5. EditorHasFile' BY <2>2, <2>3, <2>4, <1>3 DEF EditorHasFile
  <2>6. FormIsFile' BY <2>2, <2>3, <1>2 DEF FormIsFile
  <2> QED BY <2>3, <2>5, <2>6, <1>2, CmdEditorStep
<1> QED BY <1>4, <1>5

\* Opening and closing the editor, and starting an edit, keep the invariant.
LEMMA FormOpensKept ==
  ASSUME CommandsInv, OpenCommandEditor \/ CloseCommandEditor \/ New \/ Edit
  PROVE  CommandsInv'
<1>1. UNCHANGED <<dir, actions, bodies, run>> /\ cmdEditor \in CmdEditorType /\ bodies \in 0..Bodies
  BY DEF CommandsInv, OpenCommandEditor, CloseCommandEditor, New, Edit
<1>2. cmdEditor' \in CmdEditorType /\ EditorHasFile' /\ FormIsFile'
  <2>1. CASE OpenCommandEditor
    <3>1. cmdEditor' = [NoCmdEditor EXCEPT !.mode = "idle"] BY <2>1 DEF OpenCommandEditor
    <3>2. cmdEditor' \in CmdEditorType /\ cmdEditor'.mode = "idle" /\ ~cmdEditor'.new /\ cmdEditor'.form.body = NoBody
      BY <3>1, EditorFixed DEF CmdEditorType
    <3> QED BY <3>2 DEF EditorHasFile, FormIsFile
  <2>2. CASE CloseCommandEditor
    BY <2>2, EditorFixed DEF CloseCommandEditor, EditorHasFile, FormIsFile
  <2>3. CASE New
    <3>1. cmdEditor' = [NoCmdEditor EXCEPT !.mode = "new", !.new = TRUE] BY <2>3 DEF New
    <3>2. cmdEditor' \in CmdEditorType /\ cmdEditor'.mode = "new" /\ cmdEditor'.new /\ cmdEditor'.form.body = NoBody
      BY <3>1, EditorFixed DEF CmdEditorType
    <3> QED BY <3>2 DEF EditorHasFile, FormIsFile
  <2>4. CASE Edit
    <3>1. cmdEditor' = [cmdEditor EXCEPT !.mode = "edit"] /\ cmdEditor.mode = "view" BY <2>4 DEF Edit
    <3>2. cmdEditor' \in CmdEditorType /\ cmdEditor'.mode = "edit" /\ cmdEditor'.form = cmdEditor.form
          /\ cmdEditor'.new = cmdEditor.new /\ cmdEditor'.file = cmdEditor.file
      BY <3>1, <1>1 DEF CmdEditorType
    <3> QED BY <3>1, <3>2 DEF CommandsInv, EditorHasFile, FormIsFile
  <2> QED BY <2>1, <2>2, <2>3, <2>4
<1> QED BY <1>1, <1>2, CmdEditorStep

\* Typing into the form keeps the invariant.
LEMMA TypeKept ==
  ASSUME CommandsInv, TypeForm
  PROVE  CommandsInv'
<1>1. PICK n \in CommandNames, s \in {"json", "py"}, b \in {bodies + 1, Unloadable, Skipped} :
        cmdEditor' = [cmdEditor EXCEPT !.form = [name |-> n, suffix |-> s, body |-> b]]
  BY DEF TypeForm
<1>2. /\ UNCHANGED <<dir, actions, run>> /\ cmdEditor \in CmdEditorType /\ cmdEditor.mode \in {"edit", "new"}
      /\ bodies \in 0..Bodies /\ bodies < Bodies /\ bodies' = bodies + 1
  BY DEF CommandsInv, TypeForm
<1>3. bodies' \in 0..Bodies /\ b \in 0..NoBody BY <1>1, <1>2, CommandsNumbers
<1> DEFINE g == [name |-> n, suffix |-> s, body |-> b]
<1>4. g \in FormType /\ g.name = n BY <1>3 DEF FormType, FileSuffixes
<1>5. cmdEditor' = [cmdEditor EXCEPT !.form = g] BY <1>1
<1> HIDE DEF g
<1>6. cmdEditor' \in CmdEditorType /\ cmdEditor'.mode = cmdEditor.mode /\ cmdEditor'.form = g
      /\ cmdEditor'.new = cmdEditor.new /\ cmdEditor'.file = cmdEditor.file
  BY <1>2, <1>4, <1>5 DEF CmdEditorType
<1> QED BY <1>2, <1>3, <1>4, <1>6, CmdEditorStep DEF CommandsInv, EditorHasFile, FormIsFile

\* Cancelling an edit keeps the invariant.
LEMMA CancelEditKept ==
  ASSUME CommandsInv, CancelEdit
  PROVE  CommandsInv'
<1>1. /\ UNCHANGED <<dir, actions, bodies, run>> /\ cmdEditor \in CmdEditorType /\ cmdEditor.mode \in {"edit", "new"}
      /\ bodies \in 0..Bodies /\ EditorHasFile /\ dir \in [CommandFiles -> 0..NoBody]
  BY DEF CommandsInv, CancelEdit
<1>2. CASE cmdEditor.new
  <2>1. cmdEditor' = [NoCmdEditor EXCEPT !.mode = "idle"] BY <1>2 DEF CancelEdit
  <2>2. cmdEditor' \in CmdEditorType /\ cmdEditor'.mode = "idle" /\ ~cmdEditor'.new /\ cmdEditor'.form.body = NoBody
    BY <2>1, EditorFixed DEF CmdEditorType
  <2> QED BY <2>2, <1>1, CmdEditorStep DEF EditorHasFile, FormIsFile
<1>3. CASE ~cmdEditor.new
  <2>1. cmdEditor.file \in CommandFiles /\ cmdEditor.mode = "edit" BY <1>1, <1>3 DEF EditorHasFile
  <2>2. cmdEditor.file[1] \in CommandNames /\ cmdEditor.file[2] \in FileSuffixes /\ dir[cmdEditor.file] \in 0..NoBody
    BY <2>1, <1>1, FileIs
  <2>3. CASE There(cmdEditor.file) /\ (dir[cmdEditor.file] # Unloadable \/ cmdEditor.file[2] = "py")
    <3> DEFINE g == FormOf(cmdEditor.file)
    <3>1. cmdEditor' = [cmdEditor EXCEPT !.mode = "view", !.form = g] BY <1>3, <2>3 DEF CancelEdit
    <3>2. g \in FormType /\ g.body = dir[cmdEditor.file] /\ g.name \in CommandNames
      BY <2>2 DEF FormOf, FormType
    <3> HIDE DEF g
    <3>3. cmdEditor' \in CmdEditorType /\ cmdEditor'.mode = "view" /\ cmdEditor'.form = g
          /\ cmdEditor'.new = cmdEditor.new /\ cmdEditor'.file = cmdEditor.file
      BY <1>1, <3>1, <3>2 DEF CmdEditorType
    <3> QED BY <3>2, <3>3, <2>1, <1>1, <1>3, CmdEditorStep DEF EditorHasFile, FormIsFile
  <2>4. CASE ~(There(cmdEditor.file) /\ (dir[cmdEditor.file] # Unloadable \/ cmdEditor.file[2] = "py"))
    <3>1. cmdEditor' = [cmdEditor EXCEPT !.mode = "view"] BY <1>3, <2>4 DEF CancelEdit
    <3>2. cmdEditor' \in CmdEditorType /\ cmdEditor'.mode = "view" /\ cmdEditor'.form = cmdEditor.form
          /\ cmdEditor'.new = cmdEditor.new /\ cmdEditor'.file = cmdEditor.file
      BY <1>1, <3>1 DEF CmdEditorType
    <3>3. dir[cmdEditor.file] \in {NoBody, Unloadable} BY <2>4 DEF There
    <3> QED BY <3>2, <3>3, <2>1, <1>1, <1>3, CmdEditorStep DEF EditorHasFile, FormIsFile
  <2> QED BY <2>3, <2>4
<1> QED BY <1>2, <1>3

\* Saving the form, which writes the file and may remove the old one, keeps the invariant.
LEMMA SaveCommandKept ==
  ASSUME CommandsInv, SaveCommand
  PROVE  CommandsInv'
<1>1. /\ UNCHANGED <<actions, bodies, run>> /\ cmdEditor \in CmdEditorType /\ cmdEditor.mode \in {"edit", "new"}
      /\ cmdEditor.form.body # NoBody /\ EditorHasFile /\ dir \in [CommandFiles -> 0..NoBody]
  BY DEF CommandsInv, SaveCommand
<1>2. PICK wrote, removed \in BOOLEAN :
        /\ dir' = [f \in CommandFiles |->
             IF f = Target /\ wrote THEN cmdEditor.form.body
             ELSE IF (~cmdEditor.new /\ Target # cmdEditor.file /\ removed) /\ f = cmdEditor.file THEN NoBody ELSE dir[f]]
        /\ cmdEditor' = IF ~wrote THEN cmdEditor
                    ELSE [cmdEditor EXCEPT !.file = Target, !.orig = cmdEditor.form.name,
                                        !.new = FALSE, !.mode = "view"]
  BY DEF SaveCommand
<1>3. cmdEditor.form \in FormType /\ cmdEditor.form.name \in CommandNames /\ cmdEditor.form.body \in 0..NoBody
      /\ cmdEditor.form.suffix \in FileSuffixes
  BY <1>1 DEF CmdEditorType, EditorHasFile, FormType
<1>4. Target \in CommandFiles
  <2>1. <<cmdEditor.form.name, cmdEditor.form.suffix>> \in CommandFiles BY <1>3 DEF CommandFiles
  <2>2. ~cmdEditor.new => cmdEditor.file \in CommandFiles BY <1>1 DEF EditorHasFile
  <2> QED BY <2>1, <2>2 DEF Target
<1>5. dir' \in [CommandFiles -> 0..NoBody] BY <1>1, <1>2, <1>3, CommandsNumbers
<1>6. CASE ~wrote
  <2>1. cmdEditor' = cmdEditor BY <1>2, <1>6
  <2> QED BY <2>1, <1>1, <1>5 DEF CommandsInv, EditorHasFile, FormIsFile, BreakIsFailure
<1>7. CASE wrote
  <2> DEFINE t == Target
             n == cmdEditor.form.name
  <2>1. cmdEditor' = [cmdEditor EXCEPT !.file = t, !.orig = n, !.new = FALSE, !.mode = "view"]
        /\ dir'[t] = cmdEditor.form.body /\ t \in CommandFiles /\ n \in CommandNames
    BY <1>2, <1>3, <1>4, <1>7
  <2> HIDE DEF t, n
  <2>2. cmdEditor' \in CmdEditorType /\ cmdEditor'.mode = "view" /\ cmdEditor'.form = cmdEditor.form
        /\ ~cmdEditor'.new /\ cmdEditor'.file = t
    BY <2>1, <1>1 DEF CmdEditorType
  <2> QED BY <2>1, <2>2, <1>1, <1>5 DEF CommandsInv, EditorHasFile, FormIsFile, BreakIsFailure
<1> QED BY <1>6, <1>7

\* Deleting a command, and a file that is put from outside, keep the invariant.
LEMMA FilesChangeKept ==
  ASSUME CommandsInv, Delete \/ FileIsPut
  PROVE  CommandsInv'
<1>1. cmdEditor \in CmdEditorType /\ dir \in [CommandFiles -> 0..NoBody] /\ bodies \in 0..Bodies
      /\ UNCHANGED <<actions, run>>
  BY DEF CommandsInv, Delete, FileIsPut
<1>2. CASE Delete
  <2>1. cmdEditor' = [NoCmdEditor EXCEPT !.mode = "idle"] /\ UNCHANGED bodies
        /\ dir' = [dir EXCEPT ![cmdEditor.file] = NoBody]
    BY <1>2 DEF Delete
  <2>2. cmdEditor' \in CmdEditorType /\ cmdEditor'.mode = "idle" /\ ~cmdEditor'.new /\ cmdEditor'.form.body = NoBody
    BY <2>1, EditorFixed DEF CmdEditorType
  <2>3. dir' \in [CommandFiles -> 0..NoBody] BY <2>1, <1>1, CommandsNumbers
  <2> QED BY <2>1, <2>2, <2>3, <1>1 DEF CommandsInv, EditorHasFile, FormIsFile, BreakIsFailure
<1>3. CASE FileIsPut
  <2>1. PICK f \in CommandFiles, b \in {bodies + 1, Unloadable} : dir' = [dir EXCEPT ![f] = b]
    BY <1>3 DEF FileIsPut
  <2>2. bodies < Bodies /\ bodies' = bodies + 1 /\ cmdEditor' = cmdEditor /\ cmdEditor.mode = "closed"
    BY <1>3 DEF FileIsPut
  <2>3. bodies' \in 0..Bodies /\ b \in 0..NoBody BY <1>1, <2>1, <2>2, CommandsNumbers
  <2>4. dir' \in [CommandFiles -> 0..NoBody] BY <2>1, <2>3, <1>1
  <2> QED BY <2>2, <2>3, <2>4, <1>1 DEF CommandsInv, EditorHasFile, FormIsFile, BreakIsFailure
<1> QED BY <1>2, <1>3

\* Running a command, step by step, keeps the invariant.
LEMMA RunsStepKept ==
  ASSUME CommandsInv, RunCommand \/ Step \/ Finish
  PROVE  CommandsInv'
<1>1. UNCHANGED <<dir, actions, cmdEditor, bodies>> BY DEF RunCommand, Step, Finish
<1>2. run \in RunType /\ BreakIsFailure /\ actions \in [CommandNames -> ActionType] BY DEF CommandsInv
<1>3. run' \in RunType /\ (run'.broke => run'.result = "failure")
  <2>1. CASE RunCommand
    <3>1. PICK n \in CommandNames :
            run' = [body |-> actions[n].body, step |-> 0, broke |-> FALSE,
                    result |-> IF actions[n] = NoAction THEN "failure" ELSE "runs"]
      BY <2>1 DEF RunCommand
    <3>2. actions[n].body \in 0..NoBody /\ 0 \in 0..CommandSteps BY <1>2, CommandsNumbers DEF ActionType
    <3> QED BY <3>1, <3>2 DEF RunType
  <2>2. CASE Step
    <3> DEFINE k == run.step + 1
    <3>1. k \in 0..CommandSteps /\ ~run.broke
      <4>1. run.step \in 0..CommandSteps /\ run.step < CommandSteps /\ run.result = "runs"
        BY <1>2, <2>2 DEF Step, RunType
      <4> QED BY <4>1, <1>2, CommandsNumbers DEF BreakIsFailure
    <3>2. run' = [run EXCEPT !.step = k, !.broke = TRUE, !.result = "failure"] \/ run' = [run EXCEPT !.step = k]
      BY <2>2 DEF Step
    <3> HIDE DEF k
    <3> QED BY <3>1, <3>2, <1>2 DEF RunType
  <2>3. CASE Finish
    <3>1. run' = [run EXCEPT !.result = "success"] /\ ~run.broke BY <2>3, <1>2 DEF Finish, BreakIsFailure
    <3> QED BY <3>1, <1>2 DEF RunType
  <2> QED BY <2>1, <2>2, <2>3
<1> QED BY <1>1, <1>3 DEF CommandsInv, EditorHasFile, FormIsFile, BreakIsFailure

\* Every step keeps the invariant of the commands.
LEMMA CommandsKept ==
  ASSUME CommandsInv, [CommandsNext]_commandVars
  PROVE  CommandsInv'
<1>1. CASE UNCHANGED commandVars
  BY <1>1 DEF commandVars, CommandsInv, EditorHasFile, FormIsFile, BreakIsFailure
<1> QED BY <1>1, ReloadKept, SelectKept, FormOpensKept, TypeKept, CancelEditKept, SaveCommandKept, FilesChangeKept,
           RunsStepKept DEF CommandsNext

\* The invariant gives the types and the two properties of the commands.
LEMMA CommandsSafe == CommandsInv => CommandsTypeOK /\ FormIsFile /\ BreakIsFailure
BY DEF CommandsInv, CommandsTypeOK, ActionType, CmdEditorType, FormType, RunType

-----------------------------------------------------------------------------
(* The collection of logs *)

CollectType ==
  [n: 0..Collections, code: Codes, fd: 0..Collections, live: BOOLEAN,
   at: {"idle", "measure", "sizes", "count", "pack", "wc", "download", "reading", "rm"}]
SavedType == [ok: BOOLEAN, by: 0..Collections, of: 0..Collections, is: Contents, code: Codes]
CollectUiType == [button: BOOLEAN, line: {"hidden", "progress", "done", "error"}]

\* The file of the fixed name is that of the collection under way, if any; a
\* tar that ended with "ok" left it whole.
PackIsOwn ==
  /\ collect.at # "idle" => collect.n \in Numbers
  /\ collect.at \in {"pack", "wc", "download", "reading", "rm"} => archive \in {0, collect.n}
  /\ collect.at = "pack" /\ collect.live => content[collect.n] = "partial"
  /\ collect.at \in {"wc", "download", "reading"} /\ collect.code = "ok" => content[collect.n] = "whole"
  /\ collect.at \in {"download", "reading"} => collect.code # "error"
  /\ collect.at = "reading" => collect.fd = collect.n

\* What is about to be reported is of the collection that reports it.
SavedIsOwn ==
  collect.at = "rm" => /\ saved.of = saved.by /\ ~saved.ok
                       /\ saved.is = "whole" \/ saved.code = "killed"

CollectInv ==
  /\ CollectTypeOK /\ PackIsOwn /\ SavedIsOwn /\ ArchiveIsOwn
  /\ collectUi.button <=> collect.at = "idle"

\* The type of each variable of a log collection, from the invariant.
LEMMA CollectTypes ==
  ASSUME CollectInv
  PROVE  /\ collect \in CollectType /\ saved \in SavedType /\ collectUi \in CollectUiType
         /\ packing \subseteq Numbers /\ archive \in {0} \cup Numbers
         /\ content \in [Numbers -> Contents] /\ lateRm \in BOOLEAN
         /\ linked \in BOOLEAN /\ cuts \in 0..Cuts
BY DEF CollectInv, CollectTypeOK, CollectType, SavedType, CollectUiType

\* The types of all variables after a step, put together.
LEMMA CollectTyped ==
  ASSUME collect' \in CollectType, saved' \in SavedType, collectUi' \in CollectUiType,
         packing' \subseteq Numbers, archive' \in {0} \cup Numbers,
         content' \in [Numbers -> Contents], lateRm' \in BOOLEAN,
         linked' \in BOOLEAN, cuts' \in 0..Cuts
  PROVE  CollectTypeOK'
BY DEF CollectTypeOK, CollectType, SavedType, CollectUiType

\* The log collection starts in its invariant.
LEMMA CollectInitial == CollectInit => CollectInv
<1> SUFFICES ASSUME CollectInit PROVE CollectInv OBVIOUS
<1>1. CollectTypeOK
  <2>1. /\ NoResult \in [ok: BOOLEAN, by: 0..Collections, of: 0..Collections, is: Contents, code: Codes]
        /\ "ok" \in Codes /\ 0 \in 0..Collections /\ 0 \in 0..Cuts /\ "none" \in Contents
    BY CollectAssumption DEF NoResult, Codes, Contents
  <2> QED BY <2>1 DEF CollectInit, CollectTypeOK
<1>2. collect.at = "idle" /\ collectUi.button /\ ~saved.ok BY DEF CollectInit, NoResult
<1> QED BY <1>1, <1>2 DEF CollectInv, PackIsOwn, SavedIsOwn, ArchiveIsOwn

\* The end of a collection, whatever its result.
LEMMA FinishKept ==
  ASSUME CollectInv, NEW r \in SavedType, FinishCollect(r),
         r.ok => r.of = r.by /\ (r.is = "whole" \/ r.code = "killed"),
         archive' \in {0} \cup Numbers, lateRm' \in BOOLEAN,
         UNCHANGED <<packing, content, linked, cuts>>
  PROVE  CollectInv'
<1>1. collect' \in CollectType /\ collect'.at = "idle"
  BY CollectTypes DEF FinishCollect, CollectType
<1>2. collectUi' \in CollectUiType /\ collectUi'.button
  BY DEF FinishCollect, CollectUiType
<1>3. saved' = r BY DEF FinishCollect
<1>4. CollectTypeOK' BY <1>1, <1>2, <1>3, CollectTypes, CollectTyped
<1>5. PackIsOwn' /\ SavedIsOwn' BY <1>1 DEF PackIsOwn, SavedIsOwn
<1>6. ArchiveIsOwn' BY <1>3 DEF ArchiveIsOwn
<1> QED BY <1>1, <1>2, <1>4, <1>5, <1>6 DEF CollectInv

\* A failed collection, reported to its tab, keeps the invariant.
LEMMA FailsKept ==
  ASSUME CollectInv, CollectFails, UNCHANGED <<onRegister, linked, cuts>>
  PROVE  CollectInv'
<1> DEFINE r == CollectResult(FALSE, 0, "none")
<1>1. r \in SavedType /\ ~r.ok
  BY CollectTypes, CollectAssumption DEF CollectResult, SavedType, CollectType, Contents
<1>2. FinishCollect(r) BY DEF CollectFails
<1> HIDE DEF r
<1> QED BY <1>1, <1>2, CollectTypes, FinishKept DEF onRegister

\* What moving on to a stage leaves as it was: the number, the code and the tab of the
\* collection.
LEMMA StageIs ==
  ASSUME CollectInv, collect.at # "idle",
         NEW at \in {"sizes", "count", "pack", "wc", "download", "reading", "rm"}, Stage(at)
  PROVE  /\ collect' \in CollectType /\ collectUi' \in CollectUiType
         /\ collect'.at = at /\ collect'.n = collect.n /\ collect'.code = collect.code
         /\ collect'.live = collect.live /\ collect'.fd = collect.fd
         /\ ~collectUi'.button
<1>1. /\ collect' \in CollectType /\ collect'.at = at /\ collect'.n = collect.n
      /\ collect'.code = collect.code /\ collect'.live = collect.live /\ collect'.fd = collect.fd
  BY CollectTypes DEF Stage, CollectType
<1>2. collectUi' \in CollectUiType /\ collectUi'.button = collectUi.button
  BY CollectTypes DEF Stage, CollectUiType
<1> QED BY <1>1, <1>2 DEF CollectInv

\* A click on the button keeps the invariant.
LEMMA OnCollectKept ==
  ASSUME CollectInv, OnCollect
  PROVE  CollectInv'
<1> DEFINE m == collect.n + 1
<1>1. m \in Numbers
  <2>1. collect.n \in 0..Collections /\ collect.n < Collections BY CollectTypes DEF CollectType, OnCollect
  <2> QED BY <2>1, CollectAssumption DEF Numbers
<1>2. collect' = [n |-> m, code |-> "ok", fd |-> 0, live |-> TRUE, at |-> "measure"]
  BY DEF OnCollect
<1> HIDE DEF m
<1>3. m \in 0..Collections /\ 0 \in 0..Collections BY <1>1, CollectAssumption DEF Numbers
<1>4. collect' \in CollectType /\ collect'.at = "measure" /\ collect'.n = m
  BY <1>2, <1>3 DEF CollectType, Codes
<1>5. collectUi' \in CollectUiType /\ ~collectUi'.button BY DEF OnCollect, CollectUiType
<1>6. UNCHANGED <<packing, archive, content, lateRm, saved, linked, cuts>> BY DEF OnCollect, onRegister
<1>7. CollectTypeOK' BY <1>4, <1>5, <1>6, CollectTypes, CollectTyped
<1>8. PackIsOwn' /\ SavedIsOwn' BY <1>1, <1>4 DEF PackIsOwn, SavedIsOwn
<1>9. ArchiveIsOwn' BY <1>6 DEF CollectInv, ArchiveIsOwn
<1> QED BY <1>4, <1>5, <1>7, <1>8, <1>9 DEF CollectInv

\* The sizes that come back keep the invariant.
LEMMA MeasuredKept ==
  ASSUME CollectInv, Measured
  PROVE  CollectInv'
<1>1. PICK at \in {"sizes", "count"} : Stage(at) BY DEF Measured
<1>2. collect.at # "idle" /\ UNCHANGED <<packing, archive, content, lateRm, saved, linked, cuts>>
  BY DEF Measured, onRegister
<1>3. /\ collect' \in CollectType /\ collectUi' \in CollectUiType
      /\ collect'.at = at /\ collect'.n = collect.n /\ ~collectUi'.button
  BY <1>1, <1>2, StageIs
<1>4. CollectTypeOK' BY <1>2, <1>3, CollectTypes, CollectTyped
<1>5. PackIsOwn' /\ SavedIsOwn' /\ ArchiveIsOwn'
  BY <1>2, <1>3 DEF CollectInv, PackIsOwn, SavedIsOwn, ArchiveIsOwn
<1> QED BY <1>3, <1>4, <1>5 DEF CollectInv

\* Starting to pack keeps the invariant.
LEMMA StartTarKept ==
  ASSUME CollectInv, StartTar
  PROVE  CollectInv'
<1>1. /\ collect.at = "count" /\ Stage("pack") /\ archive' = collect.n
      /\ packing' = packing \cup {collect.n} /\ content' = [content EXCEPT ![collect.n] = "partial"]
      /\ UNCHANGED <<lateRm, saved, linked, cuts>>
  BY DEF StartTar
<1>2. collect.n \in Numbers BY <1>1 DEF CollectInv, PackIsOwn
<1>3. /\ collect' \in CollectType /\ collectUi' \in CollectUiType
      /\ collect'.at = "pack" /\ collect'.n = collect.n /\ ~collectUi'.button
  BY <1>1, StageIs
<1>4. content' \in [Numbers -> Contents] /\ content'[collect.n] = "partial"
  BY <1>1, <1>2, CollectTypes DEF Contents
<1>5. packing' \subseteq Numbers /\ archive' \in {0} \cup Numbers BY <1>1, <1>2, CollectTypes
<1>6. CollectTypeOK' BY <1>1, <1>3, <1>4, <1>5, CollectTypes, CollectTyped
<1>7. PackIsOwn' /\ SavedIsOwn' /\ ArchiveIsOwn'
  BY <1>1, <1>2, <1>3, <1>4 DEF CollectInv, PackIsOwn, SavedIsOwn, ArchiveIsOwn
<1> QED BY <1>3, <1>6, <1>7 DEF CollectInv

\* The end of packing keeps the invariant.
LEMMA TarEndsKept ==
  ASSUME CollectInv, TarEnds
  PROVE  CollectInv'
<1>1. PICK n \in packing, code \in Codes :
        /\ packing' = packing \ {n}
        /\ content' = [content EXCEPT ![n] =
                         IF code = "ok" /\ content[n] = "partial" THEN "whole" ELSE content[n]]
        /\ collect' = IF collect.n = n /\ collect.at = "pack" /\ collect.live
                        THEN [collect EXCEPT !.at = "wc", !.code = code]
                        ELSE collect
  BY DEF TarEnds
<1>2. UNCHANGED <<archive, lateRm, saved, collectUi, linked, cuts>> BY DEF TarEnds
<1>3. /\ n \in Numbers /\ content \in [Numbers -> Contents] /\ packing' \subseteq Numbers
      /\ collect \in CollectType
  BY <1>1, CollectTypes
<1>4. content' \in [Numbers -> Contents] BY <1>1, <1>3 DEF Contents
<1>5. \A m \in Numbers : content[m] = "whole" => content'[m] = "whole"
  BY <1>1, <1>3
<1>6. CASE collect.n = n /\ collect.at = "pack" /\ collect.live
  <2>1. /\ collect' \in CollectType /\ collect'.at = "wc" /\ collect'.code = code
        /\ collect'.n = collect.n
    BY <1>1, <1>3, <1>6 DEF CollectType
  <2>2. content[n] = "partial" BY <1>6 DEF CollectInv, PackIsOwn
  <2>3. code = "ok" => content'[n] = "whole" BY <1>1, <1>3, <2>2
  <2>4. CollectTypeOK' BY <1>2, <1>3, <1>4, <2>1, CollectTypes, CollectTyped
  <2>5. PackIsOwn' BY <1>2, <1>3, <1>6, <2>1, <2>3 DEF CollectInv, PackIsOwn
  <2>6. SavedIsOwn' /\ ArchiveIsOwn' BY <1>2, <2>1 DEF CollectInv, SavedIsOwn, ArchiveIsOwn
  <2>7. (collectUi.button <=> collect.at = "idle")' BY <1>2, <1>6, <2>1 DEF CollectInv
  <2> QED BY <2>4, <2>5, <2>6, <2>7 DEF CollectInv
<1>7. CASE ~(collect.n = n /\ collect.at = "pack" /\ collect.live)
  <2>1. collect' = collect BY <1>1, <1>7
  <2>2. CollectTypeOK' BY <1>2, <1>3, <1>4, <2>1, CollectTypes, CollectTyped
  <2>3. collect.at = "pack" /\ collect.live => content'[collect.n] = content[collect.n]
    BY <1>1, <1>3, <1>7 DEF CollectInv, PackIsOwn
  <2>4. PackIsOwn' BY <1>2, <1>5, <2>1, <2>3 DEF CollectInv, PackIsOwn
  <2>5. SavedIsOwn' /\ ArchiveIsOwn' BY <1>2, <2>1 DEF CollectInv, SavedIsOwn, ArchiveIsOwn
  <2> QED BY <1>2, <2>1, <2>2, <2>4, <2>5 DEF CollectInv
<1> QED BY <1>6, <1>7

\* The check of the archive's size keeps the invariant.
LEMMA CheckedKept ==
  ASSUME CollectInv, Checked
  PROVE  CollectInv'
<1>1. collect.at = "wc" /\ UNCHANGED <<onRegister, linked, cuts>> BY DEF Checked
<1>2. CASE CollectFails BY <1>1, <1>2, FailsKept
<1>3. CASE Stage("download") /\ UNCHANGED saved /\ collect.code # "error"
  <2>1. /\ collect' \in CollectType /\ collectUi' \in CollectUiType
        /\ collect'.at = "download" /\ collect'.n = collect.n /\ collect'.code = collect.code
        /\ ~collectUi'.button
    BY <1>1, <1>3, StageIs
  <2>2. UNCHANGED <<packing, archive, content, lateRm, saved, linked, cuts>> BY <1>1, <1>3 DEF onRegister
  <2>3. CollectTypeOK' BY <2>1, <2>2, CollectTypes, CollectTyped
  <2>4. PackIsOwn' BY <1>1, <1>3, <2>1, <2>2 DEF CollectInv, PackIsOwn
  <2>5. SavedIsOwn' /\ ArchiveIsOwn' BY <2>1, <2>2 DEF CollectInv, SavedIsOwn, ArchiveIsOwn
  <2> QED BY <2>1, <2>3, <2>4, <2>5 DEF CollectInv
<1> QED BY <1>2, <1>3 DEF Checked

\* Opening the download keeps the invariant.
LEMMA OpensDownloadKept ==
  ASSUME CollectInv, DownloadOpens
  PROVE  CollectInv'
<1>1. collect.at = "download" /\ UNCHANGED <<onRegister, linked, cuts>> BY DEF DownloadOpens
<1>2. CASE CollectFails BY <1>1, <1>2, FailsKept
<1>3. CASE archive # 0 /\ collect' = [collect EXCEPT !.at = "reading", !.fd = archive] /\ UNCHANGED <<saved, collectUi>>
  <2>1. archive = collect.n /\ archive \in Numbers BY <1>1, <1>3 DEF CollectInv, PackIsOwn
  <2>2. archive \in 0..Collections BY <2>1, CollectAssumption DEF Numbers
  <2>3. /\ collect' \in CollectType /\ collect'.at = "reading" /\ collect'.fd = archive
        /\ collect'.n = collect.n /\ collect'.code = collect.code
    BY <1>3, <2>2, CollectTypes DEF CollectType
  <2>4. UNCHANGED <<packing, archive, content, lateRm, saved, collectUi, linked, cuts>> BY <1>1, <1>3 DEF onRegister
  <2>5. CollectTypeOK' BY <2>3, <2>4, CollectTypes, CollectTyped
  <2>6. PackIsOwn' BY <1>1, <2>1, <2>3, <2>4 DEF CollectInv, PackIsOwn
  <2>7. SavedIsOwn' /\ ArchiveIsOwn' BY <2>3, <2>4 DEF CollectInv, SavedIsOwn, ArchiveIsOwn
  <2> QED BY <1>1, <2>3, <2>4, <2>5, <2>6, <2>7 DEF CollectInv
<1> QED BY <1>2, <1>3 DEF DownloadOpens

\* The end of the download keeps the invariant.
LEMMA DownloadEndsKept ==
  ASSUME CollectInv, DownloadEnds
  PROVE  CollectInv'
<1>1. collect.at = "reading" /\ UNCHANGED <<onRegister, linked, cuts>> BY DEF DownloadEnds
<1>2. CASE CollectFails BY <1>1, <1>2, FailsKept
<1>3. CASE Stage("rm") /\ saved' = CollectResult(FALSE, collect.fd, content[collect.fd])
  <2>1. /\ collect' \in CollectType /\ collectUi' \in CollectUiType
        /\ collect'.at = "rm" /\ collect'.n = collect.n /\ ~collectUi'.button
    BY <1>1, <1>3, StageIs
  <2>2. UNCHANGED <<packing, archive, content, lateRm, linked, cuts>> BY <1>1 DEF onRegister
  <2>3. collect.fd = collect.n /\ collect.n \in Numbers /\ collect.code \in {"ok", "killed"}
    BY <1>1, CollectTypes DEF CollectInv, PackIsOwn, CollectType, Codes
  <2>4. collect.code = "ok" => content[collect.fd] = "whole" BY <1>1, <2>3 DEF CollectInv, PackIsOwn
  <2>5. /\ saved' \in SavedType /\ saved'.of = saved'.by /\ ~saved'.ok
        /\ saved'.is = content[collect.fd] /\ saved'.code = collect.code
    <3>1. /\ collect.n \in 0..Collections /\ collect.fd \in 0..Collections /\ collect.code \in Codes
          /\ content[collect.fd] \in Contents
      BY <2>3, CollectTypes DEF CollectType
    <3> QED BY <1>3, <2>3, <3>1 DEF CollectResult, SavedType
  <2>6. CollectTypeOK' BY <2>1, <2>2, <2>5, CollectTypes, CollectTyped
  <2>7. PackIsOwn' BY <1>1, <2>1, <2>2, <2>3 DEF CollectInv, PackIsOwn
  <2>8. SavedIsOwn' /\ ArchiveIsOwn' BY <2>3, <2>4, <2>5 DEF SavedIsOwn, ArchiveIsOwn
  <2> QED BY <2>1, <2>6, <2>7, <2>8 DEF CollectInv
<1> QED BY <1>2, <1>3 DEF DownloadEnds

\* Removing the archive, now or later, keeps the invariant.
LEMMA RemovedKept ==
  ASSUME CollectInv, Removed
  PROVE  CollectInv'
<1>1. collect.at = "rm" /\ UNCHANGED <<packing, content, linked, cuts>> BY DEF Removed
<1>2. saved.of = saved.by /\ ~saved.ok /\ (saved.is = "whole" \/ saved.code = "killed")
  BY <1>1 DEF CollectInv, SavedIsOwn
<1>3. CASE archive' = 0 /\ UNCHANGED lateRm /\ FinishCollect([saved EXCEPT !.ok = TRUE])
  <2> DEFINE r == [saved EXCEPT !.ok = TRUE]
  <2>1. /\ r \in SavedType /\ r.of = saved.of /\ r.by = saved.by /\ r.is = saved.is
        /\ r.code = saved.code
    BY CollectTypes DEF SavedType
  <2>2. FinishCollect(r) BY <1>3
  <2> HIDE DEF r
  <2> QED BY <1>1, <1>2, <1>3, <2>1, <2>2, CollectTypes, FinishKept
<1>4. CASE lateRm' \in {lateRm, TRUE} /\ UNCHANGED archive /\ FinishCollect(saved)
  <2>1. lateRm' \in BOOLEAN BY <1>4, CollectTypes
  <2> QED BY <1>1, <1>2, <1>4, <2>1, CollectTypes, FinishKept
<1> QED BY <1>3, <1>4 DEF Removed

\* What the register and the link do on their own keeps the invariant.
LEMMA CollectWorldKept ==
  ASSUME CollectInv, LateRmRuns \/ LinkCut \/ LinkBack \/ Restart \/ LineHides
  PROVE  CollectInv'
<1>1. CASE LateRmRuns
  <2>1. archive' = 0 /\ UNCHANGED <<collect, packing, content, saved, collectUi, linked, cuts>>
    BY <1>1 DEF LateRmRuns
  <2>0. lateRm' \in BOOLEAN BY <1>1 DEF LateRmRuns
  <2>2. CollectTypeOK' BY <2>0, <2>1, CollectTypes, CollectTyped
  <2>3. PackIsOwn' BY <2>1 DEF CollectInv, PackIsOwn
  <2> QED BY <2>1, <2>2, <2>3 DEF CollectInv, SavedIsOwn, ArchiveIsOwn
<1>2. CASE LinkCut \/ Restart
  <2>1. /\ UNCHANGED <<packing, archive, content, saved>> /\ cuts' \in 0..Cuts
        /\ linked' \in BOOLEAN /\ lateRm' \in BOOLEAN
    <3>1. cuts' = cuts + 1 /\ cuts < Cuts /\ cuts \in 0..Cuts BY <1>2, CollectTypes DEF LinkCut, Restart
    <3>2. cuts' \in 0..Cuts BY <3>1, CollectAssumption
    <3>3. lateRm' \in BOOLEAN BY <1>2, CollectTypes DEF LinkCut, Restart, onRegister
    <3> QED BY <1>2, <3>2, <3>3 DEF LinkCut, Restart, onRegister
  <2>2. CASE LinkCut
    <3>1. collect' = [collect EXCEPT !.live = FALSE] /\ UNCHANGED collectUi BY <2>2 DEF LinkCut
    <3>2. /\ collect' \in CollectType /\ ~collect'.live /\ collect'.at = collect.at /\ collect'.n = collect.n
          /\ collect'.code = collect.code /\ collect'.fd = collect.fd
      BY <3>1, CollectTypes DEF CollectType
    <3>3. CollectTypeOK' BY <2>1, <3>1, <3>2, CollectTypes, CollectTyped
    <3> QED BY <2>1, <3>1, <3>2, <3>3 DEF CollectInv, PackIsOwn, SavedIsOwn, ArchiveIsOwn
  <2>3. CASE Restart
    <3>1. collect' \in CollectType /\ collect'.at = "idle"
      BY <2>3, CollectTypes DEF Restart, CollectType
    <3>2. collectUi' \in CollectUiType /\ collectUi'.button BY <2>3 DEF Restart, CollectUiType
    <3>3. CollectTypeOK' BY <2>1, <3>1, <3>2, CollectTypes, CollectTyped
    <3> QED BY <2>1, <3>1, <3>2, <3>3 DEF CollectInv, PackIsOwn, SavedIsOwn, ArchiveIsOwn
  <2> QED BY <1>2, <2>2, <2>3
<1>3. CASE LinkBack \/ LineHides
  <2>1. UNCHANGED <<collect, packing, archive, content, lateRm, saved, cuts>> BY <1>3 DEF LinkBack, LineHides, onRegister
  <2>2. collectUi' \in CollectUiType /\ collectUi'.button = collectUi.button
    <3>1. CASE LinkBack BY <3>1, CollectTypes DEF LinkBack
    <3>2. CASE LineHides BY <3>2, CollectTypes DEF LineHides, CollectUiType
    <3> QED BY <1>3, <3>1, <3>2
  <2>3. linked' \in BOOLEAN BY <1>3, CollectTypes DEF LinkBack, LineHides
  <2>4. CollectTypeOK' BY <2>1, <2>2, <2>3, CollectTypes, CollectTyped
  <2>5. (collectUi.button <=> collect.at = "idle")' BY <2>1, <2>2 DEF CollectInv
  <2> QED BY <2>1, <2>4, <2>5 DEF CollectInv, PackIsOwn, SavedIsOwn, ArchiveIsOwn
<1> QED BY <1>1, <1>2, <1>3

\* Every step keeps the invariant of the log collection.
LEMMA CollectKept ==
  ASSUME CollectInv, [CollectNext]_collectVars
  PROVE  CollectInv'
<1>1. CASE CommandRaises BY <1>1, FailsKept DEF CommandRaises
<1>2. CASE UNCHANGED collectVars
  BY <1>2 DEF collectVars, CollectInv, CollectTypeOK, PackIsOwn, SavedIsOwn, ArchiveIsOwn
<1> QED BY <1>1, <1>2, OnCollectKept, MeasuredKept, StartTarKept, TarEndsKept, CheckedKept,
       OpensDownloadKept, DownloadEndsKept, RemovedKept, CollectWorldKept DEF CollectNext, CollectStep

\* The invariant gives the types and the two properties of the log collection.
LEMMA CollectSafe ==
  ASSUME CollectInv
  PROVE  CollectTypeOK /\ ArchiveIsOwn /\ ButtonReturns
BY DEF CollectInv, ButtonReturns

-----------------------------------------------------------------------------
(* History and notices *)

HistRecords == [memory: Histories, pending: Histories, file: Histories,
                persistent: BOOLEAN, of: Seq(Hosts)]
Ascending(s) == \A i, j \in DOMAIN s : i < j => s[i] < s[j]
Before(s, t) == \A i \in DOMAIN s, j \in DOMAIN t : s[i] < t[j]

\* Entries in order, and those of one register.
RisingTo(n) == {s \in Seq(1..n) : Ascending(s)}
LinesOf(of, a) == {s \in RisingTo(Len(of)) : \A i \in DOMAIN s : of[s[i]] = a}

\* What is kept of a register is its own; what waits is later than its file.
HistOK(h) ==
  /\ h \in HistRecords /\ Len(h.of) <= Entries
  /\ \A a \in Hosts : /\ h.memory[a] \in LinesOf(h.of, a) /\ h.pending[a] \in LinesOf(h.of, a)
                      /\ h.file[a] \in LinesOf(h.of, a) /\ Before(h.file[a], h.pending[a])

ShownRecords(of) == [list: RisingTo(Len(of)), active: Hosts \cup {NoHost}]
ShownOK(sh, of) ==
  /\ sh \in ShownRecords(of)
  /\ sh.active # NoHost => sh.list \in LinesOf(of, sh.active)

SeenRecords == [keys: Seq(Notices), count: [Notices -> Nat], fresh: SUBSET Notices]
BarRecords == [says: Nat, missed: Nat]
PostRecords == [inbox: Seq(Notices), given: 0..Notes, kept: [Notices -> Nat], list: [Notices -> Nat]]

\* A notice that was given waits or was counted: no count exceeds what was given.
CountsFit ==
  \A k \in Notices : /\ posts.list[k] + Len(posts.inbox) <= posts.given
                     /\ seen.count[k] + Len(posts.inbox) <= posts.given
                     /\ bars[k].says + Len(posts.inbox) <= posts.given
                     /\ bars[k].missed + Len(posts.inbox) <= posts.given
                     /\ posts.kept[k] <= posts.given

\* What is counted of a notice without a bar, its bar has missed.
MissedIsCounted == \A k \in seen.fresh : bars[k].says = 0 => seen.count[k] <= bars[k].missed

JournalInv ==
  /\ HistOK(hist) /\ ShownOK(shown, hist.of)
  /\ seen \in SeenRecords /\ IsInjective(seen.keys) /\ Len(seen.keys) <= Seen
  /\ bars \in [Notices -> BarRecords] /\ posts \in PostRecords
  /\ CountsFit /\ MissedIsCounted

\* What the assumption says of the constants of the journal.
LEMMA JournalNumbers == Batch \in Nat /\ Seen \in Nat /\ Seen >= 1 /\ Entries \in Nat /\ Notes \in Nat
BY JournalAssumption

-----------------------------------------------------------------------------
\* The empty sequence is a part of every history.
LEMMA NoLines ==
  ASSUME NEW of \in Seq(Hosts), NEW a
  PROVE  <<>> \in LinesOf(of, a) /\ <<>> \in RisingTo(Len(of))
BY DEF LinesOf, RisingTo, Ascending

\* Lines of a history are numbers of its entries.
LEMMA LinesAreEntries ==
  ASSUME NEW of \in Seq(Hosts), Len(of) <= Entries, NEW s \in RisingTo(Len(of))
  PROVE  s \in Seq(1..Entries)
<1>1. s \in Seq(1..Len(of)) BY DEF RisingTo
<1>2. Len(of) \in Nat OBVIOUS
<1>3. \A x \in 1..Len(of) : x \in 1..Entries BY <1>2, JournalNumbers
<1> QED BY <1>1, <1>3, SeqWidens

\* A rising sequence stays one when there are more entries.
LEMMA SeqGrows ==
  ASSUME NEW n \in Nat, NEW s \in RisingTo(n)
  PROVE  s \in RisingTo(n + 1)
<1>1. s \in Seq(1..n) /\ Ascending(s) BY DEF RisingTo
<1>2. \A x \in 1..n : x \in 1..n + 1 OBVIOUS
<1>3. s \in Seq(1..n + 1) BY <1>1, <1>2, SeqWidens
<1> QED BY <1>1, <1>3 DEF RisingTo

\* A new entry is higher than all others, so it can come last.
LEMMA EntryIsLast ==
  ASSUME NEW n \in Nat, NEW s \in RisingTo(n)
  PROVE  Append(s, n + 1) \in RisingTo(n + 1)
<1>1. s \in Seq(1..n) /\ s \in Seq(1..n + 1) /\ Ascending(s) BY SeqGrows DEF RisingTo
<1>2. n + 1 \in 1..n + 1 OBVIOUS
<1>3. PICK t : t = Append(s, n + 1) OBVIOUS
<1>4. /\ t \in Seq(1..n + 1) /\ Len(t) = Len(s) + 1 /\ t[Len(s) + 1] = n + 1
      /\ \A i \in 1..Len(s) : t[i] = s[i]
  BY <1>1, <1>2, <1>3, AppendIn
<1>5. DOMAIN t = 1..Len(s) + 1 /\ DOMAIN s = 1..Len(s) /\ Len(s) \in Nat BY <1>1, <1>4
<1>6. ASSUME NEW i \in 1..Len(s) + 1, NEW j \in 1..Len(s) + 1, i < j
      PROVE  t[i] < t[j]
  <2>1. i \in 1..Len(s) BY <1>5, <1>6
  <2>2. t[i] = s[i] /\ s[i] \in 1..n BY <2>1, <1>1, <1>4
  <2>3. CASE j = Len(s) + 1 BY <2>2, <2>3, <1>4
  <2>4. CASE j \in 1..Len(s) BY <2>1, <2>2, <2>4, <1>4, <1>5, <1>6, <1>1 DEF Ascending
  <2> QED BY <2>3, <2>4, <1>5
<1>7. Ascending(t) BY <1>5, <1>6 DEF Ascending
<1> QED BY <1>3, <1>4, <1>7 DEF RisingTo

\* A new entry leaves the lines of every host, and is a line of its own host.
LEMMA EntryAdded ==
  ASSUME NEW of \in Seq(Hosts), NEW a \in Hosts
  PROVE  /\ Append(of, a) \in Seq(Hosts) /\ Len(Append(of, a)) = Len(of) + 1
         /\ \A b, s : s \in LinesOf(of, b) => s \in LinesOf(Append(of, a), b)
         /\ \A s \in LinesOf(of, a) : Append(s, Len(of) + 1) \in LinesOf(Append(of, a), a)
<1>1. PICK o : o = Append(of, a) OBVIOUS
<1>2. PICK n : n = Len(of) OBVIOUS
<1>3. /\ o \in Seq(Hosts) /\ Len(o) = n + 1 /\ n \in Nat /\ o[n + 1] = a
      /\ \A i \in 1..n : o[i] = of[i]
  BY <1>1, <1>2, AppendIn
<1>4. ASSUME NEW b, NEW s \in LinesOf(of, b) PROVE s \in LinesOf(o, b)
  <2>1. s \in RisingTo(n) /\ s \in Seq(1..n) /\ \A i \in DOMAIN s : of[s[i]] = b
    BY <1>2 DEF LinesOf, RisingTo
  <2>2. \A i \in DOMAIN s : s[i] \in 1..n BY <2>1, Elements
  <2>3. \A i \in DOMAIN s : o[s[i]] = b BY <2>1, <2>2, <1>3
  <2> QED BY <2>1, <2>3, <1>3, SeqGrows DEF LinesOf
<1>5. ASSUME NEW s \in LinesOf(of, a) PROVE Append(s, n + 1) \in LinesOf(o, a)
  <2>1. s \in RisingTo(n) /\ s \in Seq(1..n) /\ \A i \in DOMAIN s : of[s[i]] = a
    BY <1>2 DEF LinesOf, RisingTo
  <2>2. PICK t : t = Append(s, n + 1) OBVIOUS
  <2>3. t \in RisingTo(n + 1) BY <2>1, <2>2, <1>3, EntryIsLast
  <2>4. /\ DOMAIN t = 1..Len(s) + 1 /\ t[Len(s) + 1] = n + 1 /\ \A i \in 1..Len(s) : t[i] = s[i]
        /\ Len(s) \in Nat
    <3>1. s \in Seq(Nat) /\ n + 1 \in Nat
      <4>1. \A x \in 1..n : x \in Nat OBVIOUS
      <4> QED BY <4>1, <2>1, <1>3, SeqWidens
    <3>2. /\ t \in Seq(Nat) /\ Len(t) = Len(s) + 1 /\ t[Len(s) + 1] = n + 1
          /\ \A i \in 1..Len(s) : t[i] = s[i]
      BY <3>1, <2>2, AppendIn
    <3> QED BY <3>1, <3>2
  <2>5. ASSUME NEW i \in DOMAIN t PROVE o[t[i]] = a
    <3>1. CASE i = Len(s) + 1 BY <3>1, <2>4, <1>3
    <3>2. CASE i \in 1..Len(s)
      <4>1. i \in DOMAIN s /\ t[i] = s[i] BY <3>2, <2>1, <2>4, Elements
      <4>2. s[i] \in 1..n /\ of[s[i]] = a BY <4>1, <2>1, Elements
      <4> QED BY <4>1, <4>2, <1>3
    <3> QED BY <3>1, <3>2, <2>4, <2>5
  <2> QED BY <2>2, <2>3, <2>5, <1>3 DEF LinesOf
<1> QED BY <1>1, <1>2, <1>3, <1>4, <1>5

\* What was flushed, followed by what waits, is still in order.
LEMMA LinesJoin ==
  ASSUME NEW of \in Seq(Hosts), NEW a, NEW s \in LinesOf(of, a), NEW t \in LinesOf(of, a), Before(s, t)
  PROVE  s \o t \in LinesOf(of, a)
<1>1. PICK n : n = Len(of) OBVIOUS
<1>2. /\ s \in Seq(1..n) /\ Ascending(s) /\ \A i \in DOMAIN s : of[s[i]] = a
      /\ t \in Seq(1..n) /\ Ascending(t) /\ \A i \in DOMAIN t : of[t[i]] = a
  BY <1>1 DEF LinesOf, RisingTo
<1>3. PICK u : u = s \o t OBVIOUS
<1>4. u \in Seq(1..n) BY <1>2, <1>3
<1>5. Len(u) = Len(s) + Len(t) /\ Len(s) \in Nat /\ Len(t) \in Nat BY <1>2, <1>3
<1>6. /\ \A i \in 1..Len(s) : u[i] = s[i]
      /\ \A i \in 1..Len(t) : u[Len(s) + i] = t[i]
  BY <1>2, <1>3
<1>7. DOMAIN u = 1..Len(s) + Len(t) /\ DOMAIN s = 1..Len(s) /\ DOMAIN t = 1..Len(t)
  BY <1>2, <1>4, <1>5
<1>8. ASSUME NEW i \in DOMAIN u PROVE
        \/ i \in 1..Len(s) /\ u[i] = s[i]
        \/ \E k \in 1..Len(t) : i = Len(s) + k /\ u[i] = t[k]
  <2>1. CASE i \in 1..Len(s) BY <2>1, <1>6
  <2>2. CASE i \notin 1..Len(s)
    <3> DEFINE k == i - Len(s)
    <3>1. k \in 1..Len(t) /\ i = Len(s) + k BY <2>2, <1>5, <1>7
    <3> QED BY <3>1, <1>6
  <2> QED BY <2>1, <2>2
<1>9. \A i \in DOMAIN u : of[u[i]] = a BY <1>2, <1>7, <1>8
<1>10. Ascending(u)
  <2> SUFFICES ASSUME NEW i \in DOMAIN u, NEW j \in DOMAIN u, i < j PROVE u[i] < u[j]
    BY DEF Ascending
  <2>1. CASE i \in 1..Len(s) /\ u[i] = s[i]
    <3>1. CASE j \in 1..Len(s) /\ u[j] = s[j] BY <2>1, <3>1, <1>2, <1>7 DEF Ascending
    <3>2. CASE \E k \in 1..Len(t) : j = Len(s) + k /\ u[j] = t[k]
      BY <2>1, <3>2, <1>7 DEF Before
    <3> QED BY <3>1, <3>2, <1>8
  <2>2. CASE \E k \in 1..Len(t) : i = Len(s) + k /\ u[i] = t[k]
    <3>1. PICK k \in 1..Len(t) : i = Len(s) + k /\ u[i] = t[k] BY <2>2
    <3>2. ~(j \in 1..Len(s)) BY <3>1, <1>5
    <3>3. PICK m \in 1..Len(t) : j = Len(s) + m /\ u[j] = t[m] BY <3>2, <1>8
    <3>4. k < m BY <3>1, <3>3, <1>5
    <3> QED BY <3>1, <3>3, <3>4, <1>2, <1>7 DEF Ascending
  <2> QED BY <2>1, <2>2, <1>8
<1> QED BY <1>1, <1>3, <1>4, <1>9, <1>10 DEF LinesOf, RisingTo

-----------------------------------------------------------------------------
\* The types of the history, from its invariant.
LEMMA HistIs ==
  ASSUME NEW h, HistOK(h)
  PROVE  /\ h.memory \in Histories /\ h.pending \in Histories /\ h.file \in Histories
         /\ h.persistent \in BOOLEAN /\ h.of \in Seq(Hosts) /\ Len(h.of) \in Nat
BY DEF HistOK, HistRecords

\* A function from hosts to their lines is a history.
LEMMA HistoriesOf ==
  ASSUME NEW of \in Seq(Hosts), Len(of) <= Entries, NEW m, DOMAIN m = Hosts,
         m = [a \in Hosts |-> m[a]], \A a \in Hosts : m[a] \in LinesOf(of, a)
  PROVE  m \in Histories
<1>1. \A a \in Hosts : m[a] \in Seq(1..Entries) BY LinesAreEntries DEF LinesOf
<1> QED BY <1>1 DEF Histories

\* flush: what waited comes after what is in the file.
LEMMA FlushedOK ==
  ASSUME NEW h, HistOK(h), Flushed(h)
  PROVE  HistOK(hist') /\ hist'.of = h.of
<1>1. PICK ok \in [Hosts -> BOOLEAN] :
        hist' = [h EXCEPT !.pending = [a \in Hosts |-> <<>>],
                          !.file = [a \in Hosts |-> IF ok[a] THEN h.file[a] \o h.pending[a] ELSE h.file[a]]]
  BY DEF Flushed
<1> DEFINE p == [a \in Hosts |-> <<>>]
           f == [a \in Hosts |-> IF ok[a] THEN h.file[a] \o h.pending[a] ELSE h.file[a]]
<1>2. h.of \in Seq(Hosts) /\ Len(h.of) <= Entries BY DEF HistOK, HistRecords
<1>3. \A a \in Hosts : f[a] \in LinesOf(h.of, a) BY <1>2, LinesJoin DEF HistOK
<1>4. \A a \in Hosts : p[a] \in LinesOf(h.of, a) /\ Before(f[a], p[a])
  BY <1>2, NoLines DEF Before
<1>5. p \in Histories /\ f \in Histories
  <2>1. DOMAIN p = Hosts /\ DOMAIN f = Hosts /\ p = [a \in Hosts |-> p[a]] /\ f = [a \in Hosts |-> f[a]] OBVIOUS
  <2> HIDE DEF p, f
  <2> QED BY <2>1, <1>2, <1>3, <1>4, HistoriesOf
<1>6. hist' = [h EXCEPT !.pending = p, !.file = f] BY <1>1
<1> HIDE DEF p, f
<1>7. /\ hist' \in HistRecords /\ hist'.memory = h.memory /\ hist'.pending = p /\ hist'.file = f
      /\ hist'.of = h.of
  BY <1>5, <1>6 DEF HistOK, HistRecords
<1> QED BY <1>2, <1>3, <1>4, <1>7 DEF HistOK

\* The file stays before what waits when the new entry waits too.
LEMMA LastIsAfter ==
  ASSUME NEW n \in Nat, NEW f \in Seq(1..n), NEW p \in Seq(1..n), Before(f, p)
  PROVE  Before(f, Append(p, n + 1))
<1>1. PICK t : t = Append(p, n + 1) OBVIOUS
<1>2. p \in Seq(Nat) /\ n + 1 \in Nat
  <2>1. \A x \in 1..n : x \in Nat OBVIOUS
  <2> QED BY <2>1, SeqWidens
<1>3. /\ t \in Seq(Nat) /\ Len(t) = Len(p) + 1 /\ t[Len(p) + 1] = n + 1
      /\ \A i \in 1..Len(p) : t[i] = p[i]
  BY <1>1, <1>2, AppendIn
<1>4. DOMAIN p = 1..Len(p) /\ Len(p) \in Nat BY <1>2, Elements
<1>5. DOMAIN t = 1..Len(p) + 1 BY <1>3, Elements
<1>6. \A i \in DOMAIN f : f[i] \in 1..n BY Elements
<1>7. ASSUME NEW i \in DOMAIN f, NEW j \in DOMAIN t PROVE f[i] < t[j]
  <2>1. CASE j \in 1..Len(p) BY <2>1, <1>3, <1>4 DEF Before
  <2>2. CASE j = Len(p) + 1
    <3>1. f[i] \in 1..n /\ t[j] = n + 1 BY <2>2, <1>3, <1>6
    <3> QED BY <3>1
  <2> QED BY <2>1, <2>2, <1>4, <1>5
<1> QED BY <1>1, <1>7 DEF Before

\* A new entry, noted in the memory and, in the persistent mode, waiting.
LEMMA NotedOK ==
  ASSUME HistOK(hist), Len(hist.of) < Entries, NEW a \in Hosts, NEW h,
         h.of = Append(hist.of, a), h \in [memory: [Hosts -> Seq(Nat)], pending: [Hosts -> Seq(Nat)],
                                           file: Histories, persistent: BOOLEAN, of: Seq(Hosts)],
         h.file = hist.file,
         h.memory = [hist.memory EXCEPT ![a] = Append(hist.memory[a], Len(hist.of) + 1)],
         \/ h.pending = hist.pending
         \/ h.pending = [hist.pending EXCEPT ![a] = Append(hist.pending[a], Len(hist.of) + 1)]
  PROVE  HistOK(h)
<1>1. /\ hist.memory \in [Hosts -> Seq(1..Entries)] /\ hist.pending \in [Hosts -> Seq(1..Entries)]
      /\ hist.file \in [Hosts -> Seq(1..Entries)] /\ hist.of \in Seq(Hosts) /\ Len(hist.of) \in Nat
  BY HistIs DEF Histories
<1>2. PICK n : n = Len(hist.of) OBVIOUS
<1>3. h.of \in Seq(Hosts) /\ Len(h.of) = n + 1 /\ n \in Nat /\ n + 1 <= Entries
  BY <1>1, <1>2, EntryAdded, JournalNumbers
<1>4. \A b \in Hosts : /\ h.memory[b] \in LinesOf(h.of, b) /\ h.pending[b] \in LinesOf(h.of, b)
                       /\ h.file[b] \in LinesOf(h.of, b)
  <2> SUFFICES ASSUME NEW b \in Hosts
               PROVE  /\ h.memory[b] \in LinesOf(h.of, b) /\ h.pending[b] \in LinesOf(h.of, b)
                      /\ h.file[b] \in LinesOf(h.of, b)
    OBVIOUS
  <2>1. /\ hist.memory[b] \in LinesOf(h.of, b) /\ hist.pending[b] \in LinesOf(h.of, b)
        /\ hist.file[b] \in LinesOf(h.of, b)
    BY <1>1, EntryAdded DEF HistOK
  <2>2. /\ Append(hist.memory[a], n + 1) \in LinesOf(h.of, a)
        /\ Append(hist.pending[a], n + 1) \in LinesOf(h.of, a)
    <3>1. hist.memory[a] \in LinesOf(hist.of, a) /\ hist.pending[a] \in LinesOf(hist.of, a) BY DEF HistOK
    <3> QED BY <3>1, <1>1, <1>2, EntryAdded
  <2> QED BY <2>1, <2>2, <1>1, <1>2
<1>5. \A b \in Hosts : Before(h.file[b], h.pending[b])
  <2> SUFFICES ASSUME NEW b \in Hosts PROVE Before(hist.file[b], h.pending[b])
    OBVIOUS
  <2>1. Before(hist.file[b], hist.pending[b]) BY DEF HistOK
  <2>2. CASE h.pending[b] = hist.pending[b] BY <2>1, <2>2
  <2>3. CASE h.pending[b] = Append(hist.pending[b], n + 1)
    <3>1. hist.file[b] \in Seq(1..n) /\ hist.pending[b] \in Seq(1..n)
      BY <1>2 DEF HistOK, LinesOf, RisingTo
    <3> QED BY <3>1, <2>1, <2>3, <1>3, LastIsAfter
  <2> QED BY <2>2, <2>3, <1>1, <1>2
<1>6. h.memory \in Histories /\ h.pending \in Histories
  BY <1>3, <1>4, HistoriesOf
<1> QED BY <1>3, <1>4, <1>5, <1>6 DEF HistOK, HistRecords

\* Adding an entry keeps what is shown a part of the history.
LEMMA TakenOK ==
  ASSUME HistOK(hist), ShownOK(shown, hist.of), NEW a \in Hosts, Taken(a, Len(hist.of) + 1)
  PROVE  ShownOK(shown', Append(hist.of, a))
<1>1. PICK o : o = Append(hist.of, a) OBVIOUS
<1>2. PICK n : n = Len(hist.of) OBVIOUS
<1>3. hist.of \in Seq(Hosts) /\ n \in Nat BY <1>2, HistIs
<1>4. Len(o) = n + 1 BY <1>1, <1>2, <1>3, EntryAdded
<1>5. shown.list \in RisingTo(n) /\ shown.active \in Hosts \cup {NoHost} /\ shown \in ShownRecords(hist.of)
  BY <1>2 DEF ShownOK, ShownRecords
<1>6. shown.list \in RisingTo(n + 1) BY <1>3, <1>5, SeqGrows
<1>7. CASE shown.active \in {NoHost, a}
  <2> DEFINE l == Append(shown.list, n + 1)
  <2>1. shown' = [shown EXCEPT !.list = l] BY <1>7, <1>2 DEF Taken
  <2>2. l \in RisingTo(n + 1) BY <1>3, <1>5, EntryIsLast
  <2>3. shown.active # NoHost => l \in LinesOf(o, shown.active)
    BY <1>1, <1>2, <1>3, <1>7, EntryAdded DEF ShownOK
  <2> HIDE DEF l
  <2>4. shown' \in [list: RisingTo(n + 1), active: Hosts \cup {NoHost}] /\ shown'.list = l
        /\ shown'.active = shown.active
    BY <2>1, <2>2, <1>5 DEF ShownRecords
  <2> QED BY <2>3, <2>4, <1>1, <1>4 DEF ShownOK, ShownRecords
<1>8. CASE shown.active \notin {NoHost, a}
  <2>1. shown' = shown BY <1>8 DEF Taken
  <2>2. shown.list \in LinesOf(o, shown.active) BY <1>1, <1>3, <1>8, EntryAdded DEF ShownOK
  <2>3. shown \in [list: RisingTo(n + 1), active: Hosts \cup {NoHost}]
    BY <1>5, <1>6 DEF ShownRecords
  <2> QED BY <2>1, <2>2, <2>3, <1>1, <1>4 DEF ShownOK, ShownRecords
<1> QED BY <1>7, <1>8

\* Adding an entry, with the flush it may cause, keeps the invariant of the history.
LEMMA HistoryAddOK ==
  ASSUME HistOK(hist), ShownOK(shown, hist.of), HistoryAdd
  PROVE  HistOK(hist') /\ ShownOK(shown', hist'.of)
<1> DEFINE n == Len(hist.of) + 1
           m(a) == [hist.memory EXCEPT ![a] = Append(hist.memory[a], n)]
           p(a) == [hist.pending EXCEPT ![a] = Append(hist.pending[a], n)]
           noted(a) == [hist EXCEPT !.of = Append(hist.of, a), !.memory = m(a)]
           enqueued(a) == [noted(a) EXCEPT !.pending = p(a)]
<1>1. PICK a \in Hosts : /\ hist' = noted(a) \/ hist' = enqueued(a) \/ Flushed(enqueued(a))
                         /\ Taken(a, n)
  BY DEF HistoryAdd
<1>2. Len(hist.of) < Entries BY DEF HistoryAdd
<1>3. /\ hist.memory \in [Hosts -> Seq(Nat)] /\ hist.pending \in [Hosts -> Seq(Nat)]
      /\ n \in Nat /\ hist.of \in Seq(Hosts)
  <2>1. \A x \in 1..Entries : x \in Nat BY JournalNumbers
  <2>2. \A s \in Seq(1..Entries) : s \in Seq(Nat) BY <2>1, SeqWidens
  <2>3. hist.memory \in [Hosts -> Seq(1..Entries)] /\ hist.pending \in [Hosts -> Seq(1..Entries)]
    BY HistIs DEF Histories
  <2> QED BY <2>2, <2>3, HistIs
<1>4. m(a) \in [Hosts -> Seq(Nat)] /\ p(a) \in [Hosts -> Seq(Nat)] /\ Append(hist.of, a) \in Seq(Hosts)
  <2>1. Append(hist.memory[a], n) \in Seq(Nat) /\ Append(hist.pending[a], n) \in Seq(Nat)
        /\ Append(hist.of, a) \in Seq(Hosts)
    BY <1>3, AppendIn
  <2> HIDE DEF n
  <2> QED BY <2>1, <1>3
<1> DEFINE Noted2 == [memory: [Hosts -> Seq(Nat)], pending: [Hosts -> Seq(Nat)],
                      file: Histories, persistent: BOOLEAN, of: Seq(Hosts)]
<1>5. hist \in Noted2 BY <1>3, HistIs DEF HistOK, HistRecords
<1>6. /\ noted(a) \in Noted2 /\ noted(a).of = Append(hist.of, a) /\ noted(a).memory = m(a)
      /\ noted(a).pending = hist.pending /\ noted(a).file = hist.file
  <2> HIDE DEF m, n
  <2> QED BY <1>4, <1>5
<1>7. /\ enqueued(a) \in Noted2 /\ enqueued(a).of = Append(hist.of, a) /\ enqueued(a).memory = m(a)
      /\ enqueued(a).pending = p(a) /\ enqueued(a).file = hist.file
  <2> HIDE DEF m, n, p, noted
  <2> QED BY <1>4, <1>6
<1>8. HistOK(noted(a)) /\ HistOK(enqueued(a))
  <2> HIDE DEF noted, enqueued
  <2> QED BY <1>2, <1>6, <1>7, NotedOK
<1>9. ShownOK(shown', Append(hist.of, a)) BY <1>1, TakenOK
<1>10. HistOK(hist') /\ hist'.of = Append(hist.of, a)
  <2> HIDE DEF noted, enqueued
  <2> QED BY <1>1, <1>6, <1>7, <1>8, FlushedOK
<1> QED BY <1>9, <1>10

\* Clearing the history keeps its invariant.
LEMMA ClearHistoryOK ==
  ASSUME HistOK(hist), ShownOK(shown, hist.of), ClearHistory
  PROVE  HistOK(hist') /\ ShownOK(shown', hist'.of)
<1>1. PICK a \in Hosts : shown.active = a BY DEF ClearHistory, ShownOK, ShownRecords
<1> DEFINE m == [hist.memory EXCEPT ![a] = <<>>]
           p == [hist.pending EXCEPT ![a] = <<>>]
           f == [hist.file EXCEPT ![a] = IF Persistent THEN <<>> ELSE hist.file[a]]
<1>2. hist' = [hist EXCEPT !.memory = m, !.pending = p, !.file = f] BY <1>1 DEF ClearHistory
<1>3. /\ hist.memory \in [Hosts -> Seq(1..Entries)] /\ hist.pending \in [Hosts -> Seq(1..Entries)]
      /\ hist.file \in [Hosts -> Seq(1..Entries)] /\ hist.of \in Seq(Hosts) /\ Len(hist.of) <= Entries
  BY HistIs DEF Histories, HistOK
<1>4. \A b \in Hosts : /\ m[b] \in {<<>>, hist.memory[b]} /\ p[b] \in {<<>>, hist.pending[b]}
                       /\ f[b] \in {<<>>, hist.file[b]}
  BY <1>3
<1>5. \A b \in Hosts : /\ m[b] \in LinesOf(hist.of, b) /\ p[b] \in LinesOf(hist.of, b)
                       /\ f[b] \in LinesOf(hist.of, b)
  <2> HIDE DEF m, p, f
  <2> QED BY <1>3, <1>4, NoLines DEF HistOK
<1>6. \A b \in Hosts : Before(f[b], p[b])
  <2> HIDE DEF m, p, f
  <2>1. \A s : Before(<<>>, s) /\ Before(s, <<>>) BY DEF Before
  <2>2. \A b \in Hosts : Before(hist.file[b], hist.pending[b]) BY DEF HistOK
  <2> QED BY <2>1, <2>2, <1>4
<1>7. m \in Histories /\ p \in Histories /\ f \in Histories
  <2>1. /\ DOMAIN m = Hosts /\ m = [b \in Hosts |-> m[b]] /\ DOMAIN p = Hosts /\ p = [b \in Hosts |-> p[b]]
        /\ DOMAIN f = Hosts /\ f = [b \in Hosts |-> f[b]]
    BY <1>3
  <2> HIDE DEF m, p, f
  <2> QED BY <2>1, <1>3, <1>5, HistoriesOf
<1> HIDE DEF m, p, f
<1>8. /\ hist' \in HistRecords /\ hist'.memory = m /\ hist'.pending = p /\ hist'.file = f
      /\ hist'.of = hist.of
  BY <1>2, <1>7 DEF HistOK, HistRecords
<1>9. HistOK(hist') BY <1>3, <1>5, <1>6, <1>8 DEF HistOK
<1>10. shown' = [shown EXCEPT !.list = <<>>] BY DEF ClearHistory
<1>11. shown' \in ShownRecords(hist.of) /\ shown'.list = <<>>
  BY <1>3, <1>10, NoLines DEF ShownOK, ShownRecords
<1>12. ShownOK(shown', hist.of) BY <1>3, <1>11, NoLines DEF ShownOK
<1> QED BY <1>8, <1>9, <1>12

\* The flush timer, the window, the mode and a restart keep the invariant of the history.
LEMMA OtherHistoryOK ==
  ASSUME HistOK(hist), ShownOK(shown, hist.of), FlushTimer \/ Activate \/ SetHistoryMode \/ ProgramRestarts
  PROVE  HistOK(hist') /\ ShownOK(shown', hist'.of)
<1>1. CASE FlushTimer BY <1>1, FlushedOK DEF FlushTimer
<1>2. CASE Activate
  <2>1. PICK a \in Hosts : shown' = [active |-> a, list |-> HistoryGet(a)] BY <1>2 DEF Activate
  <2>2. HistoryGet(a) \in LinesOf(hist.of, a) BY DEF HistoryGet, HistOK
  <2>3. HistoryGet(a) \in RisingTo(Len(hist.of)) BY <2>2 DEF LinesOf
  <2>4. ShownOK(shown', hist.of) BY <2>1, <2>2, <2>3 DEF ShownOK, ShownRecords
  <2> QED BY <1>2, <2>4 DEF Activate
<1>3. CASE SetHistoryMode
  <2>1. hist' = [hist EXCEPT !.persistent = ~hist.persistent] /\ UNCHANGED shown BY <1>3 DEF SetHistoryMode
  <2>2. /\ hist' \in HistRecords /\ hist'.memory = hist.memory /\ hist'.pending = hist.pending
        /\ hist'.file = hist.file /\ hist'.of = hist.of
    BY <2>1 DEF HistOK, HistRecords
  <2> QED BY <2>1, <2>2 DEF HistOK
<1>4. CASE ProgramRestarts
  <2> DEFINE e == [a \in Hosts |-> <<>>]
  <2>1. hist' = [hist EXCEPT !.memory = e, !.pending = e] BY <1>4 DEF ProgramRestarts
  <2>2. e \in Histories BY DEF Histories
  <2>3. \A a \in Hosts : e[a] = <<>> OBVIOUS
  <2> HIDE DEF e
  <2>4. /\ hist' \in HistRecords /\ hist'.memory = e /\ hist'.pending = e
        /\ hist'.file = hist.file /\ hist'.of = hist.of
    BY <2>1, <2>2 DEF HistOK, HistRecords
  <2>5. hist.of \in Seq(Hosts) BY HistIs
  <2>6. HistOK(hist') BY <2>3, <2>4, <2>5, NoLines DEF HistOK, Before
  <2>7. shown' = [list |-> <<>>, active |-> NoHost] BY <1>4 DEF ProgramRestarts
  <2>8. ShownOK(shown', hist.of) BY <2>5, <2>7, NoLines DEF ShownOK, ShownRecords
  <2> QED BY <2>4, <2>6, <2>8
<1> QED BY <1>1, <1>2, <1>3, <1>4

-----------------------------------------------------------------------------
\* bump: the keys, and what is counted of each.
LEMMA BumpedIs ==
  ASSUME seen \in SeenRecords, IsInjective(seen.keys), Len(seen.keys) <= Seen, NEW k \in Notices
  PROVE  /\ Bumped(k) \in SeenRecords /\ IsInjective(Bumped(k).keys) /\ Len(Bumped(k).keys) <= Seen
         /\ Bumped(k).count[k] = IF k \in seen.fresh THEN seen.count[k] + 1 ELSE 1
         /\ \A j \in Notices \ {k} : Bumped(k).count[j] \in {0, seen.count[j]}
         /\ \A j \in Bumped(k).fresh \ {k} : j \in seen.fresh /\ Bumped(k).count[j] = seen.count[j]
<1> DEFINE r == RemoveFirst(seen.keys, k)
           all == Append(r, k)
           keys == IF Len(all) > Seen THEN Tail(all) ELSE all
           n == IF k \in seen.fresh THEN seen.count[k] + 1 ELSE 1
           count == [j \in Notices |-> IF j = k THEN n ELSE IF j \in ToSet(keys) THEN seen.count[j] ELSE 0]
           fresh == (seen.fresh \cup {k}) \cap ToSet(keys)
<1>1. /\ seen.keys \in Seq(Notices) /\ seen.count \in [Notices -> Nat] /\ seen.fresh \subseteq Notices
  BY DEF SeenRecords
<1>2. /\ r \in Seq(Notices) /\ IsInjective(r) /\ Len(r) \in 0..Len(seen.keys)
      /\ ToSet(r) = ToSet(seen.keys) \ {k}
  BY <1>1, RemovedFirst
<1>3. k \notin ToSet(r) BY <1>2
<1> HIDE DEF r
<1>4. all \in Seq(Notices) /\ Len(all) = Len(r) + 1 BY <1>2, AppendIn
<1>5. IsInjective(all) BY <1>2, <1>3, AppendedIsInjective
<1>6. Len(all) <= Seen + 1 /\ Len(all) \in Nat /\ Len(all) >= 1
  <2>1. Len(seen.keys) \in Nat /\ Len(r) \in Nat BY <1>1, <1>2, Elements
  <2> QED BY <2>1, <1>2, <1>4, JournalNumbers
<1> HIDE DEF all
<1>7. keys \in Seq(Notices) /\ IsInjective(keys) /\ Len(keys) <= Seen
  <2>1. CASE Len(all) > Seen
    <3>1. all # <<>> BY <1>6, <1>4
    <3>2. Tail(all) \in Seq(Notices) /\ IsInjective(Tail(all)) /\ Len(Tail(all)) = Len(all) - 1
      BY <3>1, <1>4, <1>5, TailInjective
    <3> QED BY <2>1, <3>2, <1>6, JournalNumbers
  <2>2. CASE ~(Len(all) > Seen) BY <2>2, <1>4, <1>5, <1>6, JournalNumbers
  <2> QED BY <2>1, <2>2
<1> HIDE DEF keys
<1>8. n \in Nat BY <1>1
<1>9. count \in [Notices -> Nat] /\ count[k] = n /\ (\A j \in Notices \ {k} : count[j] \in {0, seen.count[j]})
      /\ fresh \subseteq Notices /\ (\A j \in fresh \ {k} : j \in seen.fresh /\ count[j] = seen.count[j])
  <2> HIDE DEF n
  <2> QED BY <1>1, <1>8
<1>10. Bumped(k) = [keys |-> keys, count |-> count, fresh |-> fresh] BY DEF Bumped, keys, all, r
<1> HIDE DEF count, fresh
<1>11. Bumped(k) \in SeenRecords BY <1>7, <1>9, <1>10 DEF SeenRecords
<1>12. Bumped(k).keys = keys /\ Bumped(k).count = count /\ Bumped(k).fresh = fresh BY <1>10
<1> HIDE <1>10
<1> QED BY <1>7, <1>9, <1>11, <1>12

\* A notice is shown, or its bar misses it.
LEMMA PresentIs ==
  ASSUME seen \in SeenRecords, IsInjective(seen.keys), Len(seen.keys) <= Seen,
         bars \in [Notices -> BarRecords], MissedIsCounted, NEW k \in Notices, Present(k)
  PROVE  /\ seen' \in SeenRecords /\ IsInjective(seen'.keys) /\ Len(seen'.keys) <= Seen
         /\ bars' \in [Notices -> BarRecords] /\ MissedIsCounted'
         /\ \A j \in Notices : /\ seen'.count[j] <= seen.count[j] + 1
                               /\ bars'[j].says <= bars[j].says + 1 \/ bars'[j].says <= seen.count[j] + 1
                               /\ bars'[j].missed <= bars[j].missed + 1
                               /\ bars[j].says = 0 /\ bars'[j].says > 0 => bars'[j].says <= 1 + bars[j].missed
<1>0. /\ Bumped(k) \in SeenRecords /\ IsInjective(Bumped(k).keys) /\ Len(Bumped(k).keys) <= Seen
      /\ Bumped(k).count[k] = IF k \in seen.fresh THEN seen.count[k] + 1 ELSE 1
      /\ \A j \in Notices \ {k} : Bumped(k).count[j] \in {0, seen.count[j]}
      /\ \A j \in Bumped(k).fresh \ {k} : j \in seen.fresh /\ Bumped(k).count[j] = seen.count[j]
  BY BumpedIs
<1>1. PICK b : b = Bumped(k) OBVIOUS
<1>2. /\ seen' = b /\ \/ bars' = [bars EXCEPT ![k] = [says |-> b.count[k], missed |-> 0]]
                      \/ bars[k].says = 0 /\ bars' = [bars EXCEPT ![k] = [bars[k] EXCEPT !.missed = bars[k].missed + 1]]
  BY <1>1 DEF Present
<1>3. /\ \A j \in Notices : seen.count[j] \in Nat /\ b.count[j] \in Nat
      /\ \A j \in Notices : bars[j] \in BarRecords /\ bars[j].says \in Nat /\ bars[j].missed \in Nat
      /\ b.fresh \subseteq Notices /\ b \in SeenRecords
  BY <1>0, <1>1 DEF SeenRecords, BarRecords
<1>4. \A j \in Notices : seen'.count[j] <= seen.count[j] + 1
  BY <1>0, <1>1, <1>2, <1>3
<1>5. b.count[k] >= 1 /\ b.count[k] <= seen.count[k] + 1 /\ (bars[k].says = 0 => b.count[k] <= 1 + bars[k].missed)
  <2>1. CASE k \in seen.fresh
    <3>1. b.count[k] = seen.count[k] + 1 BY <1>0, <1>1, <2>1
    <3> QED BY <3>1, <1>3, <2>1 DEF MissedIsCounted
  <2>2. CASE k \notin seen.fresh
    <3>1. b.count[k] = 1 BY <1>0, <1>1, <2>2
    <3> QED BY <3>1, <1>3
  <2> QED BY <2>1, <2>2
<1>6. PICK r \in BarRecords :
        /\ bars' = [bars EXCEPT ![k] = r]
        /\ \/ r.says = b.count[k] /\ r.missed = 0
           \/ r.says = 0 /\ bars[k].says = 0 /\ r.missed = bars[k].missed + 1
  <2>1. CASE bars' = [bars EXCEPT ![k] = [says |-> b.count[k], missed |-> 0]]
    <3>1. [says |-> b.count[k], missed |-> 0] \in BarRecords BY <1>3 DEF BarRecords
    <3> QED BY <2>1, <3>1
  <2>2. CASE bars[k].says = 0 /\ bars' = [bars EXCEPT ![k] = [bars[k] EXCEPT !.missed = bars[k].missed + 1]]
    <3> DEFINE r == [bars[k] EXCEPT !.missed = bars[k].missed + 1]
    <3>1. bars[k] \in BarRecords /\ bars[k].missed + 1 \in Nat BY <1>3
    <3>2. r \in BarRecords /\ r.says = bars[k].says /\ r.missed = bars[k].missed + 1
      BY <3>1 DEF BarRecords
    <3> HIDE DEF r
    <3>3. bars' = [bars EXCEPT ![k] = r] BY <2>2 DEF r
    <3> QED BY <2>2, <3>2, <3>3
  <2> QED BY <1>2, <2>1, <2>2
<1>7. bars' \in [Notices -> BarRecords] /\ bars'[k] = r /\ \A j \in Notices \ {k} : bars'[j] = bars[j]
  BY <1>6
<1>8. r.says \in Nat /\ r.missed \in Nat BY <1>6 DEF BarRecords
<1>9. \A j \in Notices : /\ bars'[j].says <= bars[j].says + 1 \/ bars'[j].says <= seen.count[j] + 1
                         /\ bars'[j].missed <= bars[j].missed + 1
                         /\ bars[j].says = 0 /\ bars'[j].says > 0 => bars'[j].says <= 1 + bars[j].missed
  <2> SUFFICES ASSUME NEW j \in Notices
               PROVE  /\ bars'[j].says <= bars[j].says + 1 \/ bars'[j].says <= seen.count[j] + 1
                      /\ bars'[j].missed <= bars[j].missed + 1
                      /\ bars[j].says = 0 /\ bars'[j].says > 0 => bars'[j].says <= 1 + bars[j].missed
    OBVIOUS
  <2>1. CASE j = k
    <3>1. CASE r.says = b.count[k] /\ r.missed = 0 BY <3>1, <2>1, <1>3, <1>5, <1>7
    <3>2. CASE r.says = 0 /\ bars[k].says = 0 /\ r.missed = bars[k].missed + 1
      BY <3>2, <2>1, <1>3, <1>7
    <3> QED BY <3>1, <3>2, <1>6
  <2>2. CASE j # k BY <2>2, <1>3, <1>7
  <2> QED BY <2>1, <2>2
<1>10. MissedIsCounted'
  <2> SUFFICES ASSUME NEW j \in b.fresh, bars'[j].says = 0 PROVE b.count[j] <= bars'[j].missed
    BY <1>2 DEF MissedIsCounted
  <2>1. CASE j = k
    <3>1. r.says = 0 /\ r.missed = bars[k].missed + 1 /\ bars[k].says = 0 BY <2>1, <1>5, <1>6, <1>7
    <3> QED BY <3>1, <2>1, <1>3, <1>5, <1>7
  <2>2. CASE j # k
    <3>1. j \in seen.fresh /\ b.count[j] = seen.count[j] /\ bars'[j] = bars[j]
      BY <2>2, <1>0, <1>1, <1>3, <1>7
    <3> QED BY <3>1 DEF MissedIsCounted
  <2> QED BY <2>1, <2>2
<1> QED BY <1>0, <1>1, <1>2, <1>3, <1>4, <1>7, <1>9, <1>10

-----------------------------------------------------------------------------
\* The types and the counts of the notices, from the invariant.
LEMMA NoticeTypes ==
  ASSUME JournalInv
  PROVE  /\ seen \in SeenRecords /\ IsInjective(seen.keys) /\ Len(seen.keys) <= Seen
         /\ bars \in [Notices -> BarRecords] /\ posts \in PostRecords /\ CountsFit /\ MissedIsCounted
         /\ posts.inbox \in Seq(Notices) /\ Len(posts.inbox) \in Nat /\ posts.given \in 0..Notes
         /\ posts.given \in Nat
         /\ \A k \in Notices : /\ posts.list[k] \in Nat /\ posts.kept[k] \in Nat /\ seen.count[k] \in Nat
                               /\ bars[k].says \in Nat /\ bars[k].missed \in Nat
<1>1. /\ seen \in SeenRecords /\ IsInjective(seen.keys) /\ Len(seen.keys) <= Seen
      /\ bars \in [Notices -> BarRecords] /\ posts \in PostRecords /\ CountsFit /\ MissedIsCounted
  BY DEF JournalInv
<1>2. posts.inbox \in Seq(Notices) /\ Len(posts.inbox) \in Nat /\ posts.given \in 0..Notes /\ posts.given \in Nat
  BY <1>1, JournalNumbers DEF PostRecords
<1>3. \A k \in Notices : posts.list[k] \in Nat /\ posts.kept[k] \in Nat /\ seen.count[k] \in Nat
  BY <1>1 DEF PostRecords, SeenRecords
<1>4. \A k \in Notices : bars[k].says \in Nat /\ bars[k].missed \in Nat
  BY <1>1 DEF BarRecords
<1> QED BY <1>1, <1>2, <1>3, <1>4

\* The arithmetic of one notice more that is listed and one less that waits.
LEMMA RoomIsLeft ==
  ASSUME NEW x \in Nat, NEW y \in Nat, NEW l \in Nat, NEW g \in Nat, NEW m \in Nat, NEW h \in Nat,
         x + l <= g, y <= x + 1, h + l >= g + m + 1
  PROVE  y + m <= h
OBVIOUS

\* A notice that is shown at once, or was waiting.
LEMMA ShowsKept ==
  ASSUME JournalInv, NEW k \in Notices, Present(k), UNCHANGED <<hist, shown>>,
         posts' \in PostRecords,
         posts'.given + Len(posts.inbox) >= posts.given + Len(posts'.inbox) + 1,
         \A j \in Notices : /\ posts'.list[j] <= posts.list[j] + 1
                            /\ posts'.kept[j] <= posts'.given
  PROVE  JournalInv'
<1>1. /\ seen' \in SeenRecords /\ IsInjective(seen'.keys) /\ Len(seen'.keys) <= Seen
      /\ bars' \in [Notices -> BarRecords] /\ MissedIsCounted'
      /\ \A j \in Notices : /\ seen'.count[j] <= seen.count[j] + 1
                            /\ bars'[j].says <= bars[j].says + 1 \/ bars'[j].says <= seen.count[j] + 1
                            /\ bars'[j].missed <= bars[j].missed + 1
  BY NoticeTypes, PresentIs
<1>2. posts'.given \in Nat /\ Len(posts'.inbox) \in Nat /\ (\A j \in Notices : posts'.list[j] \in Nat)
  BY JournalNumbers DEF PostRecords
<1>3. \A j \in Notices : seen'.count[j] \in Nat /\ bars'[j].says \in Nat /\ bars'[j].missed \in Nat
  BY <1>1 DEF SeenRecords, BarRecords
<1>4. CountsFit'
  <2> SUFFICES ASSUME NEW j \in Notices
               PROVE  /\ posts'.list[j] + Len(posts'.inbox) <= posts'.given
                      /\ seen'.count[j] + Len(posts'.inbox) <= posts'.given
                      /\ bars'[j].says + Len(posts'.inbox) <= posts'.given
                      /\ bars'[j].missed + Len(posts'.inbox) <= posts'.given
                      /\ posts'.kept[j] <= posts'.given
    BY DEF CountsFit
  <2>1. /\ posts.list[j] + Len(posts.inbox) <= posts.given
        /\ seen.count[j] + Len(posts.inbox) <= posts.given
        /\ bars[j].says + Len(posts.inbox) <= posts.given
        /\ bars[j].missed + Len(posts.inbox) <= posts.given
    BY DEF JournalInv, CountsFit
  <2>2. posts.given \in Nat /\ Len(posts.inbox) \in Nat /\ posts.list[j] \in Nat /\ seen.count[j] \in Nat
        /\ bars[j].says \in Nat /\ bars[j].missed \in Nat
    BY NoticeTypes
  <2>3. \A x \in Nat, y \in Nat : x + Len(posts.inbox) <= posts.given /\ y <= x + 1 => y + Len(posts'.inbox) <= posts'.given
    <3>1. posts'.given + Len(posts.inbox) >= posts.given + Len(posts'.inbox) + 1 OBVIOUS
    <3> QED BY <3>1, <2>2, <1>2, RoomIsLeft
  <2>4. /\ posts'.list[j] <= posts.list[j] + 1 /\ seen'.count[j] <= seen.count[j] + 1
        /\ bars'[j].says <= bars[j].says + 1 \/ bars'[j].says <= seen.count[j] + 1
        /\ bars'[j].missed <= bars[j].missed + 1 /\ posts'.kept[j] <= posts'.given
    BY <1>1
  <2>5. /\ posts'.list[j] \in Nat /\ seen'.count[j] \in Nat /\ bars'[j].says \in Nat /\ bars'[j].missed \in Nat
    BY <1>2, <1>3
  <2> QED BY <2>1, <2>2, <2>3, <2>4, <2>5
<1> QED BY <1>1, <1>4 DEF JournalInv

\* What noting a notice changes: the number given, and one count at most.
LEMMA NotedIs ==
  ASSUME JournalInv, posts.given < Notes, NEW k \in Notices
  PROVE  /\ Noted(k) \in PostRecords /\ Noted(k).given = posts.given + 1 /\ Noted(k).inbox = posts.inbox
         /\ Noted(k).list = posts.list
         /\ \A j \in Notices : Noted(k).kept[j] <= posts.given + 1
<1> DEFINE g == posts.given + 1
           m == [posts.kept EXCEPT ![k] = posts.kept[k] + 1]
<1>1. g \in 0..Notes BY NoticeTypes, JournalNumbers
<1>2. posts.kept \in [Notices -> Nat] /\ posts \in PostRecords BY NoticeTypes DEF PostRecords
<1>3. m \in [Notices -> Nat] /\ \A j \in Notices : m[j] <= posts.kept[j] + 1 BY <1>2
<1>4. \A j \in Notices : m[j] <= g
  <2> SUFFICES ASSUME NEW j \in Notices PROVE m[j] <= g OBVIOUS
  <2>1. m[j] <= posts.kept[j] + 1 /\ m[j] \in Nat BY <1>3
  <2>2. posts.kept[j] <= posts.given /\ posts.kept[j] \in Nat /\ posts.given \in Nat
    BY NoticeTypes DEF CountsFit
  <2> QED BY <2>1, <2>2
<1>5. Noted(k) = [posts EXCEPT !.given = g, !.kept = m] BY DEF Noted
<1>6. g = posts.given + 1 OBVIOUS
<1> HIDE DEF g, m
<1>7. /\ Noted(k) \in PostRecords /\ Noted(k).given = g /\ Noted(k).inbox = posts.inbox
      /\ Noted(k).list = posts.list /\ Noted(k).kept = m
  BY <1>1, <1>2, <1>3, <1>5 DEF PostRecords
<1> QED BY <1>4, <1>6, <1>7

\* What listing a notice changes: one count, by one.
LEMMA ListedIs ==
  ASSUME NEW p \in PostRecords, NEW k \in Notices, NEW i \in Seq(Notices)
  PROVE  LET q == [p EXCEPT !.inbox = i, !.list[k] = p.list[k] + 1] IN
         /\ q \in PostRecords /\ q.given = p.given /\ q.inbox = i /\ q.kept = p.kept
         /\ \A j \in Notices : q.list[j] <= p.list[j] + 1
<1> DEFINE m == [p.list EXCEPT ![k] = p.list[k] + 1]
           q == [p EXCEPT !.inbox = i, !.list[k] = p.list[k] + 1]
<1>1. p.list \in [Notices -> Nat] BY DEF PostRecords
<1>2. m \in [Notices -> Nat] /\ \A j \in Notices : m[j] <= p.list[j] + 1 BY <1>1
<1>3. q = [p EXCEPT !.inbox = i, !.list = m] OBVIOUS
<1> HIDE DEF m, q
<1>4. q \in PostRecords /\ q.given = p.given /\ q.inbox = i /\ q.kept = p.kept /\ q.list = m
  BY <1>2, <1>3 DEF PostRecords
<1>5. \A j \in Notices : q.list[j] <= p.list[j] + 1 BY <1>2, <1>4
<1> QED BY <1>4, <1>5 DEF q

\* A notice that is given keeps the invariant.
LEMMA NotifyKept ==
  ASSUME JournalInv, Notify
  PROVE  JournalInv'
<1>1. posts.given < Notes /\ UNCHANGED <<hist, shown>> BY DEF Notify
<1>2. PICK k \in Notices :
        \/ Present(k) /\ posts' = [Noted(k) EXCEPT !.list[k] = Noted(k).list[k] + 1]
        \/ posts' = [Noted(k) EXCEPT !.inbox = Append(Noted(k).inbox, k)] /\ UNCHANGED <<bars, seen>>
  BY DEF Notify
<1>3. PICK p : p = Noted(k) OBVIOUS
<1>4. /\ p \in PostRecords /\ p.given = posts.given + 1 /\ p.inbox = posts.inbox /\ p.list = posts.list
      /\ \A j \in Notices : p.kept[j] <= posts.given + 1
  BY <1>1, <1>3, NotedIs
<1>5. CASE Present(k) /\ posts' = [p EXCEPT !.list[k] = p.list[k] + 1]
  <2>1. p.inbox \in Seq(Notices) BY <1>4 DEF PostRecords
  <2>2. [p EXCEPT !.list[k] = p.list[k] + 1] = [p EXCEPT !.inbox = p.inbox, !.list[k] = p.list[k] + 1]
    BY <1>4 DEF PostRecords
  <2>3. /\ posts' \in PostRecords /\ posts'.given = p.given /\ posts'.inbox = p.inbox /\ posts'.kept = p.kept
        /\ \A j \in Notices : posts'.list[j] <= p.list[j] + 1
    <3>1. posts' = [p EXCEPT !.inbox = p.inbox, !.list[k] = p.list[k] + 1] BY <1>5, <2>2
    <3> QED BY <3>1, <1>4, <2>1, ListedIs
  <2>4. posts'.given + Len(posts.inbox) >= posts.given + Len(posts'.inbox) + 1
    BY <2>3, <1>4, NoticeTypes
  <2>5. \A j \in Notices : posts'.list[j] <= posts.list[j] + 1 /\ posts'.kept[j] <= posts'.given
    BY <2>3, <1>4
  <2> QED BY <1>1, <1>5, <2>3, <2>4, <2>5, ShowsKept
<1>6. CASE posts' = [p EXCEPT !.inbox = Append(p.inbox, k)] /\ UNCHANGED <<bars, seen>>
  <2> DEFINE i == Append(p.inbox, k)
  <2>1. i \in Seq(Notices) /\ Len(i) = Len(posts.inbox) + 1
    BY <1>4, NoticeTypes, AppendIn
  <2>2. posts' = [p EXCEPT !.inbox = i] BY <1>6
  <2> HIDE DEF i
  <2>3. /\ posts' \in PostRecords /\ posts'.given = p.given /\ posts'.inbox = i /\ posts'.kept = p.kept
        /\ posts'.list = p.list
    BY <1>4, <2>1, <2>2 DEF PostRecords
  <2>4. CountsFit'
    <3> SUFFICES ASSUME NEW j \in Notices
                 PROVE  /\ posts'.list[j] + Len(posts'.inbox) <= posts'.given
                        /\ seen.count[j] + Len(posts'.inbox) <= posts'.given
                        /\ bars[j].says + Len(posts'.inbox) <= posts'.given
                        /\ bars[j].missed + Len(posts'.inbox) <= posts'.given
                        /\ posts'.kept[j] <= posts'.given
      BY <1>6 DEF CountsFit
    <3>1. /\ posts.list[j] + Len(posts.inbox) <= posts.given
          /\ seen.count[j] + Len(posts.inbox) <= posts.given
          /\ bars[j].says + Len(posts.inbox) <= posts.given
          /\ bars[j].missed + Len(posts.inbox) <= posts.given
      BY DEF JournalInv, CountsFit
    <3>2. posts.given \in Nat /\ Len(posts.inbox) \in Nat /\ posts.list[j] \in Nat /\ seen.count[j] \in Nat
          /\ bars[j].says \in Nat /\ bars[j].missed \in Nat
      BY NoticeTypes
    <3>3. posts'.list[j] = posts.list[j] /\ posts'.kept[j] <= posts'.given
          /\ posts'.given = posts.given + 1 /\ Len(posts'.inbox) = Len(posts.inbox) + 1
      BY <2>1, <2>3, <1>4
    <3>4. \A x \in Nat : x + Len(posts.inbox) <= posts.given => x + Len(posts'.inbox) <= posts'.given
      <4>1. posts.given \in Nat /\ Len(posts.inbox) \in Nat /\ posts'.given = posts.given + 1
            /\ Len(posts'.inbox) = Len(posts.inbox) + 1
        BY <3>2, <3>3
      <4> QED BY <4>1
    <3> QED BY <3>1, <3>2, <3>3, <3>4
  <2>5. MissedIsCounted' BY <1>6 DEF JournalInv, MissedIsCounted
  <2> QED BY <1>1, <1>6, <2>3, <2>4, <2>5 DEF JournalInv
<1> QED BY <1>2, <1>3, <1>5, <1>6

\* A notice that is delivered to the window keeps the invariant.
LEMMA DeliverKept ==
  ASSUME JournalInv, DeliverNotice
  PROVE  JournalInv'
<1> DEFINE k == Head(posts.inbox)
           i == Tail(posts.inbox)
<1>1. /\ posts.inbox # <<>> /\ Present(k) /\ UNCHANGED <<hist, shown>>
      /\ posts' = [posts EXCEPT !.inbox = i, !.list[k] = posts.list[k] + 1]
  BY DEF DeliverNotice
<1>2. posts.inbox \in Seq(Notices) /\ posts \in PostRecords /\ posts.given \in Nat BY NoticeTypes
<1>3. k \in Notices /\ i \in Seq(Notices) /\ Len(posts.inbox) = Len(i) + 1 /\ Len(i) \in Nat BY <1>1, <1>2
<1> HIDE DEF k, i
<1>4. /\ posts' \in PostRecords /\ posts'.given = posts.given /\ posts'.inbox = i /\ posts'.kept = posts.kept
      /\ \A j \in Notices : posts'.list[j] <= posts.list[j] + 1
  BY <1>1, <1>2, <1>3, ListedIs
<1>5. posts'.given + Len(posts.inbox) >= posts.given + Len(posts'.inbox) + 1 BY <1>2, <1>3, <1>4
<1>6. \A j \in Notices : posts'.kept[j] <= posts'.given BY <1>4 DEF JournalInv, CountsFit
<1> QED BY <1>1, <1>3, <1>4, <1>5, <1>6, ShowsKept

\* The end of the time in which repeats are held back keeps the invariant.
LEMMA WindowPassesKept ==
  ASSUME JournalInv, WindowPasses
  PROVE  JournalInv'
<1>1. PICK k \in seen.fresh : seen' = [seen EXCEPT !.fresh = seen.fresh \ {k}]
  BY DEF WindowPasses
<1>2. /\ seen' \in SeenRecords /\ seen'.keys = seen.keys /\ seen'.count = seen.count /\ seen'.fresh \subseteq seen.fresh
  BY <1>1, NoticeTypes DEF SeenRecords
<1>3. UNCHANGED <<hist, shown, bars, posts>> BY DEF WindowPasses
<1>4. CountsFit' BY <1>2, <1>3 DEF JournalInv, CountsFit
<1>5. MissedIsCounted' BY <1>2, <1>3 DEF JournalInv, MissedIsCounted
<1> QED BY <1>2, <1>3, <1>4, <1>5 DEF JournalInv

\* A bar that is dropped keeps the invariant.
LEMMA DropKept ==
  ASSUME JournalInv, Drop
  PROVE  JournalInv'
<1>1. PICK k \in Notices :
        /\ bars' = [bars EXCEPT ![k] = NoBar]
        /\ seen' = [keys |-> RemoveFirst(seen.keys, k), count |-> [seen.count EXCEPT ![k] = 0],
                    fresh |-> seen.fresh \ {k}]
  BY DEF Drop
<1> DEFINE r == RemoveFirst(seen.keys, k)
           c == [seen.count EXCEPT ![k] = 0]
<1>2. seen.keys \in Seq(Notices) /\ seen.count \in [Notices -> Nat] /\ seen.fresh \subseteq Notices
  BY NoticeTypes DEF SeenRecords
<1>3. r \in Seq(Notices) /\ IsInjective(r) /\ Len(r) <= Seen
  <2>1. r \in Seq(Notices) /\ IsInjective(r) /\ Len(r) \in 0..Len(seen.keys) BY <1>2, NoticeTypes, RemovedFirst
  <2>2. Len(seen.keys) \in Nat /\ Len(seen.keys) <= Seen BY <1>2, NoticeTypes, Elements
  <2> HIDE DEF r
  <2> QED BY <2>1, <2>2, JournalNumbers
<1>4. c \in [Notices -> Nat] /\ c[k] = 0 /\ \A j \in Notices \ {k} : c[j] = seen.count[j] BY <1>2
<1> HIDE DEF r, c
<1>5. /\ seen' \in SeenRecords /\ seen'.keys = r /\ seen'.count = c /\ seen'.fresh = seen.fresh \ {k}
  BY <1>1, <1>2, <1>3, <1>4 DEF SeenRecords, r, c
<1>6. NoBar \in BarRecords /\ NoBar.says = 0 /\ NoBar.missed = 0 BY DEF NoBar, BarRecords
<1>7. /\ bars' \in [Notices -> BarRecords] /\ bars'[k] = NoBar
      /\ \A j \in Notices \ {k} : bars'[j] = bars[j]
  BY <1>1, <1>6, NoticeTypes
<1>8. UNCHANGED <<hist, shown, posts>> BY DEF Drop
<1>9. CountsFit'
  <2> SUFFICES ASSUME NEW j \in Notices
               PROVE  /\ posts.list[j] + Len(posts.inbox) <= posts.given
                      /\ c[j] + Len(posts.inbox) <= posts.given
                      /\ bars'[j].says + Len(posts.inbox) <= posts.given
                      /\ bars'[j].missed + Len(posts.inbox) <= posts.given
                      /\ posts.kept[j] <= posts.given
    BY <1>5, <1>8 DEF CountsFit
  <2>1. /\ posts.list[j] + Len(posts.inbox) <= posts.given
        /\ seen.count[j] + Len(posts.inbox) <= posts.given
        /\ bars[j].says + Len(posts.inbox) <= posts.given
        /\ bars[j].missed + Len(posts.inbox) <= posts.given
        /\ posts.kept[j] <= posts.given
    BY DEF JournalInv, CountsFit
  <2>2. posts.given \in Nat /\ Len(posts.inbox) \in Nat /\ posts.list[j] \in Nat BY NoticeTypes
  <2>3. CASE j = k BY <2>1, <2>2, <2>3, <1>4, <1>6, <1>7
  <2>4. CASE j # k BY <2>1, <2>4, <1>4, <1>7
  <2> QED BY <2>3, <2>4
<1>10. MissedIsCounted'
  <2> SUFFICES ASSUME NEW j \in seen'.fresh, bars'[j].says = 0 PROVE c[j] <= bars'[j].missed
    BY <1>5 DEF MissedIsCounted
  <2>1. j \in seen.fresh /\ j \in Notices \ {k} BY <1>2, <1>5
  <2> QED BY <2>1, <1>4, <1>7 DEF JournalInv, MissedIsCounted
<1> QED BY <1>3, <1>5, <1>7, <1>8, <1>9, <1>10 DEF JournalInv

\* Clearing the notices keeps the invariant.
LEMMA ClearNoticesKept ==
  ASSUME JournalInv, ClearNotices
  PROVE  JournalInv'
<1> DEFINE z == [k \in Notices |-> 0]
<1>1. posts' = [posts EXCEPT !.kept = z, !.list = z] /\ UNCHANGED <<hist, shown, bars, seen>> BY DEF ClearNotices
<1>2. z \in [Notices -> Nat] /\ \A j \in Notices : z[j] = 0 OBVIOUS
<1> HIDE DEF z
<1>3. /\ posts' \in PostRecords /\ posts'.given = posts.given /\ posts'.inbox = posts.inbox
      /\ posts'.kept = z /\ posts'.list = z
  BY <1>1, <1>2, NoticeTypes DEF PostRecords
<1>4. CountsFit'
  <2> SUFFICES ASSUME NEW j \in Notices
               PROVE  /\ posts'.list[j] + Len(posts'.inbox) <= posts'.given
                      /\ seen.count[j] + Len(posts'.inbox) <= posts'.given
                      /\ bars[j].says + Len(posts'.inbox) <= posts'.given
                      /\ bars[j].missed + Len(posts'.inbox) <= posts'.given
                      /\ posts'.kept[j] <= posts'.given
    BY <1>1 DEF CountsFit
  <2>1. /\ seen.count[j] + Len(posts.inbox) <= posts.given
        /\ bars[j].says + Len(posts.inbox) <= posts.given
        /\ bars[j].missed + Len(posts.inbox) <= posts.given
    BY DEF JournalInv, CountsFit
  <2>2. posts.given \in Nat /\ Len(posts.inbox) \in Nat /\ seen.count[j] \in Nat BY NoticeTypes
  <2> QED BY <2>1, <2>2, <1>2, <1>3
<1>5. MissedIsCounted' BY <1>1 DEF JournalInv, MissedIsCounted
<1> QED BY <1>1, <1>3, <1>4, <1>5 DEF JournalInv

-----------------------------------------------------------------------------
\* Notices at the start of the program.
LEMMA NoNotices ==
  ASSUME NEW n \in 0..Notes, NEW b, NEW s, NEW p,
         b = [k \in Notices |-> NoBar], s = NotSeen,
         p = [inbox |-> <<>>, given |-> n, kept |-> [k \in Notices |-> 0], list |-> [k \in Notices |-> 0]]
  PROVE  /\ s \in SeenRecords /\ IsInjective(s.keys) /\ Len(s.keys) <= Seen /\ s.fresh = {}
         /\ b \in [Notices -> BarRecords] /\ p \in PostRecords
         /\ \A k \in Notices : /\ p.list[k] + Len(p.inbox) <= p.given /\ s.count[k] + Len(p.inbox) <= p.given
                               /\ b[k].says + Len(p.inbox) <= p.given /\ b[k].missed + Len(p.inbox) <= p.given
                               /\ p.kept[k] <= p.given
<1> DEFINE z == [k \in Notices |-> 0]
<1>1. z \in [Notices -> Nat] /\ \A k \in Notices : z[k] = 0 OBVIOUS
<1>2. s = [keys |-> <<>>, count |-> z, fresh |-> {}] BY DEF NotSeen
<1>3. p = [inbox |-> <<>>, given |-> n, kept |-> z, list |-> z] OBVIOUS
<1> HIDE DEF z
<1>4. s \in SeenRecords /\ s.keys = <<>> /\ s.count = z /\ s.fresh = {} BY <1>1, <1>2 DEF SeenRecords
<1>5. p \in PostRecords /\ p.inbox = <<>> /\ p.given = n /\ p.kept = z /\ p.list = z BY <1>1, <1>3 DEF PostRecords
<1>6. NoBar \in BarRecords /\ NoBar.says = 0 /\ NoBar.missed = 0 BY DEF NoBar, BarRecords
<1>7. IsInjective(s.keys) /\ Len(s.keys) <= Seen BY <1>4, JournalNumbers DEF IsInjective
<1>8. n \in Nat /\ n >= 0 BY JournalNumbers
<1>9. \A k \in Notices : b[k] = NoBar /\ b \in [Notices -> BarRecords] BY <1>6
<1>10. b \in [Notices -> BarRecords] BY <1>6
<1>11. Len(p.inbox) = 0 BY <1>5
<1> QED BY <1>1, <1>4, <1>5, <1>6, <1>7, <1>8, <1>9, <1>10, <1>11

\* The history and the notices start in their invariant.
LEMMA JournalInitial == JournalInit => JournalInv
<1> SUFFICES ASSUME JournalInit PROVE JournalInv OBVIOUS
<1>1. 0 \in 0..Notes BY JournalNumbers
<1>2. /\ bars = [k \in Notices |-> NoBar] /\ seen = NotSeen
      /\ posts = [inbox |-> <<>>, given |-> 0, kept |-> [k \in Notices |-> 0], list |-> [k \in Notices |-> 0]]
  BY DEF JournalInit
<1>3. /\ seen \in SeenRecords /\ IsInjective(seen.keys) /\ Len(seen.keys) <= Seen /\ seen.fresh = {}
      /\ bars \in [Notices -> BarRecords] /\ posts \in PostRecords /\ CountsFit
  BY <1>1, <1>2, NoNotices DEF CountsFit
<1>4. MissedIsCounted BY <1>3 DEF MissedIsCounted
<1> DEFINE e == [h \in Hosts |-> <<>>]
<1>5. hist = [memory |-> e, pending |-> e, file |-> e, persistent |-> TRUE, of |-> <<>>]
  BY DEF JournalInit
<1>6. e \in Histories /\ \A a \in Hosts : e[a] = <<>> BY DEF Histories
<1> HIDE DEF e
<1>7. /\ hist \in HistRecords /\ hist.memory = e /\ hist.pending = e /\ hist.file = e /\ hist.of = <<>>
      /\ hist.of \in Seq(Hosts)
  BY <1>5, <1>6 DEF HistRecords
<1>8. HistOK(hist)
  <2>1. Len(hist.of) <= Entries BY <1>7, JournalNumbers
  <2>2. \A a \in Hosts : <<>> \in LinesOf(hist.of, a) BY <1>7, NoLines
  <2>3. Before(<<>>, <<>>) BY DEF Before
  <2> QED BY <1>6, <1>7, <2>1, <2>2, <2>3 DEF HistOK
<1>9. shown = [list |-> <<>>, active |-> NoHost] BY DEF JournalInit
<1>10. ShownOK(shown, hist.of) BY <1>7, <1>9, NoLines DEF ShownOK, ShownRecords
<1> QED BY <1>3, <1>4, <1>8, <1>10 DEF JournalInv

\* Every step of the history keeps the invariant, as the notices stay as they are.
LEMMA HistoryKept ==
  ASSUME JournalInv, HistoryNext
  PROVE  JournalInv'
<1>1. HistOK(hist') /\ ShownOK(shown', hist'.of)
  BY HistoryAddOK, ClearHistoryOK, OtherHistoryOK DEF HistoryNext, JournalInv
<1>2. CASE UNCHANGED <<bars, seen, posts>>
  BY <1>1, <1>2 DEF JournalInv, CountsFit, MissedIsCounted
<1>3. CASE ProgramRestarts
  <2>1. /\ bars' = [k \in Notices |-> NoBar] /\ seen' = NotSeen /\ posts.given \in 0..Notes
        /\ posts' = [inbox |-> <<>>, given |-> posts.given, kept |-> [k \in Notices |-> 0],
                     list |-> [k \in Notices |-> 0]]
    BY <1>3, NoticeTypes DEF ProgramRestarts
  <2>2. /\ seen' \in SeenRecords /\ IsInjective(seen'.keys) /\ Len(seen'.keys) <= Seen /\ seen'.fresh = {}
        /\ bars' \in [Notices -> BarRecords] /\ posts' \in PostRecords /\ CountsFit'
    BY <2>1, NoNotices DEF CountsFit
  <2>3. MissedIsCounted' BY <2>2 DEF MissedIsCounted
  <2> QED BY <1>1, <2>2, <2>3 DEF JournalInv
<1> QED BY <1>2, <1>3 DEF HistoryNext, HistoryAdd, FlushTimer, Activate, ClearHistory, SetHistoryMode

\* Every step keeps the invariant of the journal.
LEMMA JournalKept ==
  ASSUME JournalInv, [HistoryNext \/ NoticeNext]_journalVars
  PROVE  JournalInv'
<1>1. CASE UNCHANGED journalVars
  <2>1. UNCHANGED <<hist, shown, bars, seen, posts>> BY <1>1 DEF journalVars
  <2> QED BY <2>1 DEF JournalInv, CountsFit, MissedIsCounted
<1> QED BY <1>1, HistoryKept, NotifyKept, DeliverKept, WindowPassesKept, DropKept, ClearNoticesKept DEF NoticeNext

\* The invariant gives the types and the property of the history.
LEMMA JournalSafe ==
  ASSUME JournalInv
  PROVE  JournalTypeOK /\ HistoryIsOwn
<1>1. JournalTypeOK
  <2>1. /\ hist.memory \in Histories /\ hist.pending \in Histories /\ hist.file \in Histories
        /\ hist.persistent \in BOOLEAN /\ hist.of \in Seq(Hosts) /\ Len(hist.of) <= Entries
    BY HistIs DEF JournalInv, HistOK
  <2>2. shown.list \in Seq(1..Entries) /\ shown.active \in Hosts \cup {NoHost}
    BY <2>1, LinesAreEntries DEF JournalInv, ShownOK, ShownRecords
  <2>3. \A k \in Notices : /\ seen.count[k] \in 0..Notes /\ posts.kept[k] \in 0..Notes
                           /\ posts.list[k] \in 0..Notes /\ bars[k].says \in 0..Notes
                           /\ bars[k].missed \in 0..Notes
    <3> TAKE k \in Notices
    <3>1. /\ posts.list[k] + Len(posts.inbox) <= posts.given
          /\ seen.count[k] + Len(posts.inbox) <= posts.given
          /\ bars[k].says + Len(posts.inbox) <= posts.given
          /\ bars[k].missed + Len(posts.inbox) <= posts.given
          /\ posts.kept[k] <= posts.given
      BY DEF JournalInv, CountsFit
    <3>2. /\ posts.given \in Nat /\ posts.given <= Notes /\ Len(posts.inbox) \in Nat /\ posts.list[k] \in Nat
          /\ posts.kept[k] \in Nat /\ seen.count[k] \in Nat /\ bars[k].says \in Nat /\ bars[k].missed \in Nat
      BY NoticeTypes, JournalNumbers
    <3>3. \A x \in Nat : x + Len(posts.inbox) <= posts.given => x \in 0..Notes
      <4>1. posts.given \in Nat /\ posts.given <= Notes /\ Len(posts.inbox) \in Nat BY <3>2
      <4> QED BY <4>1, JournalNumbers
    <3>4. posts.kept[k] \in 0..Notes
      <4>1. posts.kept[k] \in Nat /\ posts.kept[k] <= posts.given /\ posts.given \in Nat /\ posts.given <= Notes
        BY <3>1, <3>2
      <4> QED BY <4>1, JournalNumbers
    <3> QED BY <3>1, <3>2, <3>3, <3>4
  <2>4. bars \in [Notices -> [says: 0..Notes, missed: 0..Notes]]
    <3>1. \A k \in Notices : bars[k] \in BarRecords BY NoticeTypes
    <3>2. \A k \in Notices : bars[k] \in [says: 0..Notes, missed: 0..Notes]
      BY <2>3, <3>1 DEF BarRecords
    <3> QED BY <3>2, NoticeTypes
  <2>5. seen.count \in [Notices -> 0..Notes] /\ seen.fresh \subseteq Notices
    BY <2>3, NoticeTypes DEF SeenRecords
  <2>6. posts.kept \in [Notices -> 0..Notes] /\ posts.list \in [Notices -> 0..Notes]
    BY <2>3, NoticeTypes DEF PostRecords
  <2> QED BY <2>1, <2>2, <2>4, <2>5, <2>6, NoticeTypes DEF JournalTypeOK
<1>2. HistoryIsOwn
  BY DEF JournalInv, ShownOK, ShownRecords, LinesOf, RisingTo, Ascending, HistoryIsOwn
<1> QED BY <1>1, <1>2

\* A bar that comes back says no more repeats than were held back.
LEMMA RepeatsAreTrue ==
  ASSUME JournalInv, HistoryNext \/ NoticeNext, NEW k \in Notices, bars[k].says = 0, bars'[k].says > 0
  PROVE  bars'[k].says <= 1 + bars[k].missed
<1>1. CASE \E j \in Notices : Present(j) BY <1>1, NoticeTypes, PresentIs
<1>2. CASE UNCHANGED bars BY <1>2
<1>3. CASE DeliverNotice
  <2>1. Head(posts.inbox) \in Notices BY <1>3, NoticeTypes DEF DeliverNotice
  <2> QED BY <1>1, <1>3, <2>1 DEF DeliverNotice
<1>4. CASE ProgramRestarts \/ Drop
  <2>1. bars' = [j \in Notices |-> NoBar] \/ \E j \in Notices : bars' = [bars EXCEPT ![j] = NoBar]
    BY <1>4 DEF ProgramRestarts, Drop
  <2>2. bars'[k] \in {bars[k], NoBar} BY <2>1, NoticeTypes
  <2> QED BY <2>2 DEF NoBar
<1>5. CASE Notify BY <1>1, <1>2, <1>5 DEF Notify
<1> QED BY <1>2, <1>3, <1>4, <1>5 DEF HistoryNext, HistoryAdd, FlushTimer, Activate, ClearHistory, SetHistoryMode,
       NoticeNext, WindowPasses, ClearNotices

-----------------------------------------------------------------------------
(* The tabs *)

PlaceType == [current: DeskPlaces, active: DeskPlaces, shown: DeskPlaces]
ExecType == [ip: DeskPlaces, kept: BOOLEAN, at: {"none", "spawned", "runs"}]
VncType == [known: SUBSET Addresses, astray: BOOLEAN]
SavesType == [file: Seq(Addresses), todo: Seq(Addresses)]

\* Each address has one tab, is once in the file, and what is left to restore
\* has no tab yet.
TabsAreOnce ==
  /\ tabs \in Seq(Addresses) /\ IsInjective(tabs) /\ Len(tabs) <= MaxTabs
  /\ saves \in SavesType /\ IsInjective(saves.file) /\ IsInjective(saves.todo)
  /\ ToSet(saves.todo) \cap ToSet(tabs) = {}

DeskInv ==
  /\ TabsAreOnce
  /\ place \in PlaceType /\ pings \subseteq Addresses /\ execs \in [Actions -> ExecType]
  /\ busy \in BOOLEAN /\ vncs \in VncType /\ widgetIp \in [Addresses -> DeskPlaces] /\ acted \in 0..Steps
  /\ \A e \in Actions : execs[e].kept => execs[e].at = "runs" /\ execs[e].ip \in Addresses
  /\ ActiveIsPinged /\ ShownIsActive /\ BusyEnds

\* One act more is still within the bound.
LEMMA ActCounts == ASSUME DeskInv, acted < Steps, acted' = acted + 1 PROVE acted' \in 0..Steps
<1>1. acted \in 0..Steps BY DEF DeskInv
<1> QED BY <1>1, DeskAssumption

\* The open tabs are addresses, those of the sequence of tabs.
LEMMA SetOfTabs == ASSUME DeskInv PROVE Open \subseteq Addresses /\ Open = ToSet(tabs)
<1>1. tabs \in Seq(Addresses) BY DEF DeskInv, TabsAreOnce
<1> QED BY <1>1, Elements DEF Open, ToSet

\* No tabs at all: each of them is there once.
LEMMA EmptyIsOnce ==
  /\ <<>> \in Seq(Addresses) /\ IsInjective(<<>>) /\ ToSet(<<>>) = {} /\ Len(<<>>) = 0 /\ 0 <= MaxTabs
BY DeskAssumption DEF IsInjective, ToSet

\* The execution that is over keeps nothing.
LEMMA NoExecIs == NoExec \in ExecType /\ ~NoExec.kept /\ NoExec.at = "none"
BY DEF NoExec, ExecType, DeskPlaces

\* A selected tab is active and shown.
LEMMA SelectedIs ==
  ASSUME NEW a \in DeskPlaces
  PROVE  Selected(a) \in PlaceType /\ Selected(a).active = a /\ Selected(a).shown = a
BY DEF Selected, PlaceType

\* The desk starts in its invariant.
LEMMA DeskInitial == DeskInit => DeskInv
<1> SUFFICES ASSUME DeskInit PROVE DeskInv OBVIOUS
<1>1. saves \in SavesType /\ saves.file = <<>> /\ saves.todo = <<>> /\ tabs = <<>>
  BY DEF DeskInit, SavesType
<1>2. TabsAreOnce BY <1>1, EmptyIsOnce DEF TabsAreOnce
<1>3. place \in PlaceType /\ place.active = NoTab BY DEF DeskInit, PlaceType, DeskPlaces
<1>4. execs \in [Actions -> ExecType] /\ \A e \in Actions : ~execs[e].kept BY NoExecIs DEF DeskInit
<1>5. vncs \in VncType BY DEF DeskInit, VncType
<1>6. widgetIp \in [Addresses -> DeskPlaces] /\ pings = {} /\ busy = FALSE BY DEF DeskInit, DeskPlaces
<1>7. acted \in 0..Steps BY DeskAssumption DEF DeskInit
<1> QED BY <1>2, <1>3, <1>4, <1>5, <1>6, <1>7 DEF DeskInv, ActiveIsPinged, ShownIsActive, BusyEnds

\* A new tab at the end.
LEMMA TabAdded ==
  ASSUME TabsAreOnce, NEW a \in Addresses, a \notin Open, Len(tabs) < MaxTabs, tabs' = Append(tabs, a)
  PROVE  /\ tabs' \in Seq(Addresses) /\ IsInjective(tabs') /\ Len(tabs') <= MaxTabs
         /\ ToSet(tabs') = ToSet(tabs) \cup {a}
<1>1. tabs \in Seq(Addresses) /\ IsInjective(tabs) /\ a \notin ToSet(tabs) BY DEF TabsAreOnce, Open
<1>2. IsInjective(tabs') /\ ToSet(tabs') = ToSet(tabs) \cup {a} BY <1>1, AppendedIsInjective
<1>3. tabs' \in Seq(Addresses) /\ Len(tabs') = Len(tabs) + 1 BY <1>1, AppendIn
<1>4. Len(tabs) \in Nat BY <1>1, Elements
<1> QED BY <1>2, <1>3, <1>4, DeskAssumption

\* What is saved after a change is the tabs as they are.
LEMMA SavedAsTabs ==
  ASSUME DeskInv, saves.todo = <<>>, tabs' \in Seq(Addresses), IsInjective(tabs'), Len(tabs') <= MaxTabs,
         saves' = [saves EXCEPT !.file = tabs']
  PROVE  TabsAreOnce'
<1>1. saves \in SavesType BY DEF DeskInv, TabsAreOnce
<1> DEFINE t == tabs'
<1>2. t \in Seq(Addresses) OBVIOUS
<1>3. saves' = [saves EXCEPT !.file = t] OBVIOUS
<1> HIDE DEF t
<1>4. saves' \in SavesType /\ saves'.file = t /\ saves'.todo = saves.todo
  BY <1>1, <1>2, <1>3 DEF SavesType
<1>5. saves' \in SavesType /\ saves'.file = tabs' /\ saves'.todo = <<>> BY <1>4 DEF t
<1> QED BY <1>5, EmptyIsOnce DEF TabsAreOnce

\* A tab that is added is active, shown and pinged.
LEMMA AddedIs ==
  ASSUME DeskInv, NEW a \in Addresses, Added(a)
  PROVE  /\ place' \in PlaceType /\ pings' \subseteq Addresses /\ widgetIp' \in [Addresses -> DeskPlaces]
         /\ ActiveIsPinged' /\ ShownIsActive'
<1>1. a \in DeskPlaces BY DEF DeskPlaces
<1>2. place' \in PlaceType /\ place'.active = a /\ place'.shown = a BY <1>1, SelectedIs DEF Added
<1>3. pings' \subseteq Addresses /\ a \in pings' BY DEF Added, StartPing, DeskInv
<1>4. widgetIp' \in [Addresses -> DeskPlaces] BY <1>1 DEF Added, DeskInv
<1> QED BY <1>2, <1>3, <1>4 DEF ActiveIsPinged, ShownIsActive

\* Adding and selecting a tab keep the invariant.
LEMMA AddTabKept ==
  ASSUME DeskInv, AddTab \/ SelectTab
  PROVE  DeskInv'
<1>1. acted' \in 0..Steps /\ saves.todo = <<>> /\ UNCHANGED <<execs, busy, vncs>>
  BY ActCounts DEF AddTab, SelectTab, Act
<1>2. CASE \E a \in Addresses : /\ a \notin Open /\ Len(tabs) < MaxTabs /\ Added(a)
                                /\ saves' = [saves EXCEPT !.file = tabs']
  <2>1. PICK a \in Addresses : /\ a \notin Open /\ Len(tabs) < MaxTabs /\ Added(a)
                               /\ saves' = [saves EXCEPT !.file = tabs']
    BY <1>2
  <2>2. tabs' \in Seq(Addresses) /\ IsInjective(tabs') /\ Len(tabs') <= MaxTabs
    BY <2>1, TabAdded DEF DeskInv, Added
  <2>3. TabsAreOnce' BY <2>1, <2>2, <1>1, SavedAsTabs
  <2>4. /\ place' \in PlaceType /\ pings' \subseteq Addresses /\ widgetIp' \in [Addresses -> DeskPlaces]
        /\ ActiveIsPinged' /\ ShownIsActive'
    BY <2>1, AddedIs
  <2> QED BY <2>3, <2>4, <1>1 DEF DeskInv, BusyEnds
<1>3. CASE \E a \in Addresses : /\ place' = Selected(a) /\ pings' = StartPing(pings, a)
                                /\ UNCHANGED <<tabs, widgetIp, saves>>
  <2>1. PICK a \in Addresses : /\ place' = Selected(a) /\ pings' = StartPing(pings, a)
                               /\ UNCHANGED <<tabs, widgetIp, saves>>
    BY <1>3
  <2>2. place' \in PlaceType /\ place'.active = a /\ place'.shown = a
    BY <2>1, SelectedIs DEF DeskPlaces
  <2>3. pings' \subseteq Addresses /\ a \in pings' BY <2>1 DEF StartPing, DeskInv
  <2> QED BY <2>1, <2>2, <2>3, <1>1 DEF DeskInv, TabsAreOnce, ActiveIsPinged, ShownIsActive, BusyEnds
<1>4. CASE AddTab BY <1>2, <1>3, <1>4 DEF AddTab
<1>5. CASE SelectTab BY <1>3, <1>5, SetOfTabs DEF SelectTab
<1> QED BY <1>4, <1>5

\* Closing a tab keeps the invariant.
LEMMA CloseTabKept ==
  ASSUME DeskInv, CloseTab
  PROVE  DeskInv'
<1>1. acted' \in 0..Steps /\ saves.todo = <<>> /\ UNCHANGED <<execs, busy>>
  BY ActCounts DEF CloseTab, Act
<1>2. PICK a \in Open : CloseTabOf(a) BY DEF CloseTab
<1>3. a \in Addresses /\ Open \subseteq Addresses /\ place \in PlaceType /\ NoTab \in DeskPlaces
  BY SetOfTabs DEF DeskInv, DeskPlaces
<1>4. tabs' = RemoveFirst(tabs, a) /\ saves' = [saves EXCEPT !.file = tabs'] BY <1>2 DEF CloseTabOf
<1>5. tabs' \in Seq(Addresses) /\ IsInjective(tabs') /\ Len(tabs') <= MaxTabs
  <2>1. tabs \in Seq(Addresses) /\ IsInjective(tabs) /\ Len(tabs) <= MaxTabs BY DEF DeskInv, TabsAreOnce
  <2>2. tabs' \in Seq(Addresses) /\ IsInjective(tabs') /\ Len(tabs') \in 0..Len(tabs) BY <2>1, <1>4, RemovedFirst
  <2>3. Len(tabs) \in Nat /\ MaxTabs \in Nat BY <2>1, Elements, DeskAssumption
  <2> QED BY <2>1, <2>2, <2>3
<1>6. TabsAreOnce' BY <1>1, <1>4, <1>5, SavedAsTabs
<1>7. vncs' \in VncType
  <2>1. vncs \in VncType /\ vncs' = [vncs EXCEPT !.known = vncs.known \ {a}] BY <1>2 DEF DeskInv, CloseTabOf
  <2> QED BY <2>1 DEF VncType
<1>8. widgetIp' \in [Addresses -> DeskPlaces] BY <1>2, <1>3 DEF CloseTabOf, DeskInv
<1>9. /\ place' \in PlaceType /\ pings' \subseteq Addresses /\ ActiveIsPinged' /\ ShownIsActive'
  <2> DEFINE left == IF place.active = a THEN NoTab ELSE place.active
             now == IF place.current = a THEN NoTab ELSE place.current
             quiet == [current |-> now, active |-> left, shown |-> place.shown]
  <2>1. CASE \E c \in DeskPlaces : place' = [quiet EXCEPT !.current = c] /\ pings' = StopPing(pings, a)
    <3>1. PICK c \in DeskPlaces : place' = [quiet EXCEPT !.current = c] /\ pings' = StopPing(pings, a)
      BY <2>1
    <3>2. left \in DeskPlaces /\ now \in DeskPlaces /\ place.shown \in DeskPlaces
      BY <1>3 DEF PlaceType
    <3>3. left # NoTab => left = place.active /\ left # a OBVIOUS
    <3> HIDE DEF left, now
    <3>4. place' \in PlaceType /\ place'.active = left /\ place'.shown = place.shown
      BY <3>1, <3>2 DEF PlaceType
    <3>5. pings' = pings \ {a} BY <3>1 DEF StopPing
    <3>6. ActiveIsPinged' BY <3>3, <3>4, <3>5, <1>1 DEF DeskInv, ActiveIsPinged
    <3>7. ShownIsActive' BY <3>3, <3>4 DEF DeskInv, ShownIsActive
    <3> QED BY <3>4, <3>5, <3>6, <3>7 DEF DeskInv
  <2>2. CASE \E b \in Open \ {a} : place' = Selected(b) /\ pings' = StartPing(StopPing(pings, a), b)
    <3>1. PICK b \in Open \ {a} : place' = Selected(b) /\ pings' = StartPing(StopPing(pings, a), b)
      BY <2>2
    <3>2. b \in Addresses /\ b \in DeskPlaces BY <1>3 DEF DeskPlaces
    <3>3. place' \in PlaceType /\ place'.active = b /\ place'.shown = b BY <3>1, <3>2, SelectedIs
    <3>4. b \in pings' /\ pings' \subseteq Addresses BY <3>1, <3>2 DEF StartPing, StopPing, DeskInv
    <3> QED BY <3>3, <3>4 DEF ActiveIsPinged, ShownIsActive
  <2>3. \A c \in (IF Open \ {a} = {} THEN {NoTab}
                  ELSE IF place.current = a THEN Open \ {a} ELSE {place.current}) : c \in DeskPlaces
    BY <1>3 DEF DeskPlaces, PlaceType
  <2> QED BY <1>2, <2>1, <2>2, <2>3 DEF CloseTabOf
<1> QED BY <1>1, <1>6, <1>7, <1>8, <1>9 DEF DeskInv, BusyEnds

\* Changing the address of a tab keeps the invariant.
LEMMA ChangeKept ==
  ASSUME DeskInv, ChangeTabIp
  PROVE  DeskInv'
<1>1. acted' \in 0..Steps /\ saves.todo = <<>> /\ UNCHANGED <<execs, busy>>
  BY ActCounts DEF ChangeTabIp, Act
<1>2. PICK a \in Open, b \in Addresses \ Open : Change(a, b) BY DEF ChangeTabIp
<1>3. a \in Addresses /\ Open \subseteq Addresses /\ place \in PlaceType /\ b \in DeskPlaces /\ NoTab \in DeskPlaces
      /\ a \in ToSet(tabs) /\ b \notin ToSet(tabs)
  BY SetOfTabs DEF DeskInv, DeskPlaces
<1>4. tabs' = Append(RemoveFirst(tabs, a), b) /\ saves' = [saves EXCEPT !.file = tabs'] BY <1>2 DEF Change
<1>5. tabs' \in Seq(Addresses) /\ IsInjective(tabs') /\ Len(tabs') <= MaxTabs
  <2>1. tabs \in Seq(Addresses) /\ IsInjective(tabs) /\ Len(tabs) <= MaxTabs BY DEF DeskInv, TabsAreOnce
  <2>2. PICK r : r = RemoveFirst(tabs, a) OBVIOUS
  <2>3. r \in Seq(Addresses) /\ IsInjective(r) /\ Len(r) = Len(tabs) - 1 /\ ToSet(r) = ToSet(tabs) \ {a}
    BY <2>1, <2>2, <1>3, RemovedFirst
  <2>4. b \notin ToSet(r) BY <2>3, <1>3
  <2>5. tabs' = Append(r, b) BY <2>2, <1>4
  <2>6. IsInjective(tabs') BY <2>3, <2>4, <2>5, AppendedIsInjective
  <2>7. tabs' \in Seq(Addresses) /\ Len(tabs') = Len(r) + 1 BY <2>3, <2>5, AppendIn
  <2>8. Len(tabs') = Len(tabs) 
    <3>1. Len(tabs) \in Nat BY <2>1, Elements
    <3> QED BY <3>1, <2>3, <2>7
  <2> QED BY <2>1, <2>6, <2>7, <2>8
<1>6. TabsAreOnce' BY <1>1, <1>4, <1>5, SavedAsTabs
<1>7. vncs' \in VncType
  <2> DEFINE k == IF a \in vncs.known THEN (vncs.known \ {a}) \cup {b} ELSE vncs.known
  <2>1. vncs \in VncType /\ vncs' = [vncs EXCEPT !.known = k] BY <1>2 DEF DeskInv, Change
  <2>2. k \subseteq Addresses BY <2>1 DEF VncType
  <2> HIDE DEF k
  <2> QED BY <2>1, <2>2 DEF VncType
<1>8. widgetIp' \in [Addresses -> DeskPlaces] BY <1>2, <1>3 DEF Change, DeskInv
<1>9. CASE place.active = a
  <2>1. /\ pings' = StartPing(StopPing(pings, a), b)
        /\ place' = [current |-> IF place.current = a THEN b ELSE place.current, active |-> b, shown |-> b]
    BY <1>2, <1>9 DEF Change
  <2>2. place' \in PlaceType /\ place'.active = b /\ place'.shown = b BY <2>1, <1>3 DEF PlaceType
  <2>3. pings' \subseteq Addresses /\ b \in pings' BY <2>1 DEF StartPing, StopPing, DeskInv
  <2> QED BY <2>2, <2>3, <1>1, <1>6, <1>7, <1>8 DEF DeskInv, ActiveIsPinged, ShownIsActive, BusyEnds
<1>10. CASE place.active # a
  <2>1. /\ pings' = StopPing(pings, a)
        /\ place' = [current |-> IF place.current = a THEN b ELSE place.current,
                     active |-> place.active, shown |-> place.shown]
    BY <1>2, <1>10 DEF Change
  <2>2. place' \in PlaceType /\ place'.active = place.active /\ place'.shown = place.shown
    BY <2>1, <1>3 DEF PlaceType
  <2>3. pings' = pings \ {a} BY <2>1 DEF StopPing
  <2>4. ActiveIsPinged' BY <2>2, <2>3, <1>1, <1>10 DEF DeskInv, ActiveIsPinged
  <2>5. ShownIsActive' BY <2>2 DEF DeskInv, ShownIsActive
  <2> QED BY <2>2, <2>3, <2>4, <2>5, <1>1, <1>6, <1>7, <1>8 DEF DeskInv, BusyEnds
<1> QED BY <1>9, <1>10

\* A reconnection, and a viewer that is registered, keep the invariant.
LEMMA WidgetsKept ==
  ASSUME DeskInv, Reconnected \/ RegisterVnc
  PROVE  DeskInv'
<1>1. UNCHANGED <<tabs, place, pings, execs, busy, saves, acted>> BY DEF Reconnected, RegisterVnc
<1>2. widgetIp' \in [Addresses -> DeskPlaces]
  BY SetOfTabs DEF Reconnected, RegisterVnc, DeskInv, DeskPlaces
<1>3. vncs' \in VncType
  <2>1. vncs \in VncType /\ Open \subseteq Addresses BY SetOfTabs DEF DeskInv
  <2>2. CASE Reconnected BY <2>1, <2>2 DEF Reconnected
  <2>3. CASE RegisterVnc
    <3>1. PICK a \in Open : vncs' = IF widgetIp[a] \in Open
                                     THEN [vncs EXCEPT !.known = vncs.known \cup {widgetIp[a]}]
                                     ELSE [vncs EXCEPT !.astray = TRUE]
      BY <2>3 DEF RegisterVnc
    <3>2. CASE widgetIp[a] \in Open
      <4>1. vncs' = [vncs EXCEPT !.known = vncs.known \cup {widgetIp[a]}] BY <3>1, <3>2
      <4> QED BY <2>1, <3>2, <4>1 DEF VncType
    <3>3. CASE widgetIp[a] \notin Open
      <4>1. vncs' = [vncs EXCEPT !.astray = TRUE] BY <3>1, <3>3
      <4> QED BY <2>1, <4>1 DEF VncType
    <3> QED BY <3>2, <3>3
  <2> QED BY <2>2, <2>3
<1> QED BY <1>1, <1>2, <1>3 DEF DeskInv, TabsAreOnce, ActiveIsPinged, ShownIsActive, BusyEnds

\* An action that is no longer what it was, when it did not run.
LEMMA ExecChanges ==
  ASSUME DeskInv, NEW e \in Actions, NEW r \in ExecType, execs' = [execs EXCEPT ![e] = r],
         r.kept => r.at = "runs" /\ r.ip \in Addresses
  PROVE  /\ execs' \in [Actions -> ExecType] /\ execs'[e] = r /\ \A d \in Actions \ {e} : execs'[d] = execs[d]
         /\ \A d \in Actions : execs'[d].kept => execs'[d].at = "runs" /\ execs'[d].ip \in Addresses
BY DEF DeskInv

\* Pressing an action keeps the invariant.
LEMMA TabButtonKept ==
  ASSUME DeskInv, PressAction
  PROVE  DeskInv'
<1>1. acted' \in 0..Steps /\ UNCHANGED <<tabs, place, pings, busy, vncs, widgetIp, saves>>
  BY ActCounts DEF PressAction, Act
<1>2. PICK e \in Actions : /\ execs[e] = NoExec /\ place.current # NoTab
                           /\ execs' = [execs EXCEPT ![e] = [ip |-> widgetIp[place.current],
                                                             kept |-> FALSE, at |-> "spawned"]]
  BY DEF PressAction
<1>3. widgetIp[place.current] \in DeskPlaces
  BY <1>2 DEF DeskInv, PlaceType, DeskPlaces
<1> DEFINE r == [ip |-> widgetIp[place.current], kept |-> FALSE, at |-> "spawned"]
<1>4. r \in ExecType /\ ~r.kept /\ r.at = "spawned" BY <1>3 DEF ExecType
<1>5. execs' = [execs EXCEPT ![e] = r] BY <1>2
<1> HIDE DEF r
<1>6. /\ execs' \in [Actions -> ExecType] /\ (\A d \in Actions \ {e} : execs'[d] = execs[d])
      /\ \A d \in Actions : execs'[d].kept => execs'[d].at = "runs" /\ execs'[d].ip \in Addresses
  BY <1>4, <1>5, ExecChanges
<1>7. ActiveIsPinged' /\ BusyEnds' BY <1>1, <1>2, <1>6, NoExecIs DEF DeskInv, ActiveIsPinged, BusyEnds
<1> QED BY <1>1, <1>6, <1>7 DEF DeskInv, TabsAreOnce, ShownIsActive

\* The start of an execution keeps the invariant.
LEMMA ExecStartsKept ==
  ASSUME DeskInv, ExecStarts
  PROVE  DeskInv'
<1>1. UNCHANGED <<tabs, place, vncs, widgetIp, saves, acted>> BY DEF ExecStarts
<1>2. PICK e \in Actions :
        /\ execs[e].at = "spawned"
        /\ \/ /\ execs[e].ip \in Open
              /\ execs' = [execs EXCEPT ![e] = [ip |-> execs[e].ip, kept |-> place.active = execs[e].ip, at |-> "runs"]]
              /\ busy' = TRUE
              /\ pings' = IF place.active = execs[e].ip THEN StopPing(pings, execs[e].ip) ELSE pings
           \/ execs' = [execs EXCEPT ![e] = NoExec] /\ UNCHANGED <<busy, pings>>
  BY DEF ExecStarts
<1>3. ~execs[e].kept BY <1>2 DEF DeskInv
<1>4. CASE execs' = [execs EXCEPT ![e] = NoExec] /\ UNCHANGED <<busy, pings>>
  <2>1. /\ execs' \in [Actions -> ExecType] /\ (\A d \in Actions \ {e} : execs'[d] = execs[d])
        /\ \A d \in Actions : execs'[d].kept => execs'[d].at = "runs" /\ execs'[d].ip \in Addresses
    BY <1>4, NoExecIs, ExecChanges
  <2>2. ActiveIsPinged' /\ BusyEnds' BY <1>1, <1>2, <1>3, <1>4, <2>1 DEF DeskInv, ActiveIsPinged, BusyEnds
  <2> QED BY <1>1, <1>4, <2>1, <2>2 DEF DeskInv, TabsAreOnce, ShownIsActive
<1>5. CASE /\ execs' = [execs EXCEPT ![e] = [ip |-> execs[e].ip, kept |-> place.active = execs[e].ip, at |-> "runs"]]
           /\ busy' = TRUE
           /\ pings' = IF place.active = execs[e].ip THEN StopPing(pings, execs[e].ip) ELSE pings
           /\ execs[e].ip \in Open
  <2> DEFINE kept == place.active = execs[e].ip
             r == [ip |-> execs[e].ip, kept |-> kept, at |-> "runs"]
  <2>0. kept \in BOOLEAN OBVIOUS
  <2>1. r \in ExecType /\ r.ip = execs[e].ip /\ r.at = "runs" /\ r.kept = kept
    <3>1. execs[e].ip \in DeskPlaces BY DEF DeskInv, ExecType
    <3> HIDE DEF kept
    <3> QED BY <2>0, <3>1 DEF ExecType
  <2>2. execs' = [execs EXCEPT ![e] = r] BY <1>5
  <2> HIDE DEF r
  <2>3. /\ execs' \in [Actions -> ExecType] /\ execs'[e] = r /\ (\A d \in Actions \ {e} : execs'[d] = execs[d])
        /\ \A d \in Actions : execs'[d].kept => execs'[d].at = "runs" /\ execs'[d].ip \in Addresses
    BY <2>1, <2>2, <1>5, SetOfTabs, ExecChanges
  <2>4. BusyEnds' BY <2>1, <2>3 DEF BusyEnds
  <2>5. pings' \subseteq Addresses BY <1>5 DEF StopPing, DeskInv
  <2>6. ActiveIsPinged'
    <3>1. CASE kept BY <3>1, <2>1, <2>3, <1>1 DEF ActiveIsPinged
    <3>2. CASE ~kept BY <3>2, <2>3, <1>1, <1>3, <1>5 DEF ActiveIsPinged, DeskInv
    <3> QED BY <3>1, <3>2
  <2> QED BY <1>1, <1>5, <2>3, <2>4, <2>5, <2>6 DEF DeskInv, TabsAreOnce, ShownIsActive
<1> QED BY <1>2, <1>4, <1>5

\* The end of an execution keeps the invariant.
LEMMA ExecEndsKept ==
  ASSUME DeskInv, ExecEnds
  PROVE  DeskInv'
<1>1. UNCHANGED <<tabs, place, vncs, widgetIp, saves, acted>> /\ busy' = FALSE BY DEF ExecEnds
<1>2. PICK e \in Actions :
        /\ execs[e].at = "runs" /\ execs' = [execs EXCEPT ![e] = NoExec]
        /\ pings' = IF execs[e].kept THEN StartPing(pings, execs[e].ip) ELSE pings
  BY DEF ExecEnds
<1>3. /\ execs' \in [Actions -> ExecType] /\ (\A d \in Actions \ {e} : execs'[d] = execs[d])
      /\ \A d \in Actions : execs'[d].kept => execs'[d].at = "runs" /\ execs'[d].ip \in Addresses
  BY <1>2, NoExecIs, ExecChanges
<1>7. execs[e].kept => execs[e].ip \in Addresses BY DEF DeskInv
<1>4. PICK all : all = pings \cup (IF execs[e].kept THEN {execs[e].ip} ELSE {}) OBVIOUS
<1>5. pings' = all BY <1>2, <1>4 DEF StartPing
<1>6. ActiveIsPinged' BY <1>1, <1>3, <1>4, <1>5 DEF DeskInv, ActiveIsPinged
<1>8. pings' \subseteq Addresses BY <1>4, <1>5, <1>7 DEF DeskInv
<1> QED BY <1>1, <1>3, <1>8, <1>6 DEF DeskInv, TabsAreOnce, ShownIsActive, BusyEnds

\* The end of the program keeps the invariant.
LEMMA ProgramEndsKept ==
  ASSUME DeskInv, ProgramEnds
  PROVE  DeskInv'
<1>1. acted' \in 0..Steps BY ActCounts DEF ProgramEnds
<1>2. /\ tabs' = <<>> /\ pings' = {} /\ busy' = FALSE /\ execs' = [e \in Actions |-> NoExec]
      /\ place' = [current |-> NoTab, active |-> NoTab, shown |-> NoTab]
      /\ vncs' = [known |-> {}, astray |-> vncs.astray]
      /\ widgetIp' = [a \in Addresses |-> NoTab]
  BY DEF ProgramEnds
<1>3. saves' \in SavesType /\ IsInjective(saves'.file) /\ IsInjective(saves'.todo)
  <2>1. /\ saves \in SavesType /\ IsInjective(saves.file) /\ tabs \in Seq(Addresses) /\ IsInjective(tabs)
    BY DEF DeskInv, TabsAreOnce
  <2>2. CASE saves' = [file |-> tabs, todo |-> tabs] BY <2>1, <2>2 DEF SavesType
  <2>3. CASE saves' = [saves EXCEPT !.todo = saves.file]
    <3>1. saves' \in SavesType /\ saves'.file = saves.file /\ saves'.todo = saves.file
      BY <2>1, <2>3 DEF SavesType
    <3> QED BY <3>1, <2>1
  <2> QED BY <2>2, <2>3 DEF ProgramEnds
<1>4. TabsAreOnce' BY <1>2, <1>3, EmptyIsOnce DEF TabsAreOnce
<1>5. place' \in PlaceType /\ place'.active = NoTab BY <1>2 DEF PlaceType, DeskPlaces
<1>6. execs' \in [Actions -> ExecType] /\ \A e \in Actions : ~execs'[e].kept BY <1>2, NoExecIs
<1>7. vncs' \in VncType
  <2>1. vncs.astray \in BOOLEAN BY DEF DeskInv, VncType
  <2> QED BY <2>1, <1>2 DEF VncType
<1>8. widgetIp' \in [Addresses -> DeskPlaces] BY <1>2 DEF DeskPlaces
<1> QED BY <1>1, <1>2, <1>4, <1>5, <1>6, <1>7, <1>8 DEF DeskInv, ActiveIsPinged, ShownIsActive, BusyEnds

\* Restoring a tab from the saved session keeps the invariant.
LEMMA RestoreKept ==
  ASSUME DeskInv, RestoreTab
  PROVE  DeskInv'
<1>1. saves.todo # <<>> /\ UNCHANGED <<execs, busy, vncs, acted>> BY DEF RestoreTab
<1>2. /\ saves \in SavesType /\ IsInjective(saves.todo) /\ ToSet(saves.todo) \cap ToSet(tabs) = {}
      /\ tabs \in Seq(Addresses) /\ IsInjective(tabs) /\ Len(tabs) <= MaxTabs
  BY DEF DeskInv, TabsAreOnce
<1> DEFINE todo == saves.todo
           a == Head(todo)
<1>3. todo \in Seq(Addresses) /\ IsInjective(todo) /\ todo # <<>> BY <1>1, <1>2 DEF SavesType
<1>4. /\ Tail(todo) \in Seq(Addresses) /\ IsInjective(Tail(todo))
      /\ ToSet(Tail(todo)) = ToSet(todo) \ {a}
  BY <1>3, TailInjective
<1>5. a \in Addresses /\ a \in ToSet(todo)
  <2>1. Len(todo) >= 1 /\ a = todo[1] /\ DOMAIN todo = 1..Len(todo) BY <1>3
  <2> QED BY <2>1, <1>3, Elements DEF ToSet
<1>6. saves' = [file |-> tabs', todo |-> Tail(todo)] BY DEF RestoreTab
<1>7. CASE Len(tabs) < MaxTabs /\ Added(a)
  <2>1. a \notin Open BY <1>2, <1>5 DEF Open
  <2>2. tabs' = Append(tabs, a) BY <1>7 DEF Added
  <2>3. /\ tabs' \in Seq(Addresses) /\ IsInjective(tabs') /\ Len(tabs') <= MaxTabs
        /\ ToSet(tabs') = ToSet(tabs) \cup {a}
    BY <2>1, <2>2, <1>5, <1>7, TabAdded DEF DeskInv
  <2>4. /\ place' \in PlaceType /\ pings' \subseteq Addresses /\ widgetIp' \in [Addresses -> DeskPlaces]
        /\ ActiveIsPinged' /\ ShownIsActive'
    BY <1>5, <1>7, AddedIs
  <2> HIDE DEF todo
  <2>5. saves' \in SavesType /\ saves'.file = tabs' /\ saves'.todo = Tail(todo)
    BY <1>4, <1>6, <2>3 DEF SavesType
  <2>6. ToSet(Tail(todo)) \cap ToSet(tabs') = {} BY <1>2, <1>4, <2>3 DEF todo
  <2>7. TabsAreOnce' BY <1>4, <2>3, <2>5, <2>6 DEF TabsAreOnce
  <2> QED BY <1>1, <2>4, <2>7 DEF DeskInv, BusyEnds
<1>8. CASE UNCHANGED <<tabs, place, pings, widgetIp>>
  <2> HIDE DEF todo
  <2>1. saves' \in SavesType /\ saves'.file = tabs /\ saves'.todo = Tail(todo)
    BY <1>2, <1>4, <1>6, <1>8 DEF SavesType
  <2>2. ToSet(Tail(todo)) \cap ToSet(tabs) = {} BY <1>2, <1>4 DEF todo
  <2>3. TabsAreOnce' BY <1>2, <1>4, <1>8, <2>1, <2>2 DEF TabsAreOnce
  <2> QED BY <1>1, <1>8, <2>3 DEF DeskInv, ActiveIsPinged, ShownIsActive, BusyEnds
<1> QED BY <1>7, <1>8 DEF RestoreTab

\* Every step keeps the invariant of the desk.
LEMMA DeskKept ==
  ASSUME DeskInv, [DeskNext]_deskVars
  PROVE  DeskInv'
<1>1. CASE UNCHANGED deskVars
  <2>1. UNCHANGED <<tabs, place, pings, execs, busy, vncs, widgetIp, saves, acted>> BY <1>1 DEF deskVars
  <2> QED BY <2>1 DEF DeskInv, TabsAreOnce, ActiveIsPinged, ShownIsActive, BusyEnds
<1>2. CASE DeskNext
  BY <1>2, AddTabKept, CloseTabKept, ChangeKept, WidgetsKept, TabButtonKept, ExecStartsKept, ExecEndsKept,
     ProgramEndsKept, RestoreKept
  DEF DeskNext
<1> QED BY <1>1, <1>2

\* The invariant gives the types and the properties of the desk.
LEMMA DeskSafe == DeskInv => DeskTypeOK /\ ActiveIsPinged /\ ShownIsActive /\ BusyEnds
<1> SUFFICES ASSUME DeskInv PROVE DeskTypeOK /\ ActiveIsPinged /\ ShownIsActive /\ BusyEnds OBVIOUS
<1>1. saves.file \in Seq(Addresses) /\ saves.todo \in Seq(Addresses) BY DEF DeskInv, TabsAreOnce, SavesType
<1>2. ToSet(saves.todo) \subseteq Addresses BY <1>1, Elements DEF ToSet
<1> QED BY <1>2, SetOfTabs DEF DeskInv, TabsAreOnce, DeskTypeOK, PlaceType, ExecType, VncType

-----------------------------------------------------------------------------
(* The information of a register *)

InfoTabType == [at: Cashes, up: BOOLEAN, loaded: BOOLEAN]
CashTypeType == [shown: TypeNames, session: TypeNames]
CollectionType == [at: {"none", "created", "type", "rest", "repeat"}, force: BOOLEAN,
                   snap: Snapshots, repeat: SUBSET Rest]
SectionsType == [groups: SUBSET Placeholders, waiting: SUBSET Placeholders,
                 rows: SUBSET PanelSections, notes: [PanelSections -> PanelNotes], problems: 0..Loads]

\* What the panel p shows of a section that ended with a status.
SectionIsShown(s, status, t, p) ==
  /\ (s \in p.rows) <=> (p.notes[s] = "none")
  /\ p.notes[s] = "failed" <=> status \in {"TIMEOUT", "ERROR"}
  /\ p.notes[s] = "skipped" <=> status = "SKIPPED"
  /\ p.notes[s] \in CashTypes => p.notes[s] = t /\ s \notin Features[p.notes[s]]

\* While sections come: those that are there are shown, of the type that is known.
SectionsCome ==
  /\ infoPanel.groups = Placeholders /\ cashType.shown = collection.snap.type
  /\ collection.snap.of["cash_type"] = "COMPLETE"
  /\ \A s \in PanelSections : collection.snap.of[s] # "PENDING" =>
       SectionIsShown(s, collection.snap.of[s], collection.snap.type, infoPanel)

InfoInv ==
  /\ infoTab \in InfoTabType /\ cashType \in CashTypeType /\ collection \in CollectionType
  /\ infoCache \in [Cashes -> Snapshots] /\ infoPanel \in SectionsType /\ loads \in 0..Loads
  /\ collection.at = "created" => collection.snap = EmptySnapshot
  /\ collection.at = "type" => infoPanel = Skeletons /\ collection.snap = EmptySnapshot
  /\ collection.at = "rest" => SectionsCome
  /\ PanelIsCollected

\* The sections of the panel, their groups, and the notes that are not a cash type.
LEMMA SectionsAre ==
  /\ "cash_type" \in PanelSections /\ Rest \subseteq PanelSections
  /\ \A s \in PanelSections : GroupOf[s] \in Placeholders
  /\ {"none", "skipped", "failed"} \subseteq PanelNotes /\ CashTypes \subseteq PanelNotes
  /\ \A t \in CashTypes : t \notin {"none", "skipped", "failed", "unknown"}
BY InfoPanelAssumption DEF PanelSections, Rest, PanelNotes

\* The empty snapshot, the panel without sections and the panel of placeholders, with their
\* types.
LEMMA EmptyIs ==
  /\ EmptySnapshot \in Snapshots
  /\ NoSections \in SectionsType /\ NoSections.groups = {}
  /\ Skeletons \in SectionsType /\ Skeletons.groups = Placeholders
<1>1. [s \in PanelSections |-> "PENDING"] \in [PanelSections -> Statuses] BY DEF Statuses
<1>2. EmptySnapshot \in Snapshots BY <1>1 DEF EmptySnapshot, Snapshots, TypeNames
<1>3. [s \in PanelSections |-> "none"] \in [PanelSections -> PanelNotes] BY DEF PanelNotes
<1>4. 0 \in 0..Loads BY InfoPanelAssumption
<1>5. NoSections \in SectionsType /\ NoSections.groups = {} BY <1>3, <1>4 DEF NoSections, SectionsType
<1>6. Skeletons \in SectionsType /\ Skeletons.groups = Placeholders BY <1>5 DEF Skeletons, SectionsType
<1> QED BY <1>2, <1>5, <1>6

\* A collection that has not begun has an empty snapshot.
LEMMA NoCollectionIs ==
  ASSUME NEW at \in {"none", "created"}, NEW f \in BOOLEAN, NEW snap \in Snapshots
  PROVE  /\ [NoCollection EXCEPT !.at = at, !.force = f] \in CollectionType
         /\ [NoCollection EXCEPT !.at = at, !.force = f].at = at
         /\ [NoCollection EXCEPT !.at = at, !.force = f].snap = EmptySnapshot
         /\ [NoCollection EXCEPT !.snap = snap] \in CollectionType
         /\ [NoCollection EXCEPT !.snap = snap].at = "none" /\ [NoCollection EXCEPT !.snap = snap].snap = snap
         /\ NoCollection \in CollectionType /\ NoCollection.at = "none"
<1>1. NoCollection \in CollectionType /\ NoCollection.at = "none" /\ NoCollection.snap = EmptySnapshot
  BY EmptyIs DEF NoCollection, CollectionType
<1> QED BY <1>1 DEF CollectionType

\* The information panel starts in its invariant.
LEMMA InfoPanelInitial == InfoPanelInit => InfoInv
<1> SUFFICES ASSUME InfoPanelInit PROVE InfoInv OBVIOUS
<1>1. infoTab \in InfoTabType /\ ~infoTab.loaded BY InfoPanelAssumption DEF InfoPanelInit, InfoTabType
<1>2. cashType \in CashTypeType BY DEF InfoPanelInit, CashTypeType, TypeNames
<1>3. collection \in CollectionType /\ collection.at = "none" BY NoCollectionIs, EmptyIs DEF InfoPanelInit
<1>4. infoPanel \in SectionsType /\ infoCache \in [Cashes -> Snapshots] BY EmptyIs DEF InfoPanelInit
<1>5. loads \in 0..Loads BY InfoPanelAssumption DEF InfoPanelInit
<1> QED BY <1>1, <1>2, <1>3, <1>4, <1>5 DEF InfoInv, PanelIsCollected

-----------------------------------------------------------------------------
(* A section that is rendered *)

\* A note replaces the rows of its section and leaves the others.
LEMMA NoteAdded ==
  ASSUME NEW p \in SectionsType, NEW s \in PanelSections, NEW text \in PanelNotes
  PROVE  LET r == AddNote(p, s, text)
         IN  /\ r \in SectionsType /\ r.groups = p.groups /\ r.problems = p.problems
             /\ r.rows = p.rows \ {s} /\ r.notes = [p.notes EXCEPT ![s] = text]
<1> DEFINE c == Comes(p, s)
           visible == c.rows \ {s}
           notes == [c.notes EXCEPT ![s] = text]
<1>1. c \in SectionsType /\ c.groups = p.groups /\ c.problems = p.problems /\ c.rows = p.rows /\ c.notes = p.notes
  BY DEF Comes, SectionsType
<1>2. AddNote(p, s, text) = [c EXCEPT !.rows = visible, !.notes = notes] BY <1>1 DEF AddNote, SectionsType
<1>3. visible \subseteq PanelSections /\ notes \in [PanelSections -> PanelNotes] BY <1>1 DEF SectionsType
<1>4. visible = p.rows \ {s} /\ notes = [p.notes EXCEPT ![s] = text] BY <1>1
<1> HIDE DEF c, visible, notes
<1>5. /\ AddNote(p, s, text) \in SectionsType /\ AddNote(p, s, text).groups = c.groups
      /\ AddNote(p, s, text).problems = c.problems
      /\ AddNote(p, s, text).rows = visible /\ AddNote(p, s, text).notes = notes
  BY <1>1, <1>2, <1>3 DEF SectionsType
<1> QED BY <1>1, <1>4, <1>5

\* Rows replace the note of their section and leave the others.
LEMMA ItemsAdded ==
  ASSUME NEW p \in SectionsType, NEW s \in PanelSections
  PROVE  LET r == AddItems(p, s)
         IN  /\ r \in SectionsType /\ r.groups = p.groups /\ r.problems = p.problems
             /\ r.rows = p.rows \cup {s} /\ r.notes = [p.notes EXCEPT ![s] = "none"]
<1> DEFINE c == Comes(p, s)
           visible == c.rows \cup {s}
           notes == [c.notes EXCEPT ![s] = "none"]
<1>1. c \in SectionsType /\ c.groups = p.groups /\ c.problems = p.problems /\ c.rows = p.rows /\ c.notes = p.notes
  BY DEF Comes, SectionsType
<1>2. AddItems(p, s) = [c EXCEPT !.rows = visible, !.notes = notes] BY <1>1 DEF AddItems, SectionsType
<1>3. visible \subseteq PanelSections /\ notes \in [PanelSections -> PanelNotes] BY <1>1, SectionsAre DEF SectionsType
<1>4. visible = p.rows \cup {s} /\ notes = [p.notes EXCEPT ![s] = "none"] BY <1>1
<1> HIDE DEF c, visible, notes
<1>5. /\ AddItems(p, s) \in SectionsType /\ AddItems(p, s).groups = c.groups
      /\ AddItems(p, s).problems = c.problems
      /\ AddItems(p, s).rows = visible /\ AddItems(p, s).notes = notes
  BY <1>1, <1>2, <1>3 DEF SectionsType
<1> QED BY <1>1, <1>4, <1>5

\* It is shown as it ended; the other sections stay as they are.
LEMMA Rendered ==
  ASSUME NEW p \in SectionsType, p.groups = Placeholders, NEW s \in PanelSections,
         NEW status \in Statuses, NEW t \in TypeNames
  PROVE  LET r == Render(p, s, status, t)
         IN  /\ r \in SectionsType /\ r.groups = Placeholders /\ r.problems = p.problems
             /\ \A o \in PanelSections \ {s} : (o \in r.rows <=> o \in p.rows) /\ r.notes[o] = p.notes[o]
             /\ SectionIsShown(s, status, t, r)
<1> DEFINE r == Render(p, s, status, t)
<1> SUFFICES /\ r \in SectionsType /\ r.groups = Placeholders /\ r.problems = p.problems
             /\ \A o \in PanelSections \ {s} : (o \in r.rows <=> o \in p.rows) /\ r.notes[o] = p.notes[o]
             /\ SectionIsShown(s, status, t, r)
  OBVIOUS
<1>1. GroupOf[s] \in p.groups BY SectionsAre
<1>2. p.notes \in [PanelSections -> PanelNotes] BY DEF SectionsType
<1>3. ASSUME NEW text \in PanelNotes, r = AddNote(p, s, text), text # "none",
             text = "failed" <=> status \in {"TIMEOUT", "ERROR"}, text = "skipped" <=> status = "SKIPPED",
             text \in CashTypes => text = t /\ s \notin Features[text]
      PROVE  /\ r \in SectionsType /\ r.groups = Placeholders /\ r.problems = p.problems
             /\ \A o \in PanelSections \ {s} : (o \in r.rows <=> o \in p.rows) /\ r.notes[o] = p.notes[o]
             /\ SectionIsShown(s, status, t, r)
  <2> HIDE DEF r
  <2>1. /\ r \in SectionsType /\ r.groups = p.groups /\ r.problems = p.problems
        /\ r.rows = p.rows \ {s} /\ r.notes = [p.notes EXCEPT ![s] = text]
    BY <1>3, NoteAdded
  <2>2. r.notes[s] = text /\ s \notin r.rows BY <1>2, <2>1
  <2>3. SectionIsShown(s, status, t, r) BY <1>3, <2>2 DEF SectionIsShown
  <2> QED BY <1>2, <2>1, <2>3
<1>4. CASE status \in {"TIMEOUT", "ERROR"}
  <2>1. PICK text \in PanelNotes : text = "failed" BY SectionsAre
  <2>2. r = AddNote(p, s, text) BY <1>1, <1>4, <2>1 DEF Render, AddError
  <2>3. status # "SKIPPED" BY <1>4
  <2>4. text = "failed" <=> status \in {"TIMEOUT", "ERROR"} BY <1>4, <2>1
  <2>5. text = "skipped" <=> status = "SKIPPED" BY <2>1, <2>3
  <2>6. text \notin CashTypes /\ text # "none" BY <2>1, SectionsAre
  <2>7. text \in CashTypes => text = t /\ s \notin Features[text] BY <2>6
  <2> HIDE DEF r
  <2> QED BY <1>3, <2>2, <2>4, <2>5, <2>6, <2>7
<1>5. CASE status = "SKIPPED"
  <2>1. PICK text \in PanelNotes : text = "skipped" BY SectionsAre
  <2>2. r = AddNote(p, s, text) BY <1>1, <1>5, <2>1 DEF Render
  <2>3. text = "failed" <=> status \in {"TIMEOUT", "ERROR"} BY <1>5, <2>1
  <2>4. text = "skipped" <=> status = "SKIPPED" BY <1>5, <2>1
  <2>5. text \notin CashTypes /\ text # "none" BY <2>1, SectionsAre
  <2>6. text \in CashTypes => text = t /\ s \notin Features[text] BY <2>5
  <2> HIDE DEF r
  <2> QED BY <1>3, <2>2, <2>3, <2>4, <2>5, <2>6
<1>6. CASE status \notin {"TIMEOUT", "ERROR", "SKIPPED"} /\ ~FeatureGate(s, t)
  <2>1. r = AddNote(p, s, t) BY <1>1, <1>6 DEF Render
  <2>2. t \in CashTypes /\ s \notin Features[t] BY <1>6 DEF FeatureGate, TypeNames
  <2>3. t \in PanelNotes /\ t \notin {"none", "failed", "skipped"} BY <2>2, SectionsAre
  <2>4. PICK text \in PanelNotes : text = t BY <2>3
  <2>5. r = AddNote(p, s, text) BY <2>1, <2>4
  <2>6. text = "failed" <=> status \in {"TIMEOUT", "ERROR"} BY <1>6, <2>3, <2>4
  <2>7. text = "skipped" <=> status = "SKIPPED" BY <1>6, <2>3, <2>4
  <2>8. text # "none" BY <2>3, <2>4
  <2>9. text \in CashTypes => text = t /\ s \notin Features[text] BY <2>2, <2>4
  <2> HIDE DEF r
  <2> QED BY <1>3, <2>5, <2>6, <2>7, <2>8, <2>9
<1>7. CASE status \notin {"TIMEOUT", "ERROR", "SKIPPED"} /\ FeatureGate(s, t)
  <2>1. r = AddItems(p, s) BY <1>1, <1>7 DEF Render
  <2> HIDE DEF r
  <2>2. /\ r \in SectionsType /\ r.groups = p.groups /\ r.problems = p.problems
        /\ r.rows = p.rows \cup {s} /\ r.notes = [p.notes EXCEPT ![s] = "none"]
    BY <2>1, ItemsAdded
  <2>3. r.notes[s] = "none" /\ s \in r.rows BY <1>2, <2>2
  <2>4. "none" \notin CashTypes BY SectionsAre
  <2>5. SectionIsShown(s, status, t, r)
    <3>1. PICK n : n = r.notes[s] OBVIOUS
    <3>2. n = "none" BY <2>3, <3>1
    <3>3. n = "failed" <=> status \in {"TIMEOUT", "ERROR"} BY <1>7, <3>2
    <3>4. n = "skipped" <=> status = "SKIPPED" BY <1>7, <3>2
    <3>5. n \in CashTypes => n = t /\ s \notin Features[n] BY <2>4, <3>2
    <3>6. (s \in r.rows) <=> (n = "none") BY <2>3, <3>2
    <3> QED BY <3>1, <3>3, <3>4, <3>5, <3>6 DEF SectionIsShown
  <2>6. \A o \in PanelSections \ {s} : (o \in r.rows <=> o \in p.rows) /\ r.notes[o] = p.notes[o]
    BY <1>2, <2>2
  <2> QED BY <2>2, <2>5, <2>6
<1> QED BY <1>4, <1>5, <1>6, <1>7

-----------------------------------------------------------------------------
(* What is done to the tab *)

\* The types of what the actions leave.
PanelTypes == /\ infoTab \in InfoTabType /\ cashType \in CashTypeType /\ collection \in CollectionType
              /\ infoCache \in [Cashes -> Snapshots] /\ infoPanel \in SectionsType /\ loads \in 0..Loads

\* Nothing is shown, or it is not settled yet.
LEMMA NothingSettled ==
  ASSUME PanelTypes', collection'.at \in {"none", "created"},
         collection'.at = "created" => collection'.snap = EmptySnapshot,
         collection'.at = "none" /\ infoTab'.loaded => infoPanel'.groups = {}
  PROVE  InfoInv'
BY DEF InfoInv, PanelTypes, PanelIsCollected

\* A load that starts has an empty snapshot.
LEMMA LoadStarts ==
  ASSUME InfoInv, NEW force \in BOOLEAN, StartLoad(force)
  PROVE  collection' \in CollectionType /\ collection'.at = "created" /\ collection'.snap = EmptySnapshot /\ loads' \in 0..Loads
<1>1. collection' \in CollectionType /\ collection'.at = "created" /\ collection'.snap = EmptySnapshot
  BY NoCollectionIs, EmptyIs DEF StartLoad
<1>2. loads' \in 0..Loads BY InfoPanelAssumption DEF StartLoad, NewLoad, InfoInv
<1> QED BY <1>1, <1>2

\* A forced load starts anew, or leaves the panel empty.
LEMMA LoadForced ==
  ASSUME InfoInv, ForceLoad
  PROVE  /\ collection' \in CollectionType /\ collection'.at \in {"none", "created"} /\ loads' \in 0..Loads
         /\ infoPanel' \in SectionsType /\ (collection'.at = "none" => infoPanel'.groups = {})
         /\ (collection'.at = "created" => collection'.snap = EmptySnapshot)
<1>1. CASE infoTab.up
  <2>1. StartLoad(TRUE) /\ UNCHANGED infoPanel BY <1>1 DEF ForceLoad
  <2>2. collection' \in CollectionType /\ collection'.at = "created" /\ collection'.snap = EmptySnapshot /\ loads' \in 0..Loads
    BY <2>1, LoadStarts
  <2> QED BY <2>1, <2>2 DEF InfoInv
<1>2. CASE ~infoTab.up
  <2>1. collection' = NoCollection /\ infoPanel' = NoSections /\ UNCHANGED loads BY <1>2 DEF ForceLoad
  <2>2. collection' \in CollectionType /\ collection'.at = "none" BY <2>1, NoCollectionIs, EmptyIs
  <2>3. infoPanel' \in SectionsType /\ infoPanel'.groups = {} BY <2>1, EmptyIs
  <2> QED BY <2>1, <2>2, <2>3 DEF InfoInv
<1> QED BY <1>1, <1>2

\* The type of the session can be set to any type name.
LEMMA SessionTypeIs ==
  ASSUME cashType \in CashTypeType, NEW t \in TypeNames
  PROVE  [cashType EXCEPT !.session = t] \in CashTypeType
BY DEF CashTypeType

\* A connection of the tab keeps the invariant.
LEMMA ConnectsKept == ASSUME InfoInv, ConnectTab PROVE InfoInv'
<1>1. collection' \in CollectionType /\ collection'.at = "created" /\ collection'.snap = EmptySnapshot /\ loads' \in 0..Loads
  BY LoadStarts DEF ConnectTab
<1>2. PICK t \in TypeNames : cashType' = [cashType EXCEPT !.session = t] BY DEF ConnectTab
<1>3. cashType' \in CashTypeType BY <1>2, SessionTypeIs DEF InfoInv
<1>4. infoTab' \in InfoTabType BY DEF ConnectTab, InfoInv, InfoTabType
<1>5. infoCache' \in [Cashes -> Snapshots] /\ infoPanel' \in SectionsType BY DEF ConnectTab, InfoInv
<1>6. PanelTypes' BY <1>1, <1>3, <1>4, <1>5 DEF PanelTypes
<1> QED BY <1>1, <1>6, NothingSettled

\* A lost link keeps the invariant.
LEMMA LosesLinkKept == ASSUME InfoInv, LosesLink PROVE InfoInv'
<1>1. infoTab' \in InfoTabType /\ infoTab'.loaded = infoTab.loaded BY DEF LosesLink, InfoInv, InfoTabType
<1>2. UNCHANGED <<cashType, collection, infoCache, infoPanel, loads>> BY DEF LosesLink
<1>3. SectionsCome => SectionsCome' BY <1>2 DEF SectionsCome, SectionIsShown
<1>4. PanelIsCollected' BY <1>1, <1>2 DEF InfoInv, PanelIsCollected
<1> QED BY <1>1, <1>2, <1>3, <1>4 DEF InfoInv

\* Reloading the information keeps the invariant.
LEMMA ReloadsKept == ASSUME InfoInv, ReloadInfo PROVE InfoInv'
<1>1. /\ collection' \in CollectionType /\ collection'.at \in {"none", "created"} /\ loads' \in 0..Loads
      /\ infoPanel' \in SectionsType /\ (collection'.at = "none" => infoPanel'.groups = {})
         /\ (collection'.at = "created" => collection'.snap = EmptySnapshot)
  BY LoadForced DEF ReloadInfo
<1>2. PanelTypes' BY <1>1 DEF PanelTypes, ReloadInfo, InfoInv
<1> QED BY <1>1, <1>2, NothingSettled

\* Selecting a cash type keeps the invariant.
LEMMA SelectsKept == ASSUME InfoInv, SelectCashType PROVE InfoInv'
<1>1. /\ collection' \in CollectionType /\ collection'.at \in {"none", "created"} /\ loads' \in 0..Loads
      /\ infoPanel' \in SectionsType /\ (collection'.at = "none" => infoPanel'.groups = {})
         /\ (collection'.at = "created" => collection'.snap = EmptySnapshot)
  BY LoadForced DEF SelectCashType
<1>2. PICK t \in TypeNames : cashType' = [cashType EXCEPT !.session = t] BY DEF SelectCashType, TypeNames
<1>3. cashType' \in CashTypeType BY <1>2, SessionTypeIs DEF InfoInv
<1>4. PanelTypes' BY <1>1, <1>3 DEF PanelTypes, SelectCashType, InfoInv
<1> QED BY <1>1, <1>4, NothingSettled

\* A refresh in the background keeps the invariant.
LEMMA RefreshesKept == ASSUME InfoInv, RefreshInBackground PROVE InfoInv'
<1>1. collection' \in CollectionType /\ collection'.at = "created" /\ collection'.snap = EmptySnapshot /\ loads' \in 0..Loads
  BY LoadStarts DEF RefreshInBackground
<1>2. infoTab' \in InfoTabType BY DEF RefreshInBackground, InfoInv, InfoTabType
<1>3. PanelTypes' BY <1>1, <1>2 DEF PanelTypes, RefreshInBackground, InfoInv
<1> QED BY <1>1, <1>3, NothingSettled

\* Moving to another address keeps the invariant.
LEMMA ReconnectsToKept == ASSUME InfoInv, ReconnectTo PROVE InfoInv'
<1>1. PICK c \in Cashes : /\ infoTab' = [at |-> c, up |-> FALSE, loaded |-> FALSE]
                          /\ infoCache' = [infoCache EXCEPT ![c] = EmptySnapshot]
  BY DEF ReconnectTo
<1>2. infoTab' \in InfoTabType /\ ~infoTab'.loaded BY <1>1 DEF InfoTabType
<1>3. infoCache' \in [Cashes -> Snapshots] BY <1>1, EmptyIs DEF InfoInv
<1>4. cashType' \in CashTypeType
  <2>1. "unknown" \in TypeNames BY DEF TypeNames
  <2> QED BY <2>1, SessionTypeIs DEF ReconnectTo, InfoInv
<1>5. collection' \in CollectionType /\ collection'.at = "none" BY NoCollectionIs, EmptyIs DEF ReconnectTo
<1>6. infoPanel' \in SectionsType BY EmptyIs DEF ReconnectTo
<1>7. PanelTypes' BY <1>2, <1>3, <1>4, <1>5, <1>6 DEF PanelTypes, ReconnectTo, InfoInv
<1> QED BY <1>2, <1>5, <1>7, NothingSettled

\* A reconnection keeps the invariant.
LEMMA ReconnectsKept == ASSUME InfoInv, DoReconnect PROVE InfoInv'
<1>1. infoTab' \in InfoTabType /\ ~infoTab'.loaded BY DEF DoReconnect, InfoInv, InfoTabType
<1>2. infoPanel' \in SectionsType BY EmptyIs DEF DoReconnect
<1>3. collection'.at = "none" BY DEF DoReconnect
<1>4. PanelTypes' BY <1>1, <1>2 DEF PanelTypes, DoReconnect, InfoInv
<1> QED BY <1>1, <1>3, <1>4, NothingSettled

-----------------------------------------------------------------------------
(* What a collection shows *)

\* A collection that ends leaves what it shows, and the problems it found.
LEMMA ShowsCollected ==
  ASSUME InfoInv, NEW snap \in Snapshots, NEW p \in SectionsType, Collected(snap, p),
         \A s \in PanelSections : SectionIsShown(s, snap.of[s], snap.type, p),
         infoCache' \in [Cashes -> Snapshots], UNCHANGED loads
  PROVE  InfoInv'
<1>1. infoTab' \in InfoTabType BY DEF Collected, InfoInv, InfoTabType
<1>2. collection' \in CollectionType /\ collection'.at = "none" /\ collection'.snap = snap
  BY NoCollectionIs DEF Collected
<1>3. cashType' \in CashTypeType
  <2>1. snap.type \in TypeNames BY DEF Snapshots
  <2> QED BY <2>1 DEF Collected, Known, InfoInv, CashTypeType
<1>4. PICK found \in {0, loads} : infoPanel' = [p EXCEPT !.problems = found]
  BY DEF Collected, CheckProblems
<1>5. found \in 0..Loads BY InfoPanelAssumption DEF InfoInv
<1>6. /\ infoPanel' \in SectionsType /\ infoPanel'.problems = found
      /\ infoPanel'.rows = p.rows /\ infoPanel'.notes = p.notes
  BY <1>4, <1>5 DEF SectionsType
<1>7. infoPanel'.problems \in {0, loads'} BY <1>6
<1>8. \A s \in PanelSections : SectionIsShown(s, snap.of[s], snap.type, infoPanel')
  BY <1>6 DEF SectionIsShown
<1>9. PanelIsCollected' BY <1>2, <1>7, <1>8 DEF PanelIsCollected, SectionIsShown
<1>10. loads' \in 0..Loads BY DEF InfoInv
<1> QED BY <1>1, <1>2, <1>3, <1>6, <1>9, <1>10 DEF InfoInv

\* Taking the cached snapshot keeps the invariant.
LEMMA CachedKept == ASSUME InfoInv, TakeCached PROVE InfoInv'
<1> DEFINE snap == infoCache[infoTab.at]
           Of(s) == Render(Skeletons, s, snap.of[s], snap.type)
           waiting == {g \in Skeletons.waiting : \A s \in PanelSections : g \in Of(s).waiting}
           visible == {s \in PanelSections : s \in Of(s).rows}
           notes == [s \in PanelSections |-> Of(s).notes[s]]
           p == [Skeletons EXCEPT !.waiting = waiting, !.rows = visible, !.notes = notes]
<1>1. Collected(snap, p) /\ UNCHANGED <<infoCache, loads>> BY DEF TakeCached
<1>2. snap \in Snapshots BY DEF InfoInv, InfoTabType
<1>3. snap.type \in TypeNames /\ \A s \in PanelSections : snap.of[s] \in Statuses BY <1>2 DEF Snapshots
<1>4. \A s \in PanelSections : Of(s) \in SectionsType /\ SectionIsShown(s, snap.of[s], snap.type, Of(s))
  <2> TAKE s \in PanelSections
  <2> QED BY <1>3, EmptyIs, Rendered
<1>5. waiting \subseteq Placeholders /\ visible \subseteq PanelSections BY EmptyIs DEF SectionsType
<1>6. notes \in [PanelSections -> PanelNotes] BY <1>4 DEF SectionsType
<1>7. \A s \in PanelSections : (s \in visible <=> s \in Of(s).rows) /\ notes[s] = Of(s).notes[s] OBVIOUS
<1> HIDE DEF snap, Of, waiting, visible, notes
<1>8. p \in SectionsType /\ p.rows = visible /\ p.notes = notes BY <1>5, <1>6, EmptyIs DEF SectionsType
<1>9. \A s \in PanelSections : SectionIsShown(s, snap.of[s], snap.type, p)
  BY <1>4, <1>7, <1>8 DEF SectionIsShown
<1> HIDE DEF p
<1>10. infoCache' \in [Cashes -> Snapshots] /\ UNCHANGED loads BY <1>1 DEF InfoInv
<1> QED BY <1>1, <1>2, <1>8, <1>9, <1>10, ShowsCollected

\* The start of the collection keeps the invariant.
LEMMA CollectsKept == ASSUME InfoInv, StartCollecting PROVE InfoInv'
<1>1. /\ collection' \in CollectionType /\ collection'.at = "type"
      /\ collection'.snap = EmptySnapshot
  <2>1. collection.snap = EmptySnapshot BY DEF StartCollecting, InfoInv
  <2> QED BY <2>1 DEF StartCollecting, InfoInv, CollectionType
<1>2. infoPanel' = Skeletons /\ UNCHANGED <<infoTab, cashType, infoCache, loads>> BY DEF StartCollecting
<1>3. infoPanel' \in SectionsType BY <1>2, EmptyIs
<1>4. PanelIsCollected' BY <1>1 DEF PanelIsCollected
<1> QED BY <1>1, <1>2, <1>3, <1>4 DEF InfoInv

\* While sections come nothing is settled.
LEMMA StillComing ==
  ASSUME PanelTypes', collection'.at = "rest", SectionsCome'
  PROVE  InfoInv'
BY DEF InfoInv, PanelTypes, PanelIsCollected

\* What a snapshot is after one section, or the type, was set.
LEMMA SnapshotIs ==
  ASSUME NEW snap \in Snapshots, NEW s \in PanelSections, NEW status \in Statuses, NEW t \in TypeNames
  PROVE  /\ [snap EXCEPT !.of[s] = status] \in Snapshots
         /\ [snap EXCEPT !.of[s] = status].type = snap.type
         /\ [snap EXCEPT !.of[s] = status].of = [snap.of EXCEPT ![s] = status]
         /\ [snap EXCEPT !.type = t, !.of[s] = status] \in Snapshots
         /\ [snap EXCEPT !.type = t, !.of[s] = status].type = t
         /\ [snap EXCEPT !.type = t, !.of[s] = status].of = [snap.of EXCEPT ![s] = status]
BY DEF Snapshots

\* A type that is found keeps the invariant.
LEMMA TypeComesKept == ASSUME InfoInv, TypeComes PROVE InfoInv'
<1>1. cashType.session \in TypeNames BY DEF InfoInv, CashTypeType
<1>2. PICK t \in TypeNames :
        LET snap == [collection.snap EXCEPT !.type = t, !.of["cash_type"] = "COMPLETE"] IN
        /\ cashType' = [shown |-> t, session |-> t]
        /\ collection' = [collection EXCEPT !.at = "rest", !.snap = snap]
        /\ infoPanel' = Render(infoPanel, "cash_type", "COMPLETE", t)
  BY <1>1 DEF TypeComes
<1>3. infoPanel = Skeletons /\ collection.snap = EmptySnapshot BY DEF TypeComes, InfoInv
<1> DEFINE snap == [collection.snap EXCEPT !.type = t, !.of["cash_type"] = "COMPLETE"]
<1>4. /\ snap \in Snapshots /\ snap.type = t
      /\ snap.of = [EmptySnapshot.of EXCEPT !["cash_type"] = "COMPLETE"]
  <2>1. PICK status \in Statuses : status = "COMPLETE" BY DEF Statuses
  <2>2. PICK s \in PanelSections : s = "cash_type" BY SectionsAre
  <2>3. PICK old \in Snapshots : old = collection.snap /\ old = EmptySnapshot BY <1>3, EmptyIs
  <2>4. snap = [old EXCEPT !.type = t, !.of[s] = status] BY <2>1, <2>2, <2>3
  <2> HIDE DEF snap
  <2>5. /\ [old EXCEPT !.type = t, !.of[s] = status] \in Snapshots
        /\ [old EXCEPT !.type = t, !.of[s] = status].type = t
        /\ [old EXCEPT !.type = t, !.of[s] = status].of = [old.of EXCEPT ![s] = status]
    BY DEF Snapshots
  <2>6. snap \in Snapshots /\ snap.type = t /\ snap.of = [old.of EXCEPT ![s] = status] BY <2>4, <2>5
  <2> QED BY <2>1, <2>2, <2>3, <2>6
<1>5. collection' = [collection EXCEPT !.at = "rest", !.snap = snap] BY <1>2
<1> HIDE DEF snap
<1>6. collection' \in CollectionType /\ collection'.at = "rest" /\ collection'.snap = snap
  BY <1>4, <1>5 DEF InfoInv, CollectionType
<1>7. \A s \in PanelSections : snap.of[s] # "PENDING" => s = "cash_type"
  BY <1>4 DEF EmptySnapshot
<1>8. snap.of["cash_type"] = "COMPLETE" BY <1>4, SectionsAre DEF EmptySnapshot
<1>9. /\ infoPanel' \in SectionsType /\ infoPanel'.groups = Placeholders
      /\ SectionIsShown("cash_type", "COMPLETE", t, infoPanel')
  <2>1. "COMPLETE" \in Statuses BY DEF Statuses
  <2>2. infoPanel' = Render(Skeletons, "cash_type", "COMPLETE", t) BY <1>2, <1>3
  <2> QED BY <2>1, <2>2, EmptyIs, SectionsAre, Rendered
<1>10. cashType' \in CashTypeType /\ cashType'.shown = t BY <1>2 DEF CashTypeType
<1>11. SectionsCome' BY <1>4, <1>6, <1>7, <1>8, <1>9, <1>10 DEF SectionsCome
<1>12. PanelTypes' BY <1>6, <1>9, <1>10 DEF PanelTypes, TypeComes, InfoInv
<1> QED BY <1>6, <1>11, <1>12, StillComing

\* A section that came is shown as it ended, the others as before.
LEMMA SectionShown ==
  ASSUME InfoInv, collection.at = "rest", NEW s \in Rest, NEW status \in Statuses, SectionIs(s, status),
         collection' \in CollectionType, collection'.at = "rest",
         collection'.snap = [collection.snap EXCEPT !.of[s] = status]
  PROVE  InfoInv'
<1>1. SectionsCome /\ s \in PanelSections /\ s # "cash_type" BY DEF InfoInv, Rest
<1>2. cashType.shown \in TypeNames /\ collection.snap \in Snapshots /\ infoPanel \in SectionsType
  BY DEF InfoInv, CashTypeType, CollectionType
<1>3. /\ infoPanel' \in SectionsType /\ infoPanel'.groups = Placeholders
      /\ \A o \in PanelSections \ {s} :
           (o \in infoPanel'.rows <=> o \in infoPanel.rows) /\ infoPanel'.notes[o] = infoPanel.notes[o]
      /\ SectionIsShown(s, status, cashType.shown, infoPanel')
  <2>1. infoPanel.groups = Placeholders BY <1>1 DEF SectionsCome
  <2>2. infoPanel' = Render(infoPanel, s, status, cashType.shown) BY DEF SectionIs
  <2> QED BY <1>1, <1>2, <2>1, <2>2, Rendered
<1>4. /\ collection'.snap.type = collection.snap.type
      /\ collection'.snap.of = [collection.snap.of EXCEPT ![s] = status]
      /\ collection.snap.of \in [PanelSections -> Statuses]
  <2>1. "unknown" \in TypeNames BY DEF TypeNames
  <2> QED BY <1>1, <1>2, <2>1, SnapshotIs DEF Snapshots
<1>5. collection'.snap.of["cash_type"] = "COMPLETE" BY <1>1, <1>4, SectionsAre DEF SectionsCome
<1>6. cashType'.shown = collection'.snap.type BY <1>1, <1>4 DEF SectionsCome, SectionIs
<1>7. ASSUME NEW o \in PanelSections, collection'.snap.of[o] # "PENDING"
      PROVE  SectionIsShown(o, collection'.snap.of[o], collection'.snap.type, infoPanel')
  <2>1. CASE o = s
    <3>1. collection'.snap.of[s] = status BY <1>1, <1>4
    <3>2. cashType.shown = collection'.snap.type BY <1>1, <1>4 DEF SectionsCome
    <3> QED BY <1>3, <2>1, <3>1, <3>2
  <2>2. CASE o # s
    <3>1. collection'.snap.of[o] = collection.snap.of[o] BY <1>4, <2>2
    <3>2. SectionIsShown(o, collection.snap.of[o], collection.snap.type, infoPanel)
      BY <1>1, <1>7, <3>1 DEF SectionsCome
    <3>3. (o \in infoPanel'.rows <=> o \in infoPanel.rows) /\ infoPanel'.notes[o] = infoPanel.notes[o]
      BY <1>3, <2>2
    <3>4. SectionIsShown(o, collection.snap.of[o], collection.snap.type, infoPanel')
      BY <3>2, <3>3 DEF SectionIsShown
    <3> QED BY <1>4, <3>1, <3>4
  <2> QED BY <2>1, <2>2
<1>8. SectionsCome' BY <1>3, <1>5, <1>6, <1>7 DEF SectionsCome
<1>9. PanelTypes' BY <1>3 DEF PanelTypes, SectionIs, InfoInv
<1> QED BY <1>8, <1>9, StillComing

\* A section that comes keeps the invariant.
LEMMA SectionComesKept == ASSUME InfoInv, SectionComes PROVE InfoInv'
<1>1. PICK s \in Rest, status \in Statuses \ {"PENDING"} :
        /\ SectionIs(s, status)
        /\ collection' = [collection EXCEPT
             !.snap.of[s] = status,
             !.repeat = IF status = "TIMEOUT" THEN @ \cup {s} ELSE @]
  BY DEF SectionComes
<1> DEFINE snap == [collection.snap EXCEPT !.of[s] = status]
           repeat == IF status = "TIMEOUT" THEN collection.repeat \cup {s} ELSE collection.repeat
<1>2. collection \in CollectionType /\ collection.at = "rest" BY DEF SectionComes, InfoInv
<1>3. collection' = [collection EXCEPT !.snap = snap, !.repeat = repeat] BY <1>1, <1>2 DEF CollectionType
<1>4. repeat \in SUBSET Rest BY <1>2 DEF CollectionType
<1>5. snap \in Snapshots
  <2>1. "unknown" \in TypeNames /\ s \in PanelSections BY DEF TypeNames, Rest
  <2>2. collection.snap \in Snapshots BY <1>2 DEF CollectionType
  <2> QED BY <2>1, <2>2, SnapshotIs
<1>6. snap = [collection.snap EXCEPT !.of[s] = status] OBVIOUS
<1> HIDE DEF snap, repeat
<1>7. collection' \in CollectionType /\ collection'.at = "rest" /\ collection'.snap = snap
  BY <1>2, <1>3, <1>4, <1>5 DEF CollectionType
<1> QED BY <1>1, <1>2, <1>6, <1>7, SectionShown

\* A section that comes a second time keeps the invariant.
LEMMA ComesAgainKept == ASSUME InfoInv, SectionComesAgain PROVE InfoInv'
<1>1. collection \in CollectionType /\ collection.at = "rest" BY DEF SectionComesAgain, InfoInv
<1>2. PICK s \in collection.repeat, status \in Statuses \ {"PENDING"} :
        IF status = "TIMEOUT"
        THEN /\ collection' = [collection EXCEPT !.repeat = @ \ {s}]
             /\ UNCHANGED <<infoTab, cashType, infoCache, infoPanel, loads>>
        ELSE /\ SectionIs(s, status)
             /\ collection' = [collection EXCEPT !.snap.of[s] = status, !.repeat = @ \ {s}]
  BY DEF SectionComesAgain
<1> DEFINE snap == [collection.snap EXCEPT !.of[s] = status]
           repeat == collection.repeat \ {s}
<1>3. repeat \in SUBSET Rest /\ s \in Rest BY <1>1 DEF CollectionType
<1>4. CASE status = "TIMEOUT"
  <2>1. /\ collection' = [collection EXCEPT !.repeat = repeat]
        /\ UNCHANGED <<infoTab, cashType, infoCache, infoPanel, loads>>
    BY <1>2, <1>4
  <2> HIDE DEF repeat
  <2>2. collection' \in CollectionType /\ collection'.at = "rest" /\ collection'.snap = collection.snap
    BY <1>1, <1>3, <2>1 DEF CollectionType
  <2>3. SectionsCome BY <1>1 DEF InfoInv
  <2>4. SectionsCome' BY <2>1, <2>2, <2>3 DEF SectionsCome, SectionIsShown
  <2>5. PanelTypes' BY <2>1, <2>2 DEF PanelTypes, InfoInv
  <2> QED BY <2>2, <2>4, <2>5, StillComing
<1>5. CASE status # "TIMEOUT"
  <2>1. SectionIs(s, status) BY <1>2, <1>5
  <2>2. collection' = [collection EXCEPT !.snap = snap, !.repeat = repeat]
    BY <1>1, <1>2, <1>5 DEF CollectionType
  <2>3. snap \in Snapshots
    <3>1. "unknown" \in TypeNames /\ s \in PanelSections BY <1>3 DEF TypeNames, Rest
    <3>2. collection.snap \in Snapshots BY <1>1 DEF CollectionType
    <3> QED BY <3>1, <3>2, SnapshotIs
  <2>4. snap = [collection.snap EXCEPT !.of[s] = status] OBVIOUS
  <2> HIDE DEF snap, repeat
  <2>5. collection' \in CollectionType /\ collection'.at = "rest" /\ collection'.snap = snap
    BY <1>1, <1>3, <2>2, <2>3 DEF CollectionType
  <2> QED BY <1>1, <1>3, <2>1, <2>4, <2>5, SectionShown
<1> QED BY <1>4, <1>5

\* The end of the collection keeps the invariant.
LEMMA CollectionEndsKept == ASSUME InfoInv, CollectionEnds PROVE InfoInv'
<1>1. SectionsCome /\ collection \in CollectionType /\ infoPanel \in SectionsType
  BY DEF CollectionEnds, InfoInv
<1>2. Collected(collection.snap, infoPanel) /\ UNCHANGED loads BY DEF CollectionEnds
<1>3. collection.snap \in Snapshots BY <1>1 DEF CollectionType
<1>4. ASSUME NEW s \in PanelSections
      PROVE  SectionIsShown(s, collection.snap.of[s], collection.snap.type, infoPanel)
  <2>1. collection.snap.of[s] # "PENDING"
    <3>1. CASE s = "cash_type" BY <1>1, <3>1 DEF SectionsCome
    <3>2. CASE s \in Rest BY <3>2 DEF CollectionEnds
    <3> QED BY <3>1, <3>2 DEF Rest
  <2> QED BY <1>1, <2>1 DEF SectionsCome
<1>5. infoCache' \in [Cashes -> Snapshots] BY <1>3 DEF CollectionEnds, InfoInv
<1> QED BY <1>1, <1>2, <1>3, <1>4, <1>5, ShowsCollected

\* Every step keeps the invariant of the information panel.
LEMMA InfoPanelKept == ASSUME InfoInv, [InfoPanelNext]_infoPanelVars PROVE InfoInv'
<1>1. CASE UNCHANGED infoPanelVars
  <2>1. UNCHANGED <<infoTab, cashType, collection, infoCache, infoPanel, loads>> BY <1>1 DEF infoPanelVars
  <2> QED BY <2>1 DEF InfoInv, SectionsCome, SectionIsShown, PanelIsCollected
<1>2. CASE InfoPanelNext
  BY <1>2, ConnectsKept, LosesLinkKept, ReloadsKept, SelectsKept, RefreshesKept, ReconnectsToKept,
     ReconnectsKept, CachedKept, CollectsKept, TypeComesKept, SectionComesKept, ComesAgainKept,
     CollectionEndsKept DEF InfoPanelNext
<1> QED BY <1>1, <1>2

\* The invariant gives the types and the property of the panel.
LEMMA InfoPanelSafe == InfoInv => InfoPanelTypeOK /\ PanelIsCollected
BY DEF InfoInv, InfoPanelTypeOK, InfoTabType, CashTypeType, CollectionType, SectionsType

-----------------------------------------------------------------------------
(* The parts together: they share nothing, so each keeps its invariant *)

PartsInv ==
  /\ TabJobsInv /\ ScreenInv /\ KeyboardInv /\ ProgramsInv /\ SettingsInv
  /\ CommandsInv /\ JournalInv /\ CollectInv /\ DeskInv /\ ConsoleInv
  /\ KeysInv /\ FilesInv /\ InfoInv /\ ShellInv /\ TreeInv

\* A step of the parts is a step of each of them, or leaves it alone.
LEMMA PartsStep ==
  ASSUME [PartsNext]_partVars
  PROVE  /\ [TabJobsNext]_tabJobsVars /\ [ScreenNext]_screenVars
         /\ [KeyboardNext]_keyboardVars /\ [ProgramsNext]_programVars
         /\ [SettingsNext]_settingsVars /\ [CommandsNext]_commandVars
         /\ [HistoryNext \/ NoticeNext]_journalVars /\ [CollectNext]_collectVars
         /\ [DeskNext]_deskVars /\ [ConsoleNext]_consoleVars /\ [KeysNext]_keyVars
         /\ [FilesNext]_filesVars /\ [InfoPanelNext]_infoPanelVars
         /\ [ShellNext]_shellVars /\ [TreeNext]_treeVars
<1>1. CASE UNCHANGED partVars BY <1>1 DEF partVars
<1>2. CASE TabJobsPart BY <1>2 DEF TabJobsPart
<1>3. CASE ScreenPart BY <1>3 DEF ScreenPart
<1>4. CASE KeyboardPart BY <1>4 DEF KeyboardPart
<1>5. CASE ProgramsPart BY <1>5 DEF ProgramsPart
<1>6. CASE SettingsPart BY <1>6 DEF SettingsPart
<1>7. CASE CommandsPart BY <1>7 DEF CommandsPart
<1>8. CASE HistoryPart BY <1>8 DEF HistoryPart
<1>9. CASE NoticesPart BY <1>9 DEF NoticesPart
<1>10. CASE LogsPart BY <1>10 DEF LogsPart
<1>11. CASE DeskPart BY <1>11 DEF DeskPart
<1>12. CASE ConsolePart BY <1>12 DEF ConsolePart
<1>13. CASE KeysPart BY <1>13 DEF KeysPart
<1>14. CASE FilesPart BY <1>14 DEF FilesPart
<1>15. CASE InformationPart BY <1>15 DEF InformationPart
<1>16. CASE ShellPart BY <1>16 DEF ShellPart
<1>17. CASE TreePart BY <1>17 DEF TreePart
<1> QED
  BY <1>1, <1>2, <1>3, <1>4, <1>5, <1>6, <1>7, <1>8, <1>9, <1>10, <1>11, <1>12, <1>13,
     <1>14, <1>15, <1>16, <1>17 DEF PartsNext

\* The invariant of the parts, for any cash registers, keyboards, commands, sections and bounds.
THEOREM PartsInductive == PartsSpec => []PartsInv
<1>1. PartsInit => PartsInv
  BY TabJobsInitial, ScreenInitial, KeyboardInitial, ProgramsInitial, SettingsInitial,
     CommandsInitial, JournalInitial, CollectInitial, DeskInitial, ConsoleInitial, KeysInitial,
     FilesInitial, InfoPanelInitial, ShellInitial, TreeInitial
  DEF PartsInit, PartsInv
<1>2. PartsInv /\ [PartsNext]_partVars => PartsInv'
  <2> SUFFICES ASSUME PartsInv, [PartsNext]_partVars PROVE PartsInv' OBVIOUS
  <2>1. /\ [TabJobsNext]_tabJobsVars /\ [ScreenNext]_screenVars
        /\ [KeyboardNext]_keyboardVars /\ [ProgramsNext]_programVars
        /\ [SettingsNext]_settingsVars /\ [CommandsNext]_commandVars
        /\ [HistoryNext \/ NoticeNext]_journalVars /\ [CollectNext]_collectVars
        /\ [DeskNext]_deskVars /\ [ConsoleNext]_consoleVars /\ [KeysNext]_keyVars
        /\ [FilesNext]_filesVars /\ [InfoPanelNext]_infoPanelVars
        /\ [ShellNext]_shellVars /\ [TreeNext]_treeVars
    BY PartsStep
  <2>2. /\ TabJobsInv /\ ScreenInv /\ KeyboardInv /\ ProgramsInv /\ SettingsInv
        /\ CommandsInv /\ JournalInv /\ CollectInv /\ DeskInv /\ ConsoleInv
        /\ KeysInv /\ FilesInv /\ InfoInv /\ ShellInv /\ TreeInv
    BY DEF PartsInv
  <2>3. TabJobsInv' /\ ScreenInv' BY <2>1, <2>2, TabJobsKept, ScreenKept
  <2>4. KeyboardInv' /\ ProgramsInv' BY <2>1, <2>2, KeyboardKept, ProgramsKept
  <2>5. SettingsInv' /\ CommandsInv' BY <2>1, <2>2, SettingsKept, CommandsKept
  <2>6. JournalInv' /\ CollectInv' BY <2>1, <2>2, JournalKept, CollectKept
  <2>7. DeskInv' /\ ConsoleInv' BY <2>1, <2>2, DeskKept, DbConsoleKept
  <2>8. KeysInv' /\ FilesInv' BY <2>1, <2>2, KeysKept, FilesKept
  <2>9. InfoInv' /\ ShellInv' /\ TreeInv' BY <2>1, <2>2, InfoPanelKept, ShellKept, TreeKept
  <2> QED BY <2>3, <2>4, <2>5, <2>6, <2>7, <2>8, <2>9 DEF PartsInv
<1> QED BY <1>1, <1>2, PTL DEF PartsSpec

\* The state of every part stays in its types, for any values of their constants.
THEOREM PartsTypes == PartsSpec => []PartsTypeOK
<1>1. PartsInv => PartsTypeOK
  <2> SUFFICES ASSUME PartsInv PROVE PartsTypeOK OBVIOUS
  <2>1. TabJobsTypeOK /\ ScreenTypeOK /\ KeyboardTypeOK /\ ProgramsTypeOK
    BY ScreenSafe, KeyboardSafe, ProgramsSafe DEF PartsInv, TabJobsInv
  <2>2. SettingsTypeOK /\ CommandsTypeOK /\ JournalTypeOK /\ CollectTypeOK
    BY SettingsSafe, CommandsSafe, JournalSafe, CollectSafe DEF PartsInv
  <2>3. DeskTypeOK /\ ConsoleTypeOK /\ KeysTypeOK /\ FilesTypeOK
    BY DeskSafe, DbConsoleSafe, KeysSafe, FilesSafe DEF PartsInv
  <2>4. InfoPanelTypeOK /\ ShellTypeOK /\ TreeTypeOK
    BY InfoPanelSafe, ShellSafe, TreeSafe DEF PartsInv
  <2> QED BY <2>1, <2>2, <2>3, <2>4 DEF PartsTypeOK
<1> QED BY PartsInductive, <1>1, PTL

\* What is of one register, keyboard, collection or command is never used for another: the buttons
\* of a layout, the password of a program, the lines of a history, the archive that is reported,
\* the output of a command, the transfer that holds the shell.
THEOREM ThingsAreOwn == PartsSpec => []OwnThings
<1>1. PartsInv => OwnThings
  BY KeyboardSafe, ProgramsSafe, JournalSafe, CollectSafe, ShellSafe DEF PartsInv, OwnThings
<1> QED BY PartsInductive, <1>1, PTL

\* What has ended holds nothing and does nothing: a tab has one fix at a time, a drop that is over
\* has closed what it opened, a keyboard that is closed sends nothing, a program that is opened
\* again starts afresh.
THEOREM EndedHoldsNothing == PartsSpec => []EndedIsOver
<1>1. PartsInv => EndedIsOver
  BY TabJobsSafe, KeyboardSafe, ProgramsSafe DEF PartsInv, EndedIsOver
<1> QED BY PartsInductive, <1>1, PTL

\* Both ends agree: the screen holds what the host sent, in order; the register holds down the keys
\* the viewer counts as pressed; the shell uses the commands the register has.
THEOREM EndsAgree == PartsSpec => []BothEndsAgree
<1>1. PartsInv => BothEndsAgree
  BY ScreenSafe, KeysSafe, ShellSafe DEF PartsInv, BothEndsAgree
<1> QED BY PartsInductive, <1>1, PTL

\* Nothing waits for what has ended: a button is disabled only while work is under way, and the
\* active tab is pinged unless an action is to start its ping.
THEOREM NothingIsStuck == PartsSpec => []NothingStuck
<1>1. PartsInv => NothingStuck
  BY CollectSafe, DeskSafe, DbConsoleSafe DEF PartsInv, NothingStuck
<1> QED BY PartsInductive, <1>1, PTL

\* What the file manager shows, saves and removes is what was asked for: the rows are of the
\* directory in the address bar, a saved text is of its own file, what nobody touched is shown as
\* it is, and a removal takes its entry only.
THEOREM ShownFilesAreOwn == PartsSpec => FilesAreOwn
<1>1. PartsInv => RowsBelong /\ OwnTextIsSaved /\ UntouchedIsShown
  BY FilesSafe, TreeSafe DEF PartsInv
<1>2. PartsInv /\ [PartsNext]_partVars =>
        [work.op = "remove" /\ RemovedEntry \notin touched =>
           LET e == RemovedEntry IN
           /\ tree'.elsewhere = tree.elsewhere
           /\ \A o \in EntryNames \ {e} : tree'.kind[o] # tree.kind[o] => o \in touched'
           /\ tree.kind[e] = "dir" /\ tree'.kind[e] = "absent" /\ e \notin touched'
                => work.recursive]_treeVars
  BY PartsStep, RemovalStep DEF PartsInv
<1> QED BY PartsInductive, <1>1, <1>2, PTL DEF PartsSpec, FilesAreOwn, RemovalIsBounded

\* Where the file holds the key, passwords stay readable through starts and crashes; a wizard that
\* is left undoes its check; and passwords vanish only with the save of a dialog in which they were
\* cleared.
THEOREM SettingsSurvive == PartsSpec => SettingsHold
<1>1. PartsInv => PasswordsReadable /\ CheckIsUndone BY SettingsSafe DEF PartsInv
<1>2. PartsInv /\ [PartsNext]_partVars =>
        [settings.passwords.typed # 0 /\ settings'.passwords.typed = 0 /\ AppRuns'
         /\ wizard.check = "none" /\ wizard'.check = "none"
           => dialog.open /\ dialog.cleared]_settingsVars
  BY PartsStep, ClearedKept DEF PartsInv
<1> QED BY PartsInductive, <1>1, <1>2, PTL DEF PartsSpec, SettingsHold, ClearedOnPurpose

\* What is shown is of what is active and of the last question: the tab, the form of a command, the
\* card of a table, the sections of a register; a broken command is told as broken, and a notice
\* never counts more repeats than it missed.
THEOREM LastIsShown == PartsSpec => ShownIsCurrent
<1>1. PartsInv => ShownIsActive /\ FormIsFile /\ BreakIsFailure /\ PanelIsCollected
  BY DeskSafe, CommandsSafe, InfoPanelSafe DEF PartsInv
<1>2. PartsInv /\ [PartsNext]_partVars => [card'.shown # card.shown => card'.shown = card'.seq]_card
  BY PartsStep, CardIsLastStep DEF PartsInv
<1>3. PartsInv /\ [PartsNext]_partVars =>
        [\A k \in Notices :
           bars[k].says = 0 /\ bars'[k].says > 0 => bars'[k].says <= 1 + bars[k].missed]_bars
  <2> SUFFICES ASSUME PartsInv, [PartsNext]_partVars, bars' # bars,
                      NEW k \in Notices, bars[k].says = 0, bars'[k].says > 0
               PROVE  bars'[k].says <= 1 + bars[k].missed
    OBVIOUS
  <2>1. HistoryNext \/ NoticeNext BY PartsStep DEF journalVars
  <2> QED BY <2>1, RepeatsAreTrue DEF PartsInv
<1> QED BY PartsInductive, <1>1, <1>2, <1>3, PTL
        DEF PartsSpec, ShownIsCurrent, CardIsLast, NoFalseRepeat
=============================================================================
