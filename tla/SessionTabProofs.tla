--------------------------- MODULE SessionTabProofs ---------------------------
(***************************************************************************)
(* TLAPS proofs about SessionTab, for any number of connections, refreshes *)
(* and collections.                                                        *)
(***************************************************************************)
EXTENDS SessionTab, TLAPS

Panels == {"working", "message", "button", "skeleton", "sections"}
Tabs == [life : {"open", "closed", "deleted"}, queued : BOOLEAN,
         session : Conns \cup {None}, connectTask : Conns \cup {None},
         infoTask : Infos \cup {None}, loading : BOOLEAN, loaded : BOOLEAN,
         btn : BOOLEAN, vnc : BOOLEAN, panel : Panels]

\* What the invariants read of a tab.
SameTasks(t, u) ==
  /\ t.life = u.life /\ t.queued = u.queued /\ t.session = u.session
  /\ t.connectTask = u.connectTask /\ t.infoTask = u.infoTask

-----------------------------------------------------------------------------
(* Facts about the operators *)

LEMMA TypeOfTab ==
  TypeOK => /\ tab \in Tabs
            /\ conn \in [Conns -> {"unused", "ended"} \cup ConnAlive]
            /\ info \in [Infos -> {"unused", "ended"} \cup InfoAlive]
            /\ cancelled \subseteq Conns \cup Infos
BY DEF TypeOK, Tabs, Panels

LEMMA ShowButtonFacts ==
  ASSUME NEW t \in Tabs
  PROVE  /\ ShowButton(t) \in Tabs
         /\ SameTasks(ShowButton(t), t) /\ ShowButton(t).loading = t.loading
BY DEF Tabs, Panels, ShowButton, SameTasks

LEMMA StartConnectingFacts ==
  ASSUME TypeOK, NEW t \in Tabs, StartConnecting(t)
  PROVE  \E c \in Conns :
           /\ conn[c] = "unused" /\ conn' = [conn EXCEPT ![c] = "created"]
           /\ tab' \in Tabs /\ tab' = [t EXCEPT !.connectTask = c]
           /\ cancelled' = cancelled \cup Live(t.connectTask)
<1> DEFINE c == CHOOSE x \in FreshConns : TRUE
<1>1. c \in FreshConns
  BY DEF StartConnecting
<1>2. /\ tab' = [t EXCEPT !.connectTask = c] /\ conn' = [conn EXCEPT ![c] = "created"]
      /\ cancelled' = cancelled \cup Live(t.connectTask)
  BY DEF StartConnecting
<1> HIDE DEF c
<1>3. c \in Conns /\ conn[c] = "unused"
  BY <1>1 DEF FreshConns
<1>4. tab' \in Tabs
  BY <1>2, <1>3 DEF Tabs
<1> QED
  BY <1>2, <1>3, <1>4

LEMMA StartInfoFacts ==
  ASSUME TypeOK, NEW t \in Tabs, StartInfo(t)
  PROVE  \E i \in Infos :
           /\ info[i] = "unused" /\ info' = [info EXCEPT ![i] = "created"]
           /\ tab' \in Tabs /\ tab' = [t EXCEPT !.infoTask = i, !.loading = TRUE]
           /\ cancelled' = cancelled \cup Live(t.infoTask)
<1> DEFINE i == CHOOSE x \in FreshInfos : TRUE
<1>1. i \in FreshInfos
  BY DEF StartInfo
<1>2. /\ tab' = [t EXCEPT !.infoTask = i, !.loading = TRUE]
      /\ info' = [info EXCEPT ![i] = "created"]
      /\ cancelled' = cancelled \cup Live(t.infoTask)
  BY DEF StartInfo
<1> HIDE DEF i
<1>3. i \in Infos /\ info[i] = "unused"
  BY <1>1 DEF FreshInfos
<1>4. tab' \in Tabs
  BY <1>2, <1>3 DEF Tabs
<1> QED
  BY <1>2, <1>3, <1>4

\* load_info starts a collection, gives up, or does nothing.
LEMMA LoadInfoFacts ==
  ASSUME TypeOK, NEW force \in BOOLEAN, LoadInfo(force)
  PROVE  /\ tab' \in Tabs
         /\ \/ UNCHANGED <<tab, info, cancelled>>
            \/ /\ ~Connected(tab.session) /\ UNCHANGED info
               /\ SameTasks(tab', tab) /\ ~tab'.loading
               /\ cancelled' = IF tab.loading THEN cancelled \cup Live(tab.infoTask)
                                              ELSE cancelled
            \/ \E i \in Infos :
                 /\ Connected(tab.session)
                 /\ info[i] = "unused" /\ info' = [info EXCEPT ![i] = "created"]
                 /\ tab'.life = tab.life /\ tab'.queued = tab.queued
                 /\ tab'.session = tab.session /\ tab'.connectTask = tab.connectTask
                 /\ tab'.infoTask = i /\ tab'.loading
                 /\ cancelled' = cancelled \cup Live(tab.infoTask)
<1>1. tab \in Tabs
  BY TypeOfTab
<1>2. CASE ~force /\ (tab.loading \/ tab.loaded)
  BY <1>1, <1>2 DEF LoadInfo
<1>3. CASE ~(~force /\ (tab.loading \/ tab.loaded)) /\ ~Connected(tab.session)
  <2> DEFINE t == [tab EXCEPT !.loading = FALSE]
  <2>1. t \in Tabs /\ SameTasks(t, tab) /\ t.loading = FALSE
    BY <1>1 DEF Tabs, SameTasks
  <2>2. /\ tab' = ShowButton(t) /\ UNCHANGED info
        /\ cancelled' = IF tab.loading THEN cancelled \cup Live(tab.infoTask) ELSE cancelled
    BY <1>3 DEF LoadInfo
  <2> HIDE DEF t
  <2>3. tab' \in Tabs /\ SameTasks(tab', t) /\ tab'.loading = t.loading
    BY <2>1, <2>2, ShowButtonFacts
  <2> QED
    BY <1>3, <2>1, <2>2, <2>3 DEF SameTasks
<1>4. CASE ~(~force /\ (tab.loading \/ tab.loaded)) /\ Connected(tab.session)
  <2> DEFINE t == [tab EXCEPT !.panel = Working(@)]
  <2>1. t \in Tabs /\ SameTasks(t, tab)
    BY <1>1 DEF Tabs, SameTasks, Working, Panels
  <2>2. StartInfo(t)
    BY <1>4 DEF LoadInfo
  <2> HIDE DEF t
  <2>3. PICK i \in Infos :
           /\ info[i] = "unused" /\ info' = [info EXCEPT ![i] = "created"]
           /\ tab' \in Tabs /\ tab' = [t EXCEPT !.infoTask = i, !.loading = TRUE]
           /\ cancelled' = cancelled \cup Live(t.infoTask)
    BY <2>1, <2>2, StartInfoFacts
  <2>4. /\ tab'.life = t.life /\ tab'.queued = t.queued
        /\ tab'.session = t.session /\ tab'.connectTask = t.connectTask
        /\ tab'.infoTask = i /\ tab'.loading
    BY <2>1, <2>3 DEF Tabs
  <2> QED
    BY <1>4, <2>1, <2>3, <2>4 DEF SameTasks
<1> QED
  BY <1>2, <1>3, <1>4

\* reconnect_to ends: no session, nothing loading, and a task to connect.
LEMMA ReconnectFacts ==
  ASSUME TypeOK, NEW r \in Refreshes, NEW t \in Tabs, Reconnect(r, t)
  PROVE  /\ tab' \in Tabs /\ tab'.session = None /\ ~tab'.loading
         /\ tab'.life = t.life /\ tab'.queued = t.queued /\ tab'.infoTask = t.infoTask
         /\ ref' = [ref EXCEPT ![r] = [pc |-> "ended", on |-> None]]
         /\ \/ /\ t.life = "deleted" /\ UNCHANGED <<conn, cancelled>>
               /\ tab'.connectTask = t.connectTask
            \/ \E c \in Conns :
                 /\ conn[c] = "unused" /\ conn' = [conn EXCEPT ![c] = "created"]
                 /\ tab'.connectTask = c
                 /\ cancelled' = cancelled \cup Live(t.connectTask)
<1> DEFINE u == [t EXCEPT !.session = None, !.loading = FALSE, !.loaded = FALSE]
           v == [u EXCEPT !.panel = "working"]
<1>1. ref' = [ref EXCEPT ![r] = [pc |-> "ended", on |-> None]]
  BY DEF Reconnect
<1>2. /\ u \in Tabs /\ u.session = None /\ u.loading = FALSE /\ u.life = t.life
      /\ u.queued = t.queued /\ u.infoTask = t.infoTask /\ u.connectTask = t.connectTask
  BY DEF Tabs
<1>3. /\ v \in Tabs /\ v.session = None /\ v.loading = FALSE /\ v.life = t.life
      /\ v.queued = t.queued /\ v.infoTask = t.infoTask /\ v.connectTask = t.connectTask
  BY DEF Tabs, Panels
<1>4. \/ t.life = "deleted" /\ tab' = u /\ UNCHANGED <<conn, cancelled>>
      \/ StartConnecting(v)
  BY DEF Reconnect
<1> HIDE DEF u, v
<1>5. CASE t.life = "deleted" /\ tab' = u /\ UNCHANGED <<conn, cancelled>>
  BY <1>1, <1>2, <1>5
<1>6. CASE StartConnecting(v)
  <2>1. PICK c \in Conns :
           /\ conn[c] = "unused" /\ conn' = [conn EXCEPT ![c] = "created"]
           /\ tab' \in Tabs /\ tab' = [v EXCEPT !.connectTask = c]
           /\ cancelled' = cancelled \cup Live(v.connectTask)
    BY <1>3, <1>6, StartConnectingFacts
  <2>2. /\ tab'.session = v.session /\ tab'.loading = v.loading /\ tab'.life = v.life
        /\ tab'.queued = v.queued /\ tab'.infoTask = v.infoTask /\ tab'.connectTask = c
    BY <1>3, <2>1 DEF Tabs
  <2> QED
    BY <1>1, <1>3, <2>1, <2>2
<1> QED
  BY <1>4, <1>5, <1>6

\* What abort() leaves of a session.
Aborted(s, keep) ==
  [ssh |-> IF sess[s].ssh = "open" THEN "closed" ELSE sess[s].ssh, up |-> FALSE,
   db |-> IF keep THEN sess[s].db ELSE None, dbTask |-> None]

DbIsOpen(s) == sess[s].db # None /\ dbs[sess[s].db] > 0

LEMMA AbortFacts ==
  ASSUME TypeOK, NEW r \in Refreshes, NEW t \in Tabs, Abort(r, t)
  PROVE  /\ UNCHANGED dbs
         /\ \/ t.session = None /\ Reconnect(r, t) /\ UNCHANGED <<sess, job>>
            \/ /\ t.session \in Conns /\ job' = CancelDb(t.session)
               /\ sess' = [sess EXCEPT ![t.session] = Aborted(t.session, DbIsOpen(t.session))]
               /\ \/ /\ DbIsOpen(t.session) /\ tab' = t /\ UNCHANGED <<conn, cancelled>>
                     /\ ref' = [ref EXCEPT ![r] = [pc |-> "closing", on |-> t.session]]
                  \/ ~DbIsOpen(t.session) /\ Reconnect(r, t)
<1>1. t.session \in Conns \cup {None} /\ sess \in [Conns -> [ssh : {"none", "open", "closed"},
        up : BOOLEAN, db : Conns \cup {None}, dbTask : Conns \cup {None}]]
  BY DEF Tabs, TypeOK
<1>2. CASE t.session = None
  BY <1>2 DEF Abort
<1>3. CASE t.session # None
  <2> DEFINE s == t.session
  <2>1. s \in Conns
    BY <1>1, <1>3
  <2>2. job' = CancelDb(s) /\ UNCHANGED dbs
    BY <1>3 DEF Abort, DbIsOpen
  <2>3. sess' = [sess EXCEPT ![s] = Aborted(s, DbIsOpen(s))]
    BY <1>1, <1>3, <2>1 DEF Abort, Aborted, DbIsOpen
  <2>4. \/ /\ DbIsOpen(s) /\ tab' = t /\ UNCHANGED <<conn, cancelled>>
           /\ ref' = [ref EXCEPT ![r] = [pc |-> "closing", on |-> s]]
        \/ ~DbIsOpen(s) /\ Reconnect(r, t)
    BY <1>3 DEF Abort, DbIsOpen
  <2> QED
    BY <2>1, <2>2, <2>3, <2>4
<1> QED
  BY <1>2, <1>3

LEMMA StopInfoFacts ==
  ASSUME TypeOK, NEW r \in Refreshes, NEW t \in Tabs, StopInfo(r, t)
  PROVE  \/ /\ AliveInfo(t.infoTask) /\ cancelled' = cancelled \cup {t.infoTask}
            /\ ref' = [ref EXCEPT ![r] = [pc |-> "waitInfo", on |-> t.infoTask]]
            /\ tab' = t /\ UNCHANGED <<conn, sess, job, dbs>>
         \/ ~AliveInfo(t.infoTask) /\ Abort(r, t)
BY DEF StopInfo

-----------------------------------------------------------------------------
(* Types *)

Sess == [ssh : {"none", "open", "closed"}, up : BOOLEAN,
         db : Conns \cup {None}, dbTask : Conns \cup {None}]
Refs == [pc : {"unused", "ended"} \cup RefActive, on : Conns \cup Infos \cup {None}]
Jobs == [Conns -> {"none", "created", "dial", "ended"}]

\* TypeOK in parts.
Typed ==
  /\ tab \in Tabs
  /\ conn \in [Conns -> {"unused", "ended"} \cup ConnAlive]
  /\ sess \in [Conns -> Sess]
  /\ job \in Jobs
  /\ target \in [Conns -> Conns \cup {None}]
  /\ dbs \in [Conns -> Nat]
  /\ info \in [Infos -> {"unused", "ended"} \cup InfoAlive]
  /\ ref \in [Refreshes -> Refs]
  /\ cancelled \subseteq Conns \cup Infos

LEMMA TypedIsTypeOK == TypeOK <=> Typed
BY DEF TypeOK, Typed, Tabs, Panels, Sess, Refs, Jobs

LEMMA LiveType == \A t : Live(t) \subseteq Conns \cup Infos
BY DEF Live, AliveConn, AliveInfo

LEMMA CancelDbType == Typed => \A s \in Conns : CancelDb(s) \in Jobs
BY DEF Typed, Jobs, CancelDb

LEMMA ReconnectType ==
  ASSUME Typed, NEW r \in Refreshes, NEW t \in Tabs, Reconnect(r, t)
  PROVE  /\ tab' \in Tabs /\ ref' \in [Refreshes -> Refs]
         /\ conn' \in [Conns -> {"unused", "ended"} \cup ConnAlive]
         /\ cancelled' \subseteq Conns \cup Infos
<1>1. /\ tab' \in Tabs
      /\ ref' = [ref EXCEPT ![r] = [pc |-> "ended", on |-> None]]
      /\ \/ UNCHANGED <<conn, cancelled>>
         \/ \E c \in Conns :
              /\ conn' = [conn EXCEPT ![c] = "created"]
              /\ cancelled' = cancelled \cup Live(t.connectTask)
  BY TypedIsTypeOK, ReconnectFacts
<1>2. ref' \in [Refreshes -> Refs]
  BY <1>1 DEF Typed, Refs
<1>3. CASE UNCHANGED <<conn, cancelled>>
  BY <1>1, <1>2, <1>3 DEF Typed
<1>4. CASE \E c \in Conns :
              /\ conn' = [conn EXCEPT ![c] = "created"]
              /\ cancelled' = cancelled \cup Live(t.connectTask)
  BY <1>1, <1>2, <1>4, LiveType DEF Typed, ConnAlive
<1> QED
  BY <1>1, <1>3, <1>4

LEMMA AbortType ==
  ASSUME Typed, NEW r \in Refreshes, NEW t \in Tabs, Abort(r, t), UNCHANGED <<target, info>>
  PROVE  Typed'
<1>1. CASE t.session = None /\ Reconnect(r, t) /\ UNCHANGED <<sess, job, dbs>>
  BY <1>1, ReconnectType DEF Typed
<1>2. ASSUME t.session \in Conns, job' = CancelDb(t.session), UNCHANGED dbs,
             sess' = [sess EXCEPT ![t.session] = Aborted(t.session, DbIsOpen(t.session))]
      PROVE  job' \in Jobs /\ sess' \in [Conns -> Sess] /\ dbs' \in [Conns -> Nat]
  <2>1. Aborted(t.session, DbIsOpen(t.session)) \in Sess
    BY <1>2 DEF Aborted, Sess, Typed
  <2> QED
    BY <1>2, <2>1, CancelDbType DEF Typed
<1>3. ASSUME t.session \in Conns, tab' = t, UNCHANGED <<conn, cancelled>>,
             ref' = [ref EXCEPT ![r] = [pc |-> "closing", on |-> t.session]]
      PROVE  /\ tab' \in Tabs /\ ref' \in [Refreshes -> Refs]
             /\ conn' \in [Conns -> {"unused", "ended"} \cup ConnAlive]
             /\ cancelled' \subseteq Conns \cup Infos
  BY <1>3 DEF Typed, Refs, RefActive
<1> QED
  BY <1>1, <1>2, <1>3, AbortFacts, ReconnectType, TypedIsTypeOK DEF Typed

LEMMA StopInfoType ==
  ASSUME Typed, NEW r \in Refreshes, NEW t \in Tabs, StopInfo(r, t), UNCHANGED <<target, info>>
  PROVE  Typed'
<1>1. CASE Abort(r, t)
  BY <1>1, AbortType
<1>2. CASE /\ AliveInfo(t.infoTask) /\ cancelled' = cancelled \cup {t.infoTask}
           /\ ref' = [ref EXCEPT ![r] = [pc |-> "waitInfo", on |-> t.infoTask]]
           /\ tab' = t /\ UNCHANGED <<conn, sess, job, dbs>>
  <2>1. t.infoTask \in Infos
    BY <1>2 DEF AliveInfo
  <2>2. ref' \in [Refreshes -> Refs]
    BY <1>2, <2>1 DEF Typed, Refs, RefActive
  <2> QED
    BY <1>2, <2>1, <2>2 DEF Typed
<1> QED
  BY <1>1, <1>2, StopInfoFacts, TypedIsTypeOK

LEMMA ConnStepType ==
  ASSUME Typed, NEW c \in Conns, ConnStep(c)
  PROVE  Typed'
<1>0. TypeOK
  BY TypedIsTypeOK
<1>s. SameTasks(ShowButton(tab), tab) /\ ShowButton(tab) \in Tabs
  BY ShowButtonFacts DEF Typed
<1>1. CASE ConnStart(c)
  <2>1. tab' \in Tabs
    BY <1>1 DEF ConnStart, Dial, Typed, Tabs
  <2> QED
    BY <1>1, <2>1 DEF ConnStart, Dial, Typed, ConnAlive
<1>2. CASE ConnCancelled(c)
  BY <1>2 DEF ConnCancelled, Typed
<1>3. CASE DialFails(c)
  BY <1>3, <1>s DEF DialFails, Typed
<1>4. CASE DialOk(c)
  <2> DEFINE t == [tab EXCEPT !.btn = FALSE]
  <2>1. t \in Tabs
    BY DEF Typed, Tabs
  <2>2. [tab EXCEPT !.btn = FALSE, !.panel = Working(@)] \in Tabs
    BY DEF Typed, Tabs, Working, Panels
  <2>3. ShowButton(t) \in Tabs
    BY <2>1, ShowButtonFacts
  <2>4. tab' \in Tabs
    BY <1>4, <2>2, <2>3 DEF DialOk, Typed
  <2>5. sess' \in [Conns -> Sess]
    <3>1. sess[c] \in Sess /\ sess \in [Conns -> Sess]
      BY DEF Typed
    <3>2. [sess[c] EXCEPT !.ssh = "open", !.up = TRUE] \in Sess
      BY <3>1 DEF Sess
    <3>3. sess' = [sess EXCEPT ![c] = [sess[c] EXCEPT !.ssh = "open", !.up = TRUE]]
      BY <1>4, <3>1 DEF DialOk
    <3> QED
      BY <3>1, <3>2, <3>3
  <2> QED
    BY <1>4, <2>4, <2>5 DEF DialOk, Typed, ConnAlive
<1>5. CASE TypeKnown(c)
  <2>1. conn' \in [Conns -> {"unused", "ended"} \cup ConnAlive] /\ UNCHANGED <<target, dbs, ref>>
    BY <1>5 DEF TypeKnown, Typed
  <2>2. sess' \in [Conns -> Sess] /\ job' \in Jobs
    <3>1. CASE UNCHANGED <<sess, job>>
      BY <3>1 DEF Typed
    <3>2. CASE /\ tab.session # None /\ job' = [job EXCEPT ![c] = "created"]
               /\ sess' = [sess EXCEPT ![tab.session].db = c, ![tab.session].dbTask = c]
      <4> DEFINE s == tab.session
      <4>1. s \in Conns /\ sess \in [Conns -> Sess] /\ sess[s] \in Sess
        BY <3>2 DEF Typed, Tabs
      <4>2. [sess[s] EXCEPT !.db = c, !.dbTask = c] \in Sess
        BY <4>1 DEF Sess
      <4>3. sess' = [sess EXCEPT ![s] = [sess[s] EXCEPT !.db = c, !.dbTask = c]]
        BY <3>2, <4>1
      <4>4. sess' \in [Conns -> Sess]
        BY <4>1, <4>2, <4>3
      <4>5. job' \in Jobs
        BY <3>2 DEF Typed, Jobs
      <4> QED
        BY <4>4, <4>5
    <3> QED
      BY <1>5, <3>1, <3>2 DEF TypeKnown
  <2>3. /\ tab' \in Tabs
        /\ info' \in [Infos -> {"unused", "ended"} \cup InfoAlive]
        /\ cancelled' \subseteq Conns \cup Infos
    <3>1. CASE LoadInfo(FALSE)
      <4>1. \/ UNCHANGED <<info, cancelled>>
            \/ UNCHANGED info /\ cancelled' = cancelled \cup Live(tab.infoTask)
            \/ \E i \in Infos : /\ info' = [info EXCEPT ![i] = "created"]
                                /\ cancelled' = cancelled \cup Live(tab.infoTask)
        BY <1>0, <3>1, LoadInfoFacts
      <4>2. tab' \in Tabs
        BY <1>0, <3>1, LoadInfoFacts
      <4> QED
        BY <4>1, <4>2, LiveType DEF Typed, InfoAlive
    <3>2. CASE tab' \in {tab, ShowButton(tab)} /\ UNCHANGED <<info, cancelled>>
      BY <1>s, <3>2 DEF Typed
    <3> QED
      BY <1>5, <3>1, <3>2 DEF TypeKnown
  <2> QED
    BY <2>1, <2>2, <2>3 DEF Typed
<1> QED
  BY <1>1, <1>2, <1>3, <1>4, <1>5 DEF ConnStep

LEMMA TaskStepType ==
  ASSUME Typed, \/ \E c \in Conns : DbStep(c)
                \/ \E i \in Infos : InfoStep(i)
  PROVE  Typed'
<1>1. ASSUME NEW c \in Conns, DbStart(c) PROVE Typed'
  <2>1. tab.session # None => sess[tab.session].db \in Conns \cup {None}
    BY DEF Typed, Tabs, Sess
  <2>2. job' \in Jobs /\ target' \in [Conns -> Conns \cup {None}]
    BY <1>1, <2>1 DEF DbStart, Typed, Jobs
  <2> QED
    BY <1>1, <2>2 DEF DbStart, Typed
<1>2. ASSUME NEW c \in Conns, DbDone(c) PROVE Typed'
  <2>1. job' \in Jobs /\ dbs' \in [Conns -> Nat]
    BY <1>2 DEF DbDone, Typed, Jobs
  <2> QED
    BY <1>2, <2>1 DEF DbDone, Typed
<1>3. ASSUME NEW i \in Infos, InfoStart(i) PROVE Typed'
  <2>1. tab \in Tabs /\ info \in [Infos -> {"unused", "ended"} \cup InfoAlive]
    BY DEF Typed
  <2>2. [tab EXCEPT !.panel = "skeleton"] \in Tabs
    BY <2>1 DEF Tabs, Panels
  <2>3. tab' \in {tab, [tab EXCEPT !.panel = "skeleton"]}
    BY <1>3 DEF InfoStart
  <2>4. \E x \in {"ended", "collect"} : info' = [info EXCEPT ![i] = x]
    BY <1>3 DEF InfoStart
  <2>5. info' \in [Infos -> {"unused", "ended"} \cup InfoAlive]
    BY <2>1, <2>4 DEF InfoAlive
  <2>6. UNCHANGED <<conn, sess, job, target, dbs, ref, cancelled>>
    BY <1>3 DEF InfoStart
  <2>7. tab' \in Tabs
    BY <2>1, <2>2, <2>3
  <2> QED
    BY <2>5, <2>6, <2>7 DEF Typed
<1>4. ASSUME NEW i \in Infos, InfoEnds(i) PROVE Typed'
  <2>1. tab \in Tabs
    BY DEF Typed
  <2>2. \A x \in Panels : [tab EXCEPT !.loaded = TRUE, !.loading = FALSE, !.panel = x] \in Tabs
    BY <2>1 DEF Tabs
  <2>3. \A x \in Panels : [tab EXCEPT !.loading = FALSE, !.panel = x] \in Tabs
    BY <2>1 DEF Tabs
  <2>4. \/ tab' = tab
        \/ \E x \in Panels : tab' = [tab EXCEPT !.loaded = TRUE, !.loading = FALSE, !.panel = x]
        \/ \E x \in Panels : tab' = [tab EXCEPT !.loading = FALSE, !.panel = x]
    <3>1. tab.panel \in Panels
      BY <2>1 DEF Tabs
    <3>2. \A y \in {"sections", "message"} :
            (IF tab.panel = "skeleton" THEN y ELSE tab.panel) \in Panels
      BY <3>1 DEF Panels
    <3> DEFINE p(y) == IF tab.panel = "skeleton" THEN y ELSE tab.panel
    <3>3. \/ tab' = tab
          \/ tab' = [tab EXCEPT !.loaded = TRUE, !.loading = FALSE, !.panel = p("sections")]
          \/ tab' = [tab EXCEPT !.loading = FALSE, !.panel = p("message")]
      BY <1>4 DEF InfoEnds
    <3>4. p("sections") \in Panels /\ p("message") \in Panels
      BY <3>2
    <3> HIDE DEF p
    <3> QED
      BY <3>3, <3>4
  <2>5. tab' \in Tabs
    BY <2>1, <2>2, <2>3, <2>4
  <2>6. /\ info' = [info EXCEPT ![i] = "ended"]
        /\ UNCHANGED <<conn, sess, job, target, dbs, ref, cancelled>>
    BY <1>4 DEF InfoEnds
  <2> QED
    BY <2>5, <2>6 DEF Typed
<1>5. ASSUME NEW i \in Infos, InfoCancelled(i) PROVE Typed'
  <2>1. tab' \in Tabs
    BY <1>5 DEF InfoCancelled, Typed, Tabs
  <2> QED
    BY <1>5, <2>1 DEF InfoCancelled, Typed
<1> QED
  BY <1>1, <1>2, <1>3, <1>4, <1>5 DEF DbStep, InfoStep

LEMMA RefreshType ==
  ASSUME Typed, NEW r \in Refreshes, RefreshStart(r) \/ RefreshStep(r)
  PROVE  Typed'
<1>0. TypeOK /\ tab \in Tabs
  BY TypedIsTypeOK DEF Typed
<1>1. CASE RefreshStart(r)
  <2>1. UNCHANGED <<target, info>>
    BY <1>1 DEF RefreshStart
  <2>2. CASE StopInfo(r, tab)
    BY <1>0, <2>1, <2>2, StopInfoType
  <2>3. CASE AliveConn(tab.connectTask) /\ ~StopInfo(r, tab)
    <3>1. tab.connectTask \in Conns
      BY <2>3 DEF AliveConn
    <3>2. /\ cancelled' = cancelled \cup {tab.connectTask}
          /\ ref' = [ref EXCEPT ![r] = [pc |-> "waitConn", on |-> tab.connectTask]]
          /\ UNCHANGED <<tab, conn, sess, job, dbs>>
      BY <1>1, <2>3 DEF RefreshStart
    <3>3. ref' \in [Refreshes -> Refs]
      BY <3>1, <3>2 DEF Typed, Refs, RefActive
    <3> QED
      BY <2>1, <3>1, <3>2, <3>3 DEF Typed
  <2> QED
    BY <1>1, <2>2, <2>3 DEF RefreshStart
<1>2. CASE RefreshConnGone(r)
  <2>1. [tab EXCEPT !.connectTask = None] \in Tabs
    BY <1>0 DEF Tabs
  <2> QED
    BY <1>2, <2>1, StopInfoType DEF RefreshConnGone
<1>3. CASE RefreshInfoGone(r)
  <2>1. [tab EXCEPT !.infoTask = None] \in Tabs
    BY <1>0 DEF Tabs
  <2> QED
    BY <1>3, <2>1, AbortType DEF RefreshInfoGone
<1>4. CASE RefreshDbClosed(r)
  <2> DEFINE s == ref[r].on
             d == sess[s].db
  <2>1. /\ tab' \in Tabs /\ ref' \in [Refreshes -> Refs]
        /\ conn' \in [Conns -> {"unused", "ended"} \cup ConnAlive]
        /\ cancelled' \subseteq Conns \cup Infos
    BY <1>0, <1>4, ReconnectType DEF RefreshDbClosed
  <2>2. UNCHANGED <<job, target, info>>
    BY <1>4 DEF RefreshDbClosed
  <2>3. \/ UNCHANGED <<dbs, sess>>
        \/ dbs[d] > 0 /\ dbs' = [dbs EXCEPT ![d] = @ - 1] /\ sess' = [sess EXCEPT ![s].db = None]
    BY <1>4 DEF RefreshDbClosed
  <2>4. sess' \in [Conns -> Sess]
    BY <2>3 DEF Typed, Sess
  <2>5. dbs' \in [Conns -> Nat]
    <3>1. CASE UNCHANGED dbs
      BY <3>1 DEF Typed
    <3>2. CASE dbs[d] > 0 /\ dbs' = [dbs EXCEPT ![d] = @ - 1]
      <4>1. CASE d \in Conns
        <5>1. dbs[d] - 1 \in Nat
          BY <3>2, <4>1 DEF Typed
        <5> QED
          BY <3>2, <5>1 DEF Typed
      <4>2. CASE d \notin Conns
        BY <3>2, <4>2 DEF Typed
      <4> QED
        BY <4>1, <4>2
    <3> QED
      BY <2>3, <3>1, <3>2
  <2> QED
    BY <2>1, <2>2, <2>4, <2>5 DEF Typed
<1> QED
  BY <1>1, <1>2, <1>3, <1>4 DEF RefreshStep

LEMMA OperatorType ==
  ASSUME Typed,
         \/ RestoreTurn \/ Reload \/ Activate \/ PressButton \/ OpenVnc \/ PingRestored
         \/ Close \/ Delete
  PROVE  Typed'
<1>0. TypeOK /\ tab \in Tabs
  BY TypedIsTypeOK DEF Typed
<1>1. CASE RestoreTurn
  <2>1. PICK c \in FreshConns : Dial(c, [tab EXCEPT !.queued = FALSE])
    BY <1>1 DEF RestoreTurn
  <2>2. c \in Conns
    BY <2>1 DEF FreshConns
  <2>3. tab' \in Tabs
    BY <1>0, <2>1, <2>2 DEF Dial, Tabs
  <2> QED
    BY <2>1, <2>2, <2>3 DEF Dial, Typed, ConnAlive
<1>2. CASE Reload
  <2>1. LoadInfo(TRUE) /\ UNCHANGED <<conn, sess, job, target, dbs, ref>>
    BY <1>2 DEF Reload
  <2>2. \/ UNCHANGED <<info, cancelled>>
        \/ UNCHANGED info /\ cancelled' = cancelled \cup Live(tab.infoTask)
        \/ \E i \in Infos : /\ info' = [info EXCEPT ![i] = "created"]
                            /\ cancelled' = cancelled \cup Live(tab.infoTask)
    BY <1>0, <2>1, LoadInfoFacts
  <2>3. tab' \in Tabs
    BY <1>0, <2>1, LoadInfoFacts
  <2> QED
    BY <2>1, <2>2, <2>3, LiveType DEF Typed, InfoAlive
<1>3. CASE Activate
  <2> DEFINE t == [tab EXCEPT !.loaded = FALSE]
  <2>1. t \in Tabs
    BY <1>0 DEF Tabs
  <2>2. StartInfo(t) /\ UNCHANGED <<conn, sess, job, target, dbs, ref>>
    BY <1>3 DEF Activate
  <2> HIDE DEF t
  <2>3. /\ tab' \in Tabs
        /\ \E i \in Infos : info' = [info EXCEPT ![i] = "created"]
        /\ cancelled' = cancelled \cup Live(t.infoTask)
    BY <1>0, <2>1, <2>2, StartInfoFacts
  <2> QED
    BY <2>2, <2>3, LiveType DEF Typed, InfoAlive
<1>4. CASE PressButton \/ PingRestored
  <2> DEFINE t == [tab EXCEPT !.btn = FALSE, !.loaded = FALSE, !.loading = FALSE,
                              !.panel = "working"]
  <2>1. t \in Tabs
    BY <1>0 DEF Tabs, Panels
  <2>2. /\ StartConnecting(t) \/ StartConnecting(tab)
        /\ UNCHANGED <<sess, job, target, dbs, info, ref>>
    BY <1>4 DEF PressButton, PingRestored
  <2> HIDE DEF t
  <2>3. /\ tab' \in Tabs
        /\ \E c \in Conns : conn' = [conn EXCEPT ![c] = "created"]
        /\ \E u \in Tabs : cancelled' = cancelled \cup Live(u.connectTask)
    BY <1>0, <2>1, <2>2, StartConnectingFacts
  <2> QED
    BY <2>2, <2>3, LiveType DEF Typed, ConnAlive
<1>5. CASE OpenVnc \/ Delete
  <2>1. tab' \in Tabs
    BY <1>0, <1>5 DEF OpenVnc, Delete, Tabs
  <2> QED
    BY <1>5, <2>1 DEF OpenVnc, Delete, Typed
<1>6. CASE Close
  <2>1. tab' \in Tabs
    BY <1>0, <1>6 DEF Close, Tabs
  <2>2. sess' \in [Conns -> Sess] /\ job' \in Jobs
    <3>1. CASE tab.session = None
      BY <1>6, <3>1 DEF Close, Typed
    <3>2. CASE tab.session # None
      <4>1. tab.session \in Conns
        BY <1>0, <3>2 DEF Tabs
      <4>2. sess' \in [Conns -> Sess]
        BY <1>6, <3>2 DEF Close, Typed, Sess
      <4> QED
        BY <1>6, <3>2, <4>1, <4>2, CancelDbType DEF Close
    <3> QED
      BY <3>1, <3>2
  <2> QED
    BY <1>6, <2>1, <2>2, LiveType DEF Close, Typed
<1> QED
  BY <1>1, <1>2, <1>3, <1>4, <1>5, <1>6

LEMMA StepType == Typed /\ [Next]_vars => Typed'
<1>1. Typed /\ UNCHANGED vars => Typed'
  BY DEF Typed, vars
<1> QED
  BY <1>1, ConnStepType, TaskStepType, RefreshType, OperatorType DEF Next

-----------------------------------------------------------------------------
(* The loading flag, whatever overlaps *)

\* Nothing is cancelled before it was started.
Fresh ==
  /\ \A i \in Infos : info[i] = "unused" => i \notin cancelled
  /\ \A c \in Conns : conn[c] = "unused" => c \notin cancelled

\* Between refreshes the loading flag belongs to the task of the tab, which runs.
Flagged ==
  tab.life = "open" /\ tab.loading /\ ~Refreshing =>
    AliveInfo(tab.infoTask) /\ tab.infoTask \notin cancelled

\* Tasks that run; a task of one kind is none of the other.
Running(t) == AliveConn(t) \/ AliveInfo(t)

LEMMA RunningFacts ==
  /\ \A t : Live(t) \subseteq {t} /\ (t \in Live(t) <=> Running(t))
  /\ \A i \in Infos : AliveInfo(i) <=> info[i] \in InfoAlive
  /\ \A i \in Infos : ~AliveConn(i)
  /\ \A c \in Conns : AliveConn(c) <=> conn[c] \in ConnAlive
  /\ \A c \in Conns : ~AliveInfo(c)
  /\ ~AliveInfo(None) /\ ~AliveConn(None)
BY TabAssumption DEF Live, Running, AliveConn, AliveInfo

\* Where a started task may stand: it is not unused again, and what is
\* cancelled was running.
CancelsRunning ==
  /\ \A t \in cancelled' : t \in cancelled \/ Running(t)
  /\ \A i \in Infos : info'[i] = "unused" => info[i] = "unused"
  /\ \A c \in Conns : conn'[c] = "unused" => conn[c] = "unused"

LEMMA ReconnectCancels ==
  ASSUME Typed, NEW r \in Refreshes, NEW t \in Tabs, Reconnect(r, t), UNCHANGED info
  PROVE  CancelsRunning
<1>1. \/ UNCHANGED <<conn, cancelled>>
      \/ \E c \in Conns :
           /\ conn[c] = "unused" /\ conn' = [conn EXCEPT ![c] = "created"]
           /\ cancelled' = cancelled \cup Live(t.connectTask)
  BY TypedIsTypeOK, ReconnectFacts
<1>2. \A x \in Live(t.connectTask) : Running(x)
  BY RunningFacts
<1> QED
  BY <1>1, <1>2 DEF CancelsRunning, Typed

LEMMA StopInfoCancels ==
  ASSUME Typed, NEW r \in Refreshes, NEW t \in Tabs, StopInfo(r, t), UNCHANGED info
  PROVE  CancelsRunning
<1>1. CASE Reconnect(r, t)
  BY <1>1, ReconnectCancels
<1>2. CASE UNCHANGED <<conn, cancelled>>
  BY <1>2 DEF CancelsRunning
<1>3. CASE AliveInfo(t.infoTask) /\ cancelled' = cancelled \cup {t.infoTask} /\ UNCHANGED conn
  BY <1>3 DEF CancelsRunning, Running
<1> QED
  BY <1>1, <1>2, <1>3, StopInfoFacts, AbortFacts, TypedIsTypeOK

LEMMA LoadInfoCancels ==
  ASSUME Typed, NEW force \in BOOLEAN, LoadInfo(force),
         \A c \in Conns : conn'[c] = "unused" => conn[c] = "unused"
  PROVE  CancelsRunning
<1>1. \/ UNCHANGED <<info, cancelled>>
      \/ UNCHANGED info /\ cancelled' \subseteq cancelled \cup Live(tab.infoTask)
      \/ \E i \in Infos : /\ info[i] = "unused" /\ info' = [info EXCEPT ![i] = "created"]
                          /\ cancelled' = cancelled \cup Live(tab.infoTask)
  BY TypedIsTypeOK, LoadInfoFacts
<1>2. \A x \in Live(tab.infoTask) : Running(x)
  BY RunningFacts
<1> QED
  BY <1>1, <1>2 DEF CancelsRunning, Typed

LEMMA StepCancels == ASSUME Typed, [Next]_vars PROVE CancelsRunning
<1>0. tab \in Tabs /\ TypeOK
  BY TypedIsTypeOK DEF Typed
<1>1. ASSUME NEW c \in Conns, ConnStep(c) PROVE CancelsRunning
  <2>1. \A x \in Conns : conn'[x] = "unused" => conn[x] = "unused"
    BY <1>1 DEF ConnStep, ConnStart, Dial, ConnCancelled, DialFails, DialOk, TypeKnown, Typed
  <2>2. CASE TypeKnown(c) /\ LoadInfo(FALSE)
    BY <2>1, <2>2, LoadInfoCancels
  <2>3. CASE UNCHANGED <<info, cancelled>>
    BY <2>1, <2>3 DEF CancelsRunning
  <2> QED
    BY <1>1, <2>2, <2>3 DEF ConnStep, ConnStart, Dial, ConnCancelled, DialFails, DialOk, TypeKnown
<1>2. CASE \E c \in Conns : DbStep(c)
  BY <1>2 DEF DbStep, DbStart, DbDone, CancelsRunning
<1>3. CASE \E i \in Infos : InfoStep(i)
  BY <1>3 DEF InfoStep, InfoStart, InfoEnds, InfoCancelled, CancelsRunning, Typed
<1>4. ASSUME NEW r \in Refreshes, RefreshStart(r) PROVE CancelsRunning
  <2>1. UNCHANGED info
    BY <1>4 DEF RefreshStart
  <2>2. CASE StopInfo(r, tab)
    BY <1>0, <2>1, <2>2, StopInfoCancels
  <2>3. CASE ~StopInfo(r, tab)
    BY <1>4, <2>1, <2>3 DEF RefreshStart, CancelsRunning, Running
  <2> QED
    BY <2>2, <2>3
<1>5. ASSUME NEW r \in Refreshes, RefreshStep(r) PROVE CancelsRunning
  <2>1. UNCHANGED info
    BY <1>5 DEF RefreshStep, RefreshConnGone, RefreshInfoGone, RefreshDbClosed
  <2>2. [tab EXCEPT !.connectTask = None] \in Tabs /\ [tab EXCEPT !.infoTask = None] \in Tabs
    BY <1>0 DEF Tabs
  <2>3. CASE RefreshConnGone(r)
    BY <2>1, <2>2, <2>3, StopInfoCancels DEF RefreshConnGone
  <2>4. CASE RefreshInfoGone(r)
    <3>1. Abort(r, [tab EXCEPT !.infoTask = None])
      BY <2>4 DEF RefreshInfoGone
    <3>2. Reconnect(r, [tab EXCEPT !.infoTask = None]) \/ UNCHANGED <<conn, cancelled>>
      BY <1>0, <2>2, <3>1, AbortFacts
    <3> QED
      BY <2>1, <2>2, <3>2, ReconnectCancels DEF CancelsRunning
  <2>5. CASE RefreshDbClosed(r)
    BY <1>0, <2>1, <2>5, ReconnectCancels DEF RefreshDbClosed
  <2> QED
    BY <1>5, <2>3, <2>4, <2>5 DEF RefreshStep
<1>6. CASE RestoreTurn
  BY <1>6 DEF RestoreTurn, Dial, CancelsRunning, Typed
<1>7. CASE Reload
  BY <1>7, LoadInfoCancels DEF Reload
<1>8. CASE Activate
  <2> DEFINE t == [tab EXCEPT !.loaded = FALSE]
  <2>1. t \in Tabs /\ StartInfo(t) /\ UNCHANGED conn
    BY <1>0, <1>8 DEF Activate, Tabs
  <2> HIDE DEF t
  <2>2. /\ \E i \in Infos : info' = [info EXCEPT ![i] = "created"]
        /\ cancelled' = cancelled \cup Live(t.infoTask)
    BY <1>0, <2>1, StartInfoFacts
  <2>3. \A x \in Live(t.infoTask) : Running(x)
    BY RunningFacts
  <2> QED
    BY <2>1, <2>2, <2>3 DEF CancelsRunning, Typed
<1>9. CASE PressButton \/ PingRestored
  <2> DEFINE t == [tab EXCEPT !.btn = FALSE, !.loaded = FALSE, !.loading = FALSE,
                              !.panel = "working"]
  <2>1. t \in Tabs /\ (StartConnecting(t) \/ StartConnecting(tab)) /\ UNCHANGED info
    BY <1>0, <1>9 DEF PressButton, PingRestored, Tabs, Panels
  <2> HIDE DEF t
  <2>2. /\ \E c \in Conns : conn' = [conn EXCEPT ![c] = "created"]
        /\ \E u \in Tabs : cancelled' = cancelled \cup Live(u.connectTask)
    BY <1>0, <2>1, StartConnectingFacts
  <2>3. \A u \in Tabs : \A x \in Live(u.connectTask) : Running(x)
    BY RunningFacts
  <2> QED
    BY <2>1, <2>2, <2>3 DEF CancelsRunning, Typed
<1>10. CASE Close
  <2>1. \A u : \A x \in Live(u) : Running(x)
    BY RunningFacts
  <2> QED
    BY <1>10, <2>1 DEF Close, CancelsRunning
<1>11. CASE OpenVnc \/ Delete \/ UNCHANGED vars
  BY <1>11 DEF OpenVnc, Delete, vars, CancelsRunning
<1> QED
  BY <1>1, <1>2, <1>3, <1>4, <1>5, <1>6, <1>7, <1>8, <1>9, <1>10, <1>11 DEF Next

LEMMA StepFresh == ASSUME Typed, Fresh, [Next]_vars PROVE Fresh'
<1>1. CancelsRunning
  BY StepCancels
<1>2. \A i \in Infos : info[i] = "unused" => ~Running(i)
  BY RunningFacts DEF Running, InfoAlive
<1>3. \A c \in Conns : conn[c] = "unused" => ~Running(c)
  BY RunningFacts DEF Running, ConnAlive
<1> QED
  BY <1>1, <1>2, <1>3 DEF Fresh, CancelsRunning

\* A step that leaves the collection of the tab alone, and never sets the flag.
LEMMA FlagKept ==
  ASSUME Flagged,
         tab'.life = "open" => tab.life = "open", tab'.loading => tab.loading,
         tab'.infoTask = tab.infoTask, Refreshing => Refreshing',
         tab.infoTask \notin cancelled => tab.infoTask \notin cancelled',
         AliveInfo(tab.infoTask) /\ tab.infoTask \notin cancelled => AliveInfo(tab.infoTask)'
  PROVE  Flagged'
BY DEF Flagged, AliveInfo

\* A step that starts a collection: nobody cancelled it yet.
LEMMA FlagStarted ==
  ASSUME Typed, Fresh, NEW i \in Infos, info[i] = "unused",
         info' = [info EXCEPT ![i] = "created"], tab'.infoTask = i,
         NEW t, cancelled' = cancelled \cup Live(t)
  PROVE  Flagged'
<1>1. i \notin cancelled
  BY DEF Fresh
<1>2. i \notin Live(t)
  BY RunningFacts DEF Live, Running, InfoAlive
<1>3. info'[i] = "created"
  BY DEF Typed
<1> QED
  BY <1>1, <1>2, <1>3 DEF Flagged, AliveInfo, InfoAlive

LEMMA LoadInfoFlagged ==
  ASSUME Typed, Fresh, Flagged, NEW force \in BOOLEAN, LoadInfo(force), UNCHANGED ref
  PROVE  Flagged'
<1>1. CASE UNCHANGED <<tab, info, cancelled>>
  BY <1>1 DEF Flagged, AliveInfo, Refreshing
<1>2. CASE ~tab'.loading
  BY <1>2 DEF Flagged
<1>3. CASE \E i \in Infos :
             /\ info[i] = "unused" /\ info' = [info EXCEPT ![i] = "created"]
             /\ tab'.infoTask = i
             /\ cancelled' = cancelled \cup Live(tab.infoTask)
  BY <1>3, FlagStarted
<1> QED
  BY <1>1, <1>2, <1>3, LoadInfoFacts, TypedIsTypeOK

\* A connection started or given up is never the collection of the tab.
LEMMA OnlyConnsCancelled ==
  ASSUME Typed, NEW u \in Conns \cup {None}
  PROVE  tab.infoTask \notin Live(u)
BY TabAssumption, RunningFacts DEF Typed, Tabs, Running

LEMMA ConnStepFlagged ==
  ASSUME Typed, Fresh, Flagged, NEW c \in Conns, ConnStep(c)
  PROVE  Flagged'
<1>0. tab \in Tabs
  BY DEF Typed
<1>s. ASSUME NEW t \in Tabs, t.life = tab.life, t.loading = tab.loading,
             t.infoTask = tab.infoTask, UNCHANGED <<info, ref, cancelled>>,
             tab' = t \/ tab' = ShowButton(t)
      PROVE  Flagged'
  <2>1. /\ tab'.life = tab.life /\ tab'.loading = tab.loading
        /\ tab'.infoTask = tab.infoTask
    BY <1>s, ShowButtonFacts DEF SameTasks
  <2>2. UNCHANGED Refreshing
    BY <1>s DEF Refreshing
  <2> QED
    BY <1>s, <2>1, <2>2 DEF Flagged, AliveInfo
<1>1. CASE ConnStart(c)
  <2>1. /\ [tab EXCEPT !.session = c] \in Tabs
        /\ [tab EXCEPT !.session = c].life = tab.life
        /\ [tab EXCEPT !.session = c].loading = tab.loading
        /\ [tab EXCEPT !.session = c].infoTask = tab.infoTask
    BY <1>0 DEF Tabs
  <2> QED
    BY <1>1, <2>1, <1>s DEF ConnStart, Dial
<1>2. CASE ConnCancelled(c) \/ DialFails(c)
  BY <1>0, <1>2, <1>s DEF ConnCancelled, DialFails
<1>3. CASE DialOk(c)
  <2> DEFINE t == [tab EXCEPT !.btn = FALSE]
             u == [tab EXCEPT !.btn = FALSE, !.panel = Working(@)]
  <2>1. /\ t \in Tabs /\ t.life = tab.life /\ t.loading = tab.loading
        /\ t.infoTask = tab.infoTask
    BY <1>0 DEF Tabs
  <2>2. /\ u \in Tabs /\ u.life = tab.life /\ u.loading = tab.loading
        /\ u.infoTask = tab.infoTask
    BY <1>0 DEF Tabs, Working, Panels
  <2>3. tab' \in {tab, t, u, ShowButton(t)} /\ UNCHANGED <<info, ref, cancelled>>
    BY <1>3 DEF DialOk
  <2> HIDE DEF t, u
  <2> QED
    BY <1>0, <2>1, <2>2, <2>3, <1>s
<1>4. CASE TypeKnown(c)
  <2>1. UNCHANGED ref
    BY <1>4 DEF TypeKnown
  <2>2. CASE LoadInfo(FALSE)
    BY <2>1, <2>2, LoadInfoFlagged
  <2>3. CASE ~LoadInfo(FALSE)
    BY <1>0, <1>4, <2>3, <1>s DEF TypeKnown
  <2> QED
    BY <2>2, <2>3
<1> QED
  BY <1>1, <1>2, <1>3, <1>4 DEF ConnStep

LEMMA InfoStepFlagged ==
  ASSUME Typed, Flagged, NEW i \in Infos, InfoStep(i)
  PROVE  Flagged'
<1>0. tab \in Tabs
  BY DEF Typed
<1>r. UNCHANGED <<Refreshing, cancelled>>
  BY DEF InfoStep, InfoStart, InfoEnds, InfoCancelled, Refreshing
<1>1. CASE InfoStart(i)
  <2>1. CASE tab.life = "deleted"
    BY <1>1, <2>1 DEF InfoStart, Flagged
  <2>2. CASE tab.life # "deleted"
    <3>1. /\ info' = [info EXCEPT ![i] = "collect"]
          /\ tab'.life = tab.life /\ tab'.loading = tab.loading
          /\ tab'.infoTask = tab.infoTask
      BY <1>0, <1>1, <2>2 DEF InfoStart, Tabs
    <3>2. AliveInfo(tab.infoTask) => AliveInfo(tab.infoTask)'
      BY <3>1 DEF AliveInfo, InfoAlive, Typed
    <3> QED
      BY <1>r, <3>1, <3>2, FlagKept
  <2> QED
    BY <2>1, <2>2
<1>2. CASE InfoEnds(i)
  <2>1. CASE tab.life = "deleted"
    BY <1>2, <2>1 DEF InfoEnds, Flagged
  <2>2. CASE tab.life # "deleted"
    <3>1. tab'.loading = FALSE
      BY <1>0, <1>2, <2>2 DEF InfoEnds, Tabs
    <3> QED
      BY <3>1 DEF Flagged
  <2> QED
    BY <2>1, <2>2
<1>3. CASE InfoCancelled(i)
  <2>1. /\ tab'.life = tab.life /\ tab'.infoTask = tab.infoTask
        /\ tab'.loading = tab.loading \/ tab'.loading = FALSE
    BY <1>0, <1>3 DEF InfoCancelled, Tabs
  <2>2. AliveInfo(tab.infoTask) /\ tab.infoTask \notin cancelled => AliveInfo(tab.infoTask)'
    BY <1>3, <2>1 DEF InfoCancelled, AliveInfo, Typed
  <2> QED
    BY <1>r, <2>1, <2>2, FlagKept
<1> QED
  BY <1>1, <1>2, <1>3 DEF InfoStep

\* A refresh either is under way afterwards or has cleared the flag.
LEMMA StopInfoFlagged ==
  ASSUME Typed, NEW r \in Refreshes, NEW t \in Tabs, StopInfo(r, t) \/ Abort(r, t)
  PROVE  Flagged'
<1>1. ASSUME NEW x, NEW y, x \in RefActive, ref' = [ref EXCEPT ![r] = [pc |-> x, on |-> y]]
      PROVE  Flagged'
  <2>1. ref'[r].pc \in RefActive
    BY <1>1 DEF Typed
  <2> QED
    BY <2>1 DEF Flagged, Refreshing
<1>2. CASE Reconnect(r, t)
  <2>1. ~tab'.loading
    BY <1>2, ReconnectFacts, TypedIsTypeOK
  <2> QED
    BY <2>1 DEF Flagged
<1>3. CASE ~Reconnect(r, t)
  <2>1. \/ ref' = [ref EXCEPT ![r] = [pc |-> "waitInfo", on |-> t.infoTask]]
        \/ ref' = [ref EXCEPT ![r] = [pc |-> "closing", on |-> t.session]]
    BY <1>3, StopInfoFacts, AbortFacts, TypedIsTypeOK
  <2> QED
    BY <1>1, <2>1 DEF RefActive
<1> QED
  BY <1>2, <1>3

LEMMA RefreshFlagged ==
  ASSUME Typed, NEW r \in Refreshes, RefreshStart(r) \/ RefreshStep(r)
  PROVE  Flagged'
<1>0. /\ tab \in Tabs
      /\ [tab EXCEPT !.connectTask = None] \in Tabs /\ [tab EXCEPT !.infoTask = None] \in Tabs
  BY DEF Typed, Tabs
<1>1. CASE RefreshStart(r)
  <2>1. CASE StopInfo(r, tab)
    BY <1>0, <2>1, StopInfoFlagged
  <2>2. CASE ~StopInfo(r, tab)
    <3>1. ref' = [ref EXCEPT ![r] = [pc |-> "waitConn", on |-> tab.connectTask]]
      BY <1>1, <2>2 DEF RefreshStart
    <3>2. ref'[r].pc \in RefActive
      BY <3>1 DEF Typed, RefActive
    <3> QED
      BY <3>2 DEF Flagged, Refreshing
  <2> QED
    BY <2>1, <2>2
<1>2. CASE RefreshConnGone(r) \/ RefreshInfoGone(r)
  BY <1>0, <1>2, StopInfoFlagged DEF RefreshConnGone, RefreshInfoGone
<1>3. CASE RefreshDbClosed(r)
  <2>1. ~tab'.loading
    BY <1>0, <1>3, ReconnectFacts, TypedIsTypeOK DEF RefreshDbClosed
  <2> QED
    BY <2>1 DEF Flagged
<1> QED
  BY <1>1, <1>2, <1>3 DEF RefreshStep

LEMMA OperatorFlagged ==
  ASSUME Typed, Fresh, Flagged,
         \/ RestoreTurn \/ Reload \/ Activate \/ PressButton \/ OpenVnc \/ PingRestored
         \/ Close \/ Delete
  PROVE  Flagged'
<1>0. tab \in Tabs /\ TypeOK
  BY TypedIsTypeOK DEF Typed
<1>1. CASE RestoreTurn
  <2>1. PICK c \in FreshConns : Dial(c, [tab EXCEPT !.queued = FALSE])
    BY <1>1 DEF RestoreTurn
  <2>2. /\ tab'.life = tab.life /\ tab'.loading = tab.loading
        /\ tab'.infoTask = tab.infoTask /\ UNCHANGED <<info, ref, cancelled>>
    BY <1>0, <2>1 DEF Dial, Tabs
  <2> QED
    BY <2>2 DEF Flagged, AliveInfo, Refreshing
<1>2. CASE Reload
  BY <1>2, LoadInfoFlagged DEF Reload
<1>3. CASE Activate
  <2> DEFINE t == [tab EXCEPT !.loaded = FALSE]
  <2>1. t \in Tabs /\ StartInfo(t)
    BY <1>0, <1>3 DEF Activate, Tabs
  <2> HIDE DEF t
  <2>2. PICK i \in Infos :
          /\ info[i] = "unused" /\ info' = [info EXCEPT ![i] = "created"]
          /\ tab' \in Tabs /\ tab' = [t EXCEPT !.infoTask = i, !.loading = TRUE]
          /\ cancelled' = cancelled \cup Live(t.infoTask)
    BY <1>0, <2>1, StartInfoFacts
  <2>3. tab'.infoTask = i
    BY <2>1, <2>2 DEF Tabs
  <2> QED
    BY <2>2, <2>3, FlagStarted
<1>4. CASE PressButton
  <2> DEFINE t == [tab EXCEPT !.btn = FALSE, !.loaded = FALSE, !.loading = FALSE,
                              !.panel = "working"]
  <2>1. t \in Tabs /\ t.loading = FALSE
    BY <1>0 DEF Tabs, Panels
  <2>2. StartConnecting(t)
    BY <1>4 DEF PressButton
  <2> HIDE DEF t
  <2>3. PICK c \in Conns : tab' = [t EXCEPT !.connectTask = c]
    BY <1>0, <2>1, <2>2, StartConnectingFacts
  <2>4. tab'.loading = FALSE
    BY <2>1, <2>3 DEF Tabs
  <2> QED
    BY <2>4 DEF Flagged
<1>5. CASE PingRestored
  <2>1. StartConnecting(tab) /\ UNCHANGED <<info, ref>>
    BY <1>5 DEF PingRestored
  <2>2. PICK c \in Conns : /\ tab' = [tab EXCEPT !.connectTask = c]
                           /\ cancelled' = cancelled \cup Live(tab.connectTask)
    BY <1>0, <2>1, StartConnectingFacts
  <2>3. /\ tab'.life = tab.life /\ tab'.loading = tab.loading
        /\ tab'.infoTask = tab.infoTask
    BY <1>0, <2>2 DEF Tabs
  <2>4. tab.connectTask \in Conns \cup {None}
    BY <1>0 DEF Tabs
  <2>5. tab.infoTask \notin Live(tab.connectTask)
    BY <2>4, OnlyConnsCancelled
  <2> QED
    BY <2>1, <2>2, <2>3, <2>5 DEF Flagged, AliveInfo, Refreshing
<1>6. CASE OpenVnc
  <2>1. /\ tab'.life = tab.life /\ tab'.loading = tab.loading
        /\ tab'.infoTask = tab.infoTask /\ UNCHANGED <<info, ref, cancelled>>
    BY <1>0, <1>6 DEF OpenVnc, Tabs
  <2> QED
    BY <2>1 DEF Flagged, AliveInfo, Refreshing
<1>7. CASE Close \/ Delete
  <2>1. tab'.life # "open"
    BY <1>0, <1>7 DEF Close, Delete, Tabs
  <2> QED
    BY <2>1 DEF Flagged
<1> QED
  BY <1>1, <1>2, <1>3, <1>4, <1>5, <1>6, <1>7

LEMMA StepFlagged == ASSUME Typed, Fresh, Flagged, [Next]_vars PROVE Flagged'
<1>1. CASE UNCHANGED vars
  BY <1>1 DEF vars, Flagged, AliveInfo, Refreshing
<1>2. ASSUME NEW c \in Conns, DbStep(c) PROVE Flagged'
  <2>1. UNCHANGED <<tab, info, ref, cancelled>>
    BY <1>2 DEF DbStep, DbStart, DbDone
  <2> QED
    BY <2>1 DEF Flagged, AliveInfo, Refreshing
<1> QED
  BY <1>1, <1>2, ConnStepFlagged, InfoStepFlagged, RefreshFlagged, OperatorFlagged DEF Next

-----------------------------------------------------------------------------
(* The invariant *)

IInv == Typed /\ Fresh /\ Flagged

LEMMA InitIInv == Init => IInv
<1> SUFFICES ASSUME Init PROVE IInv
  OBVIOUS
<1> DEFINE first == CHOOSE c \in Conns : TRUE
<1>1. first \in Conns
  BY TabAssumption
<1> HIDE DEF first
<1>2. PICK queued \in BOOLEAN :
        /\ tab = [life |-> "open", queued |-> queued, session |-> None,
                  connectTask |-> IF queued THEN None ELSE first,
                  infoTask |-> None, loading |-> FALSE, loaded |-> FALSE,
                  btn |-> FALSE, vnc |-> FALSE, panel |-> "working"]
        /\ conn = [c \in Conns |-> IF c = first /\ ~queued THEN "created" ELSE "unused"]
  BY DEF Init, first
<1>3. tab \in Tabs /\ conn \in [Conns -> {"unused", "ended"} \cup ConnAlive]
  BY <1>1, <1>2 DEF Tabs, Panels, ConnAlive
<1>4. tab.loading = FALSE
  BY <1>2
<1>5. /\ sess = [c \in Conns |-> [ssh |-> "none", up |-> FALSE, db |-> None, dbTask |-> None]]
      /\ job = [c \in Conns |-> "none"] /\ target = [c \in Conns |-> None]
      /\ dbs = [c \in Conns |-> 0] /\ info = [i \in Infos |-> "unused"]
      /\ ref = [r \in Refreshes |-> [pc |-> "unused", on |-> None]]
      /\ cancelled = {}
  BY DEF Init
<1>6. Typed
  BY <1>3, <1>5 DEF Typed, Sess, Jobs, Refs
<1> QED
  BY <1>4, <1>5, <1>6 DEF IInv, Fresh, Flagged

\* The invariant behind the theorems: types, tasks cancelled only once
\* started, and the loading flag with its task.
THEOREM TabInductive == Spec => []IInv
<1>1. IInv /\ [Next]_vars => IInv'
  BY StepType, StepFresh, StepFlagged DEF IInv
<1> QED
  BY InitIInv, <1>1, PTL DEF Spec

\* Type correctness of the tab, whatever operations overlap.
THEOREM TabTypes == Spec => []TypeOK
<1>1. IInv => TypeOK
  BY TypedIsTypeOK DEF IInv
<1> QED
  BY TabInductive, <1>1, PTL

\* However connections, refreshes and closings overlap, a set loading flag,
\* for which load_info and the background refresh return silently, has a
\* collection that runs and will clear it.
THEOREM LoadingIsServed == Spec => []LoadingHasTask
<1>1. IInv => LoadingHasTask
  BY DEF IInv, Flagged, LoadingHasTask, AliveInfo
<1> QED
  BY TabInductive, <1>1, PTL

-----------------------------------------------------------------------------
(***************************************************************************)
(* Along calm behaviours each connection has an owner, and each collection *)
(* is flagged.                                                             *)
(***************************************************************************)
\* Tasks that will go on: nobody has cancelled them.
LiveConn(c) == AliveConn(c) /\ c \notin cancelled
LiveInfo(i) == AliveInfo(i) /\ i \notin cancelled

\* A connect_coro goes on that _connect_in_waves awaits itself: the tab holds
\* no task for it, and cannot stop it.
Unheld == \E c \in Conns : LiveConn(c) /\ c # tab.connectTask

\* The steps nobody keeps from coming at a bad moment, and the moments they
\* are bad at: any during a refresh; one that would stop a connect_coro, while
\* the tab does not hold it; a turn in the wave of a tab that was closed or
\* connects already; the button on a tab that is connected or collects.
Calm ==
  /\ Refreshing =>
       /\ ~RestoreTurn /\ ~Reload /\ ~Activate /\ ~PressButton /\ ~PingRestored /\ ~Close
       /\ \A r \in Refreshes : ~RefreshStart(r)
  /\ Unheld =>
       /\ ~PressButton /\ ~PingRestored /\ ~Close
       /\ \A r \in Refreshes : ~RefreshStart(r)
  /\ RestoreTurn =>
       /\ tab.life = "open" /\ ~Connected(tab.session)
       /\ \A c \in Conns : ~LiveConn(c)
  /\ PressButton =>
       /\ ~Connected(tab.session)
       /\ \A i \in Infos : ~LiveInfo(i)

-----------------------------------------------------------------------------
(* The invariant *)

\* One refresh at a time, of an open tab; where it waits for the end of the
\* database its session is the tab's and hung up, and no collection goes on.
RefreshInv ==
  /\ \A r1, r2 \in Refreshes :
       ref[r1].pc \in RefActive /\ ref[r2].pc \in RefActive => r1 = r2
  /\ Refreshing => tab.life = "open"
  /\ \A r \in Refreshes :
       /\ ref[r].pc = "closing" =>
            /\ ref[r].on = tab.session /\ tab.session \in Conns
            /\ ~sess[tab.session].up /\ sess[tab.session].dbTask = None
       /\ ref[r].pc \in {"waitInfo", "closing"} => \A i \in Infos : ~LiveInfo(i)

\* One connect_coro goes on, of an open tab that does not refresh; from its
\* first step on the session is its own.
TaskInv ==
  \A c \in Conns : LiveConn(c) =>
    /\ \A x \in Conns : LiveConn(x) => x = c
    /\ tab.life = "open" /\ ~Refreshing
    /\ conn[c] \in {"dial", "type"} => tab.session = c
    /\ conn[c] = "type" => sess[c].up
    /\ conn[c] = "created" => ~Connected(tab.session)

\* What a session has follows how far its connect_coro has come.
SessInv ==
  \A c \in Conns :
    /\ conn[c] \in {"unused", "created", "dial"} => ~sess[c].up
    /\ conn[c] # "ended" => sess[c].db = None /\ sess[c].dbTask = None
    /\ sess[c].ssh = "open" => sess[c].up
    /\ sess[c].dbTask # None => sess[c].db = sess[c].dbTask

\* A database task that runs is the one the tab's session would cancel, and
\* connects the DBSession of that session, which has no connection yet.
JobInv ==
  /\ tab.life = "open" =>
       \A c \in Conns :
         /\ job[c] \in {"created", "dial"} =>
              tab.session # None /\ sess[tab.session].dbTask = c
         /\ job[c] = "dial" => target[c] = c /\ dbs[c] = 0
  /\ tab.session # None /\ ~Connected(tab.session) /\ ~Refreshing =>
       sess[tab.session].db = None /\ sess[tab.session].dbTask = None

\* The collection that goes on is the tab's.
InfoInv == \A i \in Infos : LiveInfo(i) => i = tab.infoTask

OwnInv ==
  /\ RefreshInv /\ TaskInv /\ SessInv /\ JobInv /\ InfoInv
  /\ SshHasOwner /\ DbHasOwner /\ CollectionIsFlagged

-----------------------------------------------------------------------------
(* Steps of connect_coro *)

\* Steps that change nothing the invariant reads.
LEMMA OwnFrame ==
  ASSUME OwnInv, SameTasks(tab', tab), tab'.loading = tab.loading,
         UNCHANGED <<conn, sess, job, target, dbs, info, ref, cancelled>>
  PROVE  OwnInv'
<1>1. UNCHANGED Refreshing
  BY DEF Refreshing
<1>2. (\A c : LiveConn(c) <=> LiveConn(c)') /\ (\A c : LiveInfo(c) <=> LiveInfo(c)')
  BY DEF LiveConn, LiveInfo, AliveConn, AliveInfo
<1>3. Connected(tab.session)' <=> Connected(tab.session)
  BY DEF Connected, SameTasks
<1>4. RefreshInv'
  BY <1>1, <1>2 DEF OwnInv, RefreshInv, SameTasks
<1>5. TaskInv'
  BY <1>1, <1>2, <1>3 DEF OwnInv, TaskInv, SameTasks
<1>6. SessInv'
  BY DEF OwnInv, SessInv
<1>7. JobInv'
  BY <1>1, <1>3 DEF OwnInv, JobInv, SameTasks
<1>8. InfoInv'
  BY <1>2 DEF OwnInv, InfoInv, SameTasks
<1>10. SshHasOwner' /\ DbHasOwner' /\ CollectionIsFlagged'
  BY DEF OwnInv, SshHasOwner, DbHasOwner, CollectionIsFlagged, SameTasks, AliveInfo
<1> QED
  BY <1>4, <1>5, <1>6, <1>7, <1>8, <1>10 DEF OwnInv

\* A step that only ends the connect_coro c.
LEMMA ConnEndsOwn ==
  ASSUME Typed, OwnInv, NEW c \in Conns, conn' = [conn EXCEPT ![c] = "ended"],
         SameTasks(tab', tab), tab'.loading = tab.loading,
         UNCHANGED <<sess, job, target, dbs, info, ref, cancelled>>
  PROVE  OwnInv'
<1>1. UNCHANGED Refreshing
  BY DEF Refreshing
<1>2. \A i : LiveInfo(i) <=> LiveInfo(i)'
  BY DEF LiveInfo, AliveInfo
<1>3. \A x \in Conns : (LiveConn(x)' => LiveConn(x)) /\ (conn'[x] # "ended" => conn'[x] = conn[x])
  BY DEF LiveConn, AliveConn, ConnAlive, Typed
<1>4. Connected(tab.session)' <=> Connected(tab.session)
  BY DEF Connected, SameTasks
<1>5. RefreshInv'
  BY <1>1, <1>2 DEF OwnInv, RefreshInv, SameTasks
<1>6. TaskInv'
  BY <1>1, <1>3, <1>4 DEF OwnInv, TaskInv, SameTasks
<1>7. SessInv'
  BY <1>3 DEF OwnInv, SessInv
<1>8. JobInv'
  BY <1>1, <1>4 DEF OwnInv, JobInv, SameTasks
<1>9. InfoInv'
  BY <1>2 DEF OwnInv, InfoInv, SameTasks
<1>11. SshHasOwner' /\ DbHasOwner' /\ CollectionIsFlagged'
  BY DEF OwnInv, SshHasOwner, DbHasOwner, CollectionIsFlagged, SameTasks, AliveInfo
<1> QED
  BY <1>5, <1>6, <1>7, <1>8, <1>9, <1>11 DEF OwnInv

\* While no refresh is under way, nothing is asked of it.
LEMMA NoRefresh ==
  ASSUME ~Refreshing, UNCHANGED ref
  PROVE  RefreshInv' /\ ~Refreshing'
BY DEF Refreshing, RefreshInv, RefActive

\* Without a refresh an unconnected tab has neither a connection nor a task
\* of the database.
LEMMA NoDb ==
  ASSUME Typed, OwnInv, tab.life = "open", ~Refreshing, ~Connected(tab.session)
  PROVE  /\ \A c \in Conns : job[c] \notin {"created", "dial"} /\ ~(dbs[c] > 0)
         /\ \A c \in Conns : sess[c].ssh # "open"
<1>1. tab.session # None => sess[tab.session].db = None /\ sess[tab.session].dbTask = None
  BY DEF OwnInv, JobInv
<1>2. \A c \in Conns : c # None
  BY TabAssumption
<1>3. \A c \in Conns : job[c] \notin {"created", "dial"}
  BY <1>1, <1>2 DEF OwnInv, JobInv
<1>4. \A c \in Conns : ~(dbs[c] > 0)
  BY <1>1, <1>2 DEF OwnInv, DbHasOwner
<1>5. \A c \in Conns : sess[c].ssh # "open"
  BY <1>2 DEF OwnInv, SessInv, SshHasOwner, Connected
<1> QED
  BY <1>3, <1>4, <1>5

LEMMA ConnStartOwn ==
  ASSUME Typed, OwnInv, NEW c \in Conns, ConnStart(c)
  PROVE  OwnInv'
<1>1. /\ LiveConn(c) /\ conn[c] = "created" /\ conn' = [conn EXCEPT ![c] = "dial"]
      /\ tab' = [tab EXCEPT !.session = c]
      /\ UNCHANGED <<sess, job, target, dbs, info, ref, cancelled>>
  BY DEF ConnStart, Dial, LiveConn, AliveConn, ConnAlive
<1>2. /\ tab.life = "open" /\ ~Refreshing /\ \A x \in Conns : LiveConn(x) => x = c
      /\ ~Connected(tab.session)
  BY <1>1 DEF OwnInv, TaskInv
<1>3. /\ tab'.session = c /\ tab'.life = tab.life /\ tab'.queued = tab.queued
      /\ tab'.connectTask = tab.connectTask /\ tab'.infoTask = tab.infoTask
      /\ tab'.loading = tab.loading
  BY <1>1 DEF Typed, Tabs
<1>4. /\ \A x \in Conns : job[x] \notin {"created", "dial"} /\ ~(dbs[x] > 0)
      /\ \A x \in Conns : sess[x].ssh # "open"
  BY <1>2, NoDb
<1>5. RefreshInv' /\ ~Refreshing'
  BY <1>1, <1>2, NoRefresh
<1>6. conn'[c] = "dial" /\ \A x \in Conns : x # c => conn'[x] = conn[x]
  BY <1>1 DEF Typed
<1>7. TaskInv'
  <2>1. ASSUME NEW x \in Conns, LiveConn(x)' PROVE x = c
    BY <1>1, <1>2, <1>6, <2>1 DEF LiveConn, AliveConn, OwnInv, TaskInv
  <2> QED
    BY <1>2, <1>3, <1>5, <1>6, <2>1 DEF TaskInv
<1>8. SessInv'
  BY <1>1, <1>6 DEF OwnInv, SessInv
<1>9. JobInv'
  <2>1. sess[c].db = None /\ sess[c].dbTask = None
    BY <1>1 DEF OwnInv, SessInv
  <2> QED
    BY <1>1, <1>3, <1>4, <2>1 DEF JobInv
<1>10. InfoInv' /\ CollectionIsFlagged'
  BY <1>1, <1>3 DEF OwnInv, InfoInv, LiveInfo, AliveInfo, CollectionIsFlagged
<1>11. SshHasOwner' /\ DbHasOwner'
  BY <1>1, <1>4 DEF SshHasOwner, DbHasOwner
<1> QED
  BY <1>5, <1>7, <1>8, <1>9, <1>10, <1>11 DEF OwnInv

LEMMA DialOkOwn ==
  ASSUME Typed, OwnInv, NEW c \in Conns, DialOk(c)
  PROVE  OwnInv'
<1>1. LiveConn(c) /\ conn[c] = "dial"
  BY DEF DialOk, LiveConn, AliveConn, ConnAlive
<1>2. /\ tab.life = "open" /\ ~Refreshing /\ tab.session = c /\ c # None
  BY <1>1, TabAssumption DEF OwnInv, TaskInv
<1>3. /\ conn' = [conn EXCEPT ![c] = "type"]
      /\ sess' = [sess EXCEPT ![c].ssh = "open", ![c].up = TRUE]
      /\ tab' = [tab EXCEPT !.btn = FALSE, !.panel = Working(@)]
      /\ UNCHANGED <<job, target, dbs, info, ref, cancelled>>
  BY <1>2 DEF DialOk
<1>4. SameTasks(tab', tab) /\ tab'.loading = tab.loading
  BY <1>3 DEF Typed, Tabs, SameTasks
<1>5. RefreshInv' /\ ~Refreshing'
  BY <1>2, <1>3, NoRefresh
<1>6. conn'[c] = "type" /\ \A x \in Conns : x # c => conn'[x] = conn[x]
  BY <1>3 DEF Typed
<1>7. /\ sess'[c].ssh = "open" /\ sess'[c].up
      /\ sess'[c].db = sess[c].db /\ sess'[c].dbTask = sess[c].dbTask
      /\ \A x \in Conns : x # c => sess'[x] = sess[x]
  BY <1>3 DEF Typed, Sess
<1>8. TaskInv'
  <2>1. ASSUME NEW x \in Conns, LiveConn(x)' PROVE x = c
    BY <1>1, <1>2, <1>3, <1>6, <2>1 DEF LiveConn, AliveConn, OwnInv, TaskInv
  <2> QED
    BY <1>2, <1>4, <1>5, <1>6, <1>7, <2>1 DEF TaskInv, SameTasks
<1>9. SessInv'
  BY <1>1, <1>6, <1>7 DEF OwnInv, SessInv
<1>10. JobInv'
  <2>1. tab'.session = c /\ Connected(tab.session)'
    BY <1>2, <1>4, <1>7 DEF Connected, SameTasks
  <2>2. \A x \in Conns : /\ job[x] \in {"created", "dial"} => sess[c].dbTask = x
                         /\ job[x] = "dial" => target[x] = x /\ dbs[x] = 0
    BY <1>2 DEF OwnInv, JobInv
  <2>3. sess'[tab'.session].dbTask = sess[c].dbTask /\ tab'.session # None
    BY <1>2, <1>7, <2>1
  <2>4. UNCHANGED <<job, target, dbs>>
    BY <1>3
  <2> QED
    BY <2>1, <2>2, <2>3, <2>4 DEF JobInv
<1>11. InfoInv' /\ CollectionIsFlagged'
  BY <1>3, <1>4 DEF OwnInv, InfoInv, LiveInfo, AliveInfo, CollectionIsFlagged, SameTasks
<1>12. SshHasOwner'
  BY <1>2, <1>4, <1>7 DEF OwnInv, SshHasOwner, SameTasks
<1>13. DbHasOwner'
  BY <1>2, <1>3, <1>4, <1>7 DEF OwnInv, DbHasOwner, SameTasks
<1> QED
  BY <1>5, <1>8, <1>9, <1>10, <1>11, <1>12, <1>13 DEF OwnInv

\* A new collection replaces the one of the tab.
LEMMA StartInfoOwn ==
  ASSUME Typed, InfoInv, NEW i \in Infos, info[i] = "unused",
         info' = [info EXCEPT ![i] = "created"], tab'.infoTask = i, tab'.loading,
         cancelled' = cancelled \cup Live(tab.infoTask)
  PROVE  /\ \A c \in Conns : c \in cancelled' <=> c \in cancelled
         /\ InfoInv' /\ CollectionIsFlagged'
<1>1. \A c \in Conns : c \notin Live(tab.infoTask)
  BY TabAssumption, RunningFacts DEF Typed, Tabs
<1>2. ASSUME NEW j \in Infos, LiveInfo(j)' PROVE j = tab'.infoTask
  <2>1. j # i => info'[j] = info[j]
    BY DEF Typed
  <2>2. CASE LiveInfo(j)
    <3>1. j = tab.infoTask /\ j \in Live(tab.infoTask)
      BY <2>2, RunningFacts DEF InfoInv, LiveInfo, Running
    <3> QED
      BY <1>2, <3>1 DEF LiveInfo
  <2> QED
    BY <1>2, <2>1, <2>2 DEF LiveInfo, AliveInfo
<1> QED
  BY <1>1, <1>2 DEF InfoInv, CollectionIsFlagged

\* load_info hands the panel from one collection to the next.
LEMMA LoadInfoOwn ==
  ASSUME Typed, Fresh, InfoInv, CollectionIsFlagged, NEW force \in BOOLEAN, LoadInfo(force)
  PROVE  /\ SameTasks(tab', [tab EXCEPT !.infoTask = tab'.infoTask])
         /\ \A c \in Conns : c \in cancelled' <=> c \in cancelled
         /\ InfoInv' /\ (tab.life = "open" => CollectionIsFlagged')
<1>0. tab \in Tabs /\ tab'.infoTask \in Infos \cup {None}
  BY LoadInfoFacts, TypedIsTypeOK DEF Typed, Tabs
<1>1. \A c \in Conns : c \notin Live(tab.infoTask)
  BY <1>0, TabAssumption, RunningFacts DEF Tabs
<1>2. CASE UNCHANGED <<tab, info, cancelled>>
  BY <1>0, <1>2 DEF SameTasks, Tabs, InfoInv, LiveInfo, AliveInfo, CollectionIsFlagged
<1>3. CASE /\ UNCHANGED info /\ SameTasks(tab', tab) /\ ~tab'.loading
           /\ cancelled' = IF tab.loading THEN cancelled \cup Live(tab.infoTask)
                                          ELSE cancelled
  <2>1. SameTasks(tab', [tab EXCEPT !.infoTask = tab'.infoTask])
    BY <1>0, <1>3 DEF SameTasks, Tabs
  <2>2. InfoInv'
    BY <1>3 DEF InfoInv, LiveInfo, AliveInfo, SameTasks
  <2>3. ASSUME tab.life = "open", AliveInfo(tab.infoTask) PROVE tab.infoTask \in cancelled'
    <3>1. tab.infoTask \in Live(tab.infoTask)
      BY <2>3, RunningFacts DEF Running
    <3> QED
      BY <1>3, <2>3, <3>1 DEF CollectionIsFlagged
  <2>4. tab.life = "open" => CollectionIsFlagged'
    BY <1>3, <2>3 DEF CollectionIsFlagged, SameTasks, AliveInfo
  <2> QED
    BY <1>1, <1>3, <2>1, <2>2, <2>4
<1>4. CASE \E i \in Infos :
             /\ info[i] = "unused" /\ info' = [info EXCEPT ![i] = "created"]
             /\ tab'.life = tab.life /\ tab'.queued = tab.queued
             /\ tab'.session = tab.session /\ tab'.connectTask = tab.connectTask
             /\ tab'.infoTask = i /\ tab'.loading
             /\ cancelled' = cancelled \cup Live(tab.infoTask)
  <2>1. SameTasks(tab', [tab EXCEPT !.infoTask = tab'.infoTask])
    BY <1>0, <1>4 DEF SameTasks, Tabs
  <2> QED
    BY <1>4, <2>1, StartInfoOwn
<1> QED
  BY <1>2, <1>3, <1>4, LoadInfoFacts, TypedIsTypeOK

LEMMA TypeKnownOwn ==
  ASSUME Typed, Fresh, OwnInv, NEW c \in Conns, TypeKnown(c)
  PROVE  OwnInv'
<1>1. LiveConn(c) /\ conn[c] = "type"
  BY DEF TypeKnown, LiveConn, AliveConn, ConnAlive
<1>2. /\ tab.life = "open" /\ ~Refreshing /\ tab.session = c
      /\ c # None /\ sess[c].up /\ \A x \in Conns : LiveConn(x) => x = c
  BY <1>1, TabAssumption DEF OwnInv, TaskInv
<1>3. /\ conn' = [conn EXCEPT ![c] = "ended"]
      /\ \/ UNCHANGED <<sess, job>>
         \/ /\ sess' = [sess EXCEPT ![c].db = c, ![c].dbTask = c]
            /\ job' = [job EXCEPT ![c] = "created"]
      /\ LoadInfo(FALSE)
      /\ UNCHANGED <<target, dbs, ref>>
  BY <1>2 DEF TypeKnown
<1>4. /\ SameTasks(tab', [tab EXCEPT !.infoTask = tab'.infoTask])
      /\ \A x \in Conns : x \in cancelled' <=> x \in cancelled
      /\ InfoInv' /\ CollectionIsFlagged'
  BY <1>2, <1>3, LoadInfoOwn DEF OwnInv
<1>5. /\ tab'.life = "open" /\ tab'.session = c
  BY <1>2, <1>4 DEF SameTasks, Typed, Tabs, OwnInv
<1>6. RefreshInv' /\ ~Refreshing'
  BY <1>2, <1>3, NoRefresh
<1>7. /\ \A x \in Conns : job[x] \notin {"created", "dial"} /\ ~(dbs[x] > 0)
      /\ sess[c].db = None /\ sess[c].dbTask = None
  <2>1. sess[c].db = None /\ sess[c].dbTask = None
    BY <1>1 DEF OwnInv, SessInv
  <2>2. \A x \in Conns : x # None
    BY TabAssumption
  <2>3. \A x \in Conns : job[x] \notin {"created", "dial"}
    BY <1>2, <2>1, <2>2 DEF OwnInv, JobInv
  <2>4. \A x \in Conns : ~(dbs[x] > 0)
    BY <1>2, <2>1, <2>2 DEF OwnInv, DbHasOwner
  <2> QED
    BY <2>1, <2>3, <2>4
<1>8. TaskInv'
  <2>1. \A x \in Conns : ~LiveConn(x)'
    BY <1>2, <1>3, <1>4 DEF LiveConn, AliveConn, ConnAlive, Typed, OwnInv, TaskInv
  <2> QED
    BY <2>1 DEF TaskInv
<1>9. /\ \A x \in Conns : x # c => sess'[x] = sess[x] /\ job'[x] = job[x]
      /\ sess'[c].ssh = sess[c].ssh /\ sess'[c].up = sess[c].up
      /\ \/ /\ sess'[c].db = None /\ sess'[c].dbTask = None
            /\ job'[c] = job[c]
         \/ /\ sess'[c].db = c /\ sess'[c].dbTask = c
            /\ job'[c] = "created"
  BY <1>3, <1>7 DEF Typed, Sess, Jobs
<1>10. SessInv'
  <2>1. conn'[c] = "ended" /\ \A x \in Conns : x # c => conn'[x] = conn[x]
    BY <1>3 DEF Typed
  <2>2. \A x \in Conns :
          /\ sess[x].ssh = "open" => sess[x].up
          /\ sess[x].dbTask # None => sess[x].db = sess[x].dbTask
          /\ conn[x] \in {"unused", "created", "dial"} => ~sess[x].up
          /\ conn[x] # "ended" => sess[x].db = None /\ sess[x].dbTask = None
    BY DEF OwnInv, SessInv
  <2>3. ASSUME NEW x \in Conns, x # c
        PROVE  sess'[x] = sess[x] /\ conn'[x] = conn[x]
    BY <1>9, <2>1, <2>3
  <2>4. sess'[c].up /\ (sess'[c].dbTask # None => sess'[c].db = sess'[c].dbTask)
    BY <1>2, <1>9
  <2> QED
    BY <2>1, <2>2, <2>3, <2>4 DEF SessInv
<1>11. JobInv'
  <2>1. Connected(tab.session)'
    BY <1>2, <1>5, <1>9 DEF Connected
  <2>2. \A x \in Conns : job'[x] \in {"created", "dial"} =>
                           x = c /\ job'[x] = "created" /\ sess'[c].dbTask = c
    BY <1>7, <1>9
  <2> QED
    BY <1>2, <1>5, <2>1, <2>2 DEF JobInv
<1>12. SshHasOwner'
  BY <1>2, <1>5, <1>9 DEF OwnInv, SshHasOwner
<1>13. DbHasOwner'
  BY <1>3, <1>7 DEF DbHasOwner
<1> QED
  BY <1>4, <1>5, <1>6, <1>8, <1>10, <1>11, <1>12, <1>13 DEF OwnInv

-----------------------------------------------------------------------------
(* Steps of the database task and of the collection *)

LEMMA DbStepOwn ==
  ASSUME Typed, OwnInv, NEW c \in Conns, DbStep(c)
  PROVE  OwnInv'
<1>1. UNCHANGED <<tab, conn, sess, info, ref, cancelled>>
  BY DEF DbStep, DbStart, DbDone
<1>2. RefreshInv' /\ TaskInv' /\ SessInv' /\ InfoInv' /\ SshHasOwner' /\ CollectionIsFlagged'
  BY <1>1 DEF OwnInv, RefreshInv, TaskInv, SessInv, InfoInv, SshHasOwner, CollectionIsFlagged,
              Refreshing, LiveConn, AliveConn, LiveInfo, AliveInfo, Connected
<1>3. tab'.session # None /\ ~Connected(tab.session)' /\ ~Refreshing' =>
        sess'[tab'.session].db = None /\ sess'[tab'.session].dbTask = None
  BY <1>1 DEF OwnInv, JobInv, Connected, Refreshing
<1>4. CASE tab.life # "open"
  BY <1>1, <1>2, <1>3, <1>4 DEF OwnInv, JobInv, DbHasOwner
<1>5. CASE tab.life = "open"
  <2> DEFINE s == tab.session
  <2>1. \A x \in Conns : job[x] \in {"created", "dial"} => s # None /\ sess[s].dbTask = x
    BY <1>5 DEF OwnInv, JobInv
  <2>2. job[c] \in {"created", "dial"}
    BY DEF DbStep, DbStart, DbDone
  <2>3. s \in Conns /\ sess[s].dbTask = c /\ sess[s].db = c /\ c # None
    BY <2>1, <2>2, TabAssumption DEF OwnInv, SessInv, Typed, Tabs
  <2>4. /\ \A x \in Conns : x # c => job[x] \notin {"created", "dial"} /\ job'[x] = job[x]
        /\ dbs[c] \in Nat
    BY <2>1, <2>3 DEF DbStep, DbStart, DbDone, Typed, Jobs
  <2>5. CASE DbStart(c)
    <3>1. /\ UNCHANGED dbs
          /\ \/ job'[c] = "ended"
             \/ job'[c] = "dial" /\ target'[c] = c /\ dbs[c] = 0
      BY <2>3, <2>4, <2>5 DEF DbStart, Typed, Jobs
    <3>2. ASSUME NEW x \in Conns
          PROVE  /\ job'[x] \in {"created", "dial"} =>
                      tab'.session # None /\ sess'[tab'.session].dbTask = x
                 /\ job'[x] = "dial" => target'[x] = x /\ dbs'[x] = 0
      <4>1. x # c => job'[x] \notin {"created", "dial"}
        BY <2>4
      <4>2. tab'.session # None /\ sess'[tab'.session].dbTask = c
        BY <1>1, <2>1, <2>2, <2>3
      <4> QED
        BY <3>1, <4>1, <4>2
    <3>3. JobInv'
      BY <1>3, <3>2 DEF JobInv
    <3>4. DbHasOwner'
      BY <1>1, <3>1 DEF OwnInv, DbHasOwner
    <3> QED
      BY <1>1, <1>2, <3>3, <3>4 DEF OwnInv
  <2>6. CASE DbDone(c)
    <3>1. /\ job'[c] = "ended"
          /\ target[c] = c /\ dbs[c] = 0
          /\ UNCHANGED dbs \/ dbs' = [dbs EXCEPT ![c] = 1]
      BY <1>5, <2>6 DEF DbDone, OwnInv, JobInv, Typed, Jobs
    <3>2. JobInv'
      BY <1>1, <1>3, <2>4, <3>1 DEF JobInv
    <3>3. DbHasOwner'
      <4>1. \A x \in Conns : dbs'[x] > 0 => dbs'[x] = 1 /\ (x = c \/ dbs[x] > 0)
        BY <1>5, <3>1 DEF OwnInv, DbHasOwner, Typed
      <4>2. tab'.session # None /\ sess'[tab'.session].db = c
        BY <1>1, <2>1, <2>2, <2>3
      <4>3. \A x \in Conns : dbs[x] > 0 => sess'[tab'.session].db = x
        BY <1>1, <1>5 DEF OwnInv, DbHasOwner
      <4> QED
        BY <4>1, <4>2, <4>3 DEF DbHasOwner
    <3> QED
      BY <1>1, <1>2, <3>2, <3>3 DEF OwnInv
  <2> QED
    BY <2>5, <2>6 DEF DbStep
<1> QED
  BY <1>4, <1>5

\* Steps that touch the collections and stop tasks at most.
LEMMA OwnShrinks ==
  ASSUME Typed, OwnInv, SameTasks(tab', [tab EXCEPT !.infoTask = tab'.infoTask]),
         UNCHANGED <<conn, sess, job, target, dbs, ref>>,
         \A c \in Conns : c \in cancelled => c \in cancelled',
         ~Refreshing \/ \A i \in Infos : LiveInfo(i)' => LiveInfo(i),
         InfoInv', CollectionIsFlagged'
  PROVE  OwnInv'
<1>1. UNCHANGED Refreshing
  BY DEF Refreshing
<1>2. /\ tab'.life = tab.life /\ tab'.queued = tab.queued /\ tab'.session = tab.session
      /\ tab'.connectTask = tab.connectTask
  BY DEF SameTasks, Typed, Tabs
<1>3. \A c \in Conns : LiveConn(c)' => LiveConn(c)
  BY DEF LiveConn, AliveConn
<1>4. Connected(tab.session)' <=> Connected(tab.session)
  BY <1>2 DEF Connected
<1>5. RefreshInv'
  <2>1. CASE ~Refreshing
    BY <2>1, NoRefresh
  <2>2. CASE \A i \in Infos : LiveInfo(i)' => LiveInfo(i)
    BY <1>1, <1>2, <2>2 DEF OwnInv, RefreshInv
  <2> QED
    BY <2>1, <2>2
<1>6. TaskInv'
  BY <1>1, <1>2, <1>3, <1>4 DEF OwnInv, TaskInv
<1>7. SessInv'
  BY DEF OwnInv, SessInv
<1>8. JobInv'
  BY <1>1, <1>2, <1>4 DEF OwnInv, JobInv
<1>9. SshHasOwner' /\ DbHasOwner'
  BY <1>2 DEF OwnInv, SshHasOwner, DbHasOwner
<1> QED
  BY <1>2, <1>5, <1>6, <1>7, <1>8, <1>9 DEF OwnInv

LEMMA InfoStepOwn ==
  ASSUME Typed, OwnInv, NEW i \in Infos, InfoStep(i)
  PROVE  OwnInv'
<1>1. tab \in Tabs /\ UNCHANGED <<conn, sess, job, target, dbs, ref, cancelled>>
  BY DEF InfoStep, InfoStart, InfoEnds, InfoCancelled, Typed
<1>2. SameTasks(tab', tab) /\ SameTasks(tab', [tab EXCEPT !.infoTask = tab'.infoTask])
  <2>1. CASE InfoStart(i)
    BY <1>1, <2>1 DEF InfoStart, SameTasks, Tabs
  <2>2. CASE InfoEnds(i)
    BY <1>1, <2>2 DEF InfoEnds, SameTasks, Tabs
  <2>3. CASE InfoCancelled(i)
    BY <1>1, <2>3 DEF InfoCancelled, SameTasks, Tabs
  <2> QED
    BY <2>1, <2>2, <2>3 DEF InfoStep
<1>3. \A j \in Infos : AliveInfo(j)' => AliveInfo(j)
  BY DEF InfoStep, InfoStart, InfoEnds, InfoCancelled, AliveInfo, InfoAlive, Typed
<1>4. InfoInv' /\ \A j \in Infos : LiveInfo(j)' => LiveInfo(j)
  BY <1>1, <1>2, <1>3 DEF OwnInv, InfoInv, LiveInfo, SameTasks
<1>5. CollectionIsFlagged'
  <2>1. CASE tab'.loading = tab.loading
    BY <1>1, <1>2, <1>3, <2>1 DEF OwnInv, CollectionIsFlagged, SameTasks, AliveInfo
  <2>2. CASE tab'.loading # tab.loading
    <3>1. InfoEnds(i) \/ (InfoCancelled(i) /\ tab.infoTask = i)
      BY <1>1, <2>2 DEF InfoStep, InfoStart, InfoCancelled, Tabs
    <3>2. info'[i] = "ended" /\ (InfoEnds(i) => LiveInfo(i))
      BY <3>1 DEF InfoEnds, InfoCancelled, LiveInfo, AliveInfo, InfoAlive, Typed
    <3>3. tab'.infoTask = i
      BY <1>2, <3>1, <3>2 DEF OwnInv, InfoInv, SameTasks
    <3> QED
      BY <3>2, <3>3 DEF CollectionIsFlagged, AliveInfo, InfoAlive
  <2> QED
    BY <2>1, <2>2
<1> QED
  BY <1>1, <1>2, <1>4, <1>5, OwnShrinks

-----------------------------------------------------------------------------
(* Steps of reconnect_to *)

\* What a step of the refresh r starts from: it alone is under way, no
\* connect_coro goes on, and t is the tab but for the task it gave up.
Alone(r, t) ==
  /\ \A q \in Refreshes : q # r => ref[q].pc \notin RefActive
  /\ \A c \in Conns : ~LiveConn(c)
  /\ t \in Tabs /\ t.life = "open" /\ t.session = tab.session
  /\ tab.life = "open"

\* The session is gone with its connections: the tab connects anew.
LEMMA ReconnectOwn ==
  ASSUME Typed, Fresh, OwnInv, NEW r \in Refreshes, NEW t, Alone(r, t), Reconnect(r, t),
         \A i \in Infos : ~LiveInfo(i),
         \A c \in Conns :
           /\ sess'[c].ssh # "open" /\ job'[c] \notin {"created", "dial"} /\ ~(dbs'[c] > 0)
           /\ sess'[c].dbTask # None => sess'[c].db = sess'[c].dbTask
           /\ conn[c] \in {"unused", "created", "dial"} => ~sess'[c].up
           /\ conn[c] # "ended" => sess'[c].db = None /\ sess'[c].dbTask = None,
         UNCHANGED <<target, info>>
  PROVE  OwnInv'
<1>1. /\ tab'.session = None /\ ~tab'.loading /\ tab'.life = "open"
      /\ tab'.infoTask = t.infoTask
      /\ ref' = [ref EXCEPT ![r] = [pc |-> "ended", on |-> None]]
  BY ReconnectFacts, TypedIsTypeOK DEF Alone
<1>2. PICK c \in Conns :
        /\ conn[c] = "unused" /\ conn' = [conn EXCEPT ![c] = "created"]
        /\ tab'.connectTask = c
        /\ cancelled' = cancelled \cup Live(t.connectTask)
  BY ReconnectFacts, TypedIsTypeOK DEF Alone
<1>3. \A q \in Refreshes : ref'[q].pc \notin RefActive
  BY <1>1 DEF Alone, Typed, RefActive
<1>4. RefreshInv' /\ ~Refreshing'
  BY <1>3 DEF RefreshInv, Refreshing, RefActive
<1>5. conn'[c] = "created" /\ \A x \in Conns : x # c => conn'[x] = conn[x]
  BY <1>2 DEF Typed
<1>6. TaskInv'
  <2>1. ASSUME NEW x \in Conns, LiveConn(x)' PROVE x = c
    BY <1>2, <1>5, <2>1 DEF Alone, LiveConn, AliveConn
  <2> QED
    BY <1>1, <1>2, <1>4, <1>5, <2>1 DEF TaskInv, Connected
<1>7. SessInv'
  <2>1. \A x \in Conns : /\ conn'[x] \in {"unused", "created", "dial"} =>
                                conn[x] \in {"unused", "created", "dial"}
                         /\ conn'[x] # "ended" => conn[x] # "ended"
    BY <1>2, <1>5
  <2> QED
    BY <2>1 DEF SessInv
<1>8. JobInv'
  BY <1>1 DEF JobInv
<1>9. \A i \in Infos : ~LiveInfo(i)'
  BY <1>2 DEF LiveInfo, AliveInfo
<1>10. InfoInv' /\ CollectionIsFlagged'
  BY <1>9 DEF InfoInv, CollectionIsFlagged, LiveInfo, AliveInfo
<1>11. SshHasOwner' /\ DbHasOwner'
  BY DEF SshHasOwner, DbHasOwner
<1> QED
  BY <1>1, <1>4, <1>6, <1>7, <1>8, <1>10, <1>11 DEF OwnInv

\* The refresh goes on to its next await, alone and with no connect_coro.
LEMMA GoesOnOwn ==
  ASSUME Typed, NEW r \in Refreshes, NEW x \in RefActive, NEW y,
         ref' = [ref EXCEPT ![r] = [pc |-> x, on |-> y]],
         \A q \in Refreshes : q # r => ref[q].pc \notin RefActive,
         tab'.life = "open", \A c \in Conns : ~LiveConn(c)',
         x = "closing" => /\ y = tab'.session /\ tab'.session \in Conns
                          /\ ~sess'[y].up /\ sess'[y].dbTask = None,
         x # "waitConn" => \A i \in Infos : ~LiveInfo(i)'
  PROVE  RefreshInv' /\ TaskInv' /\ Refreshing'
<1>1. /\ ref'[r].pc = x /\ ref'[r].on = y
      /\ \A q \in Refreshes : q # r => ref'[q].pc \notin RefActive
  BY DEF Typed
<1>2. Refreshing'
  BY <1>1 DEF Refreshing
<1>3. \A q \in Refreshes : ref'[q].pc \in RefActive => q = r
  BY <1>1
<1>4. ASSUME NEW q \in Refreshes
      PROVE  /\ ref'[q].pc = "closing" =>
                  /\ ref'[q].on = tab'.session /\ tab'.session \in Conns
                  /\ ~sess'[tab'.session].up /\ sess'[tab'.session].dbTask = None
             /\ ref'[q].pc \in {"waitInfo", "closing"} => \A i \in Infos : ~LiveInfo(i)'
  <2>1. ref'[q].pc \in {"waitInfo", "closing"} => q = r
    BY <1>3 DEF RefActive
  <2>2. x \in {"waitInfo", "closing"} => \A i \in Infos : ~LiveInfo(i)'
    OBVIOUS
  <2> QED
    BY <1>1, <2>1, <2>2
<1>5. RefreshInv'
  BY <1>3, <1>4 DEF RefreshInv
<1>6. TaskInv'
  BY DEF TaskInv
<1> QED
  BY <1>2, <1>5, <1>6

LEMMA AbortOwn ==
  ASSUME Typed, Fresh, OwnInv, NEW r \in Refreshes, NEW t, Alone(r, t), Abort(r, t),
         \A i \in Infos : ~LiveInfo(i), UNCHANGED <<target, info>>
  PROVE  OwnInv'
<1>0. t \in Tabs /\ t.session = tab.session /\ tab.life = "open" /\ TypeOK
  BY TypedIsTypeOK DEF Alone
<1> DEFINE s == tab.session
<1>1. CASE s = None
  <2>1. Reconnect(r, t) /\ UNCHANGED <<sess, job, dbs>>
    BY <1>0, <1>1 DEF Abort
  <2>2. \A c \in Conns : /\ sess[c].ssh # "open" /\ job[c] \notin {"created", "dial"}
                         /\ ~(dbs[c] > 0)
    BY <1>0, <1>1, TabAssumption DEF OwnInv, SshHasOwner, DbHasOwner, JobInv
  <2>3. \A c \in Conns :
          /\ sess[c].dbTask # None => sess[c].db = sess[c].dbTask
          /\ conn[c] \in {"unused", "created", "dial"} => ~sess[c].up
          /\ conn[c] # "ended" => sess[c].db = None /\ sess[c].dbTask = None
    BY DEF OwnInv, SessInv
  <2> QED
    BY <2>1, <2>2, <2>3, ReconnectOwn
<1>2. CASE s # None
  <2>1. /\ s \in Conns /\ job' = CancelDb(s) /\ UNCHANGED dbs
        /\ sess' = [sess EXCEPT ![s] = Aborted(s, DbIsOpen(s))]
        /\ \/ /\ DbIsOpen(s) /\ tab' = t /\ UNCHANGED <<conn, cancelled>>
              /\ ref' = [ref EXCEPT ![r] = [pc |-> "closing", on |-> s]]
           \/ ~DbIsOpen(s) /\ Reconnect(r, t)
    BY <1>0, <1>2, AbortFacts
  <2>2. \A c \in Conns : job'[c] \notin {"created", "dial"}
    BY <1>0, <2>1 DEF OwnInv, JobInv, CancelDb
  <2>3. /\ sess'[s].ssh # "open" /\ ~sess'[s].up /\ sess'[s].dbTask = None
        /\ sess'[s].db = IF DbIsOpen(s) THEN sess[s].db ELSE None
        /\ \A c \in Conns : c # s => sess'[c] = sess[c]
    BY <2>1 DEF Typed, Aborted
  <2>4. \A c \in Conns : c # s => sess[c].ssh # "open"
    BY DEF OwnInv, SshHasOwner
  <2>5. \A c \in Conns :
          /\ sess[c].dbTask # None => sess[c].db = sess[c].dbTask
          /\ conn[c] \in {"unused", "created", "dial"} => ~sess[c].up
          /\ conn[c] # "ended" => sess[c].db = None /\ sess[c].dbTask = None
    BY DEF OwnInv, SessInv
  <2>6. \A c \in Conns : dbs[c] > 0 => dbs[c] = 1 /\ sess[s].db = c
    BY <1>0 DEF OwnInv, DbHasOwner
  <2>7. CASE ~DbIsOpen(s)
    <3>1. Reconnect(r, t)
      BY <2>1, <2>7
    <3>2. \A c \in Conns : ~(dbs'[c] > 0)
      BY <2>1, <2>6, <2>7, TabAssumption DEF DbIsOpen
    <3>3. \A c \in Conns :
            /\ sess'[c].ssh # "open"
            /\ sess'[c].dbTask # None => sess'[c].db = sess'[c].dbTask
      BY <2>3, <2>4, <2>5
    <3>4. \A c \in Conns :
            /\ conn[c] \in {"unused", "created", "dial"} => ~sess'[c].up
            /\ conn[c] # "ended" => sess'[c].db = None /\ sess'[c].dbTask = None
      BY <2>3, <2>5, <2>7
    <3> QED
      BY <2>2, <3>1, <3>2, <3>3, <3>4, ReconnectOwn
  <2>8. CASE DbIsOpen(s)
    <3>1. /\ tab' = t /\ UNCHANGED <<conn, cancelled>>
          /\ ref' = [ref EXCEPT ![r] = [pc |-> "closing", on |-> s]]
      BY <1>0, <2>1, <2>8 DEF Reconnect
    <3>2. sess[s].db # None /\ conn[s] = "ended"
      BY <2>1, <2>5, <2>8 DEF DbIsOpen
    <3>3. /\ tab'.life = "open" /\ tab'.session = s
          /\ \A c \in Conns : ~LiveConn(c)'
          /\ \A i \in Infos : ~LiveInfo(i)'
      BY <3>1 DEF Alone, LiveConn, AliveConn, LiveInfo, AliveInfo
    <3>4. RefreshInv' /\ TaskInv' /\ Refreshing'
      BY <2>1, <2>3, <3>1, <3>3, GoesOnOwn DEF Alone, RefActive
    <3>5. SessInv'
      BY <2>3, <2>4, <2>5, <3>1, <3>2 DEF SessInv
    <3>6. JobInv'
      BY <2>2, <3>4 DEF JobInv
    <3>7. InfoInv' /\ CollectionIsFlagged'
      BY <3>3 DEF InfoInv, CollectionIsFlagged, LiveInfo, AliveInfo
    <3>8. SshHasOwner' /\ DbHasOwner'
      <4>1. \A c \in Conns : sess'[c].ssh # "open"
        BY <2>3, <2>4
      <4>2. sess'[tab'.session].db = sess[s].db /\ UNCHANGED dbs
        BY <2>1, <2>3, <2>8, <3>3
      <4> QED
        BY <1>2, <2>6, <3>3, <4>1, <4>2 DEF SshHasOwner, DbHasOwner
    <3> QED
      BY <3>3, <3>4, <3>5, <3>6, <3>7, <3>8 DEF OwnInv
  <2> QED
    BY <2>7, <2>8
<1> QED
  BY <1>1, <1>2

LEMMA StopInfoOwn ==
  ASSUME Typed, Fresh, OwnInv, NEW r \in Refreshes, NEW t, Alone(r, t),
         t.infoTask = tab.infoTask, StopInfo(r, t), UNCHANGED <<target, info>>
  PROVE  OwnInv'
<1>1. CASE ~AliveInfo(t.infoTask)
  <2>1. Abort(r, t)
    BY <1>1 DEF StopInfo
  <2>2. \A i \in Infos : ~LiveInfo(i)
    BY <1>1 DEF OwnInv, InfoInv, LiveInfo
  <2> QED
    BY <2>1, <2>2, AbortOwn
<1>2. CASE AliveInfo(t.infoTask)
  <2>1. /\ cancelled' = cancelled \cup {t.infoTask}
        /\ ref' = [ref EXCEPT ![r] = [pc |-> "waitInfo", on |-> t.infoTask]]
        /\ tab' = t /\ UNCHANGED <<conn, sess, job, dbs>>
    BY <1>2 DEF StopInfo
  <2>2. \A i \in Infos : ~LiveInfo(i)'
    BY <2>1 DEF OwnInv, InfoInv, LiveInfo, AliveInfo
  <2>3. /\ tab'.life = "open" /\ tab'.session = tab.session
        /\ tab.life = "open"
        /\ \A c \in Conns : ~LiveConn(c)'
    BY <2>1 DEF Alone, LiveConn, AliveConn
  <2>4. RefreshInv' /\ TaskInv' /\ Refreshing'
    BY <2>1, <2>2, <2>3, GoesOnOwn DEF Alone, RefActive
  <2>5. SessInv' /\ SshHasOwner' /\ DbHasOwner'
    BY <2>1, <2>3 DEF OwnInv, SessInv, SshHasOwner, DbHasOwner
  <2>6. JobInv'
    BY <2>1, <2>3, <2>4 DEF OwnInv, JobInv
  <2>7. InfoInv' /\ CollectionIsFlagged'
    BY <2>2 DEF InfoInv, CollectionIsFlagged, LiveInfo, AliveInfo
  <2> QED
    BY <2>3, <2>4, <2>5, <2>6, <2>7 DEF OwnInv
<1> QED
  BY <1>1, <1>2

LEMMA RefreshStartOwn ==
  ASSUME Calm, Typed, Fresh, OwnInv, NEW r \in Refreshes, RefreshStart(r)
  PROVE  OwnInv'
<1>1. /\ tab \in Tabs /\ tab.life = "open" /\ ~Refreshing /\ ~Unheld
      /\ UNCHANGED <<target, info>>
  BY DEF RefreshStart, MayOperate, Calm, Typed
<1>2. \A q \in Refreshes : ref[q].pc \notin RefActive
  BY <1>1 DEF Refreshing
<1>3. CASE ~AliveConn(tab.connectTask)
  <2>1. Alone(r, tab)
    BY <1>1, <1>2, <1>3 DEF Alone, Unheld, LiveConn
  <2>2. StopInfo(r, tab)
    BY <1>3 DEF RefreshStart
  <2> QED
    BY <1>1, <2>1, <2>2, StopInfoOwn
<1>4. CASE AliveConn(tab.connectTask)
  <2>1. /\ cancelled' = cancelled \cup {tab.connectTask}
        /\ ref' = [ref EXCEPT ![r] = [pc |-> "waitConn", on |-> tab.connectTask]]
        /\ UNCHANGED <<tab, conn, sess, job, dbs>>
    BY <1>4 DEF RefreshStart
  <2>2. \A c \in Conns : ~LiveConn(c)'
    BY <1>1, <2>1 DEF Unheld, LiveConn, AliveConn
  <2>3. RefreshInv' /\ TaskInv' /\ Refreshing'
    BY <1>1, <1>2, <2>1, <2>2, GoesOnOwn DEF RefActive
  <2>4. SessInv' /\ SshHasOwner' /\ DbHasOwner'
    BY <2>1 DEF OwnInv, SessInv, SshHasOwner, DbHasOwner
  <2>5. JobInv'
    BY <1>1, <2>1, <2>3 DEF OwnInv, JobInv
  <2>6. InfoInv' /\ CollectionIsFlagged'
    BY <1>1, <2>1 DEF OwnInv, InfoInv, CollectionIsFlagged, LiveInfo, AliveInfo
  <2> QED
    BY <1>1, <2>1, <2>3, <2>4, <2>5, <2>6 DEF OwnInv
<1> QED
  BY <1>3, <1>4

LEMMA RefreshStepOwn ==
  ASSUME Typed, Fresh, OwnInv, NEW r \in Refreshes, RefreshStep(r)
  PROVE  OwnInv'
<1>1. ref[r].pc \in RefActive /\ UNCHANGED <<target, info>>
  BY DEF RefreshStep, RefreshConnGone, RefreshInfoGone, RefreshDbClosed, RefActive
<1>2. Refreshing
  BY <1>1 DEF Refreshing
<1>3. /\ tab \in Tabs /\ tab.life = "open"
      /\ \A q \in Refreshes : q # r => ref[q].pc \notin RefActive
      /\ \A c \in Conns : ~LiveConn(c)
  BY <1>1, <1>2 DEF OwnInv, RefreshInv, TaskInv, Typed
<1>4. CASE RefreshConnGone(r)
  <2> DEFINE t == [tab EXCEPT !.connectTask = None]
  <2>1. Alone(r, t) /\ t.infoTask = tab.infoTask
    BY <1>3 DEF Alone, Tabs
  <2>2. StopInfo(r, t)
    BY <1>4 DEF RefreshConnGone
  <2> HIDE DEF t
  <2> QED
    BY <1>1, <2>1, <2>2, StopInfoOwn
<1>5. CASE RefreshInfoGone(r)
  <2> DEFINE t == [tab EXCEPT !.infoTask = None]
  <2>1. Alone(r, t)
    BY <1>3 DEF Alone, Tabs
  <2>2. Abort(r, t)
    BY <1>5 DEF RefreshInfoGone
  <2>3. \A i \in Infos : ~LiveInfo(i)
    BY <1>5 DEF RefreshInfoGone, OwnInv, RefreshInv
  <2> HIDE DEF t
  <2> QED
    BY <1>1, <2>1, <2>2, <2>3, AbortOwn
<1>6. CASE RefreshDbClosed(r)
  <2> DEFINE s == tab.session
             d == sess[s].db
  <2>1. /\ ref[r].on = s /\ s \in Conns /\ ~sess[s].up /\ sess[s].dbTask = None
        /\ \A i \in Infos : ~LiveInfo(i)
    BY <1>6 DEF RefreshDbClosed, OwnInv, RefreshInv
  <2>2. /\ Alone(r, tab) /\ Reconnect(r, tab) /\ UNCHANGED job
        /\ IF d # None /\ dbs[d] > 0
             THEN /\ dbs' = [dbs EXCEPT ![d] = @ - 1]
                  /\ sess' = [sess EXCEPT ![s].db = None]
             ELSE UNCHANGED <<dbs, sess>>
    BY <1>3, <1>6, <2>1 DEF RefreshDbClosed, Alone
  <2>3. /\ \A c \in Conns : sess[c].ssh # "open" /\ job[c] \notin {"created", "dial"}
        /\ \A c \in Conns : dbs[c] > 0 => dbs[c] = 1 /\ c = d
    <3>1. \A c \in Conns : sess[c].ssh # "open"
      BY <2>1 DEF OwnInv, SshHasOwner, SessInv
    <3>2. \A c \in Conns : job[c] \notin {"created", "dial"}
      BY <1>3, <2>1, TabAssumption DEF OwnInv, JobInv
    <3> QED
      BY <1>3, <3>1, <3>2 DEF OwnInv, DbHasOwner
  <2>4. d \in Conns \cup {None}
    BY <2>1 DEF Typed, Sess
  <2>5. \A c \in Conns : ~(dbs'[c] > 0)
    BY <2>2, <2>3, <2>4, TabAssumption DEF Typed
  <2>6. \A c \in Conns :
          /\ sess'[c].ssh = sess[c].ssh /\ sess'[c].up = sess[c].up
          /\ sess'[c].dbTask = sess[c].dbTask
          /\ sess'[c].db = sess[c].db \/ (c = s /\ sess'[c].db = None)
    BY <2>1, <2>2 DEF Typed, Sess
  <2>7. \A c \in Conns :
          /\ sess[c].dbTask # None => sess[c].db = sess[c].dbTask
          /\ conn[c] \in {"unused", "created", "dial"} => ~sess[c].up
          /\ conn[c] # "ended" => sess[c].db = None /\ sess[c].dbTask = None
    BY DEF OwnInv, SessInv
  <2>8. \A c \in Conns :
          /\ sess'[c].dbTask # None => sess'[c].db = sess'[c].dbTask
          /\ conn[c] \in {"unused", "created", "dial"} => ~sess'[c].up
          /\ conn[c] # "ended" => sess'[c].db = None /\ sess'[c].dbTask = None
    BY <2>1, <2>6, <2>7
  <2> HIDE DEF d
  <2>9. \A c \in Conns : sess'[c].ssh # "open" /\ job'[c] \notin {"created", "dial"}
    BY <2>2, <2>3, <2>6
  <2> QED
    BY <1>1, <2>1, <2>2, <2>5, <2>8, <2>9, ReconnectOwn
<1> QED
  BY <1>4, <1>5, <1>6 DEF RefreshStep

-----------------------------------------------------------------------------
(* The other operations *)

\* A connect_coro replaces the one of the tab, which holds nothing else.
LEMMA StartConnectingOwn ==
  ASSUME Typed, Fresh, OwnInv, tab.life = "open", ~Refreshing, ~Unheld,
         ~Connected(tab.session), NEW t \in Tabs, SameTasks(t, tab),
         t.loading = tab.loading \/ \A i \in Infos : ~LiveInfo(i),
         StartConnecting(t), UNCHANGED <<sess, job, target, dbs, info, ref>>
  PROVE  OwnInv'
<1>2. PICK c \in Conns :
        /\ conn[c] = "unused" /\ conn' = [conn EXCEPT ![c] = "created"]
        /\ tab' = [t EXCEPT !.connectTask = c]
        /\ cancelled' = cancelled \cup Live(tab.connectTask)
  BY StartConnectingFacts, TypedIsTypeOK DEF SameTasks
<1>3. /\ tab'.life = tab.life /\ tab'.session = tab.session
      /\ tab'.connectTask = c /\ tab'.infoTask = tab.infoTask
      /\ tab'.loading = t.loading
  BY <1>2 DEF Tabs, SameTasks
<1>4. RefreshInv' /\ ~Refreshing'
  BY NoRefresh
<1>5. conn'[c] = "created" /\ \A x \in Conns : x # c => conn'[x] = conn[x]
  BY <1>2 DEF Typed
<1>6. ~Connected(tab.session)'
  BY <1>3 DEF Connected
<1>7. TaskInv'
  <2>1. ASSUME NEW x \in Conns, LiveConn(x)', x # c PROVE FALSE
    <3>1. LiveConn(x)
      BY <1>2, <1>5, <2>1 DEF LiveConn, AliveConn
    <3>2. x \in Live(tab.connectTask)
      BY <3>1, RunningFacts DEF Unheld, LiveConn, Running
    <3> QED
      BY <1>2, <2>1, <3>2 DEF LiveConn
  <2> QED
    BY <1>3, <1>4, <1>5, <1>6, <2>1 DEF TaskInv
<1>8. SessInv'
  <2>1. \A x \in Conns : /\ conn'[x] \in {"unused", "created", "dial"} =>
                                conn[x] \in {"unused", "created", "dial"}
                         /\ conn'[x] # "ended" => conn[x] # "ended"
    BY <1>2, <1>5
  <2> QED
    BY <2>1 DEF OwnInv, SessInv
<1>9. JobInv'
  BY <1>3, <1>4 DEF OwnInv, JobInv, Connected
<1>10. InfoInv' /\ \A i \in Infos : LiveInfo(i)' => LiveInfo(i)
  BY <1>2, <1>3 DEF OwnInv, InfoInv, LiveInfo, AliveInfo
<1>11. CollectionIsFlagged'
  BY <1>2, <1>3, <1>10 DEF OwnInv, CollectionIsFlagged, AliveInfo, LiveInfo
<1>12. SshHasOwner' /\ DbHasOwner'
  BY <1>3 DEF OwnInv, SshHasOwner, DbHasOwner
<1> QED
  BY <1>4, <1>7, <1>8, <1>9, <1>10, <1>11, <1>12 DEF OwnInv

LEMMA PingRestoredOwn ==
  ASSUME Calm, Typed, Fresh, OwnInv, PingRestored
  PROVE  OwnInv'
<1>1. /\ tab \in Tabs /\ tab.life = "open" /\ ~Refreshing /\ ~Unheld
      /\ ~Connected(tab.session) /\ StartConnecting(tab)
      /\ UNCHANGED <<sess, job, target, dbs, info, ref>>
  BY DEF PingRestored, MayOperate, Calm, Typed
<1> QED
  BY <1>1, StartConnectingOwn DEF SameTasks

LEMMA PressButtonOwn ==
  ASSUME Calm, Typed, Fresh, OwnInv, PressButton
  PROVE  OwnInv'
<1> DEFINE t == [tab EXCEPT !.btn = FALSE, !.loaded = FALSE, !.loading = FALSE,
                            !.panel = "working"]
<1>1. /\ tab \in Tabs /\ tab.life = "open" /\ ~Refreshing /\ ~Unheld
      /\ ~Connected(tab.session) /\ \A i \in Infos : ~LiveInfo(i)
      /\ StartConnecting(t) /\ UNCHANGED <<sess, job, target, dbs, info, ref>>
  BY DEF PressButton, MayOperate, Calm, Typed
<1>2. t \in Tabs /\ SameTasks(t, tab)
  BY <1>1 DEF Tabs, Panels, SameTasks
<1> HIDE DEF t
<1> QED
  BY <1>1, <1>2, StartConnectingOwn

\* The turn of a restored tab: its session is new, and was nobody's.
LEMMA RestoreTurnOwn ==
  ASSUME Calm, Typed, OwnInv, RestoreTurn
  PROVE  OwnInv'
<1>1. PICK c \in FreshConns : Dial(c, [tab EXCEPT !.queued = FALSE])
  BY DEF RestoreTurn
<1>2. /\ tab.life = "open" /\ ~Refreshing /\ ~Connected(tab.session)
      /\ \A x \in Conns : ~LiveConn(x)
  BY DEF Calm
<1>3. /\ c \in Conns /\ conn[c] = "unused" /\ conn' = [conn EXCEPT ![c] = "dial"]
      /\ UNCHANGED <<sess, job, target, dbs, info, ref, cancelled>>
      /\ tab'.session = c /\ tab'.life = tab.life /\ tab'.infoTask = tab.infoTask
      /\ tab'.loading = tab.loading
  BY <1>1 DEF Dial, FreshConns, Typed, Tabs
<1>4. /\ \A x \in Conns : job[x] \notin {"created", "dial"} /\ ~(dbs[x] > 0)
      /\ \A x \in Conns : sess[x].ssh # "open"
  BY <1>2, NoDb
<1>5. RefreshInv' /\ ~Refreshing'
  BY <1>2, <1>3, NoRefresh
<1>6. conn'[c] = "dial" /\ \A x \in Conns : x # c => conn'[x] = conn[x]
  BY <1>3 DEF Typed
<1>7. TaskInv'
  <2>1. ASSUME NEW x \in Conns, LiveConn(x)' PROVE x = c
    BY <1>2, <1>3, <1>6, <2>1 DEF LiveConn, AliveConn
  <2> QED
    BY <1>2, <1>3, <1>5, <1>6, <2>1 DEF TaskInv
<1>8. SessInv'
  BY <1>3, <1>6 DEF OwnInv, SessInv
<1>9. JobInv'
  <2>1. sess[c].db = None /\ sess[c].dbTask = None
    BY <1>3 DEF OwnInv, SessInv
  <2> QED
    BY <1>3, <1>4, <2>1 DEF JobInv
<1>10. InfoInv' /\ CollectionIsFlagged'
  BY <1>3 DEF OwnInv, InfoInv, LiveInfo, AliveInfo, CollectionIsFlagged
<1>11. SshHasOwner' /\ DbHasOwner'
  BY <1>3, <1>4 DEF SshHasOwner, DbHasOwner
<1> QED
  BY <1>5, <1>7, <1>8, <1>9, <1>10, <1>11 DEF OwnInv

LEMMA CloseOwn ==
  ASSUME Calm, Typed, OwnInv, Close
  PROVE  OwnInv'
<1>1. /\ tab \in Tabs /\ tab.life = "open" /\ ~Refreshing /\ ~Unheld
      /\ cancelled' = cancelled \cup Live(tab.connectTask) \cup Live(tab.infoTask)
      /\ UNCHANGED <<conn, target, dbs, info, ref>>
      /\ tab' = [tab EXCEPT !.life = "closed", !.session = None]
  BY DEF Close, MayOperate, Calm, Typed
<1>2. tab'.life = "closed" /\ tab'.session = None /\ tab'.queued = tab.queued
  BY <1>1 DEF Tabs
<1>3. RefreshInv' /\ ~Refreshing'
  BY <1>1, NoRefresh
<1>4. \A c \in Conns : ~LiveConn(c)'
  <2>1. ASSUME NEW c \in Conns, LiveConn(c) PROVE c \in cancelled'
    <3>1. c = tab.connectTask
      BY <1>1, <2>1 DEF Unheld
    <3> QED
      BY <1>1, <2>1, <3>1, RunningFacts DEF LiveConn, Running
  <2> QED
    BY <1>1, <2>1 DEF LiveConn, AliveConn
<1>5. \A i \in Infos : ~LiveInfo(i)'
  <2>1. ASSUME NEW i \in Infos, LiveInfo(i) PROVE i \in cancelled'
    <3>1. i = tab.infoTask
      BY <2>1 DEF OwnInv, InfoInv
    <3> QED
      BY <1>1, <2>1, <3>1, RunningFacts DEF LiveInfo, Running
  <2> QED
    BY <1>1, <2>1 DEF LiveInfo, AliveInfo
<1>6. TaskInv' /\ InfoInv'
  BY <1>4, <1>5 DEF TaskInv, InfoInv
<1>7. \A c \in Conns : /\ sess'[c].up = sess[c].up /\ sess'[c].db = sess[c].db
                       /\ sess'[c].dbTask = sess[c].dbTask
                       /\ sess'[c].ssh = "open" => sess[c].ssh = "open" /\ c # tab.session
  <2>1. CASE tab.session = None
    BY <2>1, TabAssumption DEF Close
  <2>2. CASE tab.session # None
    BY <2>2 DEF Close, Typed, Sess
  <2> QED
    BY <2>1, <2>2
<1>8. SessInv'
  BY <1>1, <1>7 DEF OwnInv, SessInv
<1>9. JobInv' /\ DbHasOwner' /\ CollectionIsFlagged'
  BY <1>2 DEF JobInv, DbHasOwner, CollectionIsFlagged
<1>10. SshHasOwner'
  BY <1>7 DEF OwnInv, SshHasOwner
<1> QED
  BY <1>2, <1>3, <1>6, <1>8, <1>9, <1>10 DEF OwnInv

LEMMA DeleteOwn ==
  ASSUME Typed, OwnInv, Delete
  PROVE  OwnInv'
<1>1. /\ tab.life = "closed" /\ tab'.life = "deleted" /\ tab'.queued = tab.queued
      /\ tab'.session = tab.session /\ tab'.infoTask = tab.infoTask
      /\ UNCHANGED <<conn, sess, job, target, dbs, info, ref, cancelled>>
  BY DEF Delete, Typed, Tabs
<1>2. ~Refreshing
  BY <1>1 DEF OwnInv, RefreshInv
<1>3. RefreshInv' /\ ~Refreshing'
  BY <1>1, <1>2, NoRefresh
<1>4. TaskInv'
  BY <1>1 DEF OwnInv, TaskInv, LiveConn, AliveConn
<1>5. SessInv' /\ InfoInv' /\ SshHasOwner'
  BY <1>1 DEF OwnInv, SessInv, InfoInv, LiveInfo, AliveInfo, SshHasOwner
<1>6. JobInv'
  BY <1>1, <1>2 DEF OwnInv, JobInv, Connected
<1>7. DbHasOwner' /\ CollectionIsFlagged'
  BY <1>1 DEF DbHasOwner, CollectionIsFlagged
<1> QED
  BY <1>1, <1>3, <1>4, <1>5, <1>6, <1>7 DEF OwnInv

LEMMA OperatorOwn ==
  ASSUME Calm, Typed, Fresh, OwnInv,
         \/ RestoreTurn \/ Reload \/ Activate \/ PressButton \/ OpenVnc \/ PingRestored
         \/ Close \/ Delete
  PROVE  OwnInv'
<1>0. tab \in Tabs
  BY DEF Typed
<1>2. CASE Reload
  <2>1. /\ ~Refreshing /\ tab.life = "open" /\ LoadInfo(TRUE)
        /\ UNCHANGED <<conn, sess, job, target, dbs, ref>>
    BY <1>2 DEF Reload, MayOperate, Calm
  <2>2. /\ SameTasks(tab', [tab EXCEPT !.infoTask = tab'.infoTask])
        /\ \A c \in Conns : c \in cancelled' <=> c \in cancelled
        /\ InfoInv' /\ CollectionIsFlagged'
    BY <2>1, LoadInfoOwn DEF OwnInv
  <2> QED
    BY <2>1, <2>2, OwnShrinks
<1>3. CASE Activate
  <2> DEFINE t == [tab EXCEPT !.loaded = FALSE]
  <2>1. /\ ~Refreshing /\ StartInfo(t)
        /\ UNCHANGED <<conn, sess, job, target, dbs, ref>>
    BY <1>3 DEF Activate, MayOperate, Calm
  <2>2. t \in Tabs /\ SameTasks(t, tab)
    BY <1>0 DEF Tabs, SameTasks
  <2> HIDE DEF t
  <2>3. PICK i \in Infos :
          /\ info[i] = "unused" /\ info' = [info EXCEPT ![i] = "created"]
          /\ tab' \in Tabs /\ tab' = [t EXCEPT !.infoTask = i, !.loading = TRUE]
          /\ cancelled' = cancelled \cup Live(t.infoTask)
    BY <2>1, <2>2, StartInfoFacts, TypedIsTypeOK
  <2>4. tab'.infoTask = i /\ tab'.loading
    BY <2>2, <2>3 DEF Tabs
  <2>5. SameTasks(tab', [tab EXCEPT !.infoTask = tab'.infoTask])
    BY <1>0, <2>2, <2>3 DEF Tabs, SameTasks
  <2>6. /\ \A c \in Conns : c \in cancelled' <=> c \in cancelled
        /\ InfoInv' /\ CollectionIsFlagged'
    BY <2>2, <2>3, <2>4, StartInfoOwn DEF OwnInv, SameTasks
  <2> QED
    BY <2>1, <2>5, <2>6, OwnShrinks
<1>4. CASE OpenVnc
  <2>1. /\ SameTasks(tab', tab) /\ tab'.loading = tab.loading
        /\ UNCHANGED <<conn, sess, job, target, dbs, info, ref, cancelled>>
    BY <1>0, <1>4 DEF OpenVnc, SameTasks, Tabs
  <2> QED
    BY <2>1, OwnFrame
<1> QED
  BY <1>2, <1>3, <1>4, RestoreTurnOwn, PressButtonOwn, PingRestoredOwn, CloseOwn, DeleteOwn

LEMMA ConnStepOwn ==
  ASSUME Typed, Fresh, OwnInv, NEW c \in Conns, ConnStep(c)
  PROVE  OwnInv'
<1>1. CASE ConnCancelled(c) \/ DialFails(c)
  <2>1. /\ conn' = [conn EXCEPT ![c] = "ended"] /\ tab' \in {tab, ShowButton(tab)}
        /\ UNCHANGED <<sess, job, target, dbs, info, ref, cancelled>>
    BY <1>1 DEF ConnCancelled, DialFails
  <2>2. SameTasks(tab', tab) /\ tab'.loading = tab.loading
    BY <2>1, ShowButtonFacts DEF SameTasks, Typed
  <2> QED
    BY <2>1, <2>2, ConnEndsOwn
<1> QED
  BY <1>1, ConnStartOwn, DialOkOwn, TypeKnownOwn DEF ConnStep

LEMMA StepOwn ==
  ASSUME [Calm]_vars, Typed, Fresh, OwnInv, [Next]_vars
  PROVE  OwnInv'
<1>1. CASE UNCHANGED vars
  <2>1. /\ SameTasks(tab', tab) /\ tab'.loading = tab.loading
        /\ UNCHANGED <<conn, sess, job, target, dbs, info, ref, cancelled>>
    BY <1>1 DEF vars, SameTasks
  <2> QED
    BY <2>1, OwnFrame
<1>2. CASE Calm /\ Next
  BY <1>2, ConnStepOwn, DbStepOwn, InfoStepOwn, RefreshStartOwn, RefreshStepOwn,
     OperatorOwn DEF Next
<1> QED
  BY <1>1, <1>2

LEMMA InitOwn == ASSUME Init PROVE OwnInv
<1> DEFINE first == CHOOSE c \in Conns : TRUE
<1>1. first \in Conns
  BY TabAssumption
<1>2. /\ tab.life = "open" /\ tab.session = None /\ tab.infoTask = None /\ ~tab.loading
      /\ \A c \in Conns : conn[c] \in {"created", "unused"} /\ (conn[c] = "created" => c = first)
  BY DEF Init
<1> HIDE DEF first
<1>3. /\ sess = [c \in Conns |-> [ssh |-> "none", up |-> FALSE, db |-> None, dbTask |-> None]]
      /\ job = [c \in Conns |-> "none"] /\ dbs = [c \in Conns |-> 0]
      /\ info = [i \in Infos |-> "unused"]
      /\ ref = [r \in Refreshes |-> [pc |-> "unused", on |-> None]]
  BY DEF Init
<1>4. RefreshInv /\ ~Refreshing
  BY <1>3 DEF RefreshInv, Refreshing, RefActive
<1>5. TaskInv
  BY <1>2, <1>4 DEF TaskInv, LiveConn, AliveConn, ConnAlive, Connected
<1>6. SessInv /\ InfoInv /\ JobInv
  BY <1>2, <1>3 DEF SessInv, InfoInv, JobInv, LiveInfo, AliveInfo, InfoAlive
<1>7. SshHasOwner /\ DbHasOwner /\ CollectionIsFlagged
  BY <1>2, <1>3, TabAssumption DEF SshHasOwner, DbHasOwner, CollectionIsFlagged, AliveInfo
<1> QED
  BY <1>2, <1>4, <1>5, <1>6, <1>7 DEF OwnInv

-----------------------------------------------------------------------------
(* The theorems *)

\* Along calm behaviours every SSH and database connection and every task of
\* the tab belongs to its current session.
THEOREM OwnersInductive == Spec /\ [][Calm]_vars => [](IInv /\ OwnInv)
<1>1. Init => IInv /\ OwnInv
  BY InitIInv, InitOwn
<1>2. IInv /\ OwnInv /\ [Next]_vars /\ [Calm]_vars => (IInv /\ OwnInv)'
  <2>1. IInv /\ [Next]_vars => IInv'
    BY StepType, StepFresh, StepFlagged DEF IInv
  <2> QED
    BY <2>1, StepOwn DEF IInv
<1> QED
  BY <1>1, <1>2, PTL DEF Spec

\* A reconnection, a cancelled dial, a late database task or a closed tab
\* leaves no connection behind that nobody closes, up to the first of the four
\* kinds of steps that Calm excludes: whatever operations the tab has, and in
\* whatever order they come at other moments.
THEOREM EveryConnectionHasOwner == Spec /\ [][Calm]_vars => []ConnectionsHaveOwner
<1>1. OwnInv => ConnectionsHaveOwner
  BY DEF OwnInv, ConnectionsHaveOwner
<1> QED
  BY OwnersInductive, <1>1, PTL

\* A collection that feeds the panel has the loading flag set, so no background
\* refresh cancels it, up to the first of those steps.
THEOREM RunningCollectionIsFlagged == Spec /\ [][Calm]_vars => []CollectionIsFlagged
<1>1. OwnInv => CollectionIsFlagged
  BY DEF OwnInv
<1> QED
  BY OwnersInductive, <1>1, PTL
=============================================================================
