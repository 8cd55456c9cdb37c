------------------------------ MODULE SessionTab ------------------------------
(***************************************************************************)
(* One cash register tab: CashSessionWidget (gui/cash_session_widget.py)   *)
(* with the CashSession, SSHClient and DBSession objects it creates        *)
(* (core/session.py, core/ssh.py, core/db.py) and the calls TabManager     *)
(* makes on it.  The coroutines of the tab, connect_coro, _collect_info,   *)
(* _connect_db_notified and reconnect_to, share the fields of the widget   *)
(* and run on one event loop with the operator's clicks in between: an     *)
(* action is what one of them does from an await to the next.              *)
(*                                                                         *)
(* A connect_coro instance names the session it creates, and the DBSession *)
(* and the database task it starts.  Left out: the texts, the sections     *)
(* (InfoCollector), the VNC viewer beyond the flag that it was open, and   *)
(* the address.  CashSession.disconnect is not called on this path.        *)
(***************************************************************************)
EXTENDS Naturals, FiniteSets

CONSTANTS
  Conns,      \* connect_coro instances; a bound
  Refreshes,  \* reconnect_to instances; a bound
  Infos,      \* _collect_info instances; a bound
  Ops,        \* what the operator and the program do to the tab, and whether
              \* there are registers with a database
  Overlap,    \* an operation may come while reconnect_to is under way
  None

ASSUME TabAssumption ==
  /\ IsFiniteSet(Conns) /\ Conns # {}
  /\ Conns \cap Infos = {}
  /\ None \notin Conns \cup Infos
  /\ Ops \subseteq {"restore", "refresh", "reload", "activate", "button",
                    "ping", "close", "database"}
  /\ Overlap \in BOOLEAN

VARIABLES
  tab,        \* the fields of the widget
  conn,       \* where each connect_coro is
  sess,       \* the CashSession each connect_coro created
  job,        \* where each _connect_db_notified is
  target,     \* the DBSession it connects
  dbs,        \* connections to PostgreSQL opened through each DBSession
  info,       \* where each _collect_info is
  ref,        \* where each reconnect_to is, and the task or session it awaits
  cancelled   \* tasks on which cancel() was called

vars == <<tab, conn, sess, job, target, dbs, info, ref, cancelled>>

ConnAlive == {"created", "dial", "type"}
InfoAlive == {"created", "collect"}
RefActive == {"waitConn", "waitInfo", "closing"}

TypeOK ==
  /\ tab \in [life : {"open", "closed", "deleted"}, queued : BOOLEAN,
              session : Conns \cup {None}, connectTask : Conns \cup {None},
              infoTask : Infos \cup {None}, loading : BOOLEAN, loaded : BOOLEAN,
              btn : BOOLEAN, vnc : BOOLEAN,
              panel : {"working", "message", "button", "skeleton", "sections"}]
  /\ conn \in [Conns -> {"unused", "ended"} \cup ConnAlive]
  /\ sess \in [Conns -> [ssh : {"none", "open", "closed"}, up : BOOLEAN,
                         db : Conns \cup {None}, dbTask : Conns \cup {None}]]
  /\ job \in [Conns -> {"none", "created", "dial", "ended"}]
  /\ target \in [Conns -> Conns \cup {None}]
  /\ dbs \in [Conns -> Nat]
  /\ info \in [Infos -> {"unused", "ended"} \cup InfoAlive]
  /\ ref \in [Refreshes -> [pc : {"unused", "ended"} \cup RefActive,
                            on : Conns \cup Infos \cup {None}]]
  /\ cancelled \subseteq Conns \cup Infos

\* A tab of add_tab, or one of restore_sessions waiting for its wave.
Init ==
  \E queued \in {FALSE} \cup {op = "restore" : op \in Ops} :
    LET first == CHOOSE c \in Conns : TRUE
    IN
    /\ tab = [life |-> "open", queued |-> queued, session |-> None,
              connectTask |-> IF queued THEN None ELSE first,
              infoTask |-> None, loading |-> FALSE, loaded |-> FALSE,
              btn |-> FALSE, vnc |-> FALSE, panel |-> "working"]
    /\ conn = [c \in Conns |-> IF c = first /\ ~queued THEN "created" ELSE "unused"]
    /\ sess = [c \in Conns |-> [ssh |-> "none", up |-> FALSE, db |-> None,
                                dbTask |-> None]]
    /\ job = [c \in Conns |-> "none"]
    /\ target = [c \in Conns |-> None]
    /\ dbs = [c \in Conns |-> 0]
    /\ info = [i \in Infos |-> "unused"]
    /\ ref = [r \in Refreshes |-> [pc |-> "unused", on |-> None]]
    /\ cancelled = {}

-----------------------------------------------------------------------------
(* Pieces the handlers share *)

FreshConns == {c \in Conns : conn[c] = "unused"}
FreshInfos == {i \in Infos : info[i] = "unused"}

\* `task and not task.done()`, before task.cancel().
AliveConn(c) == c \in Conns /\ conn[c] \in ConnAlive
AliveInfo(i) == i \in Infos /\ info[i] \in InfoAlive
\* Mutant: cancel() without the question whether there is a task.
LiveUnchecked(task) == {task}
Live(task) == {t \in {task} : AliveConn(t) \/ AliveInfo(t)}

Refreshing == \E r \in Refreshes : ref[r].pc \in RefActive

\* The operator's turn, with an instance left for every coroutine that will
\* still start one.
MayOperate(op) ==
  /\ op \in Ops
  /\ tab.life = "open"
  /\ Overlap \/ ~Refreshing
SpareConn == Cardinality(FreshConns) > Cardinality({r \in Refreshes : ref[r].pc \in RefActive})
                                       + IF tab.queued THEN 1 ELSE 0
SpareInfo == Cardinality(FreshInfos) > Cardinality({c \in Conns : conn[c] # "ended"})

Connected(s) == s # None /\ sess[s].up

\* A progress text replaces a failure text, and nothing else.
Working(panel) == IF panel = "message" THEN "working" ELSE panel

\* _show_reconnect_button: the flag, not the panel, says a button is there.
ShowButton(t) ==
  IF t.btn THEN [t EXCEPT !.panel = IF @ = "button" THEN @ ELSE "message"]
           ELSE [t EXCEPT !.btn = TRUE, !.panel = "button"]

\* start_connecting on the widget state t; FreshConns # {} is the bound.
StartConnecting(t) ==
  LET c == CHOOSE x \in FreshConns : TRUE
  IN
  /\ FreshConns # {}
  /\ tab' = [t EXCEPT !.connectTask = c]
  /\ conn' = [conn EXCEPT ![c] = "created"]
  /\ cancelled' = cancelled \cup Live(t.connectTask)

\* create_task(_collect_info) on the widget state t; FreshInfos # {} is the bound.
StartInfo(t) ==
  LET i == CHOOSE x \in FreshInfos : TRUE
  IN
  /\ FreshInfos # {}
  /\ tab' = [t EXCEPT !.infoTask = i, !.loading = TRUE]
  /\ info' = [info EXCEPT ![i] = "created"]
  /\ cancelled' = cancelled \cup Live(t.infoTask)

\* load_info has no await: its whole body is one step of the caller.
LoadInfo(force) ==
  IF ~force /\ (tab.loading \/ tab.loaded)
    THEN UNCHANGED <<tab, info, cancelled>>
  ELSE IF ~Connected(tab.session)
    THEN /\ tab' = ShowButton([tab EXCEPT !.loading = FALSE])
         /\ cancelled' = IF tab.loading THEN cancelled \cup Live(tab.infoTask)
                                        ELSE cancelled
         /\ UNCHANGED info
    ELSE StartInfo([tab EXCEPT !.panel = Working(@)])

-----------------------------------------------------------------------------
(* connect_coro *)

\* Up to the first await: the session object becomes the tab's.
Dial(c, t) ==
  /\ tab' = [t EXCEPT !.session = c]
  /\ conn' = [conn EXCEPT ![c] = "dial"]
  /\ UNCHANGED <<sess, job, target, dbs, info, ref, cancelled>>

ConnStart(c) ==
  /\ conn[c] = "created" /\ c \notin cancelled
  /\ Dial(c, tab)

\* _connect_in_waves calls connect_coro itself when the semaphore lets it:
\* the tab holds no task for it, and may be closed by then.
RestoreTurn ==
  /\ tab.queued /\ FreshConns # {}
  /\ \E c \in {CHOOSE x \in FreshConns : TRUE} : Dial(c, [tab EXCEPT !.queued = FALSE])

\* connect_coro swallows its CancelledError.
ConnCancelled(c) ==
  /\ AliveConn(c) /\ c \in cancelled
  /\ conn' = [conn EXCEPT ![c] = "ended"]
  /\ UNCHANGED <<tab, sess, job, target, dbs, info, ref, cancelled>>

\* Mutant: the failure is not shown.
DialFailsSilently(c) ==
  /\ conn[c] = "dial" /\ c \notin cancelled
  /\ conn' = [conn EXCEPT ![c] = "ended"]
  /\ UNCHANGED <<tab, sess, job, target, dbs, info, ref, cancelled>>

\* No password fits, a timeout, no route.  The widgets of a deleted tab raise.
DialFails(c) ==
  /\ conn[c] = "dial" /\ c \notin cancelled
  /\ conn' = [conn EXCEPT ![c] = "ended"]
  /\ tab' = IF tab.life = "deleted" THEN tab ELSE ShowButton(tab)
  /\ UNCHANGED <<sess, job, target, dbs, info, ref, cancelled>>

\* connect_coro goes on with self._session, which may no longer be its own.
DialOk(c) ==
  /\ conn[c] = "dial" /\ c \notin cancelled
  /\ sess' = [sess EXCEPT ![c].ssh = "open", ![c].up = TRUE]
  /\ IF tab.life # "deleted" /\ tab.session # None
       THEN /\ conn' = [conn EXCEPT ![c] = "type"]
            /\ tab' = [tab EXCEPT !.btn = FALSE, !.panel = Working(@)]
       ELSE /\ conn' = [conn EXCEPT ![c] = "ended"]
            /\ tab' = IF tab.life = "deleted" THEN tab
                      ELSE ShowButton([tab EXCEPT !.btn = FALSE])
  /\ UNCHANGED <<job, target, dbs, info, ref, cancelled>>

\* Mutant: the database task is not kept in the session.
TypeKnownNoTask(c) ==
  /\ conn[c] = "type" /\ c \notin cancelled /\ tab.session # None
  /\ conn' = [conn EXCEPT ![c] = "ended"]
  /\ sess' = [sess EXCEPT ![tab.session].db = c]
  /\ job' = [job EXCEPT ![c] = "created"]
  /\ LoadInfo(FALSE)
  /\ UNCHANGED <<target, dbs, ref>>

\* The type of the register is known: setup_db and the database task if the
\* type has one, then load_info.  Without a session both raise.
TypeKnown(c) ==
  /\ conn[c] = "type" /\ c \notin cancelled
  /\ conn' = [conn EXCEPT ![c] = "ended"]
  /\ IF tab.session # None
       THEN /\ \/ UNCHANGED <<sess, job>>
               \/ /\ "database" \in Ops
                  /\ sess' = [sess EXCEPT ![tab.session].db = c,
                                          ![tab.session].dbTask = c]
                  /\ job' = [job EXCEPT ![c] = "created"]
            /\ IF tab.life = "deleted" THEN UNCHANGED <<tab, info, cancelled>>
               ELSE LoadInfo(FALSE)
       ELSE /\ tab' = IF tab.life = "deleted" THEN tab ELSE ShowButton(tab)
            /\ UNCHANGED <<sess, job, info, cancelled>>
  /\ UNCHANGED <<target, dbs, ref>>

-----------------------------------------------------------------------------
(* _connect_db_notified, CashSession.connect_db, DBSession.connect *)

DbStart(c) ==
  LET d == IF tab.session = None THEN None ELSE sess[tab.session].db
  IN
  /\ job[c] = "created"
  /\ IF d = None \/ dbs[d] > 0
       THEN job' = [job EXCEPT ![c] = "ended"] /\ UNCHANGED target
       ELSE job' = [job EXCEPT ![c] = "dial"] /\ target' = [target EXCEPT ![c] = d]
  /\ UNCHANGED <<tab, conn, sess, dbs, info, ref, cancelled>>

DbDone(c) ==
  /\ job[c] = "dial"
  /\ job' = [job EXCEPT ![c] = "ended"]
  /\ \/ dbs' = [dbs EXCEPT ![target[c]] = @ + 1]
     \/ UNCHANGED dbs
  /\ UNCHANGED <<tab, conn, sess, target, info, ref, cancelled>>

\* cancel() on the database task of session s; nothing it did remains.
CancelDb(s) ==
  [c \in Conns |-> IF c = sess[s].dbTask /\ job[c] # "none" THEN "ended" ELSE job[c]]

-----------------------------------------------------------------------------
(* _collect_info *)

\* _show_skeletons removes the button with everything else.
InfoStart(i) ==
  /\ info[i] = "created" /\ i \notin cancelled
  /\ IF tab.life = "deleted"
       THEN info' = [info EXCEPT ![i] = "ended"] /\ UNCHANGED tab
       ELSE info' = [info EXCEPT ![i] = "collect"] /\ tab' = [tab EXCEPT !.panel = "skeleton"]
  /\ UNCHANGED <<conn, sess, job, target, dbs, ref, cancelled>>

\* Mutant: a failed collection leaves the loading flag set.
InfoEndsStuck(i) ==
  /\ info[i] = "collect" /\ i \notin cancelled
  /\ info' = [info EXCEPT ![i] = "ended"]
  /\ tab' \in {tab,
               [tab EXCEPT !.loaded = TRUE, !.loading = FALSE,
                           !.panel = IF @ = "skeleton" THEN "sections" ELSE @]}
  /\ UNCHANGED <<conn, sess, job, target, dbs, ref, cancelled>>

\* collect_all returned a snapshot, or raised.
InfoEnds(i) ==
  /\ info[i] = "collect" /\ i \notin cancelled
  /\ info' = [info EXCEPT ![i] = "ended"]
  /\ IF tab.life = "deleted" THEN UNCHANGED tab
     ELSE \/ tab' = [tab EXCEPT !.loaded = TRUE, !.loading = FALSE,
                                !.panel = IF @ = "skeleton" THEN "sections" ELSE @]
          \/ tab' = [tab EXCEPT !.loading = FALSE,
                                !.panel = IF @ = "skeleton" THEN "message" ELSE @]
  /\ UNCHANGED <<conn, sess, job, target, dbs, ref, cancelled>>

\* Mutant: the handler does not ask whether it is still the tab's task.
InfoCancelledAlways(i) ==
  /\ AliveInfo(i) /\ i \in cancelled
  /\ info' = [info EXCEPT ![i] = "ended"]
  /\ tab' = [tab EXCEPT !.loading = FALSE]
  /\ UNCHANGED <<conn, sess, job, target, dbs, ref, cancelled>>

\* A task cancelled before its first step has no handler to run.
InfoCancelled(i) ==
  /\ AliveInfo(i) /\ i \in cancelled
  /\ info' = [info EXCEPT ![i] = "ended"]
  /\ tab' = IF info[i] = "collect" /\ tab.infoTask = i
              THEN [tab EXCEPT !.loading = FALSE] ELSE tab
  /\ UNCHANGED <<conn, sess, job, target, dbs, ref, cancelled>>

-----------------------------------------------------------------------------
(* reconnect_to: the toolbar's "refresh" and a change of address *)

\* Mutant: _info_loaded is not reset.
ReconnectKeepsLoaded(r, t) ==
  LET reset == [t EXCEPT !.session = None, !.loading = FALSE]
  IN
  /\ ref' = [ref EXCEPT ![r] = [pc |-> "ended", on |-> None]]
  /\ IF t.life = "deleted"
       THEN tab' = reset /\ UNCHANGED <<conn, cancelled>>
       ELSE StartConnecting([reset EXCEPT !.panel = "working"])

\* After the abort.  A deleted label raises before start_connecting.
Reconnect(r, t) ==
  LET reset == [t EXCEPT !.session = None, !.loading = FALSE, !.loaded = FALSE]
  IN
  /\ ref' = [ref EXCEPT ![r] = [pc |-> "ended", on |-> None]]
  /\ IF t.life = "deleted"
       THEN tab' = reset /\ UNCHANGED <<conn, cancelled>>
       ELSE StartConnecting([reset EXCEPT !.panel = "working"])

\* session.abort(): the transport at once, then the close of the database,
\* which is the one thing it waits for.
Abort(r, t) ==
  IF t.session = None
    THEN Reconnect(r, t) /\ UNCHANGED <<sess, job, dbs>>
    ELSE LET s == t.session
             d == sess[s].db
             connected == d # None /\ dbs[d] > 0
         IN
         /\ job' = CancelDb(s)
         /\ sess' = [sess EXCEPT ![s] =
              [ssh |-> IF @.ssh = "open" THEN "closed" ELSE @.ssh, up |-> FALSE,
               db |-> IF connected THEN d ELSE None, dbTask |-> None]]
         /\ IF connected
              THEN /\ ref' = [ref EXCEPT ![r] = [pc |-> "closing", on |-> s]]
                   /\ tab' = t
                   /\ UNCHANGED <<conn, cancelled, dbs>>
              ELSE Reconnect(r, t) /\ UNCHANGED dbs

\* The collection is cancelled and waited for, if there is one.
StopInfo(r, t) ==
  IF AliveInfo(t.infoTask)
    THEN /\ cancelled' = cancelled \cup {t.infoTask}
         /\ ref' = [ref EXCEPT ![r] = [pc |-> "waitInfo", on |-> t.infoTask]]
         /\ tab' = t
         /\ UNCHANGED <<conn, sess, job, dbs>>
    ELSE Abort(r, t)

\* The snapshot cache is cleared here too (InfoCollector!ClearCache).
RefreshStart(r) ==
  /\ MayOperate("refresh") /\ SpareConn
  /\ ref[r].pc = "unused"
  /\ IF AliveConn(tab.connectTask)
       THEN /\ cancelled' = cancelled \cup {tab.connectTask}
            /\ ref' = [ref EXCEPT ![r] = [pc |-> "waitConn", on |-> tab.connectTask]]
            /\ UNCHANGED <<tab, conn, sess, job, dbs>>
       ELSE StopInfo(r, tab)
  /\ UNCHANGED <<target, info>>

RefreshConnGone(r) ==
  /\ ref[r].pc = "waitConn" /\ ~AliveConn(ref[r].on)
  /\ StopInfo(r, [tab EXCEPT !.connectTask = None])
  /\ UNCHANGED <<target, info>>

RefreshInfoGone(r) ==
  /\ ref[r].pc = "waitInfo" /\ ~AliveInfo(ref[r].on)
  /\ Abort(r, [tab EXCEPT !.infoTask = None])
  /\ UNCHANGED <<target, info>>

\* _close_db dropped the reference after the close.
RefreshDbClosed(r) ==
  LET s == ref[r].on
      d == sess[s].db
  IN
  /\ ref[r].pc = "closing"
  /\ IF d # None /\ dbs[d] > 0
       THEN /\ dbs' = [dbs EXCEPT ![d] = @ - 1]
            /\ sess' = [sess EXCEPT ![s].db = None]
       ELSE UNCHANGED <<dbs, sess>>
  /\ Reconnect(r, tab)
  /\ UNCHANGED <<job, target, info>>

RefreshStep(r) == RefreshConnGone(r) \/ RefreshInfoGone(r) \/ RefreshDbClosed(r)

-----------------------------------------------------------------------------
(* The other operations *)

\* The tab's "refresh", a chosen type, a repaired problem: load_info(force).
Reload ==
  /\ MayOperate("reload") /\ SpareInfo
  /\ LoadInfo(TRUE)
  /\ UNCHANGED <<conn, sess, job, target, dbs, ref>>

\* maybe_refresh_in_background, when the tab is selected and its data is old.
Activate ==
  /\ MayOperate("activate") /\ SpareInfo
  /\ ~tab.loading /\ tab.loaded /\ Connected(tab.session)
  /\ StartInfo([tab EXCEPT !.loaded = FALSE])
  /\ UNCHANGED <<conn, sess, job, target, dbs, ref>>

\* _do_reconnect
PressButton ==
  /\ MayOperate("button") /\ SpareConn
  /\ tab.panel = "button"
  /\ StartConnecting([tab EXCEPT !.btn = FALSE, !.loaded = FALSE, !.loading = FALSE,
                                 !.panel = "working"])
  /\ UNCHANGED <<sess, job, target, dbs, info, ref>>

\* The embedded viewer was opened, or closed on purpose (disconnect_vnc).
OpenVnc ==
  /\ MayOperate("ping")
  /\ IF tab.vnc THEN TRUE ELSE Connected(tab.session)
  /\ tab' = [tab EXCEPT !.vnc = ~@]
  /\ UNCHANGED <<conn, sess, job, target, dbs, info, ref, cancelled>>

\* _on_ping_status: the register answers again after it did not.
PingRestored ==
  /\ MayOperate("ping") /\ SpareConn
  /\ tab.vnc /\ ~Connected(tab.session)
  /\ StartConnecting(tab)
  /\ UNCHANGED <<sess, job, target, dbs, info, ref>>

\* TabManager.close_tab: cleanup() ...
Close ==
  /\ MayOperate("close")
  /\ cancelled' = cancelled \cup Live(tab.connectTask) \cup Live(tab.infoTask)
  /\ tab' = [tab EXCEPT !.life = "closed", !.session = None]
  /\ IF tab.session = None THEN UNCHANGED <<sess, job>>
     ELSE /\ job' = CancelDb(tab.session)
          /\ sess' = [sess EXCEPT ![tab.session].ssh =
                        IF @ = "open" THEN "closed" ELSE @]
  /\ UNCHANGED <<conn, target, dbs, info, ref>>

\* ... and deleteLater(), done when the event loop gets to it.
Delete ==
  /\ tab.life = "closed"
  /\ tab' = [tab EXCEPT !.life = "deleted"]
  /\ UNCHANGED <<conn, sess, job, target, dbs, info, ref, cancelled>>

-----------------------------------------------------------------------------

ConnStep(c) ==
  \/ ConnStart(c) \/ ConnCancelled(c)
  \/ DialFails(c) \/ DialOk(c) \/ TypeKnown(c)

DbStep(c) == DbStart(c) \/ DbDone(c)

InfoStep(i) == InfoStart(i) \/ InfoEnds(i) \/ InfoCancelled(i)

Next ==
  \/ \E c \in Conns : ConnStep(c) \/ DbStep(c)
  \/ \E i \in Infos : InfoStep(i)
  \/ \E r \in Refreshes : RefreshStart(r) \/ RefreshStep(r)
  \/ RestoreTurn
  \/ Reload \/ Activate \/ PressButton \/ OpenVnc \/ PingRestored
  \/ Close \/ Delete

Spec == Init /\ [][Next]_vars

\* The event loop runs what is ready; a dial, a collection and the close of a
\* connection end by their timeouts; the waves reach every restored tab.
Fairness ==
  /\ \A c \in Conns : WF_vars(ConnStep(c)) /\ WF_vars(DbStep(c))
  /\ \A i \in Infos : WF_vars(InfoStep(i))
  /\ \A r \in Refreshes : WF_vars(RefreshStep(r))
  /\ WF_vars(RestoreTurn)
  /\ WF_vars(Delete)

FairSpec == Spec /\ Fairness

-----------------------------------------------------------------------------
(* Properties *)

AtRest ==
  /\ ~tab.queued /\ ~Refreshing
  /\ \A c \in Conns : conn[c] \notin ConnAlive /\ job[c] \notin {"created", "dial"}
  /\ \A i \in Infos : info[i] \notin InfoAlive

\* While no two operations overlap, an open SSH connection is the one of the
\* tab's current session: no reconnection, cancelled dial or closed tab
\* leaves one behind that nobody can close.
SshHasOwner == \A c \in Conns : sess[c].ssh = "open" => tab.session = c

\* While no two operations overlap, the connections to PostgreSQL of an open
\* tab are reachable from its session, where abort() closes them: neither a
\* cancelled database task nor a second one opens a connection behind it.
DbHasOwner ==
  tab.life = "open" =>
    \A d \in Conns : dbs[d] > 0 =>
      dbs[d] = 1 /\ tab.session # None /\ sess[tab.session].db = d

\* Both connections of an open tab can be reached and closed from it.
ConnectionsHaveOwner == SshHasOwner /\ DbHasOwner

\* The loading flag, which makes load_info and the background refresh return
\* silently, is never left set with nobody to clear it.
LoadingHasTask ==
  tab.life = "open" /\ tab.loading /\ ~Refreshing =>
    \E i \in Infos : info[i] \in InfoAlive

\* While no two operations overlap, a collection that still feeds the panel
\* is flagged: a late handler of a replaced one never clears the flag of its
\* successor, which would let a background refresh cancel it.
CollectionIsFlagged ==
  tab.life = "open" /\ AliveInfo(tab.infoTask) /\ tab.infoTask \notin cancelled =>
    tab.loading

\* "Background work is stopped and SSH and the database are torn down, or
\* closed tabs hold the connection to the register": the comment in cleanup.
ClosedTabHoldsNoDb ==
  tab.life # "open" /\ AtRest => \A d \in Conns : dbs[d] = 0

\* "Nothing hangs in the background after a tab is closed": README.
ClosedTabHoldsNoSsh ==
  tab.life # "open" /\ AtRest => \A c \in Conns : sess[c].ssh # "open"

\* A tab at rest without a connection offers the "reconnect" button.
ReconnectOffered ==
  tab.life = "open" /\ AtRest /\ ~Connected(tab.session) => tab.panel = "button"

\* No step of an open tab leaves the panel at a progress text for good,
\* whatever replaces or cancels the coroutine that showed it.
PanelSettles == tab.life = "open" /\ tab.panel = "working" ~>
                  tab.life # "open" \/ tab.panel # "working"

\* "An explicit reconnection is the operator's request to read again": the
\* comment in reconnect_to.  After it the panel shows the skeletons of a new
\* collection, or why there is none.
RefreshReadsAgain ==
  Refreshing ~> ~Refreshing /\ (tab.life # "open" \/
                                tab.panel \in {"skeleton", "button", "message"})
=============================================================================
