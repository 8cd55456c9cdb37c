----------------------------- MODULE LogCollect -----------------------------
(***************************************************************************)
(* The collection of logs (core/collect.py, started by the toolbar): a     *)
(* coroutine of the program that packs the logs on the register into a     *)
(* file of one fixed name, downloads it and removes it.  The commands run  *)
(* on the register go on when the link is lost or a timeout drops them.    *)
(***************************************************************************)
EXTENDS Naturals

CONSTANTS
  Collections,  \* bound: how often the operator presses the button
  Cuts          \* bound: how often the link is lost or the program restarted

ASSUME CollectAssumption == Collections \in Nat /\ Cuts \in Nat

VARIABLES
  collect,   \* the coroutine: its number, where it waits, what it was told
  packing,   \* on the register: the collections whose tar still runs
  archive,   \* on the register: whose file has the fixed name, 0 for none
  content,   \* on the register: what is in the file of each collection
  lateRm,    \* on the register: an rm that was given up still runs
  saved,     \* the result of the last collection that ended
  collectUi, \* whether the button is enabled, and the line of the tab
  linked,    \* whether the session of the tab is connected
  cuts       \* cuts so far

collectVars == <<collect, packing, archive, content, lateRm, saved, collectUi,
                 linked, cuts>>

Numbers == 1..Collections
Contents == {"none", "partial", "whole", "mixed"}
Codes == {"ok", "error", "killed"}
NoResult == [ok |-> FALSE, by |-> 0, of |-> 0, is |-> "none", code |-> "ok"]

CollectTypeOK ==
  /\ collect \in [n: 0..Collections, code: Codes, fd: 0..Collections, live: BOOLEAN,
                  at: {"idle", "measure", "sizes", "count", "pack", "wc",
                       "download", "reading", "rm"}]
  /\ packing \subseteq Numbers /\ archive \in {0} \cup Numbers
  /\ content \in [Numbers -> Contents] /\ lateRm \in BOOLEAN
  /\ saved \in [ok: BOOLEAN, by: 0..Collections, of: 0..Collections, is: Contents,
                code: Codes]
  /\ collectUi \in [button: BOOLEAN, line: {"hidden", "progress", "done", "error"}]
  /\ linked \in BOOLEAN /\ cuts \in 0..Cuts

CollectInit ==
  /\ collect = [n |-> 0, code |-> "ok", fd |-> 0, live |-> FALSE,
              at |-> "idle"]
  /\ packing = {} /\ archive = 0 /\ lateRm = FALSE
  /\ content = [n \in Numbers |-> "none"]
  /\ saved = NoResult
  /\ collectUi = [button |-> TRUE, line |-> "hidden"]
  /\ linked = TRUE /\ cuts = 0

onRegister == <<packing, archive, content, lateRm>>

-----------------------------------------------------------------------------
(* The end of _run_collect: the button comes back whatever happened *)

CollectResult(ok, of, is) ==
  [ok |-> ok, by |-> collect.n, of |-> of, is |-> is, code |-> collect.code]

FinishCollect(result) ==
  /\ saved' = result
  /\ collect' = [collect EXCEPT !.at = "idle"]
  /\ collectUi' = [button |-> TRUE, line |-> IF result.ok THEN "done" ELSE "error"]

CollectFails == FinishCollect(CollectResult(FALSE, 0, "none"))

\* The next stage, with its line of progress.
Stage(at) ==
  /\ collect' = [collect EXCEPT !.at = at]
  /\ collectUi' = [collectUi EXCEPT !.line = "progress"]

OnCollect ==
  /\ collectUi.button /\ linked /\ collect.n < Collections
  /\ collect' = [n |-> collect.n + 1, code |-> "ok", fd |-> 0, live |-> TRUE,
              at |-> "measure"]
  /\ collectUi' = [button |-> FALSE, line |-> "progress"]
  /\ UNCHANGED <<onRegister, saved, linked, cuts>>

-----------------------------------------------------------------------------
(* collect_logs, from one await to the next *)

\* Commands without an effect that matters: each answers or raises.
Measured ==
  /\ collect.live
  /\ \/ collect.at = "measure" /\ \E at \in {"sizes", "count"} : Stage(at)
     \/ collect.at = "sizes" /\ Stage("count")
  /\ UNCHANGED <<onRegister, saved, linked, cuts>>

\* A timeout, a refused channel or a lost connection raises: the result is an
\* error, and what stands on the register stays there.
CommandRaises ==
  /\ \/ collect.at \in {"measure", "sizes", "count", "wc"}
     \/ collect.at = "pack" /\ ~collect.live
  /\ CollectFails
  /\ UNCHANGED <<onRegister, linked, cuts>>

\* rm -f; tar: a new file under the fixed name.
StartTar ==
  /\ collect.at = "count" /\ collect.live
  /\ packing' = packing \cup {collect.n}
  /\ archive' = collect.n
  /\ content' = [content EXCEPT ![collect.n] = "partial"]
  /\ Stage("pack")
  /\ UNCHANGED <<lateRm, saved, linked, cuts>>

\* tar of collection n ends: a whole archive, an error or a signal.  The
\* collection that waits for it reads the code; another one has been dropped.
TarEnds ==
  /\ \E n \in packing, code \in Codes :
       /\ packing' = packing \ {n}
       /\ content' = [content EXCEPT ![n] =
                        IF code = "ok" /\ @ = "partial" THEN "whole" ELSE @]
       /\ collect' = IF collect.n = n /\ collect.at = "pack" /\ collect.live
                       THEN [collect EXCEPT !.at = "wc", !.code = code]
                       ELSE collect
  /\ UNCHANGED <<archive, lateRm, saved, collectUi, linked, cuts>>

\* wc -c, and the checks: no file, an error of tar, a file that is too large.
\* A negative code, of a tar that was killed, passes them.
Checked ==
  /\ collect.at = "wc" /\ collect.live
  /\ IF archive = 0 \/ collect.code = "error"
       THEN CollectFails
       ELSE \/ CollectFails
            \/ Stage("download") /\ UNCHANGED saved
  /\ UNCHANGED <<onRegister, linked, cuts>>

\* scp opens the file of that name and reads it.
DownloadOpens ==
  /\ collect.at = "download"
  /\ IF collect.live /\ archive # 0
       THEN /\ collect' = [collect EXCEPT !.at = "reading", !.fd = archive]
            /\ UNCHANGED <<saved, collectUi>>
       ELSE CollectFails
  /\ UNCHANGED <<onRegister, linked, cuts>>

\* A failed download removes the local file; otherwise "done" is reported.
DownloadEnds ==
  /\ collect.at = "reading"
  /\ \/ collect.live /\ Stage("rm")
               /\ saved' = CollectResult(FALSE, collect.fd, content[collect.fd])
     \/ CollectFails
  /\ UNCHANGED <<onRegister, linked, cuts>>

\* The file is removed; a failure of that is an error of the collection.
Removed ==
  /\ collect.at = "rm"
  /\ \/ /\ collect.live /\ archive' = 0 /\ UNCHANGED lateRm
        /\ FinishCollect([saved EXCEPT !.ok = TRUE])
     \/ /\ lateRm' \in {lateRm, TRUE} /\ UNCHANGED archive
        /\ FinishCollect(saved)
  /\ UNCHANGED <<packing, content, linked, cuts>>

CollectStep ==
  \/ Measured \/ CommandRaises \/ StartTar \/ Checked
  \/ DownloadOpens \/ DownloadEnds \/ Removed

-----------------------------------------------------------------------------
(* The world *)

LateRmRuns ==
  /\ lateRm /\ lateRm' = FALSE /\ archive' = 0
  /\ UNCHANGED <<collect, packing, content, saved, collectUi, linked, cuts>>

\* The connection is lost; the tab makes another one, with a session of its own.
LinkCut ==
  /\ linked /\ cuts < Cuts /\ cuts' = cuts + 1 /\ linked' = FALSE
  /\ collect' = [collect EXCEPT !.live = FALSE]
  /\ UNCHANGED <<onRegister, saved, collectUi>>

LinkBack ==
  /\ ~linked /\ linked' = TRUE
  /\ UNCHANGED <<collect, onRegister, saved, collectUi, cuts>>

\* The program is closed, which cancels its tasks, and started again.
Restart ==
  /\ cuts < Cuts /\ cuts' = cuts + 1 /\ linked' = TRUE
  /\ collect' = [collect EXCEPT !.at = "idle", !.live = FALSE]
  /\ collectUi' = [button |-> TRUE, line |-> "hidden"]
  /\ lateRm' \in {lateRm, lateRm \/ collect.at = "rm"}
  /\ UNCHANGED <<packing, archive, content, saved>>

\* AUTO_HIDE_MS without news hides the line.
LineHides ==
  /\ collectUi.line # "hidden" /\ collectUi' = [collectUi EXCEPT !.line = "hidden"]
  /\ UNCHANGED <<collect, onRegister, saved, linked, cuts>>

CollectNext ==
  \/ OnCollect \/ CollectStep \/ TarEnds
  \/ LateRmRuns \/ LinkCut \/ LinkBack \/ Restart \/ LineHides

CollectSpec == CollectInit /\ [][CollectNext]_collectVars

-----------------------------------------------------------------------------
(* Properties *)

\* What is reported as collected is the archive of this collection, whole,
\* whatever earlier collections left running on the register; only a tar that
\* was killed by a signal is taken for a success.
ArchiveIsOwn ==
  saved.ok => /\ saved.of = saved.by
              /\ saved.is = "whole" \/ saved.code = "killed"

\* The button is never left disabled with no collection under way: _run_collect
\* enables it in a finally, and a lost link may do so before.
ButtonReturns == ~collectUi.button => collect.at # "idle"

\* An archive that was reported as done is not called a failure afterwards.
DoneIsSuccess == [][saved.of # 0 /\ collect.at = "rm" => collect'.at = "rm" \/ saved'.ok]_collectVars
=============================================================================
