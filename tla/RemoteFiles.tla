----------------------------- MODULE RemoteFiles -----------------------------
(***************************************************************************)
(* Files on their way between this computer and a register: the jobs of    *)
(* RemoteFileService.upload / download with the wrappers of gui/runtime.py *)
(* (a move is a download followed by remove), and the saves of the editor  *)
(* (write_file_atomic), over the two backends of backends.py.  The queue   *)
(* runs one job at a time; a save is a coroutine of its own and interleaves *)
(* with the job at every await.                                            *)
(*                                                                         *)
(* A file is replaced through a part file with a random name next to it.   *)
(* What happens then depends on the server: an SFTP server with            *)
(* posix-rename, one without, or no SFTP at all (shell commands and SCP).  *)
(* Every request can be refused, and the connection can be lost at any of  *)
(* them, before or after the server obeyed.  Contents are reduced to       *)
(* whether they are whole; modes, sizes, progress and messages are left    *)
(* out.                                                                    *)
(***************************************************************************)
EXTENDS Naturals, Sequences, FiniteSets

CONSTANTS
  Stems,     \* names without a " (N)" suffix
  Dirs,      \* the names (with suffix 0) that are directories
  Edited,    \* the files opened in the editor
  Procs,     \* {"job"} or {"job", "save"}
  Callers,   \* who submits jobs: "gui", "drop" and "cli"
  MaxItems   \* bound on the paths of one job

\* name.ext and "name (1).ext"
Names == [stem : Stems, copy : 0..1]
Files == {n \in Names : n.stem \notin Dirs}

ASSUME FilesAssumption ==
  /\ Dirs \subseteq Stems /\ Files # {} /\ Edited \subseteq Files
  /\ "job" \in Procs /\ Procs \subseteq {"job", "save"}
  /\ Callers \subseteq {"gui", "drop", "cli"}
  /\ MaxItems \in Nat

VARIABLES
  server,   \* "posix", "plain" or "shell"
  link,     \* the connection is alive
  remote,   \* the register: each file: "absent", "whole" or "part"
  local,    \* the local directory: a download is a "copy" of the register's
            \* file until that one is replaced, then it is "old"
  part,     \* the part file of each process: "none", "part" or "whole", and
            \* "stuck" once the server refused to remove it
  pc,       \* where each process is
  target,   \* the name it writes
  refused,  \* the server has refused a posix-rename
  command,  \* the shell command the server runs for each process
  job,      \* the job that runs, see Jobs
  late,     \* a command that goes on although it was given up
  closing   \* the tab is closed: the worker's task has a CancelledError
            \* "pending", which is "delivered" at its next await

vars == <<server, link, remote, local, part, pc, target, refused, command,
          late, job, closing>>

Contents == {"whole", "part"}
Policies == {"ask", "rename", "overwrite", "skip", "newer"}

\* Where a process waits for the next request, and what it is doing then.
Resting == {"over", "cancelled"}
Sending == {"put", "posix", "lstatPart", "lstatTarget", "removeTarget", "rename", "cleanup"}
Shell == {"scp", "waitCommand", "dropPart"}
Pcs == Resting \cup Sending \cup Shell \cup {"next", "tree", "get", "takeAway"}

Parts == {"none", "part", "whole", "stuck"}

\* A command the server still runs for a shell that was dropped: what it has
\* to do yet, the name it writes, what its part file holds and which process
\* may still remove that.
LateCommands == [step : {"none", "rm; mv", "rm", "mv"}, target : Files,
                 holds : Parts, by : Procs \cup {"nobody"}]

\* Its direction, its overwrite policy, whether the sources go afterwards, the
\* paths still to be handled, all paths, and result.failed_files > 0.
Jobs == [way : {"up", "down"}, policy : Policies, move : BOOLEAN,
         queue : Seq(Names), sources : Seq(Names), failed : BOOLEAN]

TypeOK ==
  /\ server \in {"posix", "plain", "shell"}
  /\ link \in BOOLEAN
  /\ remote \in [Files -> Contents \cup {"absent"}]
  /\ local \in [Files -> {"absent", "mine", "copy", "old"}]
  /\ part \in [Procs -> Parts]
  /\ pc \in [Procs -> Pcs]
  /\ target \in [Procs -> Names]
  /\ refused \in BOOLEAN
  /\ command \in [Procs -> {"none", "rm", "mv", "done", "error"}]
  /\ job \in Jobs
  /\ late \in LateCommands
  /\ closing \in {"open", "pending", "delivered"}

AName == CHOOSE n \in Names : TRUE
NothingLate == [step |-> "none", target |-> CHOOSE n \in Files : TRUE,
                holds |-> "none", by |-> "nobody"]
NoJob == [way |-> "up", policy |-> "ask", move |-> FALSE, queue |-> <<>>,
          sources |-> <<>>, failed |-> FALSE]

Init ==
  /\ server \in {"posix", "plain", "shell"}
  /\ link = TRUE
  /\ remote \in [Files -> {"absent", "whole"}]
  /\ local \in [Files -> {"absent", "mine"}]
  /\ part = [p \in Procs |-> "none"]
  /\ pc = [p \in Procs |-> "over"]
  /\ target = [p \in Procs |-> AName]
  /\ refused = FALSE
  /\ command = [p \in Procs |-> "none"]
  /\ job = NoJob
  /\ late = NothingLate
  /\ closing = "open"

Goto(p, l) == pc' = [pc EXCEPT ![p] = l]
Store(n, c) == remote' = [remote EXCEPT ![n] = c]

(* How an await ends: as it should or refused, with the connection (whether *)
(* the server obeyed or not), or with the CancelledError of the worker.     *)
Steady == UNCHANGED <<link, closing>>
LinkLost == link' = FALSE /\ UNCHANGED closing
Cancelled(p) ==
  p = "job" /\ closing = "pending" /\ closing' = "delivered" /\ UNCHANGED link
Interrupted(p) == LinkLost \/ Cancelled(p)
Fails(p) == Steady \/ Interrupted(p)

-----------------------------------------------------------------------------
(* The loop of a job *)

\* Mutant: the next number.
RenamedAgain(n) == [n EXCEPT !.copy = @ + 1]

\* renamed_destination(): "name (1)", and a name with a suffix loses it.
RenamedDestination(n) == [n EXCEPT !.copy = 1 - n.copy]

\* The jobs the callers submit: the panels ask, a drop on the tab renames, the
\* command line has its three policies; only the panels move.
Submittable(w, o, m) ==
  \/ "gui" \in Callers /\ o = "ask" /\ (m => w = "down")
  \/ "drop" \in Callers /\ o = "rename" /\ w = "up" /\ ~m
  \/ "cli" \in Callers /\ o \in {"overwrite", "skip", "newer"} /\ ~m

Submit ==
  /\ pc["job"] \in Resting /\ closing = "open"
  /\ command["job"] = "none"
  /\ \E w \in {"up", "down"}, o \in Policies, m \in BOOLEAN,
        s \in UNION {[1..k -> Names] : k \in 1..MaxItems} :
       /\ Submittable(w, o, m)
       /\ \A i, j \in 1..Len(s) : s[i] = s[j] => i = j
       /\ job' = [way |-> w, policy |-> o, move |-> m, queue |-> s,
                   sources |-> s, failed |-> FALSE]
  /\ Goto("job", "next")
  /\ part' = [part EXCEPT !["job"] = "none"]
  /\ UNCHANGED <<server, link, remote, local, target, refused, command, late, closing>>

\* An exception that is no RemoteFilesError leaves the loop: the paths behind
\* it are not tried.
JobOver(l) ==
  /\ Goto("job", l)
  /\ target' = [target EXCEPT !["job"] = AName]
  /\ job' = NoJob
Abort == JobOver(IF closing' = closing THEN "over" ELSE "cancelled")
ItemDone(bad) ==
  /\ job' = [job EXCEPT !.queue = Tail(@), !.failed = @ \/ bad]
  /\ target' = [target EXCEPT !["job"] = AName]
  /\ Goto("job", "next")
NextPath == pc["job"] = "next" /\ job.queue # <<>>
ThePath == Head(job.queue)
\* Directories are not followed: one may be there or not.
Free(side, n) == n \in Files => side[n] = "absent"
Taken(side, n) == n \in Files => side[n] # "absent"
FilesUnchanged == UNCHANGED <<server, remote, local, part, refused, command, late>>

\* _stat_optional() of the target only forgives "no such file".
StatRaises ==
  /\ NextPath
  /\ (~link /\ Steady) \/ Interrupted("job")
  /\ Abort
  /\ FilesUnchanged

Begin(n, l) ==
  /\ target' = [target EXCEPT !["job"] = n]
  /\ Goto("job", l)
  /\ UNCHANGED job

UploadStep(n) ==
  IF n \notin Files THEN "tree" ELSE IF server = "shell" THEN "scp" ELSE "put"

UploadFresh ==
  /\ NextPath /\ link /\ job.way = "up"
  /\ Free(remote, ThePath)
  /\ Begin(ThePath, UploadStep(ThePath))
  /\ Steady /\ FilesUnchanged

\* ConflictPrompter.resolve() calls asyncio.Event.wait() with an argument:
\* TypeError, which ends the job.
AskRaises ==
  /\ NextPath /\ link /\ job.policy = "ask"
  /\ Taken(remote, ThePath) /\ (job.way = "down" => Taken(local, ThePath))
  /\ Steady /\ Abort
  /\ FilesUnchanged

\* _resolve_conflict(); an upload tells auto_resolve no time of its source, so
\* "newer" overwrites.
UploadConflict ==
  /\ NextPath /\ link /\ job.way = "up" /\ job.policy # "ask"
  /\ Taken(remote, ThePath)
  /\ LET n == ThePath IN
       CASE job.policy = "skip" -> ItemDone(FALSE)
         [] job.policy = "rename" -> Begin(RenamedDestination(n), UploadStep(n))
         [] OTHER -> Begin(n, UploadStep(n))
  /\ Steady /\ FilesUnchanged

\* Nothing to decide, or "overwrite", or "newer" and the source is newer; a
\* source that is gone is asked for all the same.
DownloadBegins ==
  /\ NextPath /\ link /\ job.way = "down"
  /\ \/ Free(remote, ThePath) \/ Free(local, ThePath)
     \/ job.policy \in {"overwrite", "newer"}
  /\ Begin(ThePath, "get")
  /\ Steady /\ FilesUnchanged

DownloadSkipped ==
  /\ NextPath /\ link /\ job.way = "down" /\ job.policy \in {"skip", "newer"}
  /\ Taken(remote, ThePath) /\ Taken(local, ThePath)
  /\ ItemDone(FALSE)
  /\ Steady /\ FilesUnchanged

\* Mutant: a move goes on whatever failed.
JobDoneAnyway ==
  /\ pc["job"] = "next" /\ job.queue = <<>>
  /\ IF job.move
       THEN /\ Goto("job", "takeAway") /\ UNCHANGED target
            /\ job' = [job EXCEPT !.queue = job.sources]
       ELSE JobOver("over")
  /\ Steady /\ FilesUnchanged

\* The job is shown as completed whatever failed_files says; a move goes on
\* only when it is 0.
JobDone ==
  /\ pc["job"] = "next" /\ job.queue = <<>>
  /\ IF job.move /\ ~job.failed
       THEN /\ Goto("job", "takeAway") /\ UNCHANGED target
            /\ job' = [job EXCEPT !.queue = job.sources]
       ELSE JobOver("over")
  /\ Steady /\ FilesUnchanged

-----------------------------------------------------------------------------
(* One file over SFTP *)

\* The end of a file: the loop goes on, or the coroutine of the editor returns.
Ended(p, bad) ==
  IF p = "job" THEN ItemDone(bad)
  ELSE Goto(p, "over") /\ target' = [target EXCEPT ![p] = AName] /\ UNCHANGED job
On(p, l) == Goto(p, l) /\ UNCHANGED <<target, job>>

SftpUnchanged == UNCHANGED <<server, command, late>>

\* put() into the part file, also the write of the editor: any amount arrives.
PutPart(p) ==
  /\ pc[p] = "put"
  /\ \/ /\ link /\ part' = [part EXCEPT ![p] = "whole"]
        /\ On(p, "posix") /\ Steady
     \/ /\ \E c \in IF link THEN {"none", "part"} ELSE {"none"} : part' = [part EXCEPT ![p] = c]
        /\ On(p, "cleanup") /\ Fails(p)
  /\ UNCHANGED <<remote, local, refused>> /\ SftpUnchanged

\* What a part file holds takes the name; what was downloaded from there
\* before is a copy of something else now.
Replace(n, c) ==
  /\ c \in Contents /\ Store(n, c)
  /\ local' = [local EXCEPT ![n] = IF @ = "copy" THEN "old" ELSE @]
Replaces(p) ==
  /\ Replace(target[p], part[p])
  /\ part' = [part EXCEPT ![p] = "none"]

\* Only OSError and asyncssh.Error lead to the fallback.
PosixRename(p) ==
  /\ pc[p] = "posix" /\ server = "posix" /\ link
  /\ Replaces(p)
  /\ \/ Ended(p, FALSE) /\ Steady
     \/ On(p, "lstatPart") /\ LinkLost
     \/ On(p, "cleanup") /\ Cancelled(p)
  /\ UNCHANGED refused /\ SftpUnchanged

\* Not supported, refused, or no connection: the fallback begins.
PosixFails(p) ==
  /\ pc[p] = "posix"
  /\ \/ /\ On(p, "lstatPart")
        /\ \/ Steady /\ refused' = (refused \/ (link /\ server = "posix"))
           \/ LinkLost /\ UNCHANGED refused
     \/ On(p, "cleanup") /\ Cancelled(p) /\ UNCHANGED refused
  /\ UNCHANGED <<remote, local, part>> /\ SftpUnchanged

LstatPart(p) ==
  /\ pc[p] = "lstatPart"
  /\ \/ link /\ part[p] # "none" /\ On(p, "lstatTarget") /\ Steady
     \/ On(p, "cleanup") /\ Fails(p)
  /\ UNCHANGED <<remote, local, part, refused>> /\ SftpUnchanged

\* No target: the first error is raised again, although a server without
\* posix-rename could rename now.
LstatTarget(p) ==
  /\ pc[p] = "lstatTarget"
  /\ \/ link /\ Taken(remote, target[p]) /\ On(p, "removeTarget") /\ Steady
     \/ On(p, "cleanup") /\ Fails(p)
  /\ UNCHANGED <<remote, local, part, refused>> /\ SftpUnchanged

RemoveTarget(p) ==
  /\ pc[p] = "removeTarget"
  /\ \/ /\ link /\ Taken(remote, target[p])
        /\ Store(target[p], "absent")
        /\ (On(p, "rename") /\ Steady) \/ (On(p, "cleanup") /\ Interrupted(p))
     \/ On(p, "cleanup") /\ Fails(p) /\ UNCHANGED remote
  /\ UNCHANGED <<local, part, refused>> /\ SftpUnchanged

\* SSH_FXP_RENAME does not overwrite.
Rename(p) ==
  /\ pc[p] = "rename"
  /\ \/ /\ link /\ Free(remote, target[p]) /\ part[p] # "none"
        /\ Replaces(p)
        /\ (Ended(p, FALSE) /\ Steady) \/ (On(p, "cleanup") /\ Interrupted(p))
     \/ On(p, "cleanup") /\ Fails(p) /\ UNCHANGED <<remote, local, part>>
  /\ UNCHANGED refused /\ SftpUnchanged

\* Mutant: only what the loop reports is cleaned up.
CleanupForgets(p) ==
  /\ pc[p] = "cleanup"
  /\ Ended(p, TRUE) /\ Fails(p)
  /\ UNCHANGED <<remote, local, part, refused>> /\ SftpUnchanged

\* except BaseException: the part file is removed unless the server refuses,
\* which is suppressed, and whatever was raised, a CancelledError too, becomes
\* a RemoteFilesError.
Cleanup(p) ==
  /\ pc[p] = "cleanup"
  /\ \/ /\ part' = IF link THEN [part EXCEPT ![p] = "none"] ELSE part
        /\ Ended(p, TRUE) /\ Steady
     \/ /\ link /\ part[p] # "none" /\ part' = [part EXCEPT ![p] = "stuck"]
        /\ Ended(p, TRUE) /\ Steady
     \/ UNCHANGED part /\ Ended(p, TRUE) /\ LinkLost
     \/ UNCHANGED part /\ Cancelled(p) /\ Abort
  /\ UNCHANGED <<remote, local, refused>> /\ SftpUnchanged

\* A directory is written in place; its errors are not RemoteFilesErrors.  SCP
\* is not told to recurse and refuses it.
PutTree ==
  /\ pc["job"] = "tree"
  /\ \/ Steady /\ ItemDone(server = "shell")
     \/ server = "shell" /\ Cancelled("job") /\ Abort
     \/ server # "shell" /\ Fails("job") /\ Abort
  /\ UNCHANGED <<remote, local, part, refused>> /\ SftpUnchanged

-----------------------------------------------------------------------------
(* Downloads *)

GetUnchanged == UNCHANGED <<server, remote, part, refused, command, late>>
Got(c) == local' = [local EXCEPT ![target["job"]] = c]

\* A file comes through a local part file, which os.replace() swaps in.  Over
\* SFTP the first lstat() is outside the try: its errors end the job.
GetFile ==
  /\ pc["job"] = "get" /\ target["job"] \in Files
  /\ \/ link /\ Taken(remote, target["job"]) /\ Got("copy") /\ ItemDone(FALSE) /\ Steady
     \/ /\ UNCHANGED local
        /\ \/ (Steady \/ LinkLost) /\ ItemDone(TRUE)
           \/ server # "shell" /\ Cancelled("job") /\ ItemDone(TRUE)
           \/ server # "shell" /\ Fails("job") /\ Abort
           \/ server = "shell" /\ Cancelled("job") /\ Abort
  /\ GetUnchanged

GetTree ==
  /\ pc["job"] = "get" /\ target["job"] \notin Files
  /\ \/ server # "shell" /\ link /\ ItemDone(FALSE) /\ Steady
     \/ server = "shell" /\ (Steady \/ LinkLost) /\ ItemDone(TRUE)
     \/ server = "shell" /\ Cancelled("job") /\ Abort
     \/ server # "shell" /\ Fails("job") /\ Abort
  /\ UNCHANGED local /\ GetUnchanged

\* service.remove(): each source of the move; what fails is counted nowhere.
TakeAway ==
  /\ pc["job"] = "takeAway"
  /\ IF job.queue = <<>> THEN JobOver("over") /\ Steady /\ UNCHANGED remote
     ELSE /\ (link /\ ThePath \in Files /\ Store(ThePath, "absent")) \/ UNCHANGED remote
          /\ Fails("job")
          /\ \/ /\ closing' = closing /\ UNCHANGED <<pc, target>>
                /\ job' = [job EXCEPT !.queue = Tail(@)]
             \/ Abort
  /\ UNCHANGED <<server, local, part, refused, command, late>>

-----------------------------------------------------------------------------
(* One file over SCP and the shell *)

ShellUnchanged == UNCHANGED <<server, refused>>

\* run() and transfer_section() share one lock.
LockFree(p) == \A q \in Procs \ {p} : pc[q] # "waitCommand"

\* An SCP that fails leaves its part file; the editor removes it.
Scp(p) ==
  /\ pc[p] = "scp" /\ LockFree(p)
  /\ \/ /\ part' = [part EXCEPT ![p] = "whole"]
        /\ command' = [command EXCEPT ![p] =
             IF ~link THEN "none" ELSE IF p = "job" THEN "rm" ELSE "mv"]
        /\ On(p, "waitCommand") /\ Steady
     \/ /\ \E c \in {"none", "part"} : part' = [part EXCEPT ![p] = c]
        /\ UNCHANGED command
        /\ \/ (Steady \/ LinkLost) /\ IF p = "job" THEN ItemDone(TRUE) ELSE On(p, "dropPart")
           \/ Cancelled(p) /\ Abort
  /\ UNCHANGED <<remote, local, late>> /\ ShellUnchanged

\* The server runs `rm -f target; mv part target` (the editor: `mv -f`).
ServerRm(p) ==
  /\ command[p] = "rm"
  /\ Store(target[p], "absent")
  /\ command' = [command EXCEPT ![p] = "mv"]
  /\ Steady /\ UNCHANGED <<local, part, pc, target, job, late>> /\ ShellUnchanged

ServerMv(p) ==
  /\ command[p] = "mv"
  /\ \/ Replaces(p) /\ command' = [command EXCEPT ![p] = "done"]
     \/ /\ command' = [command EXCEPT ![p] = "error"]
        /\ UNCHANGED <<remote, local, part>>
  /\ Steady /\ UNCHANGED <<pc, target, job, late>> /\ ShellUnchanged

CommandDone(p) ==
  /\ pc[p] = "waitCommand" /\ command[p] = "done" /\ link
  /\ command' = [command EXCEPT ![p] = "none"]
  /\ Ended(p, FALSE) /\ Steady
  /\ UNCHANGED <<remote, local, part, late>> /\ ShellUnchanged

\* An error of the command, a timeout, a lost connection or a cancellation: a
\* shell that is dropped may or may not finish its command.  (At most one command is late at a time;
\* a further one is killed.)
CommandGivenUp(p) ==
  /\ pc[p] = "waitCommand"
  /\ command' = [command EXCEPT ![p] = "none"]
  /\ \/ /\ command[p] \in {"rm", "mv"} /\ late.step = "none"
        /\ late' = [step |-> IF command[p] = "rm" THEN "rm; mv" ELSE "mv",
                    target |-> target[p], holds |-> part[p], by |-> p]
     \/ UNCHANGED late
  /\ \/ (Steady \/ LinkLost) /\ On(p, "dropPart")
     \/ Cancelled(p) /\ Abort
  /\ UNCHANGED <<remote, local, part>> /\ ShellUnchanged

\* Without its part file a late command only removes its target.
DropPart(p) ==
  /\ pc[p] = "dropPart" /\ LockFree(p)
  /\ \/ /\ link /\ part' = [part EXCEPT ![p] = "none"]
        /\ late' = IF late.by # p THEN late
                   ELSE IF late.step = "rm; mv" THEN [late EXCEPT !.step = "rm"]
                   ELSE IF late.step = "mv" THEN NothingLate ELSE late
        /\ Ended(p, TRUE) /\ Steady
     \/ /\ UNCHANGED part
        /\ late' = IF late.by = p THEN [late EXCEPT !.by = "nobody"] ELSE late
        /\ \/ (Steady \/ LinkLost) /\ Ended(p, TRUE)
           \/ Cancelled(p) /\ Abort
  /\ UNCHANGED <<remote, local, command>> /\ ShellUnchanged

LateRm ==
  /\ late.step \in {"rm; mv", "rm"}
  /\ Store(late.target, "absent")
  /\ late' = IF late.step = "rm" THEN NothingLate ELSE [late EXCEPT !.step = "mv"]
  /\ UNCHANGED <<server, link, local, part, pc, target, refused, command, job, closing>>

LateMv ==
  /\ late.step = "mv"
  /\ Replace(late.target, late.holds)
  /\ part' = IF late.by \in Procs /\ pc[late.by] = "dropPart"
              THEN [part EXCEPT ![late.by] = "none"] ELSE part
  /\ late' = NothingLate
  /\ UNCHANGED <<server, link, pc, target, refused, command, job, closing>>

-----------------------------------------------------------------------------
(* The editor, and the end of the session *)

Save ==
  /\ "save" \in Procs /\ pc["save"] \in Resting
  /\ \E n \in Edited : target' = [target EXCEPT !["save"] = n]
  /\ Goto("save", IF server = "shell" THEN "scp" ELSE "put")
  /\ part' = [part EXCEPT !["save"] = "none"]
  /\ UNCHANGED <<server, link, remote, local, refused, command, late, job, closing>>

\* TransferQueue.stop() cancels the worker.
Close ==
  /\ closing = "open"
  /\ closing' = IF pc["job"] \notin Resting THEN "pending" ELSE "delivered"
  /\ UNCHANGED <<server, link, remote, local, part, pc, target, refused, command,
                 late, job>>

-----------------------------------------------------------------------------

JobStep ==
  \/ StatRaises \/ UploadFresh \/ AskRaises \/ UploadConflict
  \/ DownloadBegins \/ DownloadSkipped \/ JobDone
  \/ PutTree \/ GetFile \/ GetTree \/ TakeAway

FileStep(p) ==
  \/ PutPart(p) \/ PosixRename(p) \/ PosixFails(p) \/ LstatPart(p) \/ LstatTarget(p)
  \/ RemoveTarget(p) \/ Rename(p) \/ Cleanup(p)
  \/ Scp(p) \/ CommandDone(p) \/ CommandGivenUp(p) \/ DropPart(p)

ServerStep(p) == ServerRm(p) \/ ServerMv(p)

Next ==
  \/ Submit \/ Save \/ Close \/ LateRm \/ LateMv
  \/ JobStep
  \/ \E p \in Procs : FileStep(p) \/ ServerStep(p)

Spec == Init /\ [][Next]_vars

-----------------------------------------------------------------------------
(* Properties *)

\* While the connection lives, a transfer or save over SFTP that is over has
\* taken its part file away, also one that was cancelled or lost a race with
\* another writer of the file, unless the server refused the removal; only a
\* CancelledError during the removal itself leaves it untried.
PartsRemoved ==
  \A p \in Procs :
    /\ server # "shell" /\ link
    /\ pc[p] \in Resting \cup {"next", "takeAway"}
    /\ pc[p] # "cancelled"
    => part[p] \in {"none", "stuck"}

\* Of a move with no failure so far: the sources it has behind it, afterwards
\* those it has yet to remove, whose local files are as given.
PathsOf(s) == {s[i] : i \in 1..Len(s)}
Handled ==
  IF pc["job"] = "takeAway" THEN PathsOf(job.queue)
  ELSE PathsOf(job.sources) \ PathsOf(job.queue)
Fetched(c) == {n \in Files : job.move /\ ~job.failed /\ n \in Handled /\ local[n] = c}

Promised == INSTANCE FileStore WITH
  Names <- Files, Contents <- {"whole"}, Absent <- "absent",
  store <- [n \in Files |-> remote[n]],
  copied <- Fetched("copy"), stale <- Fetched("old"),
  replaces <- server = "posix" /\ ~refused

\* The register's files behave as FileStore promises: what takes a name is a
\* whole content, in one step; a file only goes when the move under way has
\* downloaded every source of it, this one included, though perhaps before it
\* was last saved; and a gap needs a server that cannot, or once refused to,
\* rename over a file.
FilesAsPromised == Promised!StoreSpec

\* Not so, a save or a late command may come between the download of a move
\* and its remove(): what a move removes is what it has copied.
MovedWasCopied ==
  [][TakeAway => \A n \in Files : remote'[n] # remote[n] => local[n] = "copy"]_vars

=============================================================================
