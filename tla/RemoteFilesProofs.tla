-------------------------- MODULE RemoteFilesProofs --------------------------
(***************************************************************************)
(* TLAPS proofs about RemoteFiles, for any files and directories, jobs of  *)
(* any number of paths and any kind of server: the types, the part files,  *)
(* and the refinement of FileStore.                                        *)
(*                                                                         *)
(* FileStore forbids three things.  Only whole contents take a name:       *)
(* WholeInv says what the part files hold that are about to be renamed.  A *)
(* file may disappear under its name only where the server cannot replace  *)
(* it in one step: SftpInv says that the requests of the fallback are only *)
(* sent after a refusal, and that no shell command runs at a server with   *)
(* SFTP.  And a file may be taken away only after it was downloaded:       *)
(* Movable and Leaving follow the paths of a move from its queue to the    *)
(* local directory.                                                        *)
(***************************************************************************)
EXTENDS RemoteFiles, SequenceTheorems, TLAPS

Uploading == Sending \cup Shell \cup {"tree"}

\* Where a job rests, no part file is being written.
Quiet == {"over", "next", "takeAway", "tree", "get"}
InFallback == {"lstatPart", "lstatTarget", "removeTarget"}

\* At a server with SFTP no shell is used, the fallback follows a refusal, and
\* no part file is left where none is being written but one that was refused.
SftpFits(p) ==
  /\ pc[p] \notin Shell /\ command[p] = "none"
  /\ server = "posix" /\ link /\ pc[p] \in InFallback => refused
  /\ link /\ pc[p] \in Quiet => part[p] \in {"none", "stuck"}

SftpInv == server # "shell" => late.step = "none" /\ \A p \in Procs : SftpFits(p)

\* A part file that is about to take a name is whole, and so is the one of a
\* late command; a command runs only where it is waited for.
Renaming == {"posix", "lstatPart", "lstatTarget", "removeTarget", "rename", "waitCommand"}
PartFits(p) ==
  /\ pc[p] \in Renaming => part[p] \in {"none", "whole"}
  /\ command[p] \in {"rm", "mv"} => pc[p] = "waitCommand"

WholeInv == late.holds \in {"none", "whole"} /\ \A p \in Procs : PartFits(p)

\* The paths of a job differ.
Distinct(s) == \A i, j \in 1..Len(s) : s[i] = s[j] => i = j
Once == Distinct(job.sources) /\ Distinct(job.queue)

\* A move is a download that asks.
MoveAsks == job.move => job.policy = "ask" /\ job.way = "down"

\* What is sent is a file.
Targets == \A p \in Procs : pc[p] \in Sending \cup Shell => target[p] \in Files

\* A path is worked on until it leaves the queue; only a download can be a move.
AtPath ==
  /\ pc["job"] \in Uploading \cup {"get"} => job.queue # <<>>
  /\ pc["job"] \in Uploading => ~job.move
  /\ pc["job"] = "get" => target["job"] = Head(job.queue)

\* What a move has behind it was downloaded, as long as nothing failed ...
Here(n) == local[n] \in {"copy", "old"}
Movable ==
  job.move /\ ~job.failed /\ pc["job"] \in {"next", "get"} =>
    \A n \in Files \cap PathsOf(job.sources) :
      Here(n) \/ n \in PathsOf(job.queue)

\* ... so everything it takes away is.
Leaving ==
  pc["job"] = "takeAway" =>
    /\ job.move /\ ~job.failed
    /\ \A n \in Files \cap PathsOf(job.queue) : Here(n)

JobInv == MoveAsks /\ AtPath /\ Once /\ Movable /\ Leaving
IInv == TypeOK /\ Targets /\ JobInv /\ SftpInv /\ WholeInv

-----------------------------------------------------------------------------
(* Facts about the operators *)

LEMMA JobIsProc == "job" \in Procs
BY FilesAssumption

\* The paths of a queue are its head and the paths behind it.
LEMMA PathsOfQueue ==
  ASSUME NEW S, NEW s \in Seq(S), s # <<>>
  PROVE  /\ Tail(s) \in Seq(S) /\ Head(s) \in S
         /\ PathsOf(s) = {Head(s)} \cup PathsOf(Tail(s))
<1>1. Len(s) \in Nat \ {0} /\ Head(s) = s[1] /\ Tail(s) \in Seq(S) /\ Head(s) \in S
  OBVIOUS
<1>2. Len(Tail(s)) = Len(s) - 1 /\ \A i \in 1..Len(s)-1 : Tail(s)[i] = s[i+1]
  OBVIOUS
<1>3. ASSUME NEW x \in PathsOf(s) PROVE x \in {Head(s)} \cup PathsOf(Tail(s))
  <2>1. PICK i \in 1..Len(s) : x = s[i]
    BY <1>3 DEF PathsOf
  <2>2. CASE i = 1
    BY <2>1, <2>2, <1>1
  <2>3. CASE i # 1
    <3>1. i - 1 \in 1..Len(s)-1 /\ x = Tail(s)[i-1]
      BY <2>1, <2>3, <1>1, <1>2
    <3> QED
      BY <3>1, <1>2 DEF PathsOf
  <2> QED
    BY <2>2, <2>3
<1>4. ASSUME NEW x \in PathsOf(Tail(s)) PROVE x \in PathsOf(s)
  <2>1. PICK i \in 1..Len(s)-1 : x = s[i+1]
    BY <1>4, <1>2 DEF PathsOf
  <2>2. i + 1 \in 1..Len(s)
    BY <1>1
  <2> QED
    BY <2>1, <2>2 DEF PathsOf
<1>5. Head(s) \in PathsOf(s)
  BY <1>1 DEF PathsOf
<1> QED
  BY <1>1, <1>3, <1>4, <1>5

\* Nor does its head come again.
LEMMA DistinctTail ==
  ASSUME NEW S, NEW s \in Seq(S), s # <<>>, Distinct(s)
  PROVE  Distinct(Tail(s)) /\ Head(s) \notin PathsOf(Tail(s))
<1>1. Len(s) \in Nat \ {0} /\ Head(s) = s[1] /\ Len(Tail(s)) = Len(s) - 1
  OBVIOUS
<1>2. \A i \in 1..Len(s)-1 : Tail(s)[i] = s[i+1] /\ i + 1 \in 1..Len(s) /\ i + 1 # 1
  BY <1>1
<1>3. ASSUME NEW i \in 1..Len(s)-1, NEW j \in 1..Len(s)-1, Tail(s)[i] = Tail(s)[j]
      PROVE  i = j
  <2>1. s[i+1] = s[j+1] /\ i + 1 \in 1..Len(s) /\ j + 1 \in 1..Len(s)
    BY <1>2, <1>3
  <2>2. i + 1 = j + 1
    BY <2>1 DEF Distinct
  <2> QED
    BY <2>2, <1>1
<1>4. ASSUME NEW i \in 1..Len(s)-1 PROVE Tail(s)[i] # Head(s)
  <2>1. 1 \in 1..Len(s)
    BY <1>1
  <2> QED
    BY <1>1, <1>2, <2>1 DEF Distinct
<1> QED
  BY <1>1, <1>3, <1>4 DEF Distinct, PathsOf

\* A name has one other name under the policy RENAME.
LEMMA RenamedIsName == \A n \in Names : RenamedDestination(n) \in Names
BY DEF Names, RenamedDestination

LEMMA NamesThere == AName \in Names /\ NoJob \in Jobs /\ NothingLate \in LateCommands
<1>1. PICK n \in Files : TRUE
  BY FilesAssumption
<1>2. n \in Names
  BY DEF Files
<1>3. <<>> \in Seq(Names)
  OBVIOUS
<1> QED
  BY <1>1, <1>2, <1>3, JobIsProc DEF AName, NoJob, Jobs, Policies, NothingLate, LateCommands, Parts

\* What the end of a path leaves is a job with one path less.
LEMMA ItemDoneFacts ==
  ASSUME TypeOK, job.queue # <<>>, NEW bad \in BOOLEAN, ItemDone(bad)
  PROVE  /\ job' \in Jobs /\ job'.queue = Tail(job.queue)
         /\ job'.move = job.move /\ job'.policy = job.policy /\ job'.way = job.way
         /\ job'.sources = job.sources /\ job'.failed = (job.failed \/ bad)
         /\ target' \in [Procs -> Names]
         /\ pc' \in [Procs -> Pcs] /\ pc'["job"] = "next"
         /\ \A p \in Procs \ {"job"} : pc'[p] = pc[p] /\ target'[p] = target[p]
<1>1. job \in Jobs /\ target \in [Procs -> Names] /\ pc \in [Procs -> Pcs]
  BY DEF TypeOK
<1>2. Tail(job.queue) \in Seq(Names)
  BY <1>1, PathsOfQueue DEF Jobs
<1> DEFINE failed == job.failed \/ bad
           queue == Tail(job.queue)
<1>3. job' = [job EXCEPT !.queue = queue, !.failed = failed]
  BY DEF ItemDone
<1>b. failed \in BOOLEAN /\ queue \in Seq(Names)
  BY <1>2
<1> HIDE DEF failed, queue
<1>4. /\ job' \in Jobs /\ job'.queue = queue
      /\ job'.move = job.move /\ job'.policy = job.policy /\ job'.way = job.way
      /\ job'.sources = job.sources /\ job'.failed = failed
  BY <1>1, <1>b, <1>3 DEF Jobs
<1>5. target' \in [Procs -> Names]
  BY <1>1, NamesThere DEF ItemDone
<1>6. /\ pc' \in [Procs -> Pcs] /\ pc'["job"] = "next"
      /\ \A p \in Procs \ {"job"} : pc'[p] = pc[p] /\ target'[p] = target[p]
  BY <1>1, JobIsProc DEF ItemDone, Goto, Pcs
<1> QED
  BY <1>4, <1>5, <1>6 DEF failed, queue

\* A job that is over is none.
LEMMA JobOverFacts ==
  ASSUME TypeOK, NEW l \in Resting, JobOver(l)
  PROVE  /\ job' = NoJob /\ job' \in Jobs
         /\ target' \in [Procs -> Names]
         /\ pc' \in [Procs -> Pcs] /\ pc'["job"] = l
         /\ \A p \in Procs \ {"job"} : pc'[p] = pc[p] /\ target'[p] = target[p]
<1>1. target \in [Procs -> Names] /\ pc \in [Procs -> Pcs]
  BY DEF TypeOK
<1>2. target' \in [Procs -> Names] /\ job' = NoJob /\ job' \in Jobs
  BY <1>1, NamesThere DEF JobOver
<1>3. /\ pc' \in [Procs -> Pcs] /\ pc'["job"] = l
      /\ \A p \in Procs \ {"job"} : pc'[p] = pc[p] /\ target'[p] = target[p]
  BY <1>1, JobIsProc DEF JobOver, Goto, Pcs, Resting
<1> QED
  BY <1>2, <1>3

\* An exception ends the job, and tells a cancellation.
LEMMA AbortFacts ==
  ASSUME TypeOK, Abort
  PROVE  /\ job' = NoJob /\ job' \in Jobs
         /\ target' \in [Procs -> Names]
         /\ pc' \in [Procs -> Pcs] /\ pc'["job"] \in Resting
         /\ pc'["job"] = "cancelled" \/ closing' = closing
         /\ \A p \in Procs \ {"job"} : pc'[p] = pc[p] /\ target'[p] = target[p]
<1> DEFINE l == IF closing' = closing THEN "over" ELSE "cancelled"
<1>1. l \in Resting /\ JobOver(l)
  BY DEF Resting, Abort
<1>2. pc'["job"] = l
  BY <1>1, JobOverFacts
<1> HIDE DEF l
<1>3. /\ job' = NoJob /\ job' \in Jobs
      /\ target' \in [Procs -> Names]
      /\ pc' \in [Procs -> Pcs]
      /\ \A p \in Procs \ {"job"} : pc'[p] = pc[p] /\ target'[p] = target[p]
  BY <1>1, JobOverFacts
<1> QED
  BY <1>1, <1>2, <1>3 DEF l

\* How an await ends never brings the connection back.
LEMMA FailsFacts ==
  ASSUME TypeOK, NEW p \in Procs, Fails(p)
  PROVE  /\ link' \in BOOLEAN /\ closing' \in {"open", "pending", "delivered"}
         /\ link' => link
<1>1. link \in BOOLEAN /\ closing \in {"open", "pending", "delivered"}
  BY DEF TypeOK
<1>2. CASE Steady
  BY <1>1, <1>2 DEF Steady
<1>3. CASE LinkLost
  BY <1>1, <1>3 DEF LinkLost
<1>4. CASE Cancelled(p)
  BY <1>1, <1>4 DEF Cancelled
<1> QED
  BY <1>2, <1>3, <1>4 DEF Fails, Interrupted

\* Where a step of one file may lead.
Flow(p) ==
  \/ \E l \in Sending \cup Shell : On(p, l)
  \/ \E bad \in BOOLEAN : Ended(p, bad)
  \/ p = "job" /\ Abort

\* What a replacement does to the local files: no copy is lost.
LocalKept == UNCHANGED local \/ \E n, c : Replace(n, c)

LEMMA KeptFacts ==
  ASSUME TypeOK, LocalKept
  PROVE  /\ local' \in [Files -> {"absent", "mine", "copy", "old"}]
         /\ \A n \in Files : Here(n) => Here(n)'
BY DEF LocalKept, Replace, Here, TypeOK

\* Every step of a file begins at one of its requests, follows Flow, and
\* at most makes a copy old.
LEMMA FileStepFlow ==
  ASSUME NEW p \in Procs, FileStep(p)
  PROVE  pc[p] \in Sending \cup Shell /\ Flow(p) /\ Fails(p) /\ UNCHANGED server /\ LocalKept
<1>1. CASE PutPart(p)
  <2>1. On(p, "posix") \/ On(p, "cleanup")
    BY <1>1 DEF PutPart
  <2> QED
    BY <1>1, <2>1 DEF PutPart, Flow, Sending, SftpUnchanged, Fails, LocalKept
<1>2. CASE PosixRename(p)
  <2>1. Ended(p, FALSE) \/ On(p, "lstatPart") \/ On(p, "cleanup")
    BY <1>2 DEF PosixRename
  <2> QED
    BY <1>2, <2>1 DEF PosixRename, Replaces, Flow, Sending, SftpUnchanged, Fails, Interrupted, LocalKept
<1>3. CASE PosixFails(p)
  <2>1. On(p, "lstatPart") \/ On(p, "cleanup")
    BY <1>3 DEF PosixFails, LocalKept
  <2> QED
    BY <1>3, <2>1 DEF PosixFails, Flow, Sending, SftpUnchanged, Fails, Interrupted, LocalKept
<1>4. CASE LstatPart(p)
  <2>1. On(p, "lstatTarget") \/ On(p, "cleanup")
    BY <1>4 DEF LstatPart
  <2> QED
    BY <1>4, <2>1 DEF LstatPart, Flow, Sending, SftpUnchanged, Fails, LocalKept
<1>5. CASE LstatTarget(p)
  <2>1. On(p, "removeTarget") \/ On(p, "cleanup")
    BY <1>5 DEF LstatTarget
  <2> QED
    BY <1>5, <2>1 DEF LstatTarget, Flow, Sending, SftpUnchanged, Fails, LocalKept
<1>6. CASE RemoveTarget(p)
  <2>1. On(p, "rename") \/ On(p, "cleanup")
    BY <1>6 DEF RemoveTarget
  <2> QED
    BY <1>6, <2>1 DEF RemoveTarget, Flow, Sending, SftpUnchanged, Fails, LocalKept
<1>7. CASE Rename(p)
  <2>1. Ended(p, FALSE) \/ On(p, "cleanup")
    BY <1>7 DEF Rename
  <2> QED
    BY <1>7, <2>1 DEF Rename, Replaces, Flow, Sending, SftpUnchanged, Fails, LocalKept
<1>8. CASE Cleanup(p)
  <2>1. Ended(p, TRUE) \/ (p = "job" /\ Abort)
    BY <1>8 DEF Cleanup, Cancelled
  <2> QED
    BY <1>8, <2>1 DEF Cleanup, Flow, Sending, SftpUnchanged, Fails, Interrupted, LocalKept
<1>9. CASE Scp(p)
  <2>1. On(p, "waitCommand") \/ (p = "job" /\ ItemDone(TRUE)) \/ On(p, "dropPart")
          \/ (p = "job" /\ Abort)
    BY <1>9 DEF Scp, Cancelled
  <2>2. p = "job" /\ ItemDone(TRUE) => Ended(p, TRUE)
    BY DEF Ended
  <2> QED
    BY <1>9, <2>1, <2>2 DEF Scp, Flow, Shell, ShellUnchanged, Fails, Interrupted, LocalKept
<1>10. CASE CommandDone(p)
  BY <1>10 DEF CommandDone, Flow, Shell, ShellUnchanged, Fails, LocalKept
<1>11. CASE CommandGivenUp(p)
  <2>1. On(p, "dropPart") \/ (p = "job" /\ Abort)
    BY <1>11 DEF CommandGivenUp, Cancelled
  <2> QED
    BY <1>11, <2>1 DEF CommandGivenUp, Flow, Shell, ShellUnchanged, Fails, Interrupted, LocalKept
<1>12. CASE DropPart(p)
  <2>1. Ended(p, TRUE) \/ (p = "job" /\ Abort)
    BY <1>12 DEF DropPart, Cancelled
  <2> QED
    BY <1>12, <2>1 DEF DropPart, Flow, Shell, ShellUnchanged, Fails, Interrupted, LocalKept
<1> QED
  BY <1>1, <1>2, <1>3, <1>4, <1>5, <1>6, <1>7, <1>8, <1>9, <1>10, <1>11, <1>12 DEF FileStep

\* What Flow does to the place, the path and the job.
LEMMA FlowFacts ==
  ASSUME TypeOK, AtPath, NEW p \in Procs, pc[p] \in Sending \cup Shell, Flow(p)
  PROVE  /\ job' \in Jobs /\ target' \in [Procs -> Names] /\ pc' \in [Procs -> Pcs]
         /\ \A q \in Procs \ {p} : pc'[q] = pc[q] /\ target'[q] = target[q]
         /\ p # "job" => job' = job
         /\ pc'[p] \in Resting \cup {"next"} \/ target' = target
         /\ p = "job" => \/ pc'[p] \in Sending \cup Shell /\ job' = job
                         \/ pc'[p] \in Resting \cup {"next"} /\ ~job'.move
<1>0. /\ job \in Jobs /\ target \in [Procs -> Names] /\ pc \in [Procs -> Pcs]
      /\ Sending \cup Shell \subseteq Pcs /\ Resting \cup {"next"} \subseteq Pcs
      /\ AName \in Names
  BY NamesThere DEF TypeOK, Pcs
<1>1. CASE \E l \in Sending \cup Shell : On(p, l)
  BY <1>0, <1>1, JobIsProc DEF On, Goto
<1>2. CASE p # "job" /\ \E bad \in BOOLEAN : Ended(p, bad)
  <2>1. /\ pc' = [pc EXCEPT ![p] = "over"] /\ target' = [target EXCEPT ![p] = AName]
        /\ job' = job
    BY <1>2 DEF Ended, Goto
  <2> QED
    BY <1>0, <1>2, <2>1, JobIsProc DEF Resting
<1>3. CASE p = "job" /\ \E bad \in BOOLEAN : Ended(p, bad)
  <2>1. PICK bad \in BOOLEAN : ItemDone(bad)
    BY <1>3 DEF Ended
  <2>2. job.queue # <<>> /\ ~job.move
    BY <1>3 DEF AtPath, Uploading
  <2> QED
    BY <1>3, <2>1, <2>2, ItemDoneFacts
<1>4. CASE p = "job" /\ Abort
  BY <1>4, AbortFacts DEF NoJob
<1> QED
  BY <1>1, <1>2, <1>3, <1>4 DEF Flow

\* The paths of the job stay, lose the first or are gone.
LEMMA FlowJob ==
  ASSUME TypeOK, AtPath, NEW p \in Procs, pc[p] \in Sending \cup Shell, Flow(p)
  PROVE  /\ job'.queue \in {job.queue, Tail(job.queue), <<>>}
         /\ job'.sources \in {job.sources, <<>>}
<1>1. CASE job' = job
  BY <1>1
<1>2. CASE p = "job" /\ \E bad \in BOOLEAN : Ended(p, bad)
  <2>1. PICK bad \in BOOLEAN : ItemDone(bad)
    BY <1>2 DEF Ended
  <2>2. job.queue # <<>>
    BY <1>2 DEF AtPath, Uploading
  <2> QED
    BY <2>1, <2>2, ItemDoneFacts
<1>3. CASE p = "job" /\ Abort
  BY <1>3, AbortFacts DEF NoJob
<1> QED
  BY <1>1, <1>2, <1>3 DEF Flow, On, Ended

-----------------------------------------------------------------------------
(* Types *)

\* What the server, the part files and the commands of the shell are.
RestType ==
  /\ remote \in [Files -> Contents \cup {"absent"}]
  /\ part \in [Procs -> Parts]
  /\ refused \in BOOLEAN
  /\ command \in [Procs -> {"none", "rm", "mv", "done", "error"}]
  /\ late \in LateCommands

LEMMA FileStepRest ==
  ASSUME TypeOK, Targets, NEW p \in Procs, FileStep(p)
  PROVE  RestType'
<1>0. RestType /\ link \in BOOLEAN /\ server \in {"posix", "plain", "shell"}
  BY DEF TypeOK, RestType
<1>s. \A n, c : Replace(n, c) => remote' \in [Files -> Contents \cup {"absent"}]
  BY <1>0 DEF RestType, Replace, Store
<1>a. \A n : Store(n, "absent") => remote' \in [Files -> Contents \cup {"absent"}]
  BY <1>0 DEF RestType, Store
<1>1. CASE PutPart(p)
  <2>1. part' \in [Procs -> Parts]
    BY <1>0, <1>1 DEF PutPart, RestType, Parts
  <2> QED
    BY <1>0, <1>1, <2>1 DEF PutPart, RestType, SftpUnchanged
<1>2. CASE PosixRename(p) \/ Rename(p)
  <2>1. /\ part' \in [Procs -> Parts]
        /\ remote' \in [Files -> Contents \cup {"absent"}]
    BY <1>0, <1>s, <1>2 DEF PosixRename, Rename, RestType, Replaces, Parts
  <2> QED
    BY <1>0, <1>2, <2>1 DEF PosixRename, Rename, RestType, SftpUnchanged
<1>3. CASE PosixFails(p)
  <2>1. refused' = refused \/ refused' = (refused \/ (link /\ server = "posix"))
    BY <1>3 DEF PosixFails
  <2>2. (refused \/ (link /\ server = "posix")) \in BOOLEAN
    OBVIOUS
  <2>3. refused' \in BOOLEAN
    BY <1>0, <2>1, <2>2 DEF RestType
  <2> QED
    BY <1>0, <1>3, <2>3 DEF PosixFails, RestType, SftpUnchanged
<1>4. CASE LstatPart(p) \/ LstatTarget(p)
  BY <1>0, <1>4 DEF LstatPart, LstatTarget, RestType, SftpUnchanged
<1>5. CASE RemoveTarget(p)
  <2>1. remote' \in [Files -> Contents \cup {"absent"}]
    BY <1>0, <1>a, <1>5 DEF RemoveTarget, RestType
  <2> QED
    BY <1>0, <1>5, <2>1 DEF RemoveTarget, RestType, SftpUnchanged
<1>6. CASE Cleanup(p)
  <2>1. part' \in [Procs -> Parts]
    BY <1>0, <1>6 DEF Cleanup, RestType, Parts
  <2> QED
    BY <1>0, <1>6, <2>1 DEF Cleanup, RestType, SftpUnchanged
<1>7. CASE Scp(p)
  <2>1. /\ part' \in [Procs -> Parts]
        /\ command' \in [Procs -> {"none", "rm", "mv", "done", "error"}]
    BY <1>0, <1>7 DEF Scp, RestType, Parts
  <2> QED
    BY <1>0, <1>7, <2>1 DEF Scp, RestType, ShellUnchanged
<1>8. CASE CommandDone(p)
  <2>1. command' \in [Procs -> {"none", "rm", "mv", "done", "error"}]
    BY <1>0, <1>8 DEF CommandDone, RestType
  <2> QED
    BY <1>0, <1>8, <2>1 DEF CommandDone, RestType, ShellUnchanged
<1>9. CASE CommandGivenUp(p)
  <2>1. command' \in [Procs -> {"none", "rm", "mv", "done", "error"}]
    BY <1>0, <1>9 DEF CommandGivenUp, RestType
  <2>2. target[p] \in Files
    BY <1>9 DEF CommandGivenUp, Targets, Shell
  <2>3. CASE UNCHANGED late
    BY <1>0, <1>9, <2>1, <2>3 DEF CommandGivenUp, RestType, ShellUnchanged
  <2>4. CASE ~UNCHANGED late
    <3>1. late' = [step |-> IF command[p] = "rm" THEN "rm; mv" ELSE "mv",
                   target |-> target[p], holds |-> part[p], by |-> p]
      BY <1>9, <2>4 DEF CommandGivenUp
    <3>2. late' \in LateCommands
      BY <1>0, <2>2, <3>1 DEF LateCommands, RestType
    <3> QED
      BY <1>0, <1>9, <2>1, <3>2 DEF CommandGivenUp, RestType, ShellUnchanged
  <2> QED
    BY <2>3, <2>4
<1>10. CASE DropPart(p)
  <2>1. part' \in [Procs -> Parts]
    BY <1>0, <1>10 DEF DropPart, RestType, Parts
  <2>2. late' \in LateCommands
    BY <1>0, <1>10, NamesThere DEF DropPart, RestType, LateCommands
  <2> QED
    BY <1>0, <1>10, <2>1, <2>2 DEF DropPart, RestType, ShellUnchanged
<1> QED
  BY <1>1, <1>2, <1>3, <1>4, <1>5, <1>6, <1>7, <1>8, <1>9, <1>10 DEF FileStep
-----------------------------------------------------------------------------
(* The loop of a job *)

\* The job, its path and its place have their types, and what is known of a
\* move and of the files that are sent holds.
JobFits ==
  /\ job \in Jobs /\ target \in [Procs -> Names] /\ pc \in [Procs -> Pcs]
  /\ Targets /\ JobInv

LEMMA OverFits ==
  ASSUME TypeOK, Targets, Abort \/ \E l \in Resting : JobOver(l)
  PROVE  JobFits'
<1>1. /\ job' = NoJob /\ job' \in Jobs /\ target' \in [Procs -> Names]
      /\ pc' \in [Procs -> Pcs] /\ pc'["job"] \in Resting
      /\ \A p \in Procs \ {"job"} : pc'[p] = pc[p] /\ target'[p] = target[p]
  <2>1. CASE Abort
    BY <2>1, AbortFacts
  <2>2. CASE \E l \in Resting : JobOver(l)
    BY <2>2, JobOverFacts
  <2> QED
    BY <2>1, <2>2
<1>2. Targets'
  BY <1>1 DEF Targets, Resting, Sending, Shell
<1>3. ~job'.move
  BY <1>1 DEF NoJob
<1>4. JobInv'
  BY <1>1, <1>3 DEF JobInv, MoveAsks, AtPath, Once, Distinct, NoJob, Movable, Leaving, Uploading,
     Resting, Sending, Shell
<1> QED
  BY <1>1, <1>2, <1>4 DEF JobFits

LEMMA BeginFits ==
  ASSUME TypeOK, Targets, JobInv, NextPath, UNCHANGED local,
         NEW n \in Names, NEW l \in Uploading \cup {"get"}, Begin(n, l),
         l \in Sending \cup Shell => n \in Files,
         l \in Uploading => ~job.move,
         l = "get" => n = ThePath
  PROVE  JobFits'
<1>1. job \in Jobs /\ target \in [Procs -> Names] /\ pc \in [Procs -> Pcs] /\ l \in Pcs
  BY DEF TypeOK, Pcs, Uploading
<1>2. /\ target' = [target EXCEPT !["job"] = n] /\ pc' = [pc EXCEPT !["job"] = l]
      /\ job' = job
  BY DEF Begin, Goto
<1>3. /\ target' \in [Procs -> Names] /\ pc' \in [Procs -> Pcs]
      /\ target'["job"] = n /\ pc'["job"] = l
      /\ \A p \in Procs \ {"job"} : pc'[p] = pc[p] /\ target'[p] = target[p]
  BY <1>1, <1>2, JobIsProc
<1>4. Targets'
  BY <1>3, JobIsProc DEF Targets
<1>5. pc["job"] = "next" /\ job.queue # <<>> /\ l # "takeAway" /\ l # "next"
  BY DEF NextPath, Uploading, Sending, Shell
<1>6. MoveAsks' /\ Once' /\ Leaving' /\ Movable'
  BY <1>2, <1>3, <1>5 DEF JobInv, MoveAsks, Once, Leaving, Movable, Here
<1>7. AtPath'
  BY <1>2, <1>3, <1>5 DEF AtPath, ThePath, Uploading, Sending, Shell
<1> QED
  BY <1>1, <1>2, <1>3, <1>4, <1>6, <1>7 DEF JobFits, JobInv

LEMMA ItemDoneFits ==
  ASSUME TypeOK, Targets, JobInv, NEW bad \in BOOLEAN, ItemDone(bad),
         pc["job"] \in {"next", "get", "tree"}, job.queue # <<>>,
         job.move /\ ~bad /\ Head(job.queue) \in Files =>
           local'[Head(job.queue)] \in {"copy", "old"},
         \A n \in Files : Here(n) => Here(n)'
  PROVE  JobFits'
<1>1. /\ job' \in Jobs /\ job'.queue = Tail(job.queue)
      /\ job'.move = job.move /\ job'.policy = job.policy /\ job'.way = job.way
      /\ job'.sources = job.sources /\ job'.failed = (job.failed \/ bad)
      /\ target' \in [Procs -> Names]
      /\ pc' \in [Procs -> Pcs] /\ pc'["job"] = "next"
      /\ \A p \in Procs \ {"job"} : pc'[p] = pc[p] /\ target'[p] = target[p]
  BY ItemDoneFacts
<1>2. job.queue \in Seq(Names)
  BY DEF TypeOK, Jobs
<1>o. Once'
  BY <1>1, <1>2, DistinctTail DEF JobInv, Once
<1>3. PathsOf(job.queue) = {Head(job.queue)} \cup PathsOf(job'.queue)
  BY <1>1, <1>2, PathsOfQueue
<1>4. Targets'
  BY <1>1 DEF Targets, Sending, Shell
<1>5. MoveAsks' /\ AtPath' /\ Leaving'
  BY <1>1 DEF JobInv, MoveAsks, AtPath, Leaving, Uploading, Sending, Shell
<1>6. Movable'
  <2>1. SUFFICES ASSUME job'.move, ~job'.failed, NEW n \in Files \cap PathsOf(job'.sources)
                 PROVE  Here(n)' \/ n \in PathsOf(job'.queue)
    BY DEF Movable
  <2>2. job.move /\ ~job.failed /\ ~bad
    BY <1>1, <2>1
  <2>3. pc["job"] \in {"next", "get"}
    BY <2>2 DEF JobInv, AtPath, Uploading
  <2>4. n \in Files \cap PathsOf(job.sources)
    BY <1>1, <2>1
  <2>5. Here(n) \/ n \in PathsOf(job.queue)
    BY <2>2, <2>3, <2>4 DEF JobInv, Movable
  <2> QED
    BY <1>3, <2>2, <2>4, <2>5 DEF Here
<1> QED
  BY <1>1, <1>o, <1>4, <1>5, <1>6 DEF JobFits, JobInv

\* A step of one file sends for a job that moves nothing.
LEMMA FileStepFits ==
  ASSUME TypeOK, Targets, JobInv, NEW p \in Procs, FileStep(p)
  PROVE  JobFits'
<1>1. pc[p] \in Sending \cup Shell /\ Flow(p) /\ \A n \in Files : Here(n) => Here(n)'
  BY FileStepFlow, KeptFacts
<1>2. /\ job' \in Jobs /\ target' \in [Procs -> Names] /\ pc' \in [Procs -> Pcs]
      /\ \A q \in Procs \ {p} : pc'[q] = pc[q] /\ target'[q] = target[q]
      /\ p # "job" => job' = job
      /\ pc'[p] \in Resting \cup {"next"} \/ target' = target
      /\ p = "job" => \/ pc'[p] \in Sending \cup Shell /\ job' = job
                      \/ pc'[p] \in Resting \cup {"next"} /\ ~job'.move
  BY <1>1, FlowFacts DEF JobInv
<1>3. Targets'
  <2>1. pc'[p] \in Sending \cup Shell => target'[p] \in Files
    BY <1>1, <1>2 DEF Targets, Resting, Sending, Shell
  <2> QED
    BY <1>2, <2>1 DEF Targets
<1>4. CASE p # "job"
  <2>1. pc'["job"] = pc["job"] /\ target'["job"] = target["job"] /\ job' = job
    BY <1>2, <1>4, JobIsProc
  <2>2. JobInv'
    BY <1>1, <2>1 DEF JobInv, MoveAsks, AtPath, Once, Movable, Leaving
  <2> QED
    BY <1>2, <1>3, <2>2 DEF JobFits
<1>5. CASE p = "job" /\ pc'[p] \in Sending \cup Shell /\ job' = job
  <2>1. job.queue # <<>> /\ ~job.move
    BY <1>1, <1>5 DEF JobInv, AtPath, Uploading
  <2>2. JobInv'
    BY <1>5, <2>1 DEF JobInv, MoveAsks, AtPath, Once, Movable, Leaving, Uploading, Sending, Shell
  <2> QED
    BY <1>2, <1>3, <2>2 DEF JobFits
<1>6. CASE p = "job" /\ pc'[p] \in Resting \cup {"next"} /\ ~job'.move
  <2>o. Once'
    <3>1. job'.queue \in {job.queue, Tail(job.queue), <<>>} /\ job'.sources \in {job.sources, <<>>}
      BY <1>1, <1>6, FlowJob DEF JobInv
    <3>2. job.queue # <<>> /\ job.queue \in Seq(Names)
      BY <1>1, <1>6 DEF JobInv, AtPath, Uploading, TypeOK, Jobs
    <3>3. Distinct(<<>>)
      BY DEF Distinct
    <3>4. Distinct(Tail(job.queue)) /\ Distinct(job.queue) /\ Distinct(job.sources)
      BY <3>2, DistinctTail DEF JobInv, Once
    <3> QED
      BY <3>1, <3>3, <3>4 DEF Once
  <2>1. JobInv'
    BY <1>6, <2>o DEF JobInv, MoveAsks, AtPath, Movable, Leaving, Uploading, Resting, Sending, Shell
  <2> QED
    BY <1>2, <1>3, <2>1 DEF JobFits
<1> QED
  BY <1>2, <1>4, <1>5, <1>6
\* Only the end of a move touches the register, and only a download this
\* computer, where what was copied stays copied.
LEMMA JobStepFits ==
  ASSUME TypeOK, Targets, JobInv, JobStep
  PROVE  /\ JobFits' /\ Fails("job")
         /\ UNCHANGED <<server, part, refused, command, late>>
         /\ \A n \in Files : Here(n) => Here(n)'
<1>0. job \in Jobs /\ pc \in [Procs -> Pcs]
  BY DEF TypeOK
<1>n. NextPath => ThePath \in Names
  BY <1>0, PathsOfQueue DEF NextPath, ThePath, Jobs
<1>o. "over" \in Resting
  BY DEF Resting
<1>1. CASE StatRaises \/ AskRaises
  <2>1. /\ Abort /\ Fails("job") /\ UNCHANGED <<server, local, part, refused, command, late>>
    BY <1>1 DEF StatRaises, AskRaises, FilesUnchanged, Fails
  <2> QED
    BY <2>1, OverFits DEF Here
<1>2. CASE UploadFresh
  <2>1. /\ NextPath /\ job.way = "up" /\ Begin(ThePath, UploadStep(ThePath)) /\ Steady
        /\ UNCHANGED <<server, local, part, refused, command, late>>
    BY <1>2 DEF UploadFresh, FilesUnchanged
  <2>2. ~job.move
    BY <2>1 DEF JobInv, MoveAsks
  <2>3. /\ UploadStep(ThePath) \in Uploading /\ UploadStep(ThePath) # "get"
        /\ UploadStep(ThePath) \in Sending \cup Shell => ThePath \in Files
    BY DEF UploadStep, Uploading, Sending, Shell
  <2>4. JobFits'
    BY <1>n, <2>1, <2>2, <2>3, BeginFits
  <2> QED
    BY <2>1, <2>4 DEF Fails, Here
<1>3. CASE UploadConflict
  <2> DEFINE n == ThePath
  <2>1. /\ NextPath /\ job.way = "up" /\ Steady
        /\ \/ ItemDone(FALSE)
           \/ Begin(RenamedDestination(n), UploadStep(n))
           \/ Begin(n, UploadStep(n))
        /\ UNCHANGED <<server, local, part, refused, command, late>>
    BY <1>3 DEF UploadConflict, FilesUnchanged
  <2>2. ~job.move /\ pc["job"] = "next" /\ job.queue # <<>>
    BY <2>1 DEF JobInv, MoveAsks, NextPath
  <2>3. /\ UploadStep(n) \in Uploading /\ UploadStep(n) # "get"
        /\ UploadStep(n) \in Sending \cup Shell => n \in Files
    BY DEF UploadStep, Uploading, Sending, Shell
  <2>4. RenamedDestination(n) \in Names /\ (n \in Files => RenamedDestination(n) \in Files)
    BY <1>n, <2>1 DEF RenamedDestination, Names, Files
  <2>5. CASE ItemDone(FALSE)
    <3>1. JobFits'
      BY <2>1, <2>2, <2>5, ItemDoneFits DEF Here
    <3> QED
      BY <2>1, <3>1 DEF Fails, Here
  <2>6. CASE Begin(RenamedDestination(n), UploadStep(n))
    <3>1. JobFits'
      BY <2>1, <2>2, <2>3, <2>4, <2>6, BeginFits
    <3> QED
      BY <2>1, <3>1 DEF Fails, Here
  <2>7. CASE Begin(n, UploadStep(n))
    <3>1. JobFits'
      BY <1>n, <2>1, <2>2, <2>3, <2>7, BeginFits
    <3> QED
      BY <2>1, <3>1 DEF Fails, Here
  <2> QED
    BY <2>1, <2>5, <2>6, <2>7
<1>4. CASE DownloadBegins
  <2>1. /\ NextPath /\ Begin(ThePath, "get") /\ Steady
        /\ UNCHANGED <<server, local, part, refused, command, late>>
    BY <1>4 DEF DownloadBegins, FilesUnchanged
  <2>2. "get" \notin Uploading
    BY DEF Uploading, Sending, Shell
  <2>3. JobFits'
    BY <1>n, <2>1, <2>2, BeginFits DEF Uploading
  <2> QED
    BY <2>1, <2>3 DEF Fails, Here
<1>5. CASE DownloadSkipped
  <2>1. /\ NextPath /\ job.policy \in {"skip", "newer"} /\ ItemDone(FALSE) /\ Steady
        /\ UNCHANGED <<server, local, part, refused, command, late>>
    BY <1>5 DEF DownloadSkipped, FilesUnchanged
  <2>2. ~job.move /\ pc["job"] = "next" /\ job.queue # <<>>
    BY <2>1 DEF JobInv, MoveAsks, NextPath
  <2>3. JobFits'
    BY <2>1, <2>2, ItemDoneFits DEF Here
  <2> QED
    BY <2>1, <2>3 DEF Fails, Here
<1>6. CASE JobDone
  <2>1. /\ pc["job"] = "next" /\ job.queue = <<>> /\ Steady
        /\ UNCHANGED <<server, local, part, refused, command, late>>
    BY <1>6 DEF JobDone, FilesUnchanged
  <2>2. CASE job.move /\ ~job.failed
    <3>1. /\ pc' = [pc EXCEPT !["job"] = "takeAway"] /\ UNCHANGED target
          /\ job' = [job EXCEPT !.queue = job.sources]
      BY <1>6, <2>2 DEF JobDone, Goto
    <3>2. /\ job' \in Jobs /\ job'.queue = job.sources /\ job'.move = job.move
          /\ job'.policy = job.policy /\ job'.way = job.way /\ job'.sources = job.sources
          /\ job'.failed = job.failed
      BY <1>0, <3>1 DEF Jobs
    <3>3. /\ pc' \in [Procs -> Pcs] /\ pc'["job"] = "takeAway"
          /\ \A p \in Procs \ {"job"} : pc'[p] = pc[p]
      BY <1>0, <3>1, JobIsProc DEF Pcs
    <3>4. Targets'
      BY <3>1, <3>3 DEF Targets, Sending, Shell
    <3>5. MoveAsks' /\ AtPath' /\ Once' /\ Movable'
      BY <3>2, <3>3 DEF JobInv, MoveAsks, AtPath, Once, Movable, Uploading, Sending, Shell
    <3>6. PathsOf(job.queue) = {}
      BY <2>1 DEF PathsOf
    <3>7. Leaving'
      BY <2>1, <2>2, <3>2, <3>6 DEF JobInv, Movable, Leaving, Here
    <3>8. JobFits'
      BY <3>1, <3>2, <3>3, <3>4, <3>5, <3>7 DEF JobFits, JobInv, TypeOK
    <3> QED
      BY <2>1, <3>8 DEF Fails, Here
  <2>3. CASE ~(job.move /\ ~job.failed)
    <3>1. JobOver("over")
      BY <1>6, <2>3 DEF JobDone
    <3>2. JobFits'
      BY <1>o, <3>1, OverFits
    <3> QED
      BY <2>1, <3>2 DEF Fails, Here
  <2> QED
    BY <2>2, <2>3
<1>7. CASE PutTree
  <2>1. /\ pc["job"] = "tree" /\ Fails("job")
        /\ UNCHANGED <<server, local, part, refused, command, late>>
        /\ ItemDone(server = "shell") \/ Abort
    BY <1>7 DEF PutTree, SftpUnchanged, Fails, Interrupted
  <2>2. job.queue # <<>> /\ ~job.move
    BY <2>1 DEF JobInv, AtPath, Uploading
  <2>3. CASE ItemDone(server = "shell")
    <3>1. PICK bad \in BOOLEAN : ItemDone(bad)
      BY <2>3
    <3> QED
      BY <2>1, <2>2, <3>1, ItemDoneFits DEF Here
  <2>4. CASE Abort
    BY <2>1, <2>4, OverFits DEF Here
  <2> QED
    BY <2>1, <2>3, <2>4
<1>8. CASE GetFile
  <2>1. /\ pc["job"] = "get" /\ Fails("job")
        /\ UNCHANGED <<server, part, refused, command, late>>
        /\ \/ Got("copy") /\ ItemDone(FALSE)
           \/ UNCHANGED local /\ (ItemDone(TRUE) \/ Abort)
    BY <1>8 DEF GetFile, GetUnchanged, Fails, Interrupted
  <2>2. job.queue # <<>> /\ target["job"] = Head(job.queue)
    BY <2>1 DEF JobInv, AtPath
  <2>3. CASE Got("copy") /\ ItemDone(FALSE)
    <3>1. local' = [local EXCEPT ![Head(job.queue)] = "copy"]
      BY <2>2, <2>3 DEF Got
    <3>2. /\ \A n \in Files : Here(n) => Here(n)'
          /\ Head(job.queue) \in Files => local'[Head(job.queue)] \in {"copy", "old"}
      BY <3>1 DEF TypeOK, Here
    <3>3. JobFits'
      BY <2>1, <2>2, <2>3, <3>2, ItemDoneFits
    <3> QED
      BY <2>1, <3>2, <3>3
  <2>4. CASE UNCHANGED local /\ ItemDone(TRUE)
    <3>1. JobFits'
      BY <2>1, <2>2, <2>4, ItemDoneFits DEF Here
    <3> QED
      BY <2>1, <2>4, <3>1 DEF Here
  <2>5. CASE UNCHANGED local /\ Abort
    BY <2>1, <2>5, OverFits DEF Here
  <2> QED
    BY <2>1, <2>3, <2>4, <2>5
<1>9. CASE GetTree
  <2>1. /\ pc["job"] = "get" /\ target["job"] \notin Files /\ Fails("job")
        /\ UNCHANGED <<server, local, part, refused, command, late>>
        /\ (\E bad \in BOOLEAN : ItemDone(bad)) \/ Abort
    BY <1>9 DEF GetTree, GetUnchanged, Fails, Interrupted
  <2>2. job.queue # <<>> /\ target["job"] = Head(job.queue)
    BY <2>1 DEF JobInv, AtPath
  <2>3. CASE \E bad \in BOOLEAN : ItemDone(bad)
    <3>1. PICK bad \in BOOLEAN : ItemDone(bad)
      BY <2>3
    <3> QED
      BY <2>1, <2>2, <3>1, ItemDoneFits DEF Here
  <2>4. CASE Abort
    BY <2>1, <2>4, OverFits DEF Here
  <2> QED
    BY <2>1, <2>3, <2>4
<1>10. CASE TakeAway
  <2>1. /\ pc["job"] = "takeAway" /\ UNCHANGED <<server, local, part, refused, command, late>>
    BY <1>10 DEF TakeAway
  <2>2. CASE job.queue = <<>>
    <3>1. JobOver("over") /\ Steady
      BY <1>10, <2>2 DEF TakeAway
    <3> QED
      BY <1>o, <2>1, <3>1, OverFits DEF Fails, Here
  <2>3. CASE job.queue # <<>> /\ Abort
    <3>1. Fails("job")
      BY <1>10, <2>3 DEF TakeAway
    <3> QED
      BY <2>1, <2>3, <3>1, OverFits DEF Here
  <2>4. CASE job.queue # <<>> /\ ~Abort
    <3> DEFINE queue == Tail(job.queue)
    <3>1. /\ UNCHANGED <<pc, target>> /\ Fails("job")
          /\ job' = [job EXCEPT !.queue = queue]
      BY <1>10, <2>4 DEF TakeAway
    <3>2. queue \in Seq(Names) /\ PathsOf(queue) \subseteq PathsOf(job.queue) /\ Distinct(queue)
      BY <1>0, <2>4, PathsOfQueue, DistinctTail DEF Jobs, JobInv, Once
    <3> HIDE DEF queue
    <3>3. /\ job' \in Jobs /\ job'.queue = queue /\ job'.move = job.move
          /\ job'.policy = job.policy /\ job'.way = job.way /\ job'.sources = job.sources
          /\ job'.failed = job.failed
      BY <1>0, <3>1, <3>2 DEF Jobs
    <3>4. Targets' /\ target' \in [Procs -> Names] /\ pc' \in [Procs -> Pcs]
      BY <3>1 DEF TypeOK, Targets
    <3>5. JobInv'
      BY <2>1, <3>1, <3>2, <3>3 DEF JobInv, MoveAsks, AtPath, Once, Movable, Leaving, Here,
         Uploading, Sending, Shell
    <3> QED
      BY <2>1, <3>1, <3>3, <3>4, <3>5 DEF JobFits, Here
  <2> QED
    BY <2>2, <2>3, <2>4
<1> QED
  BY <1>1, <1>2, <1>3, <1>4, <1>5, <1>6, <1>7, <1>8, <1>9, <1>10 DEF JobStep
-----------------------------------------------------------------------------
(* Every step *)

\* The command of the server, a save and a close leave the job as it is.
Aside ==
  /\ UNCHANGED <<server, job>> /\ LocalKept
  /\ pc'["job"] = pc["job"] /\ target'["job"] = target["job"]

LEMMA AsideFits ==
  ASSUME TypeOK, JobInv, Targets', Aside,
         target' \in [Procs -> Names], pc' \in [Procs -> Pcs]
  PROVE  JobFits'
<1>1. JobInv'
  BY KeptFacts DEF Aside, JobInv, MoveAsks, AtPath, Once, Movable, Leaving
<1> QED
  BY <1>1 DEF JobFits, Aside, TypeOK

\* A job that was submitted is a job, and a move asks.
LEMMA SubmitFits ==
  ASSUME TypeOK, Targets, Submit
  PROVE  JobFits'
<1>1. PICK w \in {"up", "down"}, o \in Policies, m \in BOOLEAN,
           s \in UNION {[1..k -> Names] : k \in 1..MaxItems} :
        /\ Submittable(w, o, m)
        /\ \A i, j \in 1..Len(s) : s[i] = s[j] => i = j
        /\ job' = [way |-> w, policy |-> o, move |-> m, queue |-> s, sources |-> s,
                   failed |-> FALSE]
  BY Zenon DEF Submit
<1>2. \A k \in 1..MaxItems : k \in Nat
  BY FilesAssumption
<1>3. s \in Seq(Names)
  BY <1>2, SeqDef
<1>4. job' \in Jobs
  BY <1>1, <1>3 DEF Jobs
<1>5. /\ pc' = [pc EXCEPT !["job"] = "next"] /\ UNCHANGED <<target, local>>
      /\ pc \in [Procs -> Pcs] /\ target \in [Procs -> Names]
  BY DEF Submit, Goto, TypeOK
<1>6. /\ pc' \in [Procs -> Pcs] /\ pc'["job"] = "next"
      /\ \A p \in Procs \ {"job"} : pc'[p] = pc[p]
  BY <1>5, JobIsProc DEF Pcs
<1>7. Targets'
  BY <1>5, <1>6 DEF Targets, Sending, Shell
<1>8. MoveAsks'
  BY <1>1 DEF MoveAsks, Submittable
<1>9. AtPath' /\ Once' /\ Movable' /\ Leaving'
  BY <1>1, <1>6 DEF AtPath, Once, Distinct, Movable, Leaving, Uploading, Sending, Shell
<1> QED
  BY <1>4, <1>5, <1>6, <1>7, <1>8, <1>9 DEF JobFits, JobInv

\* The job fits after every step.
LEMMA StepFits ==
  ASSUME TypeOK, Targets, JobInv, [Next]_vars
  PROVE  JobFits'
<1>0. job \in Jobs /\ target \in [Procs -> Names] /\ pc \in [Procs -> Pcs]
  BY DEF TypeOK
<1>1. CASE Submit
  BY <1>1, SubmitFits
<1>2. CASE Save
  <2>1. PICK n \in Edited : target' = [target EXCEPT !["save"] = n]
    BY <1>2 DEF Save
  <2>2. n \in Files /\ n \in Names
    BY FilesAssumption DEF Files
  <2>3. PICK l \in {"scp", "put"} : pc' = [pc EXCEPT !["save"] = l]
    BY <1>2 DEF Save, Goto
  <2>4. "save" \in Procs /\ l \in Pcs /\ UNCHANGED <<server, local, job>>
    BY <1>2 DEF Save, Pcs, Sending, Shell
  <2>5. /\ target' \in [Procs -> Names] /\ pc' \in [Procs -> Pcs]
        /\ target'["save"] = n
        /\ \A q \in Procs \ {"save"} : pc'[q] = pc[q] /\ target'[q] = target[q]
    BY <1>0, <2>1, <2>2, <2>3, <2>4
  <2>6. Targets'
    BY <2>2, <2>5 DEF Targets
  <2>7. Aside
    BY <2>4, <2>5, JobIsProc DEF Aside, LocalKept
  <2> QED
    BY <2>5, <2>6, <2>7, AsideFits
<1>3. CASE Close \/ LateRm \/ LateMv \/ UNCHANGED vars \/ \E p \in Procs : ServerStep(p)
  <2>1. UNCHANGED <<server, job, pc, target>> /\ LocalKept
    BY <1>3 DEF Close, LateRm, LateMv, ServerStep, ServerRm, ServerMv, Replaces,
       ShellUnchanged, LocalKept, vars
  <2> QED
    BY <1>0, <2>1, AsideFits DEF Aside, Targets
<1>4. CASE JobStep
  BY <1>4, JobStepFits
<1>5. CASE \E p \in Procs : FileStep(p)
  BY <1>5, FileStepFits
<1> QED
  BY <1>1, <1>2, <1>3, <1>4, <1>5 DEF Next

\* The connection and the worker's cancellation.
LEMMA StepLink ==
  ASSUME TypeOK, Targets, JobInv, [Next]_vars
  PROVE  /\ link' \in BOOLEAN /\ closing' \in {"open", "pending", "delivered"}
         /\ link' => link
         /\ UNCHANGED server
<1>0. link \in BOOLEAN /\ closing \in {"open", "pending", "delivered"}
  BY DEF TypeOK
<1>1. CASE JobStep
  BY <1>1, JobStepFits, FailsFacts, JobIsProc
<1>2. CASE \E p \in Procs : FileStep(p)
  BY <1>2, FileStepFlow, FailsFacts
<1>3. CASE Close
  <2>1. UNCHANGED <<link, server>> /\ closing' \in {"pending", "delivered"}
    BY <1>3 DEF Close
  <2> QED
    BY <1>0, <2>1
<1>4. CASE Submit \/ Save \/ LateRm \/ LateMv \/ UNCHANGED vars
           \/ \E p \in Procs : ServerStep(p)
  <2>1. UNCHANGED <<link, closing, server>>
    BY <1>4 DEF Submit, Save, LateRm, LateMv, ServerStep, ServerRm, ServerMv, Steady,
       ShellUnchanged, vars
  <2> QED
    BY <1>0, <2>1
<1> QED
  BY <1>1, <1>2, <1>3, <1>4 DEF Next

\* The files of the register, the part files and the commands.
LEMMA StepRest ==
  ASSUME TypeOK, Targets, JobInv, [Next]_vars
  PROVE  RestType'
<1>0. RestType
  BY DEF TypeOK, RestType
<1>s. \A n, c : Store(n, "absent") \/ Replace(n, c) =>
        remote' \in [Files -> Contents \cup {"absent"}]
  BY <1>0 DEF RestType, Store, Replace
<1>1. CASE JobStep
  <2>1. UNCHANGED <<part, refused, command, late>>
    BY <1>1, JobStepFits
  <2>2. remote' \in [Files -> Contents \cup {"absent"}]
    <3>1. CASE TakeAway
      BY <1>0, <1>s, <3>1 DEF TakeAway, RestType
    <3>2. CASE ~TakeAway
      BY <1>0, <1>1, <3>2 DEF JobStep, StatRaises, UploadFresh, AskRaises, UploadConflict,
         DownloadBegins, DownloadSkipped, JobDone, PutTree, GetFile, GetTree,
         FilesUnchanged, SftpUnchanged, GetUnchanged, RestType
    <3> QED
      BY <3>1, <3>2
  <2> QED
    BY <1>0, <2>1, <2>2 DEF RestType
<1>2. CASE \E p \in Procs : FileStep(p)
  BY <1>2, FileStepRest
<1>3. ASSUME NEW p \in Procs, ServerRm(p) PROVE RestType'
  <2>1. /\ remote' \in [Files -> Contents \cup {"absent"}]
        /\ command' \in [Procs -> {"none", "rm", "mv", "done", "error"}]
    BY <1>0, <1>s, <1>3 DEF ServerRm, RestType
  <2> QED
    BY <1>0, <1>3, <2>1 DEF ServerRm, RestType, ShellUnchanged
<1>4. ASSUME NEW p \in Procs, ServerMv(p) PROVE RestType'
  <2>1. /\ remote' \in [Files -> Contents \cup {"absent"}]
        /\ command' \in [Procs -> {"none", "rm", "mv", "done", "error"}]
        /\ part' \in [Procs -> Parts]
    BY <1>0, <1>s, <1>4 DEF ServerMv, RestType, Replaces, Parts
  <2> QED
    BY <1>0, <1>4, <2>1 DEF ServerMv, RestType, ShellUnchanged
<1>5. CASE LateRm
  <2>1. remote' \in [Files -> Contents \cup {"absent"}] /\ late' \in LateCommands
    BY <1>0, <1>s, <1>5, NamesThere DEF LateRm, RestType, LateCommands
  <2> QED
    BY <1>0, <1>5, <2>1 DEF LateRm, RestType
<1>6. CASE LateMv
  <2>1. /\ remote' \in [Files -> Contents \cup {"absent"}] /\ late' \in LateCommands
        /\ part' \in [Procs -> Parts]
    BY <1>0, <1>s, <1>6, NamesThere DEF LateMv, RestType, Parts
  <2> QED
    BY <1>0, <1>6, <2>1 DEF LateMv, RestType
<1>7. CASE Submit \/ Save
  <2>1. part' \in [Procs -> Parts]
    BY <1>0, <1>7 DEF Submit, Save, RestType, Parts
  <2> QED
    BY <1>0, <1>7, <2>1 DEF Submit, Save, RestType
<1>8. CASE Close \/ UNCHANGED vars
  BY <1>0, <1>8 DEF Close, vars, RestType
<1> QED
  BY <1>1, <1>2, <1>3, <1>4, <1>5, <1>6, <1>7, <1>8 DEF Next, ServerStep

\* Local files only change by a download, or are no longer copies.
LEMMA StepLocal ==
  ASSUME TypeOK, Targets, JobInv, [Next]_vars
  PROVE  LocalKept \/ (GetFile /\ Got("copy"))
<1>1. CASE JobStep
  BY <1>1 DEF JobStep, StatRaises, UploadFresh, AskRaises, UploadConflict,
     DownloadBegins, DownloadSkipped, JobDone, PutTree, GetFile, GetTree, TakeAway,
     FilesUnchanged, SftpUnchanged, GetUnchanged, LocalKept
<1>2. CASE \E p \in Procs : FileStep(p)
  BY <1>2, FileStepFlow
<1>3. CASE Submit \/ Save \/ Close \/ LateRm \/ LateMv \/ UNCHANGED vars
           \/ \E p \in Procs : ServerStep(p)
  BY <1>3 DEF Submit, Save, Close, LateRm, LateMv, ServerStep, ServerRm, ServerMv, Replaces,
     ShellUnchanged, LocalKept, vars
<1> QED
  BY <1>1, <1>2, <1>3 DEF Next

LEMMA StepType ==
  ASSUME TypeOK, Targets, JobInv, [Next]_vars
  PROVE  TypeOK' /\ Targets' /\ JobInv'
<1>1. local' \in [Files -> {"absent", "mine", "copy", "old"}]
  BY StepLocal, KeptFacts DEF TypeOK, Got
<1>2. server' \in {"posix", "plain", "shell"}
  BY StepLink DEF TypeOK
<1>3. JobFits' /\ RestType' /\ link' \in BOOLEAN /\ closing' \in {"open", "pending", "delivered"}
  BY StepFits, StepRest, StepLink
<1> QED
  BY <1>1, <1>2, <1>3 DEF JobFits, RestType, TypeOK
-----------------------------------------------------------------------------
(* Servers with SFTP *)

\* A file that is sent over SFTP takes its part file with it.
LEMMA FileStepSftp ==
  ASSUME TypeOK, Targets, JobInv, server # "shell", SftpInv, NEW p \in Procs, FileStep(p)
  PROVE  /\ SftpFits(p)' /\ UNCHANGED late /\ (refused => refused')
         /\ \A q \in Procs \ {p} :
              pc'[q] = pc[q] /\ part'[q] = part[q] /\ command'[q] = command[q]
<1>0. /\ pc[p] \in Sending \cup Shell /\ Flow(p) /\ Fails(p) /\ UNCHANGED server
      /\ pc[p] \notin Shell /\ command[p] = "none"
      /\ pc \in [Procs -> Pcs] /\ part \in [Procs -> Parts]
      /\ Sending \cup Shell \cup Quiet \cup Resting \subseteq Pcs
  BY FileStepFlow DEF SftpInv, SftpFits, TypeOK, Pcs, Quiet, Resting
<1>1. \A q \in Procs \ {p} : pc'[q] = pc[q]
  BY <1>0, FlowFacts DEF JobInv
<1>2. \A l \in Sending : On(p, l) => pc'[p] = l
  BY <1>0 DEF On, Goto
<1>3. \A bad \in BOOLEAN : Ended(p, bad) => pc'[p] \in {"over", "next"}
  BY <1>0, ItemDoneFacts DEF Ended, Goto, ItemDone
<1>4. Abort /\ Cancelled(p) => pc'[p] = "cancelled"
  BY AbortFacts DEF Cancelled
<1>5. LinkLost => ~link'
  BY DEF LinkLost
<1>6. CASE PutPart(p)
  <2>1. /\ UNCHANGED <<late, refused, command>> /\ pc'[p] \in {"posix", "cleanup"}
        /\ \A q \in Procs \ {p} : part'[q] = part[q]
    BY <1>0, <1>2, <1>6 DEF PutPart, SftpUnchanged, Sending
  <2> QED
    BY <1>0, <1>1, <2>1 DEF SftpFits, Quiet, InFallback, Shell
<1>7. CASE PosixRename(p)
  <2>1. /\ UNCHANGED <<late, refused, command>>
        /\ part' = [part EXCEPT ![p] = "none"]
        /\ pc'[p] \in {"over", "next", "cleanup"} \/ ~link'
        /\ pc'[p] \in {"over", "next", "cleanup", "lstatPart"}
    BY <1>2, <1>3, <1>5, <1>7 DEF PosixRename, SftpUnchanged, Sending, Replaces
  <2> QED
    BY <1>0, <1>1, <2>1 DEF SftpFits, Quiet, InFallback, Shell
<1>8. CASE PosixFails(p)
  <2>1. /\ UNCHANGED <<late, part, command>> /\ pc'[p] \in {"lstatPart", "cleanup"}
        /\ pc'[p] = "lstatPart" /\ link' /\ server = "posix" => refused'
        /\ refused => refused'
    <3>1. UNCHANGED <<late, part, command>>
      BY <1>8 DEF PosixFails, SftpUnchanged
    <3>2. CASE /\ On(p, "lstatPart") /\ Steady
               /\ refused' = (refused \/ (link /\ server = "posix"))
      <4>1. pc'[p] = "lstatPart"
        BY <1>2, <3>2 DEF Sending
      <4>2. link' = link
        BY <3>2 DEF Steady
      <4> QED
        BY <3>1, <3>2, <4>1, <4>2, Zenon
    <3>3. CASE On(p, "lstatPart") /\ LinkLost /\ UNCHANGED refused
      BY <1>2, <1>5, <3>1, <3>3 DEF Sending
    <3>4. CASE On(p, "cleanup") /\ UNCHANGED refused
      BY <1>2, <3>1, <3>4 DEF Sending
    <3> QED
      BY <1>8, <3>2, <3>3, <3>4 DEF PosixFails
  <2> QED
    BY <1>0, <1>1, <2>1 DEF SftpFits, Quiet, InFallback, Shell
<1>9. CASE LstatPart(p) \/ LstatTarget(p)
  <2>1. /\ UNCHANGED <<late, part, command, refused>>
        /\ pc'[p] \in {"lstatTarget", "removeTarget", "cleanup"}
        /\ pc'[p] \in InFallback => link /\ pc[p] \in InFallback
    BY <1>2, <1>9 DEF LstatPart, LstatTarget, SftpUnchanged, Sending, InFallback
  <2> QED
    BY <1>0, <1>1, <2>1 DEF SftpInv, SftpFits, Quiet, InFallback, Shell
<1>10. CASE RemoveTarget(p)
  <2>1. UNCHANGED <<late, part, command, refused>> /\ pc'[p] \in {"rename", "cleanup"}
    BY <1>2, <1>10 DEF RemoveTarget, SftpUnchanged, Sending
  <2> QED
    BY <1>0, <1>1, <2>1 DEF SftpFits, Quiet, InFallback, Shell
<1>11. CASE Rename(p)
  <2>1. /\ UNCHANGED <<late, command, refused>>
        /\ \A q \in Procs \ {p} : part'[q] = part[q]
        /\ \/ pc'[p] \in {"over", "next"} /\ part'[p] = "none"
           \/ pc'[p] = "cleanup"
    BY <1>0, <1>2, <1>3, <1>11 DEF Rename, SftpUnchanged, Sending, Replaces
  <2> QED
    BY <1>0, <1>1, <2>1 DEF SftpFits, Quiet, InFallback, Shell
<1>12. CASE Cleanup(p)
  <2>1. /\ UNCHANGED <<late, command, refused>>
        /\ \A q \in Procs \ {p} : part'[q] = part[q]
        /\ \/ pc'[p] \in {"over", "next"} /\ (link' => part'[p] \in {"none", "stuck"})
           \/ pc'[p] = "cancelled"
    <3>1. UNCHANGED <<late, command, refused>>
      BY <1>12 DEF Cleanup, SftpUnchanged
    <3>2. CASE /\ part' = IF link THEN [part EXCEPT ![p] = "none"] ELSE part
               /\ Ended(p, TRUE) /\ Steady
      BY <1>0, <1>3, <3>1, <3>2 DEF Steady
    <3>5. CASE part' = [part EXCEPT ![p] = "stuck"] /\ Ended(p, TRUE)
      BY <1>0, <1>3, <3>1, <3>5
    <3>3. CASE UNCHANGED part /\ Ended(p, TRUE) /\ LinkLost
      BY <1>3, <1>5, <3>1, <3>3
    <3>4. CASE UNCHANGED part /\ Cancelled(p) /\ Abort
      BY <1>4, <3>1, <3>4
    <3> QED
      BY <1>12, <3>2, <3>3, <3>4, <3>5 DEF Cleanup
  <2> QED
    BY <1>0, <1>1, <2>1 DEF SftpFits, Quiet, InFallback, Shell
<1>13. CASE Scp(p) \/ CommandDone(p) \/ CommandGivenUp(p) \/ DropPart(p)
  BY <1>0, <1>13 DEF Scp, CommandDone, CommandGivenUp, DropPart, Shell
<1> QED
  BY <1>6, <1>7, <1>8, <1>9, <1>10, <1>11, <1>12, <1>13 DEF FileStep

\* Where the loop of a job goes, by SCP only without SFTP.
LEMMA JobStepPlace ==
  ASSUME TypeOK, JobStep
  PROVE  /\ pc["job"] \in {"next", "tree", "get", "takeAway"}
         /\ pc'["job"] \in Quiet \cup Resting \cup {"put", "scp"}
         /\ pc'["job"] = "scp" => server = "shell"
         /\ \A q \in Procs \ {"job"} : pc'[q] = pc[q]
<1>0. pc \in [Procs -> Pcs]
  BY DEF TypeOK
<1>p. pc["job"] \in {"next", "tree", "get", "takeAway"}
  BY DEF JobStep, StatRaises, UploadFresh, AskRaises, UploadConflict, DownloadBegins,
     DownloadSkipped, JobDone, PutTree, GetFile, GetTree, TakeAway, NextPath
<1>g. \A l : Goto("job", l) => pc'["job"] = l /\ \A q \in Procs \ {"job"} : pc'[q] = pc[q]
  BY <1>0, JobIsProc DEF Goto
<1>1. CASE Abort \/ \E l \in Resting : JobOver(l)
  BY <1>p, <1>1, AbortFacts, JobOverFacts DEF Resting
<1>2. CASE \E bad : ItemDone(bad)
  BY <1>p, <1>g, <1>2 DEF ItemDone, Quiet
<1>3. CASE \E n, m : Begin(n, UploadStep(m))
  BY <1>p, <1>g, <1>3 DEF Begin, UploadStep, Quiet, Resting
<1>4. CASE \E n : Begin(n, "get")
  BY <1>p, <1>g, <1>4 DEF Begin, Quiet
<1>5. CASE Goto("job", "takeAway")
  BY <1>p, <1>g, <1>5 DEF Quiet
<1>6. CASE TakeAway /\ UNCHANGED pc
  BY <1>p, <1>6 DEF TakeAway, Quiet
<1>7. \/ Abort \/ JobOver("over") \/ (\E bad : ItemDone(bad))
      \/ (\E n, m : Begin(n, UploadStep(m))) \/ (\E n : Begin(n, "get"))
      \/ Goto("job", "takeAway") \/ (TakeAway /\ UNCHANGED pc)
  <2>1. CASE StatRaises \/ AskRaises \/ PutTree \/ GetFile \/ GetTree
    BY <2>1 DEF StatRaises, AskRaises, PutTree, GetFile, GetTree
  <2>2. CASE UploadFresh
    BY <2>2 DEF UploadFresh
  <2>3. CASE UploadConflict
    <3>1. \/ ItemDone(FALSE)
          \/ Begin(RenamedDestination(ThePath), UploadStep(ThePath))
          \/ Begin(ThePath, UploadStep(ThePath))
      BY <2>3 DEF UploadConflict
    <3> QED
      BY <3>1
  <2>4. CASE DownloadBegins \/ DownloadSkipped
    BY <2>4 DEF DownloadBegins, DownloadSkipped
  <2>5. CASE JobDone
    BY <2>5 DEF JobDone
  <2>6. CASE TakeAway
    <3>1. CASE job.queue = <<>>
      BY <2>6, <3>1 DEF TakeAway
    <3>2. CASE job.queue # <<>>
      BY <2>6, <3>2 DEF TakeAway
    <3> QED
      BY <3>1, <3>2
  <2> QED
    BY <2>1, <2>2, <2>3, <2>4, <2>5, <2>6 DEF JobStep
<1>8. "over" \in Resting
  BY DEF Resting
<1> QED
  BY <1>p, <1>1, <1>2, <1>3, <1>4, <1>5, <1>6, <1>7, <1>8

\* The loop of a job has no part file, and sends by SCP only without SFTP.
LEMMA JobStepSftp ==
  ASSUME TypeOK, Targets, JobInv, server # "shell", SftpInv, JobStep
  PROVE  /\ SftpFits("job")'
         /\ \A q \in Procs \ {"job"} : pc'[q] = pc[q]
<1>0. /\ pc \in [Procs -> Pcs] /\ job \in Jobs
      /\ UNCHANGED <<server, part, refused, command, late>>
      /\ command["job"] = "none"
  BY JobStepFits, JobIsProc DEF TypeOK, SftpInv, SftpFits
<1>1. pc["job"] \in {"next", "tree", "get", "takeAway"}
  BY JobStepPlace
<1>2. link => part["job"] \in {"none", "stuck"}
  BY <1>1, JobIsProc DEF SftpInv, SftpFits, Quiet
<1>3. link' => link
  BY JobStepFits, FailsFacts, JobIsProc
<1>5. /\ pc'["job"] \in Quiet \cup Resting \cup {"put"}
      /\ \A q \in Procs \ {"job"} : pc'[q] = pc[q]
  BY JobStepPlace
<1> QED
  BY <1>0, <1>2, <1>3, <1>5 DEF SftpFits, Quiet, Resting, InFallback, Shell

\* The servers with SFTP fit after every step.
LEMMA StepSftp ==
  ASSUME TypeOK, Targets, JobInv, SftpInv, [Next]_vars
  PROVE  SftpInv'
<1> SUFFICES ASSUME server' # "shell"
             PROVE  late'.step = "none" /\ \A p \in Procs : SftpFits(p)'
  BY DEF SftpInv
<1>0. /\ UNCHANGED server /\ server # "shell" /\ (link' => link)
      /\ late.step = "none" /\ \A p \in Procs : SftpFits(p)
      /\ refused \in BOOLEAN /\ pc \in [Procs -> Pcs]
      /\ part \in [Procs -> Parts]
  BY StepLink DEF SftpInv, TypeOK
<1>1. ASSUME NEW p \in Procs, pc'[p] = pc[p], part'[p] = part[p], command'[p] = command[p],
             refused => refused'
      PROVE  SftpFits(p)'
  BY <1>0, <1>1 DEF SftpFits
<1>2. CASE JobStep
  <2>1. /\ SftpFits("job")' /\ UNCHANGED <<part, refused, command, late>>
        /\ \A q \in Procs \ {"job"} : pc'[q] = pc[q]
    BY <1>0, <1>2, JobStepSftp, JobStepFits
  <2> QED
    BY <1>0, <1>1, <2>1
<1>3. CASE \E p \in Procs : FileStep(p)
  <2>1. PICK p \in Procs : FileStep(p)
    BY <1>3
  <2>2. /\ SftpFits(p)' /\ UNCHANGED late /\ (refused => refused')
        /\ \A q \in Procs \ {p} :
              pc'[q] = pc[q] /\ part'[q] = part[q] /\ command'[q] = command[q]
    BY <1>0, <2>1, FileStepSftp
  <2> QED
    BY <1>0, <1>1, <2>2
<1>4. CASE Submit
  <2>1. UNCHANGED <<refused, command, late>>
    BY <1>4 DEF Submit
  <2>2. pc' = [pc EXCEPT !["job"] = "next"] /\ part' = [part EXCEPT !["job"] = "none"]
    BY <1>4 DEF Submit, Goto
  <2>3. SftpFits("job")'
    BY <1>0, <2>1, <2>2, JobIsProc DEF SftpFits, Shell, InFallback
  <2> QED
    BY <1>0, <1>1, <2>1, <2>2, <2>3
<1>5. CASE Save
  <2>1. UNCHANGED <<refused, command, late>> /\ "save" \in Procs
    BY <1>5 DEF Save
  <2>2. pc' = [pc EXCEPT !["save"] = "put"] /\ part' = [part EXCEPT !["save"] = "none"]
    BY <1>0, <1>5 DEF Save, Goto
  <2>3. SftpFits("save")'
    BY <1>0, <2>1, <2>2 DEF SftpFits, Shell, InFallback
  <2> QED
    BY <1>0, <1>1, <2>1, <2>2, <2>3
<1>6. CASE Close \/ UNCHANGED vars
  <2>1. UNCHANGED <<pc, part, refused, command, late>>
    BY <1>6 DEF Close, vars
  <2> QED
    BY <1>0, <1>1, <2>1
<1>7. CASE LateRm \/ LateMv \/ \E p \in Procs : ServerStep(p)
  BY <1>0, <1>7 DEF LateRm, LateMv, ServerStep, ServerRm, ServerMv, SftpFits
<1> QED
  BY <1>2, <1>3, <1>4, <1>5, <1>6, <1>7 DEF Next

-----------------------------------------------------------------------------
(* What the part files hold *)

\* What a late command has yet to do, or who may stop it, is not what it moves.
LEMMA LateHolds ==
  ASSUME late \in LateCommands, NEW x,
         late' = [late EXCEPT !.step = x] \/ late' = [late EXCEPT !.by = x]
  PROVE  late'.holds = late.holds
<1>1. CASE late' = [late EXCEPT !.step = x]
  BY <1>1 DEF LateCommands
<1>2. CASE late' = [late EXCEPT !.by = x]
  BY <1>2 DEF LateCommands
<1> QED
  BY <1>1, <1>2

\* A process that is done waiting for a command has none left.
LEMMA FileStepWhole ==
  ASSUME TypeOK, Targets, JobInv, WholeInv, NEW p \in Procs, FileStep(p)
  PROVE  /\ PartFits(p)' /\ late'.holds \in {"none", "whole"}
         /\ \A q \in Procs \ {p} :
              pc'[q] = pc[q] /\ part'[q] = part[q] /\ command'[q] = command[q]
<1>0. /\ pc[p] \in Sending \cup Shell /\ Flow(p) /\ pc \in [Procs -> Pcs]
      /\ part \in [Procs -> Parts] /\ PartFits(p) /\ late.holds \in {"none", "whole"}
      /\ command \in [Procs -> {"none", "rm", "mv", "done", "error"}]
      /\ late \in LateCommands
  BY FileStepFlow DEF TypeOK, WholeInv
<1>1. \A q \in Procs \ {p} : pc'[q] = pc[q]
  BY <1>0, FlowFacts DEF JobInv
<1>2. \A l : On(p, l) => pc'[p] \in {l} \cup (Pcs \ Renaming)
  BY <1>0 DEF On, Goto
<1>3. \A bad \in BOOLEAN : Ended(p, bad) => pc'[p] \in {"over", "next"}
  BY <1>0, ItemDoneFacts DEF Ended, Goto, ItemDone
<1>4. Abort /\ p = "job" => pc'[p] \in Resting
  BY AbortFacts
<1>5. CASE PutPart(p)
  <2>1. /\ UNCHANGED <<late, command>> /\ command[p] \notin {"rm", "mv"}
        /\ \A q \in Procs \ {p} : part'[q] = part[q]
        /\ part'[p] = "whole" \/ On(p, "cleanup")
    BY <1>0, <1>5 DEF PutPart, SftpUnchanged, PartFits
  <2> QED
    BY <1>0, <1>1, <1>2, <2>1 DEF PartFits, Renaming
<1>6. CASE PosixRename(p) \/ Rename(p)
  <2>1. /\ UNCHANGED <<late, command>> /\ command[p] \notin {"rm", "mv"}
        /\ \A q \in Procs \ {p} : part'[q] = part[q]
        /\ part'[p] \in {"none", part[p]} /\ pc[p] \in Renaming
    BY <1>0, <1>6 DEF PosixRename, Rename, Replaces, SftpUnchanged, PartFits, Renaming
  <2> QED
    BY <1>0, <1>1, <2>1 DEF PartFits
<1>7. CASE PosixFails(p) \/ LstatPart(p) \/ LstatTarget(p) \/ RemoveTarget(p)
  <2>1. /\ UNCHANGED <<late, command, part>> /\ command[p] \notin {"rm", "mv"}
        /\ pc[p] \in Renaming
    BY <1>0, <1>7 DEF PosixFails, LstatPart, LstatTarget, RemoveTarget, SftpUnchanged,
       PartFits, Renaming
  <2> QED
    BY <1>0, <1>1, <2>1 DEF PartFits
<1>8. CASE Cleanup(p)
  <2>1. /\ UNCHANGED <<late, command>> /\ command[p] \notin {"rm", "mv"}
        /\ \A q \in Procs \ {p} : part'[q] = part[q]
        /\ pc'[p] \in {"over", "next"} \cup Resting
    BY <1>0, <1>3, <1>4, <1>8 DEF Cleanup, Cancelled, SftpUnchanged, PartFits
  <2> QED
    BY <1>0, <1>1, <2>1 DEF PartFits, Renaming, Resting
<1>9. CASE Scp(p)
  <2>1. /\ UNCHANGED late
        /\ \A q \in Procs \ {p} : part'[q] = part[q] /\ command'[q] = command[q]
    BY <1>0, <1>9 DEF Scp
  <2>2. CASE part' = [part EXCEPT ![p] = "whole"] /\ On(p, "waitCommand")
    BY <1>0, <1>1, <2>1, <2>2 DEF PartFits, On, Goto
  <2>3. CASE UNCHANGED command /\ (\/ (ItemDone(TRUE) /\ p = "job") \/ On(p, "dropPart")
                                    \/ (Abort /\ p = "job"))
    <3>1. pc'[p] \in {"over", "next", "dropPart"} \cup Resting
      BY <1>0, <1>3, <1>4, <2>3 DEF Ended, On, Goto
    <3>2. command[p] \notin {"rm", "mv"}
      BY <1>0, <1>9 DEF Scp, PartFits
    <3> QED
      BY <1>0, <1>1, <2>1, <2>3, <3>1, <3>2 DEF PartFits, Renaming, Resting
  <2> QED
    BY <1>9, <2>2, <2>3 DEF Scp, Cancelled
<1>10. CASE CommandDone(p)
  <2>1. /\ UNCHANGED <<late, part>> /\ command' = [command EXCEPT ![p] = "none"]
        /\ pc[p] = "waitCommand"
    BY <1>10 DEF CommandDone
  <2> QED
    BY <1>0, <1>1, <2>1 DEF PartFits, Renaming
<1>11. CASE CommandGivenUp(p)
  <2>1. /\ UNCHANGED part /\ command' = [command EXCEPT ![p] = "none"]
        /\ pc[p] = "waitCommand"
    BY <1>11 DEF CommandGivenUp
  <2>2. \/ UNCHANGED late
        \/ \E s : late' = [step |-> s, target |-> target[p], holds |-> part[p], by |-> p]
    BY <1>11 DEF CommandGivenUp
  <2>3. late'.holds \in {late.holds, part[p]}
    BY <2>2
  <2> QED
    BY <1>0, <1>1, <2>1, <2>3 DEF PartFits, Renaming
<1>12. CASE DropPart(p)
  <2>1. /\ UNCHANGED command /\ command[p] \notin {"rm", "mv"}
        /\ \A q \in Procs \ {p} : part'[q] = part[q]
    BY <1>0, <1>12 DEF DropPart, PartFits
  <2>2. late'.holds \in {"none", late.holds}
    <3>1. \/ late' \in {late, NothingLate}
          \/ late' = [late EXCEPT !.step = "rm"]
          \/ late' = [late EXCEPT !.by = "nobody"]
      BY <1>12 DEF DropPart
    <3>2. CASE late' \in {late, NothingLate}
      BY <3>2 DEF NothingLate
    <3>3. CASE late' \notin {late, NothingLate}
      BY <1>0, <3>1, <3>3, LateHolds, Zenon
    <3> QED
      BY <3>2, <3>3
  <2>3. pc'[p] \in {"over", "next"} \cup Resting
    BY <1>3, <1>4, <1>12 DEF DropPart, Cancelled
  <2> QED
    BY <1>0, <1>1, <2>1, <2>2, <2>3 DEF PartFits, Renaming, Resting
<1> QED
  BY <1>5, <1>6, <1>7, <1>8, <1>9, <1>10, <1>11, <1>12 DEF FileStep

\* What is about to take a name is whole after every step.
LEMMA StepWhole ==
  ASSUME TypeOK, Targets, JobInv, WholeInv, [Next]_vars
  PROVE  WholeInv'
<1>0. /\ pc \in [Procs -> Pcs] /\ part \in [Procs -> Parts] /\ late \in LateCommands
      /\ command \in [Procs -> {"none", "rm", "mv", "done", "error"}]
      /\ late.holds \in {"none", "whole"} /\ \A p \in Procs : PartFits(p)
  BY DEF TypeOK, WholeInv
<1>1. ASSUME NEW p \in Procs, pc'[p] = pc[p], part'[p] \in {part[p], "none"},
             command'[p] = command[p]
      PROVE  PartFits(p)'
  BY <1>0, <1>1 DEF PartFits
<1>2. CASE JobStep
  <2>1. /\ UNCHANGED <<part, command, late>>
        /\ pc["job"] \in {"next", "tree", "get", "takeAway"}
        /\ pc'["job"] \in Quiet \cup Resting \cup {"put", "scp"}
        /\ \A q \in Procs \ {"job"} : pc'[q] = pc[q]
    BY <1>2, JobStepFits, JobStepPlace
  <2>2. PartFits("job")'
    BY <1>0, <2>1, JobIsProc DEF PartFits, Renaming, Quiet, Resting
  <2> QED
    BY <1>0, <1>1, <2>1, <2>2 DEF WholeInv
<1>3. ASSUME NEW p \in Procs, FileStep(p) PROVE WholeInv'
  <2>1. /\ PartFits(p)' /\ late'.holds \in {"none", "whole"}
        /\ \A q \in Procs \ {p} :
             pc'[q] = pc[q] /\ part'[q] = part[q] /\ command'[q] = command[q]
    BY <1>3, FileStepWhole
  <2> QED
    BY <1>1, <2>1 DEF WholeInv
<1>4. ASSUME NEW p \in Procs, ServerStep(p) PROVE WholeInv'
  <2>1. /\ UNCHANGED <<pc, late>>
        /\ \A q \in Procs : part'[q] \in {part[q], "none"}
        /\ command' \in {[command EXCEPT ![p] = c] : c \in {"mv", "done", "error"}}
        /\ command[p] \in {"rm", "mv"}
    BY <1>0, <1>4 DEF ServerStep, ServerRm, ServerMv, Replaces
  <2>2. PartFits(p)'
    BY <1>0, <2>1 DEF PartFits, Renaming
  <2> QED
    BY <1>0, <1>1, <2>1, <2>2 DEF WholeInv
<1>5. CASE Submit
  <2>1. /\ UNCHANGED <<command, late>> /\ command["job"] = "none"
        /\ pc' = [pc EXCEPT !["job"] = "next"] /\ part' = [part EXCEPT !["job"] = "none"]
    BY <1>5 DEF Submit, Goto
  <2>2. PartFits("job")'
    BY <1>0, <2>1, JobIsProc DEF PartFits, Renaming
  <2> QED
    BY <1>0, <1>1, <2>1, <2>2 DEF WholeInv
<1>6. CASE Save
  <2>1. /\ UNCHANGED <<command, late>> /\ "save" \in Procs /\ pc["save"] \in Resting
        /\ \E l \in {"scp", "put"} : pc' = [pc EXCEPT !["save"] = l]
        /\ part' = [part EXCEPT !["save"] = "none"]
    BY <1>6 DEF Save, Goto
  <2>2. PartFits("save")'
    BY <1>0, <2>1 DEF PartFits, Renaming, Resting
  <2> QED
    BY <1>0, <1>1, <2>1, <2>2 DEF WholeInv
<1>7. CASE Close \/ LateRm \/ LateMv \/ UNCHANGED vars
  <2>1. /\ UNCHANGED <<pc, command>>
        /\ late' \in {late, NothingLate} \/ late' = [late EXCEPT !.step = "mv"]
        /\ UNCHANGED part \/ \E q \in Procs : part' = [part EXCEPT ![q] = "none"]
    BY <1>7 DEF Close, LateRm, LateMv, vars
  <2>2. late'.holds \in {"none", late.holds}
    <3>1. CASE late' \in {late, NothingLate}
      BY <3>1 DEF NothingLate
    <3>2. CASE late' = [late EXCEPT !.step = "mv"]
      BY <1>0, <3>2, LateHolds, Zenon
    <3> QED
      BY <2>1, <3>1, <3>2
  <2>3. \A q \in Procs : part'[q] \in {part[q], "none"}
    BY <1>0, <2>1
  <2> QED
    BY <1>0, <1>1, <2>1, <2>2, <2>3 DEF WholeInv
<1> QED
  BY <1>2, <1>3, <1>4, <1>5, <1>6, <1>7 DEF Next

\* The initial states fit.
LEMMA InitInvariant == Init => IInv
<1> SUFFICES ASSUME Init PROVE IInv
  OBVIOUS
<1>1. /\ pc = [p \in Procs |-> "over"] /\ job = NoJob /\ ~job.move
      /\ command = [p \in Procs |-> "none"] /\ part = [p \in Procs |-> "none"]
      /\ late.step = "none" /\ late.holds = "none" /\ "over" \in Pcs
  BY DEF Init, NoJob, NothingLate, Pcs, Resting
<1>2. TypeOK
  <2>1. /\ server \in {"posix", "plain", "shell"} /\ link \in BOOLEAN /\ refused \in BOOLEAN
        /\ remote \in [Files -> Contents \cup {"absent"}]
        /\ local \in [Files -> {"absent", "mine", "copy", "old"}]
        /\ closing \in {"open", "pending", "delivered"}
    BY DEF Init, Contents
  <2>2. /\ part \in [Procs -> Parts]
        /\ pc \in [Procs -> Pcs]
        /\ command \in [Procs -> {"none", "rm", "mv", "done", "error"}]
    BY <1>1 DEF Parts
  <2>3. target \in [Procs -> Names] /\ job \in Jobs /\ late \in LateCommands
    BY NamesThere DEF Init
  <2> QED
    BY <2>1, <2>2, <2>3 DEF TypeOK
<1>3. Targets
  BY <1>1 DEF Targets, Sending, Shell
<1>4. JobInv
  BY <1>1, JobIsProc DEF JobInv, MoveAsks, AtPath, Once, Distinct, NoJob, Movable, Leaving,
     Uploading, Sending, Shell
<1>5. SftpInv /\ WholeInv
  BY <1>1 DEF SftpInv, SftpFits, InFallback, Shell, WholeInv, PartFits, Renaming
<1> QED
  BY <1>2, <1>3, <1>4, <1>5 DEF IInv

-----------------------------------------------------------------------------
(* The refinement *)

\* No step brings back a posix-rename that was refused.
LEMMA RefusedStays ==
  ASSUME TypeOK, Targets, JobInv, SftpInv, server # "shell", [Next]_vars
  PROVE  refused => refused'
<1>1. CASE JobStep
  BY <1>1, JobStepFits
<1>2. CASE \E p \in Procs : FileStep(p)
  BY <1>2, FileStepSftp
<1>3. CASE Submit \/ Save \/ Close \/ LateRm \/ LateMv \/ UNCHANGED vars
           \/ \E p \in Procs : ServerStep(p)
  BY <1>3 DEF Submit, Save, Close, LateRm, LateMv, ServerStep, ServerRm, ServerMv,
     ShellUnchanged, vars
<1> QED
  BY <1>1, <1>2, <1>3 DEF Next

\* What a step outside the loop of the job does to a file of the register:
\* nothing, a whole content in its place, or its end where the store cannot
\* replace.  Only the first goes together with another state of the server.
Replaceable == server = "posix" /\ ~refused

RegisterStep ==
  \/ UNCHANGED <<remote, local>>
  \/ UNCHANGED <<server, refused>> /\ \E n \in Files : Replace(n, "whole")
  \/ /\ UNCHANGED <<server, refused, local>> /\ ~Replaceable
     /\ \E n \in Files : Store(n, "absent")

LEMMA StepRegister ==
  ASSUME IInv, [Next]_vars, ~JobStep
  PROVE  RegisterStep
<1>0. TypeOK /\ Targets /\ JobInv /\ SftpInv /\ WholeInv
  BY DEF IInv
<1>1. ASSUME NEW p \in Procs, FileStep(p) PROVE RegisterStep
  <2>1. UNCHANGED server /\ (pc[p] \in Sending \cup Shell => target[p] \in Files)
    BY <1>0, <1>1, FileStepFlow DEF Targets
  <2>2. CASE PosixRename(p) \/ Rename(p)
    <3>1. UNCHANGED refused /\ pc[p] \in {"posix", "rename"}
      BY <2>2 DEF PosixRename, Rename
    <3>2. part[p] \in {"none", "whole"}
      BY <1>0, <3>1 DEF WholeInv, PartFits, Renaming
    <3>3. Replaces(p) \/ UNCHANGED <<remote, local>>
      BY <2>2 DEF PosixRename, Rename
    <3>4. Replaces(p) => Replace(target[p], "whole")
      BY <3>2 DEF Replaces, Replace, Contents
    <3> QED
      BY <2>1, <3>1, <3>3, <3>4 DEF RegisterStep, Sending
  <2>3. CASE RemoveTarget(p) /\ remote' # remote
    <3>1. /\ pc[p] = "removeTarget" /\ link /\ Store(target[p], "absent")
          /\ UNCHANGED <<refused, local>>
      BY <2>3 DEF RemoveTarget
    <3>2. ~Replaceable
      BY <1>0, <3>1 DEF Replaceable, SftpInv, SftpFits, InFallback
    <3> QED
      BY <2>1, <3>1, <3>2 DEF RegisterStep, Sending
  <2>4. CASE ~PosixRename(p) /\ ~Rename(p) /\ ~(RemoveTarget(p) /\ remote' # remote)
    BY <1>1, <2>4 DEF FileStep, PutPart, PosixFails, LstatPart, LstatTarget, RemoveTarget,
       Cleanup, Scp, CommandDone, CommandGivenUp, DropPart, RegisterStep
  <2> QED
    BY <2>2, <2>3, <2>4
<1>2. ASSUME NEW p \in Procs, ServerStep(p) PROVE RegisterStep
  <2>1. /\ UNCHANGED <<server, refused>> /\ command[p] \in {"rm", "mv"}
        /\ \/ UNCHANGED <<remote, local>>
           \/ Store(target[p], "absent") /\ UNCHANGED local
           \/ Replace(target[p], part[p])
    BY <1>2 DEF ServerStep, ServerRm, ServerMv, Replaces, ShellUnchanged
  <2>2. pc[p] = "waitCommand" /\ part[p] \in {"none", "whole"}
    BY <1>0, <2>1 DEF WholeInv, PartFits, Renaming
  <2>3. ~Replaceable
    BY <1>0, <2>1 DEF Replaceable, SftpInv, SftpFits
  <2>4. target[p] \in Files
    BY <1>0, <2>2 DEF Targets, Shell
  <2>5. Replace(target[p], part[p]) => Replace(target[p], "whole")
    BY <2>2 DEF Replace, Contents
  <2> QED
    BY <2>1, <2>3, <2>4, <2>5 DEF RegisterStep
<1>3. CASE LateRm \/ LateMv
  <2>1. /\ UNCHANGED <<server, refused>> /\ late.step # "none"
        /\ \/ Store(late.target, "absent") /\ UNCHANGED local
           \/ Replace(late.target, late.holds)
    BY <1>3 DEF LateRm, LateMv
  <2>2. ~Replaceable
    BY <1>0, <2>1 DEF Replaceable, SftpInv
  <2>3. late.target \in Files
    BY <1>0 DEF TypeOK, LateCommands
  <2>4. Replace(late.target, late.holds) => Replace(late.target, "whole")
    BY <1>0 DEF WholeInv, Replace, Contents
  <2> QED
    BY <2>1, <2>2, <2>3, <2>4 DEF RegisterStep
<1>4. CASE Submit \/ Save \/ Close \/ UNCHANGED vars
  BY <1>4 DEF Submit, Save, Close, vars, RegisterStep
<1> QED
  BY <1>1, <1>2, <1>3, <1>4 DEF Next

\* Steps that leave the move where it is, or are none of a move.
SameMove ==
  \/ UNCHANGED job /\ (pc'["job"] = "takeAway" <=> pc["job"] = "takeAway")
  \/ ~job.move /\ ~job'.move

LEMMA StepSameMove ==
  ASSUME IInv, [Next]_vars, ~JobStep, ~Submit
  PROVE  SameMove
<1>0. TypeOK /\ Targets /\ JobInv
  BY DEF IInv
<1>1. ASSUME NEW p \in Procs, FileStep(p) PROVE SameMove
  <2>1. pc[p] \in Sending \cup Shell /\ Flow(p)
    BY <1>0, <1>1, FileStepFlow
  <2>2. /\ \A q \in Procs \ {p} : pc'[q] = pc[q]
        /\ p # "job" => job' = job
        /\ p = "job" => job' = job \/ ~job'.move
    BY <1>0, <2>1, FlowFacts DEF JobInv
  <2>3. p = "job" => ~job.move
    BY <1>0, <2>1 DEF JobInv, AtPath, Uploading
  <2> QED
    BY <2>2, <2>3, JobIsProc DEF SameMove
<1>2. CASE Save
  <2>1. UNCHANGED job /\ pc'["job"] = pc["job"]
    BY <1>0, <1>2, JobIsProc DEF Save, Goto, TypeOK
  <2> QED
    BY <2>1 DEF SameMove
<1>3. CASE Close \/ LateRm \/ LateMv \/ UNCHANGED vars \/ \E p \in Procs : ServerStep(p)
  BY <1>3 DEF Close, LateRm, LateMv, ServerStep, ServerRm, ServerMv, vars, SameMove
<1> QED
  BY <1>1, <1>2, <1>3 DEF Next

\* The files that may be taken away as they are, and those that were replaced
\* since, under such a step.
LEMMA SameFetched ==
  ASSUME TypeOK, SameMove
  PROVE  /\ UNCHANGED local => UNCHANGED <<Fetched("copy"), Fetched("old")>>
         /\ \A n \in Files : Replace(n, "whole") =>
              /\ Fetched("copy")' = Fetched("copy") \ {n}
              /\ Fetched("old")' = Fetched("old") \cup (Fetched("copy") \cap {n})
<1>1. CASE ~job.move /\ ~job'.move
  <2>1. \A c : Fetched(c) = {} /\ Fetched(c)' = {}
    BY <1>1 DEF Fetched
  <2> QED
    BY <2>1
<1>2. CASE UNCHANGED job /\ (pc'["job"] = "takeAway" <=> pc["job"] = "takeAway")
  <2>1. UNCHANGED Handled
    BY <1>2 DEF Handled
  <2>2. UNCHANGED local => UNCHANGED <<Fetched("copy"), Fetched("old")>>
    BY <1>2, <2>1 DEF Fetched
  <2>3. ASSUME NEW n \in Files, Replace(n, "whole")
        PROVE  /\ Fetched("copy")' = Fetched("copy") \ {n}
               /\ Fetched("old")' = Fetched("old") \cup (Fetched("copy") \cap {n})
    <3>1. local' = [local EXCEPT ![n] = IF @ = "copy" THEN "old" ELSE @]
      BY <2>3 DEF Replace
    <3>2. /\ \A m \in Files \ {n} : local'[m] = local[m]
          /\ local'[n] = IF local[n] = "copy" THEN "old" ELSE local[n]
      BY <3>1 DEF TypeOK
    <3> QED
      BY <1>2, <2>1, <3>2 DEF Fetched
  <2> QED
    BY <2>2, <2>3
<1> QED
  BY <1>1, <1>2 DEF SameMove

\* The rest: a job that begins or ends, and a path done without a download.
Forgets == \A c \in {"copy", "old"} : Fetched(c)' \subseteq Fetched(c)

LEMMA NoMoveForgets == ASSUME ~job'.move \/ job'.failed PROVE Forgets
BY DEF Forgets, Fetched

LEMMA SubmitForgets == ASSUME TypeOK, Submit PROVE Forgets /\ UNCHANGED <<remote, server, refused>>
<1>1. job'.queue = job'.sources /\ pc'["job"] = "next"
  BY JobIsProc DEF Submit, Goto, TypeOK
<1>2. Handled' = {}
  BY <1>1 DEF Handled
<1> QED
  BY <1>2 DEF Forgets, Fetched, Submit

\* A path that leaves the queue of a move is a directory, or was downloaded.
LEMMA ItemForgets ==
  ASSUME TypeOK, JobInv, NEW bad \in BOOLEAN, ItemDone(bad), job.queue # <<>>,
         UNCHANGED local, pc["job"] # "takeAway",
         ~job.move \/ bad \/ Head(job.queue) \notin Files
  PROVE  Forgets
<1>1. /\ job'.queue = Tail(job.queue) /\ job'.sources = job.sources /\ job'.move = job.move
      /\ job'.failed = (job.failed \/ bad) /\ pc'["job"] = "next"
  BY ItemDoneFacts
<1>2. PathsOf(job.queue) = {Head(job.queue)} \cup PathsOf(job'.queue)
  BY <1>1, PathsOfQueue DEF TypeOK, Jobs
<1>3. CASE ~job.move \/ bad
  BY <1>1, <1>3, NoMoveForgets
<1>4. CASE Head(job.queue) \notin Files
  <2>1. \A n \in Files : n \in Handled' => n \in Handled
    BY <1>1, <1>2, <1>4 DEF Handled
  <2> QED
    BY <1>1, <2>1 DEF Forgets, Fetched
<1> QED
  BY <1>3, <1>4

\* The loop of a job keeps or forgets, but for two of its steps.
LEMMA JobStepForgets ==
  ASSUME IInv, JobStep, ~TakeAway, ~(GetFile /\ Got("copy") /\ ItemDone(FALSE))
  PROVE  Forgets /\ UNCHANGED <<remote, server, refused>>
<1>0. TypeOK /\ Targets /\ JobInv
  BY DEF IInv
<1>1. UNCHANGED <<remote, local, server, refused>>
  BY DEF JobStep, StatRaises, UploadFresh, AskRaises, UploadConflict, DownloadBegins,
     DownloadSkipped, JobDone, PutTree, GetFile, GetTree, FilesUnchanged, SftpUnchanged,
     GetUnchanged
<1>2. CASE Abort \/ JobOver("over")
  <2>1. ~job'.move
    BY <1>2 DEF Abort, JobOver, NoJob
  <2> QED
    BY <1>1, <2>1, NoMoveForgets
<1>3. CASE NextPath /\ \E n, l : Begin(n, l) /\ l # "takeAway"
  <2>1. UNCHANGED job /\ pc["job"] # "takeAway" /\ pc'["job"] # "takeAway"
    BY <1>0, <1>3, JobIsProc DEF NextPath, Begin, Goto, TypeOK
  <2>2. SameMove
    BY <2>1 DEF SameMove
  <2> QED
    BY <1>0, <1>1, <2>2, SameFetched DEF Forgets
<1>4. CASE JobDone
  <2>1. pc["job"] = "next" /\ job.queue = <<>>
    BY <1>4 DEF JobDone
  <2>2. CASE job.move /\ ~job.failed
    <3>1. /\ pc' = [pc EXCEPT !["job"] = "takeAway"]
          /\ job' = [job EXCEPT !.queue = job.sources]
      BY <1>4, <2>2 DEF JobDone, Goto
    <3>2. /\ pc'["job"] = "takeAway" /\ job'.queue = job.sources
          /\ job'.move = job.move /\ job'.failed = job.failed
      BY <1>0, <3>1, JobIsProc DEF TypeOK, Jobs
    <3>3. PathsOf(job.queue) = {}
      BY <2>1 DEF PathsOf
    <3>4. Handled' = Handled
      BY <2>1, <3>2, <3>3 DEF Handled, PathsOf
    <3> QED
      BY <1>1, <3>2, <3>4 DEF Forgets, Fetched
  <2>3. CASE ~(job.move /\ ~job.failed)
    BY <1>2, <1>4, <2>3 DEF JobDone
  <2> QED
    BY <2>2, <2>3
<1>5. CASE GetFile
  <2>1. pc["job"] = "get" /\ (ItemDone(TRUE) \/ Abort)
    BY <1>5 DEF GetFile
  <2> QED
    BY <1>0, <1>1, <1>2, <2>1, ItemForgets DEF JobInv, AtPath
<1>6. CASE GetTree
  <2>1. /\ pc["job"] = "get" /\ target["job"] \notin Files
        /\ (\E bad \in BOOLEAN : ItemDone(bad)) \/ Abort
    BY <1>6 DEF GetTree
  <2> QED
    BY <1>0, <1>1, <1>2, <2>1, ItemForgets DEF JobInv, AtPath
<1>7. CASE PutTree
  <2>1. pc["job"] = "tree" /\ (ItemDone(server = "shell") \/ Abort)
    BY <1>7 DEF PutTree
  <2>2. CASE ItemDone(server = "shell")
    <3>1. PICK bad \in BOOLEAN : ItemDone(bad)
      BY <2>2
    <3> QED
      BY <1>0, <1>1, <2>1, <3>1, ItemForgets DEF JobInv, AtPath, Uploading
  <2> QED
    BY <1>2, <2>1, <2>2
<1>8. CASE UploadConflict \/ DownloadSkipped
  <2>1. NextPath /\ ~job.move
    BY <1>0, <1>8 DEF UploadConflict, DownloadSkipped, JobInv, MoveAsks
  <2>2. CASE ItemDone(FALSE)
    <3>1. pc["job"] # "takeAway" /\ job.queue # <<>>
      BY <2>1 DEF NextPath
    <3> QED
      BY <1>0, <1>1, <2>1, <2>2, <3>1, ItemForgets
  <2>3. CASE ~ItemDone(FALSE)
    <3>1. \/ Begin(RenamedDestination(ThePath), UploadStep(ThePath))
          \/ Begin(ThePath, UploadStep(ThePath))
      BY <1>8, <2>3 DEF UploadConflict, DownloadSkipped
    <3>2. UploadStep(ThePath) # "takeAway"
      BY DEF UploadStep
    <3> QED
      BY <1>3, <2>1, <3>1, <3>2
  <2> QED
    BY <2>2, <2>3
<1>9. CASE UploadFresh \/ DownloadBegins
  <2>1. UploadStep(ThePath) # "takeAway"
    BY DEF UploadStep
  <2>2. NextPath /\ (Begin(ThePath, UploadStep(ThePath)) \/ Begin(ThePath, "get"))
    BY <1>9 DEF UploadFresh, DownloadBegins
  <2> QED
    BY <1>3, <2>1, <2>2
<1>10. CASE StatRaises \/ AskRaises
  BY <1>2, <1>10 DEF StatRaises, AskRaises
<1> QED
  BY <1>4, <1>5, <1>6, <1>7, <1>8, <1>9, <1>10 DEF JobStep

\* A download of a move is a copy in the store.
LEMMA GetPromised ==
  ASSUME IInv, GetFile, Got("copy"), ItemDone(FALSE)
  PROVE  [Promised!StoreNext]_(Promised!storeVars)
<1> DEFINE n == target["job"]
<1>0. TypeOK /\ Targets /\ JobInv
  BY DEF IInv
<1>1. /\ pc["job"] = "get" /\ n \in Files
      /\ UNCHANGED <<server, refused, remote>> /\ local' = [local EXCEPT ![n] = "copy"]
  BY DEF GetFile, GetUnchanged, Got
<1>2. job.queue # <<>> /\ n = Head(job.queue)
  BY <1>0, <1>1 DEF JobInv, AtPath
<1>3. /\ job'.queue = Tail(job.queue) /\ job'.sources = job.sources /\ job'.move = job.move
      /\ job'.failed = job.failed /\ pc'["job"] = "next"
  <2>1. job.failed \in BOOLEAN
    BY <1>0 DEF TypeOK, Jobs
  <2>2. job'.failed = (job.failed \/ FALSE)
    BY <1>0, <1>2, ItemDoneFacts
  <2>3. /\ job'.queue = Tail(job.queue) /\ job'.sources = job.sources /\ job'.move = job.move
        /\ pc'["job"] = "next"
    BY <1>0, <1>2, ItemDoneFacts
  <2> QED
    BY <2>1, <2>2, <2>3
<1>4. PathsOf(job.queue) = {n} \cup PathsOf(job'.queue) /\ n \notin PathsOf(job'.queue)
  BY <1>0, <1>2, <1>3, PathsOfQueue, DistinctTail DEF TypeOK, Jobs, JobInv, Once
<1>5. /\ Handled = PathsOf(job.sources) \ PathsOf(job.queue)
      /\ Handled' = PathsOf(job.sources) \ PathsOf(job'.queue)
  BY <1>1, <1>3 DEF Handled
<1>6. local'[n] = "copy" /\ \A m \in Files \ {n} : local'[m] = local[m]
  BY <1>0, <1>1 DEF TypeOK
<1> HIDE DEF n
<1>7. Fetched("old")' = Fetched("old")
  BY <1>1, <1>3, <1>4, <1>5, <1>6 DEF Fetched
<1>8. \/ Fetched("copy")' = Fetched("copy")
      \/ ~job.failed /\ Fetched("copy")' = Fetched("copy") \cup {n}
  <2>1. CASE job.move /\ ~job.failed /\ n \in PathsOf(job.sources)
    BY <1>1, <1>3, <1>4, <1>5, <1>6, <2>1 DEF Fetched
  <2>2. CASE ~(job.move /\ ~job.failed /\ n \in PathsOf(job.sources))
    BY <1>1, <1>3, <1>4, <1>5, <1>6, <2>2 DEF Fetched
  <2> QED
    BY <2>1, <2>2
<1>9. CASE Fetched("copy")' = Fetched("copy")
  BY <1>1, <1>7, <1>9 DEF Promised!storeVars
<1>10. CASE ~job.failed /\ Fetched("copy")' = Fetched("copy") \cup {n}
  <2>1. ~ItemDone(TRUE) /\ ~Abort
    <3>1. ~job'.failed /\ pc'["job"] = "next"
      BY <1>3, <1>10
    <3>2. ItemDone(TRUE) => job'.failed
      BY <1>0, <1>2, ItemDoneFacts
    <3>3. Abort => pc'["job"] \in Resting
      BY <1>0, AbortFacts
    <3> QED
      BY <3>1, <3>2, <3>3 DEF Resting
  <2>2. remote[n] # "absent"
    BY <1>1, <2>1 DEF GetFile, Taken, n
  <2> QED
    BY <1>1, <1>7, <1>10, <2>2 DEF Promised!StoreNext, Promised!Copy
<1> QED
  BY <1>8, <1>9, <1>10

\* The end of a move takes away what it has downloaded.
LEMMA TakeAwayPromised ==
  ASSUME IInv, TakeAway
  PROVE  [Promised!StoreNext]_(Promised!storeVars)
<1> DEFINE store == [n \in Files |-> remote[n]]
<1>0. TypeOK /\ Targets /\ JobInv /\ pc["job"] = "takeAway"
      /\ UNCHANGED <<server, refused, local>>
  BY DEF IInv, TakeAway
<1>1. CASE UNCHANGED remote
  <2>1. Forgets
    <3>1. CASE ~job'.move
      BY <3>1, NoMoveForgets
    <3>2. CASE job'.move
      <4>1. job.queue # <<>> /\ UNCHANGED pc /\ job' = [job EXCEPT !.queue = Tail(@)]
        BY <3>2 DEF TakeAway, Abort, JobOver, NoJob
      <4>2. /\ job'.queue = Tail(job.queue) /\ job'.move = job.move
            /\ job'.failed = job.failed /\ job'.sources = job.sources
        BY <1>0, <4>1 DEF TypeOK, Jobs
      <4>3. PathsOf(job'.queue) \subseteq PathsOf(job.queue)
        BY <1>0, <4>1, <4>2, PathsOfQueue DEF TypeOK, Jobs
      <4> QED
        BY <1>0, <4>1, <4>2, <4>3 DEF Forgets, Fetched, Handled
    <3> QED
      BY <3>1, <3>2
  <2> QED
    BY <1>0, <1>1, <2>1 DEF Forgets, Promised!StoreNext, Promised!Forget
<1>2. CASE ~UNCHANGED remote
  <2> DEFINE n == ThePath
  <2>1. job.queue # <<>> /\ n \in Files /\ Store(n, "absent")
    BY <1>2 DEF TakeAway
  <2>2. /\ PathsOf(job.queue) = {n} \cup PathsOf(Tail(job.queue))
        /\ n \notin PathsOf(Tail(job.queue))
    BY <1>0, <2>1, PathsOfQueue, DistinctTail DEF TypeOK, Jobs, JobInv, Once, ThePath
  <2>3. job.queue # <<>> /\ (Abort \/ (UNCHANGED pc /\ job' = [job EXCEPT !.queue = Tail(@)]))
    BY <2>1 DEF TakeAway
  <2>4. \/ ~job'.move
        \/ /\ pc'["job"] = "takeAway" /\ job'.queue = Tail(job.queue) /\ job'.move = job.move
           /\ job'.failed = job.failed
    BY <1>0, <2>3 DEF TypeOK, Jobs, Abort, JobOver, NoJob
  <2>5. \A c \in {"copy", "old"} : Fetched(c)' \subseteq Fetched(c) \ {n}
    BY <1>0, <2>2, <2>4 DEF Fetched, Handled
  <2>6. job.move /\ ~job.failed /\ n \in Handled /\ Here(n)
    BY <1>0, <2>1, <2>2 DEF JobInv, Leaving, Handled, AtPath
  <2>7. n \in Fetched("copy") \cup Fetched("old")
    BY <2>1, <2>6 DEF Fetched, Here
  <2>8. store' = [store EXCEPT ![n] = "absent"]
    BY <1>0, <2>1 DEF Store, TypeOK
  <2> QED
    BY <1>0, <2>1, <2>5, <2>7, <2>8 DEF Promised!StoreNext, Promised!TakeAway
<1> QED
  BY <1>1, <1>2

\* Every step is one of the store, or none to it.
LEMMA StepPromised ==
  ASSUME IInv, [Next]_vars
  PROVE  [Promised!StoreNext]_(Promised!storeVars)
<1> DEFINE store == [n \in Files |-> remote[n]]
<1>0. TypeOK /\ Targets /\ JobInv /\ SftpInv /\ UNCHANGED server
  BY StepLink DEF IInv
<1>1. CASE TakeAway
  BY <1>1, TakeAwayPromised
<1>2. CASE GetFile /\ Got("copy") /\ ItemDone(FALSE)
  BY <1>2, GetPromised
<1>3. CASE Submit \/ (JobStep /\ ~TakeAway /\ ~(GetFile /\ Got("copy") /\ ItemDone(FALSE)))
  <2>1. Forgets /\ UNCHANGED <<remote, server, refused>>
    BY <1>0, <1>3, SubmitForgets, JobStepForgets
  <2> QED
    BY <2>1 DEF Forgets, Promised!StoreNext, Promised!Forget
<1>4. CASE ~JobStep /\ ~Submit
  <2>1. RegisterStep /\ SameMove
    BY <1>4, StepRegister, StepSameMove
  <2>2. CASE UNCHANGED <<remote, local>>
    <3>1. UNCHANGED <<remote, Fetched("copy"), Fetched("old")>>
      BY <1>0, <2>1, <2>2, SameFetched
    <3>2. server = "posix" /\ refused => refused'
      BY <1>0, RefusedStays
    <3>3. CASE Replaceable' = Replaceable
      BY <3>1, <3>3 DEF Replaceable, Promised!storeVars
    <3>4. CASE Replaceable' # Replaceable
      <4>1. Replaceable /\ ~Replaceable'
        BY <1>0, <3>2, <3>4 DEF Replaceable
      <4> QED
        BY <3>1, <4>1 DEF Replaceable, Promised!StoreNext, Promised!Degrade
    <3> QED
      BY <3>3, <3>4
  <2>3. ASSUME NEW n \in Files, Replace(n, "whole"), UNCHANGED <<server, refused>>
        PROVE  [Promised!StoreNext]_(Promised!storeVars)
    <3>1. /\ Fetched("copy")' = Fetched("copy") \ {n}
          /\ Fetched("old")' = Fetched("old") \cup (Fetched("copy") \cap {n})
      BY <1>0, <2>1, <2>3, SameFetched
    <3>2. store' = [store EXCEPT ![n] = "whole"]
      BY <1>0, <2>3 DEF Replace, Store, TypeOK
    <3>3. Promised!Put(n, "whole")
      BY <2>3, <3>1, <3>2 DEF Promised!Put
    <3> QED
      BY <2>3, <3>3 DEF Promised!StoreNext
  <2>4. ASSUME NEW n \in Files, Store(n, "absent"), UNCHANGED <<server, refused, local>>, ~Replaceable
        PROVE  [Promised!StoreNext]_(Promised!storeVars)
    <3>1. UNCHANGED <<Fetched("copy"), Fetched("old")>>
      BY <1>0, <2>1, <2>4, SameFetched
    <3>2. store' = [store EXCEPT ![n] = "absent"]
      BY <1>0, <2>4 DEF Store, TypeOK
    <3>3. Promised!Gap(n)
      BY <2>4, <3>1, <3>2 DEF Replaceable, Promised!Gap
    <3> QED
      BY <2>4, <3>3 DEF Promised!StoreNext
  <2> QED
    BY <2>1, <2>2, <2>3, <2>4 DEF RegisterStep
<1> QED
  BY <1>1, <1>2, <1>3, <1>4

-----------------------------------------------------------------------------
(* Theorems *)

\* The inductive invariant of the transfers.
THEOREM FilesInductive == Spec => []IInv
<1>1. IInv /\ [Next]_vars => IInv'
  BY StepType, StepSftp, StepWhole DEF IInv
<1>2. Init => IInv
  BY InitInvariant
<1> QED
  BY <1>1, <1>2, PTL DEF Spec

\* Every variable of the model of the transfers stays in its type.
THEOREM FilesTypes == Spec => []TypeOK
<1>1. IInv => TypeOK
  BY DEF IInv
<1> QED
  BY FilesInductive, <1>1, PTL

\* Over SFTP a transfer or save that is over and still has its connection has
\* removed its part file, whatever was lost or overtaken on the way, or the
\* server refused that.
THEOREM PartsAreRemoved == Spec => []PartsRemoved
<1>1. IInv => PartsRemoved
  BY DEF IInv, TypeOK, SftpInv, SftpFits, PartsRemoved, Resting, Quiet
<1> QED
  BY FilesInductive, <1>1, PTL

\* Uploads, downloads, moves and saves, in any number and against any of the
\* three kinds of server, implement the store of FileStore.
THEOREM StoreIsImplemented == Spec => FilesAsPromised
<1>1. Init => Promised!StoreInit
  BY DEF Init, NoJob, Promised!StoreInit, Fetched
<1>2. IInv /\ [Next]_vars => [Promised!StoreNext]_(Promised!storeVars)
  BY StepPromised
<1> QED
  BY FilesInductive, <1>1, <1>2, PTL DEF Spec, FilesAsPromised, Promised!StoreSpec
=============================================================================
