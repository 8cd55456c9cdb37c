----------------------------- MODULE RemoteTree -----------------------------
(***************************************************************************)
(* Listing a directory and removing an entry of it, over SFTP and over a   *)
(* shell (builtin/file_manager/backends.py, SftpBackend and                *)
(* ScpShellBackend).  Neither is one step at the register: a listing asks  *)
(* for the names and then for each of them, a removal looks first and      *)
(* removes then, and the register goes on changing meanwhile.              *)
(*                                                                         *)
(* An entry is a file, a directory with or without a file in it, a link to *)
(* a file, or a link to a directory elsewhere, which holds a file too.     *)
(* The shell answers one command after the other (ShellRunner).            *)
(***************************************************************************)
EXTENDS Naturals

CONSTANTS
  EntryNames, \* the names in the directory
  TreeWorks,  \* bound: listings and removals
  TreeChanges \* bound: changes by others

ASSUME TreeAssumption == {TreeWorks, TreeChanges} \subseteq Nat

VARIABLES
  tree,     \* at the register: the entries, which directories are filled, the other directory
  way,      \* "sftp", or the mode of the shell; "bare" is busybox without readlink
  work,     \* the listing or the removal
  touched,  \* entries changed by others since it began
  treeCount \* works and changes so far
treeVars == <<tree, way, work, touched, treeCount>>

EntryKinds == {"file", "dir", "link", "dirlink"}
Ways == {"sftp", "gnu", "busybox", "bare", "ls"}
RowKinds == {"file", "dir", "link", "other", "none"}
NoRows == [e \in EntryNames |-> "none"]
NoWork == [op |-> "none", step |-> "none", of |-> "none", link |-> FALSE,
           recursive |-> FALSE, todo |-> {}, kinds |-> NoRows, rows |-> NoRows]

TreeTypeOK ==
  /\ tree \in [kind: [EntryNames -> EntryKinds \cup {"absent"}],
               filled: SUBSET EntryNames, elsewhere: BOOLEAN]
  /\ way \in Ways /\ touched \subseteq EntryNames
  /\ work.op \in {"none", "list", "remove", "listed"}
  /\ work.step \in {"none", "names", "stat", "readlink", "test", "children", "child", "rmdir", "rm"}
  /\ work.of \in EntryNames \cup {"none"} /\ work.todo \subseteq EntryNames
  /\ {work.link, work.recursive} \subseteq BOOLEAN
  /\ work.rows \in [EntryNames -> RowKinds]
  /\ treeCount \in [works: 0..TreeWorks, changes: 0..TreeChanges]

TreeInit ==
  /\ tree \in [kind: [EntryNames -> EntryKinds \cup {"absent"}],
               filled: {EntryNames}, elsewhere: {TRUE}]
  /\ way \in Ways /\ work = NoWork /\ touched = {}
  /\ treeCount = [works |-> 0, changes |-> 0]

\* Another program at the register.
OthersChange ==
  /\ treeCount.changes < TreeChanges
  /\ treeCount' = [treeCount EXCEPT !.changes = @ + 1]
  /\ \E e \in EntryNames, k \in EntryKinds \cup {"absent"} :
       /\ tree' = [tree EXCEPT !.kind[e] = k, !.filled = @ \cup {e}]
       /\ touched' = touched \cup {e}
  /\ UNCHANGED <<way, work>>

BeginWork ==
  /\ work.op \in {"none", "listed"}
  /\ treeCount.works < TreeWorks
  /\ treeCount' = [treeCount EXCEPT !.works = @ + 1]
  /\ touched' = {}
  /\ UNCHANGED <<tree, way>>

Looks == UNCHANGED <<tree, way, touched, treeCount>>

\* A lost connection, a timeout or an error ends the work.
WorkFails == work.op \notin {"none", "listed"} /\ work' = NoWork /\ Looks

-----------------------------------------------------------------------------
(* What an entry is: _stat_entry, lstat *)

KindOf(e) == tree.kind[e]
IsLink(e) == KindOf(e) \in {"link", "dirlink"}
TestsDir(e) == KindOf(e) \in {"dir", "dirlink"}

\* stat, ls and lstat tell a link from what it leads to.
LooksLike(e) == IF IsLink(e) THEN "link" ELSE KindOf(e)

\* The kind of e is found out.
Found(e, kind) ==
  IF work.op = "list"
  THEN work' = [work EXCEPT !.step = "stat", !.of = "none", !.todo = @ \ {e}, !.rows[e] = kind]
  ELSE IF kind = "dir" /\ ~work.recursive THEN work' = NoWork
  ELSE work' = [work EXCEPT !.kinds[e] = kind,
                  !.step = IF way = "sftp" /\ kind = "dir" THEN "children" ELSE "rm"]

\* It is gone: a listing over the shell leaves it out, a removal fails.
Missing(e) ==
  IF work.op = "list"
  THEN work' = [work EXCEPT !.todo = @ \ {e}, !.rows[e] = IF way = "sftp" THEN "other" ELSE "none"]
  ELSE work' = NoWork

Continue(e, step) == work' = [work EXCEPT !.step = step, !.of = e]

\* In the mode "ls" one command has told of every entry of a listing.
Told(e) == IF way = "ls" /\ work.op = "list" THEN work.kinds[e] ELSE LooksLike(e)

Stat(e) ==
  /\ work.step = "stat" /\ e \in work.todo
  /\ LET kind == Told(e) IN
     IF kind = "absent" THEN Missing(e)
     ELSE CASE way = "sftp" -> Found(e, kind)
            [] way = "busybox" -> Continue(e, "readlink")
            [] way = "bare" -> Continue(e, "test")
            [] way \in {"gnu", "ls"} /\ kind = "link" ->
                 work' = [work EXCEPT !.step = "test", !.of = e, !.link = TRUE]
            [] OTHER -> Found(e, kind)
  /\ Looks

\* build_readlink_command: what is no link, or is gone, prints nothing.
Readlink(e) ==
  /\ work.step = "readlink" /\ work.of = e
  /\ work' = [work EXCEPT !.step = "test", !.link = IsLink(e)]
  /\ Looks

\* build_test_dir_command goes through a link.
TestDir(e) ==
  /\ work.step = "test" /\ work.of = e
  /\ Found(e, IF TestsDir(e) THEN "dir" ELSE IF work.link THEN "link" ELSE "file")
  /\ Looks

-----------------------------------------------------------------------------
(* list_dir *)

ListDir ==
  /\ BeginWork
  /\ work' = [NoWork EXCEPT !.op = "list", !.step = "names"]

AsksNames ==
  /\ work.step = "names"
  /\ work' = [work EXCEPT !.step = "stat",
       !.todo = {e \in EntryNames : KindOf(e) # "absent"},
       !.kinds = [e \in EntryNames |-> LooksLike(e)]]
  /\ touched' = {} /\ UNCHANGED <<tree, way, treeCount>>

Listed ==
  /\ work.op = "list" /\ work.step = "stat" /\ work.todo = {}
  /\ work' = [NoWork EXCEPT !.op = "listed", !.rows = work.rows]
  /\ Looks

-----------------------------------------------------------------------------
(* remove *)

RemoveEntry ==
  /\ BeginWork
  /\ \E e \in EntryNames, r \in BOOLEAN :
       work' = [NoWork EXCEPT !.op = "remove", !.step = "stat", !.todo = {e}, !.recursive = r]

RemovedEntry == CHOOSE e \in work.todo : TRUE
Removing(step) == work.op = "remove" /\ work.step = step
Without(e) == [tree EXCEPT !.kind[e] = "absent"]
RemovalEnds == work' = NoWork /\ UNCHANGED <<way, touched, treeCount>>

\* "rm -rf" unless it was a file; rm takes a link, never what it leads to.
RmShell ==
  /\ Removing("rm") /\ way # "sftp"
  /\ LET e == RemovedEntry IN
     tree' = IF work.kinds[e] = "file" /\ KindOf(e) = "dir" THEN tree ELSE Without(e)
  /\ RemovalEnds

\* SFTP removes files and links; it does not remove a directory.
RmSftp ==
  /\ Removing("rm") /\ way = "sftp"
  /\ LET e == RemovedEntry IN tree' = IF KindOf(e) = "dir" THEN tree ELSE Without(e)
  /\ RemovalEnds

\* listdir goes through a link that has taken the place of the directory.
Holds(e) ==
  CASE KindOf(e) = "dir" -> e \in tree.filled
    [] KindOf(e) = "dirlink" -> tree.elsewhere
    [] OTHER -> FALSE

Children ==
  /\ Removing("children")
  /\ LET e == RemovedEntry IN
     IF ~TestsDir(e) THEN work' = NoWork
     ELSE work' = [work EXCEPT !.step = IF Holds(e) THEN "child" ELSE "rmdir"]
  /\ Looks

RmChild ==
  /\ Removing("child")
  /\ LET e == RemovedEntry IN
     IF ~Holds(e) THEN work' = NoWork /\ UNCHANGED tree
     ELSE /\ work' = [work EXCEPT !.step = "rmdir"]
          /\ tree' = IF KindOf(e) = "dir" THEN [tree EXCEPT !.filled = @ \ {e}]
                     ELSE [tree EXCEPT !.elsewhere = FALSE]
  /\ UNCHANGED <<way, touched, treeCount>>

RmDir ==
  /\ Removing("rmdir")
  /\ LET e == RemovedEntry IN
     tree' = IF KindOf(e) = "dir" /\ e \notin tree.filled THEN Without(e) ELSE tree
  /\ RemovalEnds

TreeNext ==
  \/ OthersChange \/ WorkFails
  \/ ListDir \/ AsksNames \/ Listed \/ RemoveEntry
  \/ \E e \in EntryNames : Stat(e) \/ Readlink(e) \/ TestDir(e)
  \/ RmShell \/ RmSftp \/ Children \/ RmChild \/ RmDir

TreeSpec == TreeInit /\ [][TreeNext]_treeVars

-----------------------------------------------------------------------------
\* A listing shows of every entry nobody touched meanwhile what it is; over the
\* shell a link to a directory is shown as one, and without readlink every other
\* link as a file (list_dir, _stat_entry).
ShownKind(e) ==
  CASE KindOf(e) = "absent" -> "none"
    [] KindOf(e) = "dirlink" /\ way # "sftp" -> "dir"
    [] KindOf(e) = "link" /\ way = "bare" -> "file"
    [] OTHER -> LooksLike(e)

UntouchedIsShown ==
  work.op = "listed" => \A e \in EntryNames \ touched : work.rows[e] = ShownKind(e)

\* A removal takes nothing but the entry it was asked for, what a link leads to
\* never, and a directory with something in it only if it was confirmed; unless
\* others exchange the entry between the look and the removal.
RemovalIsBounded ==
  [][work.op = "remove" /\ RemovedEntry \notin touched =>
       LET e == RemovedEntry IN
       /\ tree'.elsewhere = tree.elsewhere
       /\ \A o \in EntryNames \ {e} : tree'.kind[o] # tree.kind[o] => o \in touched'
       /\ tree.kind[e] = "dir" /\ tree'.kind[e] = "absent" /\ e \notin touched' => work.recursive]_treeVars

\* "What vanished is left out" holds over the shell only: over SFTP an entry that
\* is gone by the time it is asked for is listed as a special file.
VanishedIsGone == \A e \in EntryNames : work.rows[e] # "other"

\* The same, while others change the register: the look and the removal are two
\* steps, and over SFTP a link put there between them is followed.
ElsewhereIsSafe == tree.elsewhere
=============================================================================
