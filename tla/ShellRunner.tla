----------------------------- MODULE ShellRunner -----------------------------
(***************************************************************************)
(* The one shell through which a register without SFTP is browsed          *)
(* (builtin/file_manager/backends.py, SSHShellRunner and the probing of    *)
(* ScpShellBackend).  Coroutines share the shell under a lock.  A command  *)
(* is framed by a token of its own; what is read before the token is its   *)
(* output.  A command that gets no answer in time costs the shell: it is   *)
(* dropped, and the next command opens another.  An SCP transfer holds the *)
(* lock without using the shell.                                           *)
(*                                                                         *)
(* The register prints a line and then the token for each command it is    *)
(* given, late or never.  No coroutine is cancelled while it reads: the    *)
(* callers end such work by closing the connection.                        *)
(***************************************************************************)
EXTENDS Naturals, Sequences

CONSTANTS
  Browsers,  \* coroutines that browse or transfer
  NoBrowser, \* the lock is free
  Frames     \* bound: commands written

ASSUME ShellAssumption == NoBrowser \notin Browsers /\ Frames \in Nat

VARIABLES
  shellHost,  \* what the register can do
  shell,      \* the connection, the process the runner keeps, its two streams
  shellLock,  \* who holds _lock
  frames,     \* _seq
  shellMode,  \* _mode and _has_readlink of the backend
  browsing    \* each coroutine: where it is, its command, what it has read
shellVars == <<shellHost, shell, shellLock, frames, shellMode, browsing>>

HostModes == {"gnu", "busybox", "ls", "nothing"}
Probes == {"gnu", "busybox", "readlink", "ls"}
Doings == Probes \cup {"names", "scp"}
CallEnds == {"none", "answered", "failed"}

ShellTypeOK ==
  /\ shellHost \in [mode: HostModes, readlink: BOOLEAN]
  /\ DOMAIN shell = {"link", "kept", "ended", "typed", "out"}
  /\ {shell.link, shell.kept, shell.ended} \subseteq BOOLEAN
  /\ \A i \in DOMAIN shell.typed : shell.typed[i].of \in 1..Frames
  /\ \A i \in DOMAIN shell.out :
       shell.out[i].of \in 1..Frames /\ shell.out[i].line \in {"text", "token"}
  /\ shellLock \in Browsers \cup {NoBrowser} /\ frames \in 0..Frames
  /\ shellMode \in [mode: HostModes \cup {"unknown"}, readlink: BOOLEAN]
  /\ \A b \in Browsers :
       /\ browsing[b].at \in {"idle", "wants", "opens", "reads", "transfers"}
       /\ browsing[b].doing \in Doings /\ browsing[b].end \in CallEnds
       /\ browsing[b].seq \in 0..Frames /\ browsing[b].read \in Seq(0..Frames)

NoCall == [at |-> "idle", doing |-> "names", seq |-> 0, read |-> <<>>, end |-> "none"]

ShellInit ==
  /\ shellHost \in [mode: HostModes, readlink: BOOLEAN]
  /\ shell = [link |-> TRUE, kept |-> FALSE, ended |-> FALSE, typed |-> <<>>, out |-> <<>>]
  /\ shellLock = NoBrowser /\ frames = 0
  /\ shellMode = [mode |-> "unknown", readlink |-> TRUE]
  /\ browsing = [b \in Browsers |-> NoCall]

-----------------------------------------------------------------------------
(* Callers *)

\* The probe of the backend comes first until its mode is known.
Asks(b, doing) ==
  browsing' = [browsing EXCEPT ![b] = [NoCall EXCEPT !.at = "wants", !.doing = doing]]

FirstOf(mode) == IF mode = "unknown" THEN "gnu" ELSE "names"

StartsBrowsing(b) ==
  /\ browsing[b].at = "idle" /\ Asks(b, FirstOf(shellMode.mode))
  /\ UNCHANGED <<shellHost, shell, shellLock, frames, shellMode>>

StartsTransfer(b) ==
  /\ browsing[b].at = "idle" /\ Asks(b, "scp")
  /\ UNCHANGED <<shellHost, shell, shellLock, frames, shellMode>>

-----------------------------------------------------------------------------
(* run *)

\* The process is of use until the end of its output has been read.
Alive == shell.kept /\ shell.link /\ ~(shell.ended /\ shell.out = <<>>)

WriteFrame(b, s) ==
  /\ frames < Frames /\ frames' = frames + 1
  /\ shell' = [s EXCEPT !.typed =
       IF s.ended THEN @ ELSE Append(@, [of |-> frames + 1, printed |-> FALSE])]
  /\ browsing' = [browsing EXCEPT ![b].at = "reads", ![b].seq = frames + 1]

ShellDropped == [shell EXCEPT !.kept = FALSE, !.ended = FALSE, !.typed = <<>>, !.out = <<>>]

TakeLock(b) ==
  /\ browsing[b].at = "wants" /\ shellLock = NoBrowser
  /\ shellLock' = b
  /\ \/ /\ browsing[b].doing = "scp"
        /\ browsing' = [browsing EXCEPT ![b].at = "transfers"]
        /\ UNCHANGED <<shell, frames>>
     \/ browsing[b].doing # "scp" /\ Alive /\ WriteFrame(b, shell)
     \/ /\ browsing[b].doing # "scp" /\ ~Alive
        /\ browsing' = [browsing EXCEPT ![b].at = "opens"] /\ shell' = ShellDropped
        /\ UNCHANGED frames
  /\ UNCHANGED <<shellHost, shellMode>>

CallFails(b) ==
  /\ shellLock' = NoBrowser
  /\ browsing' = [browsing EXCEPT ![b] = [NoCall EXCEPT !.end = "failed"]]
  /\ UNCHANGED <<shellHost, frames, shellMode>>

ShellOpens(b) ==
  /\ browsing[b].at = "opens" /\ shell.link
  /\ WriteFrame(b, [shell EXCEPT !.kept = TRUE])
  /\ UNCHANGED <<shellHost, shellLock, shellMode>>

\* create_process is refused, the connection being lost or not.
OpenRefused(b) == browsing[b].at = "opens" /\ CallFails(b) /\ UNCHANGED shell

\* It hangs: the whole connection is closed.
OpenHangs(b) ==
  browsing[b].at = "opens" /\ CallFails(b) /\ shell' = [shell EXCEPT !.link = FALSE]

\* The time is over, or the connection is lost: _abort drops the shell.
GiveUp(b) == browsing[b].at = "reads" /\ CallFails(b) /\ shell' = ShellDropped

TransferEnds(b) ==
  /\ browsing[b].at = "transfers" /\ shellLock' = NoBrowser
  /\ \E e \in {"answered", "failed"} :
       browsing' = [browsing EXCEPT ![b] = [NoCall EXCEPT !.end = e]]
  /\ UNCHANGED <<shellHost, shell, frames, shellMode>>

-----------------------------------------------------------------------------
(* Answers *)

\* Does the register do what a command asks for?
HostCan(doing) ==
  CASE doing = "gnu" -> shellHost.mode = "gnu"
    [] doing = "busybox" -> shellHost.mode \in {"gnu", "busybox"}
    [] doing = "readlink" -> shellHost.readlink
    [] OTHER -> shellHost.mode # "nothing"

\* Only the answer to the probe for GNU is compared as a whole.
Succeeds(b, text) ==
  /\ HostCan(browsing[b].doing)
  /\ browsing[b].doing = "gnu" => Len(text) = 1

Continues(b, doing, mode) == Asks(b, doing) /\ shellMode' = mode

\* What follows a probe; the mode is known before the probe for readlink ends.
ProbeAnswered(b, ok) ==
  CASE browsing[b].doing = "gnu" ->
         IF ok THEN Continues(b, "names", [shellMode EXCEPT !.mode = "gnu"])
         ELSE Continues(b, "busybox", shellMode)
    [] browsing[b].doing = "busybox" ->
         IF ok THEN Continues(b, "readlink", [shellMode EXCEPT !.mode = "busybox"])
         ELSE Continues(b, "ls", shellMode)
    [] browsing[b].doing = "readlink" -> Continues(b, "names", [shellMode EXCEPT !.readlink = ok])
    [] browsing[b].doing = "ls" /\ ok -> Continues(b, "names", [shellMode EXCEPT !.mode = "ls"])
    [] OTHER ->
         /\ browsing' = [browsing EXCEPT ![b].at = "idle",
                           ![b].end = IF ok THEN "answered" ELSE "failed"]
         /\ UNCHANGED shellMode

\* A line is text unless it is the token of this command.
ReadsLine(b) ==
  /\ browsing[b].at = "reads" /\ shell.out # <<>>
  /\ shell' = [shell EXCEPT !.out = Tail(@)]
  /\ LET line == Head(shell.out) IN
     IF line = [of |-> browsing[b].seq, line |-> "token"]
     THEN /\ ProbeAnswered(b, Succeeds(b, browsing[b].read))
          /\ shellLock' = NoBrowser
     ELSE /\ browsing' = [browsing EXCEPT ![b].read = Append(@, line.of)]
          /\ UNCHANGED <<shellLock, shellMode>>
  /\ UNCHANGED <<shellHost, frames>>

-----------------------------------------------------------------------------
(* The register *)

HostPrints ==
  /\ shell.kept /\ shell.link /\ ~shell.ended /\ shell.typed # <<>>
  /\ LET c == Head(shell.typed) IN
     shell' = IF c.printed
              THEN [shell EXCEPT !.typed = Tail(@),
                                 !.out = Append(@, [of |-> c.of, line |-> "token"])]
              ELSE [shell EXCEPT !.typed[1].printed = TRUE,
                                 !.out = Append(@, [of |-> c.of, line |-> "text"])]
  /\ UNCHANGED <<shellHost, shellLock, frames, shellMode, browsing>>

\* The shell ends at the register; the runner sees it when it looks again.
ShellCloses ==
  /\ shell.kept /\ ~shell.ended
  /\ shell' = [shell EXCEPT !.ended = TRUE, !.typed = <<>>]
  /\ UNCHANGED <<shellHost, shellLock, frames, shellMode, browsing>>

ShellLinkLost ==
  /\ shell.link /\ shell' = [shell EXCEPT !.link = FALSE]
  /\ UNCHANGED <<shellHost, shellLock, frames, shellMode, browsing>>

BrowserStep(b) ==
  \/ StartsBrowsing(b) \/ StartsTransfer(b) \/ TakeLock(b) \/ ShellOpens(b) \/ OpenRefused(b)
  \/ OpenHangs(b) \/ ReadsLine(b) \/ GiveUp(b) \/ TransferEnds(b)

ShellNext ==
  \/ \E b \in Browsers : BrowserStep(b)
  \/ HostPrints \/ ShellCloses \/ ShellLinkLost

ShellSpec == ShellInit /\ [][ShellNext]_shellVars

-----------------------------------------------------------------------------
\* What a coroutine reads is the output of its own command, whoever used the
\* shell before and however that ended (run, _abort).
OutputIsOwn ==
  \A b \in Browsers : \A i \in DOMAIN browsing[b].read :
    browsing[b].read[i] = browsing[b].seq

\* The mode the backend settles on is what the register can do, and readlink is
\* given up only where it is missing (_probe by several coroutines at once).
ModeIsHosts ==
  /\ shellMode.mode \in {"unknown", shellHost.mode}
  /\ shellHost.readlink => shellMode.readlink

\* While a transfer runs no command of the shell does (transfer_section).
TransferIsAlone ==
  (\E b \in Browsers : browsing[b].at = "transfers") =>
    /\ shell.typed = <<>>
    /\ \A b \in Browsers : browsing[b].at \notin {"opens", "reads"}

\* "The interactive shell ended at the server": `line is None` stands for the end
\* of the output, which is b"", so the error is never raised; readline returns at
\* once and the loop spins until the deadline without giving the event loop back.
EndIsTold ==
  \A b \in Browsers : browsing[b].at = "reads" => ~(shell.ended /\ shell.out = <<>>)
=============================================================================
