------------------------------- MODULE Login -------------------------------
(***************************************************************************)
(* How the sessions of one cash register log in: SSHSession.connect        *)
(* (core/ssh.py), DBSession.connect (core/db.py) and the PasswordManager   *)
(* they share.  Passwords are tried in order, the one that worked last     *)
(* time first; a wrong password leads to the next one, any other failure   *)
(* ends the attempt.  SSH trusts the host key on first use: the key of the *)
(* first connection is written to known_hosts, that connection is closed   *)
(* and the register is dialled again with verification.                    *)
(*                                                                         *)
(* An action is what connect() does from one await to the next.  Sessions  *)
(* of several tabs and of the set-up wizard run at the same time, and the  *)
(* settings, the known_hosts file and the register itself can change       *)
(* between two awaits.  A known_hosts that cannot be read before the first *)
(* dial ends connect() before it changes anything, and is left out.        *)
(***************************************************************************)
EXTENDS Naturals, Sequences, Functions

CONSTANTS
  SshSessions, DbSessions,  \* SSHSession and DBSession objects of one host
  Keys,                     \* host keys the register has had
  Configs,                  \* lists of passwords the operator may save
  MaxLogins,                \* bound: calls of connect()
  MaxReflash, MaxSaves,     \* bounds: changes of the key and of the settings
  MaxLines,                 \* bound: lines of known_hosts that repeat another
  None                      \* no connection, no cached password

ASSUME LoginAssumption ==
  /\ SshSessions \cap DbSessions = {}
  /\ Keys # {} /\ None \notin [verified : BOOLEAN, open : BOOLEAN]
  /\ \A c \in Configs : c \in Seq(Range(c)) /\ None \notin Range(c)
  /\ <<>> \in Configs
  /\ {MaxLogins, MaxReflash, MaxSaves, MaxLines} \subseteq Nat

Sessions == SshSessions \cup DbSessions
Kinds == {"ssh", "db"}
Kind(s) == IF s \in SshSessions THEN "ssh" ELSE "db"
Passwords == UNION {Range(c) : c \in Configs}

VARIABLES
  serverKey,  \* the host key the register presents now
  reflashed,  \* how often it has changed
  known,      \* the lines of known_hosts for this host, oldest first
  config,     \* the saved passwords of each kind
  saves,      \* how often they have been saved
  cache,      \* PasswordManager._success_cache for this host
  logins,     \* how often connect() was called
  pc,         \* where connect() is: the await it is at, or "idle"
  first,      \* its local first_contact
  gen,        \* its generator of passwords: the list, the cached one, the place
  conn,       \* self._conn: how it was dialled, and whether it is open
  live,       \* open connections to the register made by this object
  exhausted,  \* its last connect() failed with every password refused
  untried     \* configured passwords that connect() has not tried yet

vars == <<serverKey, reflashed, known, config, saves, cache, logins, pc, first,
          gen, conn, live, exhausted, untried>>

Connections == [verified : BOOLEAN, open : BOOLEAN] \cup {None}
Awaits == {"dial", "close", "redial", "giveUp"}

\* get_passwords_for_ip suspended at a yield: of `cached` at place 0, then of
\* the members of `list`.
Generators == [list : Configs, cached : Passwords \cup {None}, at : Nat]
NoGenerator == [list |-> <<>>, cached |-> None, at |-> 0]

TypeOK ==
  /\ serverKey \in Keys
  /\ reflashed \in 0..MaxReflash
  /\ known \in Seq(Keys)
  /\ config \in [Kinds -> Configs]
  /\ saves \in 0..MaxSaves
  /\ cache \in [Kinds -> Passwords \cup {None}]
  /\ logins \in 0..MaxLogins
  /\ pc \in [Sessions -> {"idle"} \cup Awaits]
  /\ first \in [Sessions -> BOOLEAN]
  /\ gen \in [Sessions -> Generators]
  /\ conn \in [Sessions -> Connections]
  /\ live \in [Sessions -> Nat]
  /\ exhausted \in [Sessions -> BOOLEAN]
  /\ untried \in [Sessions -> SUBSET Passwords]

Init ==
  /\ serverKey \in Keys
  /\ reflashed = 0
  /\ known = <<>>
  /\ config \in [Kinds -> Configs]
  /\ saves = 0
  /\ cache = [k \in Kinds |-> None]
  /\ logins = 0
  /\ pc = [s \in Sessions |-> "idle"]
  /\ first = [s \in Sessions |-> FALSE]
  /\ gen = [s \in Sessions |-> NoGenerator]
  /\ conn = [s \in Sessions |-> None]
  /\ live = [s \in Sessions |-> 0]
  /\ exhausted = [s \in Sessions |-> FALSE]
  /\ untried = [s \in Sessions |-> {}]

-----------------------------------------------------------------------------
(* PasswordManager *)

\* The configured list; the database falls back to the SSH passwords.
Configured(k) ==
  IF k = "db" /\ config[k] = <<>> THEN config["ssh"] ELSE config[k]

\* get_passwords_for_ip up to its first yield: the cached password comes first,
\* if it is still configured.
Offer(k) ==
  IF cache[k] \in Range(Configured(k))
    THEN [list |-> Configured(k), cached |-> cache[k], at |-> 0]
    ELSE [list |-> Configured(k), cached |-> None, at |-> 1]

Current(g) == IF g.at = 0 THEN g.cached ELSE g.list[g.at]

\* Mutant: after the cached password nothing is yielded.
OthersForgotten(g) == {i \in g.at+1..Len(g.list) : g.cached = None}

\* The places it will still yield from.
Others(g) == {i \in g.at+1..Len(g.list) : g.list[i] # g.cached}

-----------------------------------------------------------------------------
(* connect() *)

IsOpen(s) == conn[s] # None /\ conn[s].open

\* connect() returns or raises: its locals are gone, self._conn stays as it is.
Leave(s) ==
  /\ pc' = [pc EXCEPT ![s] = "idle"]
  /\ first' = [first EXCEPT ![s] = FALSE]
  /\ gen' = [gen EXCEPT ![s] = NoGenerator]
  /\ untried' = [untried EXCEPT ![s] = {}]

\* "SSH connection failed": no password is left.
Exhaust(s) ==
  /\ pc' = [pc EXCEPT ![s] = "idle"]
  /\ first' = [first EXCEPT ![s] = FALSE]
  /\ gen' = [gen EXCEPT ![s] = NoGenerator]
  /\ exhausted' = [exhausted EXCEPT ![s] = TRUE]

\* Up to the first dial.  A connection that is open is kept; an empty list of
\* passwords fails without an attempt.
Connect(s) ==
  /\ pc[s] = "idle" /\ ~IsOpen(s)
  /\ logins < MaxLogins
  /\ logins' = logins + 1
  /\ untried' = [untried EXCEPT ![s] = Range(Configured(Kind(s)))]
  /\ IF Configured(Kind(s)) = <<>>
       THEN Exhaust(s)
       ELSE /\ pc' = [pc EXCEPT ![s] = "dial"]
            /\ first' = [first EXCEPT ![s] = s \in SshSessions /\ known = <<>>]
            /\ gen' = [gen EXCEPT ![s] = Offer(Kind(s))]
            /\ exhausted' = [exhausted EXCEPT ![s] = FALSE]
  /\ UNCHANGED <<serverKey, reflashed, known, config, saves, cache, conn, live>>

\* _dial is at its await, and whether it verifies the key of the register.
Dialling(s) == pc[s] \in {"dial", "redial"}
Verifies(s) == s \in SshSessions /\ (pc[s] = "redial" \/ ~first[s])
KeyAccepted(s) == Verifies(s) => serverKey \in Range(known)

\* Mutant: the same password again.
RefusedRepeats(s) ==
  /\ Dialling(s) /\ KeyAccepted(s)
  /\ untried' = [untried EXCEPT ![s] = untried[s] \ {Current(gen[s])}]
  /\ pc' = [pc EXCEPT ![s] = "dial"]
  /\ UNCHANGED <<serverKey, reflashed, known, config, saves, cache, logins,
                 conn, live, first, gen, exhausted>>

\* PermissionDenied, InvalidPasswordError: the next password, first_contact
\* and verify_host_key as they were.
Refused(s) ==
  /\ Dialling(s) /\ KeyAccepted(s)
  /\ untried' = [untried EXCEPT ![s] = untried[s] \ {Current(gen[s])}]
  /\ \/ Others(gen[s]) = {} /\ Exhaust(s)
     \/ \E i \in Others(gen[s]) :
          /\ \A j \in Others(gen[s]) : i <= j
          /\ gen' = [gen EXCEPT ![s].at = i]
          /\ pc' = [pc EXCEPT ![s] = "dial"]
          /\ UNCHANGED <<first, exhausted>>
  /\ UNCHANGED <<serverKey, reflashed, known, config, saves, cache, logins,
                 conn, live>>

\* HostKeyNotVerifiable: no other password is tried.
Mismatch(s) ==
  /\ Dialling(s) /\ ~KeyAccepted(s)
  /\ Leave(s)
  /\ UNCHANGED <<serverKey, reflashed, known, config, saves, cache, logins,
                 conn, live, exhausted>>

\* A timeout of the dial or any other error: no other password is tried.
Unreachable(s) ==
  /\ Dialling(s)
  /\ Leave(s)
  /\ UNCHANGED <<serverKey, reflashed, known, config, saves, cache, logins,
                 conn, live, exhausted>>

\* _record_host_key: a line that is there is not written again, unless the file
\* cannot be read just then, which is only logged.
Record(key) ==
  \/ key \in Range(known) /\ UNCHANGED known
  \/ /\ key \in Range(known) => Len(known) < MaxLines
     /\ known' = Append(known, key)

\* Mutant: the connection of the first contact is used.
FirstContactKept(s) ==
  /\ pc[s] = "dial" /\ first[s]
  /\ conn' = [conn EXCEPT ![s] = [verified |-> FALSE, open |-> TRUE]]
  /\ live' = [live EXCEPT ![s] = live[s] + 1]
  /\ Record(serverKey)
  /\ Leave(s)
  /\ UNCHANGED <<serverKey, reflashed, config, saves, cache, logins, exhausted>>

\* Mutant: `finally` is missing, a failed write leaves the connection open.
FirstContactLeaks(s) ==
  /\ pc[s] = "dial" /\ first[s]
  /\ \/ /\ conn' = [conn EXCEPT ![s] = [verified |-> FALSE, open |-> FALSE]]
        /\ Record(serverKey)
        /\ pc' = [pc EXCEPT ![s] = "close"]
        /\ UNCHANGED <<live, first, gen, untried>>
     \/ /\ live' = [live EXCEPT ![s] = live[s] + 1]
        /\ Leave(s)
        /\ UNCHANGED <<known, conn>>
  /\ UNCHANGED <<serverKey, reflashed, config, saves, cache, logins, exhausted>>

\* The unverified connection of the first contact: its key is recorded and it
\* is closed at once, also when the key cannot be written.
FirstContact(s) ==
  /\ pc[s] = "dial" /\ first[s]
  /\ conn' = [conn EXCEPT ![s] = [verified |-> FALSE, open |-> FALSE]]
  /\ \/ Record(serverKey) /\ pc' = [pc EXCEPT ![s] = "close"]
     \/ UNCHANGED known /\ pc' = [pc EXCEPT ![s] = "giveUp"]
  /\ UNCHANGED <<serverKey, reflashed, config, saves, cache, logins, first,
                 gen, live, exhausted, untried>>

\* wait_closed() is over: the register is dialled again, or connect() fails.
FirstClosed(s) ==
  /\ \/ /\ pc[s] = "close" /\ pc' = [pc EXCEPT ![s] = "redial"]
        /\ UNCHANGED <<first, gen, untried>>
     \/ pc[s] = "giveUp" /\ Leave(s)
  /\ UNCHANGED <<serverKey, reflashed, known, config, saves, cache, logins,
                 conn, live, exhausted>>

\* The connection becomes self._conn and its password is tried first next time.
Accepted(s) ==
  /\ Dialling(s) /\ KeyAccepted(s)
  /\ pc[s] = "dial" => ~first[s]
  /\ conn' = [conn EXCEPT ![s] = [verified |-> Verifies(s), open |-> TRUE]]
  /\ live' = [live EXCEPT ![s] = live[s] + 1]
  /\ cache' = [cache EXCEPT ![Kind(s)] = Current(gen[s])]
  /\ Leave(s)
  /\ UNCHANGED <<logins, serverKey, reflashed, known, config, saves, exhausted>>

\* The wait_for around connect() runs out, or its task is cancelled; asyncssh
\* and asyncpg close a connection they were still making.
ConnectCancelled(s) ==
  /\ pc[s] \in Awaits
  /\ Leave(s)
  /\ UNCHANGED <<serverKey, reflashed, known, config, saves, cache, logins,
                 conn, live, exhausted>>

-----------------------------------------------------------------------------
(* The end of a connection, and what changes around the sessions *)

\* abort() at any moment and disconnect(): closed, and forgotten.
HangUp(s) ==
  /\ conn[s] # None
  /\ conn' = [conn EXCEPT ![s] = None]
  /\ live' = IF IsOpen(s) THEN [live EXCEPT ![s] = live[s] - 1] ELSE live
  /\ UNCHANGED <<serverKey, reflashed, known, config, saves, cache, logins, pc,
                 first, gen, exhausted, untried>>

\* The register drops the connection: self._conn stays, is_closed() is true.
LinkLost(s) ==
  /\ IsOpen(s)
  /\ conn' = [conn EXCEPT ![s].open = FALSE]
  /\ live' = [live EXCEPT ![s] = live[s] - 1]
  /\ UNCHANGED <<serverKey, reflashed, known, config, saves, cache, logins, pc,
                 first, gen, exhausted, untried>>

\* The settings are saved, or the wizard lends its own for a test.
SaveSettings ==
  /\ saves < MaxSaves
  /\ saves' = saves + 1
  /\ config' \in [Kinds -> Configs]
  /\ UNCHANGED <<serverKey, reflashed, known, cache, logins, pc, first, gen,
                 conn, live, exhausted, untried>>

\* clear_cache(ip), at the end of the wizard's test.
ClearCache ==
  /\ cache' = [k \in Kinds |-> None]
  /\ UNCHANGED <<logins, serverKey, reflashed, known, config, saves, pc, first,
                 gen, conn, live, exhausted, untried>>

\* The register gets another key; the operator removes the host's lines.
Reflash ==
  /\ reflashed < MaxReflash
  /\ reflashed' = reflashed + 1
  /\ serverKey' \in Keys \ {serverKey}
  /\ UNCHANGED <<known, config, saves, cache, logins, pc, first, gen, conn,
                 live, exhausted, untried>>

ForgetHost ==
  /\ known # <<>>
  /\ known' = <<>>
  /\ UNCHANGED <<serverKey, reflashed, config, saves, cache, logins, pc, first,
                 gen, conn, live, exhausted, untried>>

-----------------------------------------------------------------------------

LoginStep(s) ==
  \/ Refused(s) \/ Mismatch(s) \/ Unreachable(s) \/ FirstContact(s)
  \/ FirstClosed(s) \/ Accepted(s) \/ ConnectCancelled(s)

Next ==
  \/ \E s \in Sessions : Connect(s) \/ LoginStep(s) \/ HangUp(s) \/ LinkLost(s)
  \/ SaveSettings \/ ClearCache \/ Reflash \/ ForgetHost

Spec == Init /\ [][Next]_vars

\* Every await of connect() is under a timeout: the dials under one of their own,
\* the close of the first contact under that of CashSession.connect.
Fairness == \A s \in Sessions : WF_vars(LoginStep(s))

FairSpec == Spec /\ Fairness

-----------------------------------------------------------------------------
(* Properties *)

\* No connection to the register is open but the one in self._conn, whatever
\* failed or was cancelled on the way: abort() and disconnect() reach it.
OpenIsOwned == \A s \in Sessions : live[s] = IF IsOpen(s) THEN 1 ELSE 0

\* "From then on the connection is always verified": the SSH connection that
\* is used was made with verification, also on the very first contact, and
\* with several first contacts at the same time.
OpenIsVerified == \A s \in SshSessions : IsOpen(s) => conn[s].verified

\* "Without a check the file would get an identical line at each attempt"
\* (_record_host_key): no line of known_hosts repeats another.
LineOnce == IsInjective(known)

\* "Connection failed with all passwords" is true: every configured password
\* was tried, though the settings and the cache may change on the way, the
\* cached password comes first and the database falls back to the SSH ones.
RefusedTriedAll == \A s \in Sessions : exhausted[s] => untried[s] = {}

\* connect() ends, however often passwords are refused and keys change.
LoginEnds == \A s \in Sessions : pc[s] # "idle" ~> pc[s] = "idle"
=============================================================================
