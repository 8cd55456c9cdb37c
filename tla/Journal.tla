------------------------------ MODULE Journal -------------------------------
(***************************************************************************)
(* What the operator is told: the history of each register                 *)
(* (gui/history_manager.py) and the list of it in gui/status_bar.py, the   *)
(* journal of notices (gui/notification_manager.py) and the bars that show *)
(* them (gui/feedback.py).  Any thread may give a notice; the bars are the *)
(* GUI thread's.  A history entry is its number, a notice its key.         *)
(***************************************************************************)
EXTENDS Naturals, SequencesExt

CONSTANTS
  Hosts,    \* the addresses there is a history of
  Batch,    \* how many lines wait for the file at most (10 in the code)
  Entries,  \* bound: history entries, and with them starts of the program
  Notices,  \* keys of notices: a text, a level and a window
  Seen,     \* SEEN_CAPACITY
  Notes     \* bound: notices given

ASSUME JournalAssumption == {Batch, Seen} \subseteq Nat \ {0} /\ {Entries, Notes} \subseteq Nat

VARIABLES
  hist,   \* _memory, _pending_lines, the files, the mode; how many there were
  shown,  \* the list of the status bar, and _active_ip
  bars,   \* _live: for each key what its bar says, 0 without one; repeats missed
  seen,   \* Coalescer._seen: the keys, oldest first; counts; those in the window
  posts   \* the journal, what waits for the GUI thread, how many were given
journalVars == <<hist, shown, bars, seen, posts>>

NoHost == "no host"
NoBar == [says |-> 0, missed |-> 0]
NotSeen == [keys |-> <<>>, count |-> [k \in Notices |-> 0], fresh |-> {}]
Histories == [Hosts -> Seq(1..Entries)]
Persistent == hist.persistent

JournalTypeOK ==
  /\ hist.memory \in Histories /\ hist.pending \in Histories /\ hist.file \in Histories
  /\ hist.persistent \in BOOLEAN /\ hist.of \in Seq(Hosts) /\ Len(hist.of) <= Entries
  /\ shown.list \in Seq(1..Entries) /\ shown.active \in Hosts \cup {NoHost}
  /\ bars \in [Notices -> [says: 0..Notes, missed: 0..Notes]]
  /\ IsInjective(seen.keys) /\ Len(seen.keys) <= Seen
  /\ seen.count \in [Notices -> 0..Notes] /\ seen.fresh \subseteq Notices
  /\ posts.inbox \in Seq(Notices) /\ posts.given \in 0..Notes
  /\ posts.kept \in [Notices -> 0..Notes] /\ posts.list \in [Notices -> 0..Notes]

JournalInit ==
  /\ hist = [memory |-> [h \in Hosts |-> <<>>], pending |-> [h \in Hosts |-> <<>>],
             file |-> [h \in Hosts |-> <<>>], persistent |-> TRUE, of |-> <<>>]
  /\ shown = [list |-> <<>>, active |-> NoHost]
  /\ bars = [k \in Notices |-> NoBar] /\ seen = NotSeen
  /\ posts = [inbox |-> <<>>, given |-> 0, kept |-> [k \in Notices |-> 0],
              list |-> [k \in Notices |-> 0]]

-----------------------------------------------------------------------------
(* History *)

\* flush: the lines of each register are appended to its file, or lost.
Flushed(h) ==
  \E ok \in [Hosts -> BOOLEAN] :
    hist' = [h EXCEPT !.pending = [a \in Hosts |-> <<>>],
                      !.file = [a \in Hosts |-> IF ok[a] THEN @[a] \o h.pending[a] ELSE @[a]]]

FlushTimer ==
  /\ \E a \in Hosts : hist.pending[a] # <<>>
  /\ Flushed(hist)
  /\ UNCHANGED <<shown, bars, seen, posts>>

\* add_history_entry: that of another register is left aside.
Taken(a, n) ==
  shown' = IF shown.active \in {NoHost, a} THEN [shown EXCEPT !.list = Append(@, n)] ELSE shown

HistoryAdd ==
  /\ Len(hist.of) < Entries
  /\ \E a \in Hosts :
       LET n == Len(hist.of) + 1
           noted == [hist EXCEPT !.of = Append(@, a), !.memory[a] = Append(@, n)]
           queued == [noted EXCEPT !.pending[a] = Append(@, n)] IN
       /\ IF ~Persistent THEN hist' = noted
          ELSE IF Len(queued.pending[a]) < Batch THEN hist' = queued
          ELSE Flushed(queued)
       /\ Taken(a, n)
  /\ UNCHANGED <<bars, seen, posts>>

\* get: the memory, or the file when the memory has nothing.
HistoryGet(a) ==
  IF hist.memory[a] = <<>> /\ Persistent THEN hist.file[a] ELSE hist.memory[a]

\* set_active_ip
Activate ==
  /\ \E a \in Hosts : shown' = [active |-> a, list |-> HistoryGet(a)]
  /\ UNCHANGED <<hist, bars, seen, posts>>

\* _on_clear, confirmed: the file only in the mode that has one.
ClearHistory ==
  /\ shown.active # NoHost
  /\ shown' = [shown EXCEPT !.list = <<>>]
  /\ hist' = [hist EXCEPT !.memory[shown.active] = <<>>, !.pending[shown.active] = <<>>,
                          !.file[shown.active] = IF Persistent THEN <<>> ELSE @]
  /\ UNCHANGED <<bars, seen, posts>>

SetHistoryMode ==
  /\ Len(hist.of) > 0
  /\ hist' = [hist EXCEPT !.persistent = ~@]
  /\ UNCHANGED <<shown, bars, seen, posts>>

\* The program ends and starts again: nothing flushes what still waits.
ProgramRestarts ==
  /\ Len(hist.of) \in 1..(Entries - 1)
  /\ hist' = [hist EXCEPT !.memory = [a \in Hosts |-> <<>>], !.pending = [a \in Hosts |-> <<>>]]
  /\ shown' = [list |-> <<>>, active |-> NoHost]
  /\ bars' = [k \in Notices |-> NoBar] /\ seen' = NotSeen
  /\ posts' = [inbox |-> <<>>, given |-> posts.given, kept |-> [k \in Notices |-> 0],
               list |-> [k \in Notices |-> 0]]

-----------------------------------------------------------------------------
(* Notices *)

\* bump: a repeat within the window counts on, another starts at one; the one
\* that was shown longest ago goes when there are too many.
Bumped(k) ==
  LET all == Append(RemoveFirst(seen.keys, k), k)
      keys == IF Len(all) > Seen THEN Tail(all) ELSE all
      n == IF k \in seen.fresh THEN seen.count[k] + 1 ELSE 1 IN
  [keys |-> keys,
   count |-> [j \in Notices |-> IF j = k THEN n
                                ELSE IF j \in ToSet(keys) THEN seen.count[j] ELSE 0],
   fresh |-> (seen.fresh \cup {k}) \cap ToSet(keys)]

\* _present: the bar says how often, or is made; a hidden window gets none.
Present(k) ==
  LET n == Bumped(k).count[k] IN
  /\ seen' = Bumped(k)
  /\ \/ bars' = [bars EXCEPT ![k] = [says |-> n, missed |-> 0]]
     \/ bars[k].says = 0 /\ bars' = [bars EXCEPT ![k].missed = @ + 1]

\* record: the entry in the journal.
Noted(k) == [posts EXCEPT !.given = @ + 1, !.kept[k] = @ + 1]

\* notify: the journal first, in any thread; the list and the bar in the GUI
\* thread.
Notify ==
  /\ posts.given < Notes
  /\ \E k \in Notices :
       \/ Present(k) /\ posts' = [Noted(k) EXCEPT !.list[k] = @ + 1]
       \/ posts' = [Noted(k) EXCEPT !.inbox = Append(@, k)] /\ UNCHANGED <<bars, seen>>
  /\ UNCHANGED <<hist, shown>>

DeliverNotice ==
  /\ posts.inbox # <<>>
  /\ LET k == Head(posts.inbox) IN
     /\ Present(k)
     /\ posts' = [posts EXCEPT !.inbox = Tail(@), !.list[k] = @ + 1]
  /\ UNCHANGED <<hist, shown>>

\* Five seconds since the last one.
WindowPasses ==
  /\ seen.fresh # {}
  /\ \E k \in seen.fresh : seen' = [seen EXCEPT !.fresh = @ \ {k}]
  /\ UNCHANGED <<hist, shown, bars, posts>>

\* _drop: the bar is gone, closed or after its time; its count goes with it.
Drop ==
  /\ \E k \in Notices :
       /\ bars[k].says > 0 /\ bars' = [bars EXCEPT ![k] = NoBar]
       /\ seen' = [keys |-> RemoveFirst(seen.keys, k), count |-> [seen.count EXCEPT ![k] = 0],
                   fresh |-> seen.fresh \ {k}]
  /\ UNCHANGED <<hist, shown, posts>>

\* _on_clear of the notices: the list and the journal.
ClearNotices ==
  /\ \E k \in Notices : posts.list[k] > 0
  /\ posts' = [posts EXCEPT !.kept = [k \in Notices |-> 0], !.list = [k \in Notices |-> 0]]
  /\ UNCHANGED <<hist, shown, bars, seen>>

-----------------------------------------------------------------------------
HistoryNext ==
  \/ HistoryAdd \/ FlushTimer \/ Activate \/ ClearHistory \/ SetHistoryMode
  \/ ProgramRestarts

NoticeNext == Notify \/ DeliverNotice \/ WindowPasses \/ Drop \/ ClearNotices

JournalNext == HistoryNext \/ NoticeNext
JournalSpec == JournalInit /\ [][JournalNext]_journalVars

-----------------------------------------------------------------------------
\* The history the operator reads is that of the active register, in order and
\* without a doubled line, through every flush, change of mode and restart.
HistoryIsOwn ==
  /\ shown.active # NoHost => \A i \in DOMAIN shown.list : hist.of[shown.list[i]] = shown.active
  /\ \A i, j \in DOMAIN shown.list : i < j => shown.list[i] < shown.list[j]

\* A new bar does not tell of repeats nobody could miss: a closed bar takes its
\* count with it (_drop, forget).
NoFalseRepeat ==
  [][\A k \in Notices :
       bars[k].says = 0 /\ bars'[k].says > 0 => bars'[k].says <= 1 + bars[k].missed]_bars

\* What was cleared stays cleared.
ClearedIsGone == [][\A a \in Hosts :
  hist'.memory[a] = <<>> /\ hist.memory[a] # <<>> /\ shown'.list = <<>> /\ shown'.active = a
    => hist'.file[a] = <<>>]_journalVars

\* An entry noted in the persistent mode reaches its file.
HistoryIsWritten ==
  [][\A a \in Hosts : hist.pending[a] # <<>> /\ hist'.pending[a] = <<>>
       => hist'.file[a] # hist.file[a] \/ shown'.list = <<>>]_hist

\* What is shown of the active register is what is kept of it.
ShownIsKept ==
  shown.active # NoHost => shown.list = HistoryGet(shown.active)

\* The list of notices and the journal are the same when nothing waits.
ListIsJournal == posts.inbox = <<>> => posts.list = posts.kept
=============================================================================
