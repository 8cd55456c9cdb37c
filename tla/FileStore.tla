------------------------------ MODULE FileStore ------------------------------
(***************************************************************************)
(* What the file manager promises about the files of a register: only a    *)
(* whole content takes a name, and it takes the place of the former one in *)
(* one step; a file goes only after it was copied.  Two things are not     *)
(* promised: a copy is of the file as it was then, it may have been        *)
(* replaced since; and a store that cannot rename over an existing file    *)
(* may be without it for a while.                                          *)
(***************************************************************************)
CONSTANTS
  Names,     \* files of the register
  Contents,  \* whole contents
  Absent     \* there is no such file

VARIABLES
  store,     \* the content of every file
  copied,    \* the files with a copy of their present content, to be moved
  stale,     \* those that were replaced after they were copied
  replaces   \* the store still replaces a file in one step

storeVars == <<store, copied, stale, replaces>>

StoreInit ==
  /\ store \in [Names -> Contents \cup {Absent}]
  /\ copied = {} /\ stale = {}
  /\ replaces \in BOOLEAN

\* A copy of the former content is no copy any more.
Put(n, c) ==
  /\ store' = [store EXCEPT ![n] = c]
  /\ copied' = copied \ {n}
  /\ stale' = stale \cup (copied \cap {n})
  /\ UNCHANGED replaces

Copy(n) ==
  /\ store[n] # Absent
  /\ copied' = copied \cup {n}
  /\ UNCHANGED <<store, stale, replaces>>

\* The mover forgets what it has removed, or everything.
TakeAway(n) ==
  /\ n \in copied \cup stale
  /\ store' = [store EXCEPT ![n] = Absent]
  /\ copied' \subseteq copied \ {n} /\ stale' \subseteq stale \ {n}
  /\ UNCHANGED replaces

\* A move was given up, or could not remove a file.
Forget ==
  /\ copied' \subseteq copied /\ stale' \subseteq stale
  /\ UNCHANGED <<store, replaces>>

\* The server refuses to rename over an existing file: from here on there is
\* a moment in which neither content has the name.
Degrade == replaces /\ replaces' = FALSE /\ UNCHANGED <<store, copied, stale>>

Gap(n) ==
  /\ ~replaces
  /\ store' = [store EXCEPT ![n] = Absent]
  /\ UNCHANGED <<copied, stale, replaces>>

StoreNext ==
  \/ \E n \in Names : \/ \E c \in Contents : Put(n, c)
                       \/ Copy(n) \/ TakeAway(n) \/ Gap(n)
  \/ Forget \/ Degrade

StoreSpec == StoreInit /\ [][StoreNext]_storeVars
=============================================================================
