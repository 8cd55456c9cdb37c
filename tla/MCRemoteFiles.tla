---------------------------- MODULE MCRemoteFiles ----------------------------
(* Values of RemoteFiles for TLC. *)
EXTENDS RemoteFiles

CONSTANT f

MCEdited == {[stem |-> f, copy |-> 0]}
=============================================================================
