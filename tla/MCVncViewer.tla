---------------------------- MODULE MCVncViewer ----------------------------
(* The instance of VncViewer for TLC. *)
EXTENDS VncViewer
=============================================================================
