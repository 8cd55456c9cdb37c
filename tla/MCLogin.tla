------------------------------ MODULE MCLogin ------------------------------
(* Model values of Login for TLC. *)
EXTENDS Login

CONSTANTS p1, p2

\* Nothing saved, or two passwords with one entered twice.
MCConfigs == {<<>>, <<p2, p1, p2>>}
=============================================================================
