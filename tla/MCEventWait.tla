---------------------------- MODULE MCEventWait ----------------------------
(***************************************************************************)
(* Model-checking instance of EventWait: three reads on one EVENTS node,   *)
(* with the right length (1) and a wrong one (4).                          *)
(***************************************************************************)
EXTENDS EventWait, TLC

CONSTANTS e1, e2, e3

MCReaders == {e1, e2, e3}
MCLengths == {1, 4}
=============================================================================
