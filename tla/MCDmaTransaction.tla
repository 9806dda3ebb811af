-------------------------- MODULE MCDmaTransaction --------------------------
(***************************************************************************)
(* Model-checking instance of DmaTransaction: a few requests on one engine *)
(***************************************************************************)
EXTENDS DmaTransaction, TLC

CONSTANTS r1, r2, r3

MCRequests2 == {r1, r2}
MCRequests3 == {r1, r2, r3}
=============================================================================
