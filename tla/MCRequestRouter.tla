-------------------------- MODULE MCRequestRouter --------------------------
(***************************************************************************)
(* Model-checking instance of RequestRouter with the FileNameLUT of        *)
(* file_io.c: h2c_0 -> AH2C, c2h_0 -> AC2H, user -> USER,                  *)
(* control -> CONTROL.                                                     *)
(***************************************************************************)
EXTENDS RequestRouter, TLC

CONSTANTS f1, f2, q1, q2

MCFiles == {f1, f2}
MCReqs == {q1, q2}
MCFileNameLUT ==
  ("h2c_0" :> "AH2C") @@ ("c2h_0" :> "AC2H") @@
  ("user" :> "USER") @@ ("control" :> "CONTROL")
MCEngineEnabled == ("H2C" :> TRUE) @@ ("C2H" :> TRUE)
\* A small BAR so that in-range, boundary and out-of-range accesses occur.
MCBarLength == ("USER" :> 8) @@ ("CONTROL" :> 8)
MCOffsets == {0, 4, 6}
MCLengths == {0, 1, 2, 4}
MCModeValues == {0, 1}
=============================================================================
