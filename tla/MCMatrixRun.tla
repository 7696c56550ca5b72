------------------------------- MODULE MCMatrixRun -------------------------------
(***************************************************************************)
(* The instance of MatrixRun that TLC checks: counts on both sides of what *)
(* an exit status can hold.                                                *)
(***************************************************************************)
EXTENDS MatrixRun

Counts    == {0, 1, 2, 3, 255, 256, 257}
ExitCodes == {0, 1, 69, 255}
=============================================================================
