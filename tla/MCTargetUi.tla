------------------------------ MODULE MCTargetUi ------------------------------
(***************************************************************************)
(* The instance of TargetUi that TLC checks: two targets on terminals that *)
(* are lower than a window, as high, and higher.                           *)
(***************************************************************************)
EXTENDS TargetUi

SomeHeights == {1, 3, 9}
SomeErrors  == {1, 3}
=============================================================================
