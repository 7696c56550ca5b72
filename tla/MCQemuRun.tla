------------------------------- MODULE MCQemuRun -------------------------------
(***************************************************************************)
(* The instances of QemuRun that TLC checks.  Run thread and guest treat   *)
(* an image target as a kernel target whose guest needs no init script, so *)
(* the large run takes kernel targets and the liveness run an image one.   *)
(***************************************************************************)
EXTENDS QemuRun

KernelTarget      == [kernel |-> TRUE,  interactive |-> FALSE, mounts |-> 0]
ImageTarget       == [kernel |-> FALSE, interactive |-> FALSE, mounts |-> 0]
InteractiveTarget == [kernel |-> TRUE,  interactive |-> TRUE,  mounts |-> 1]

KernelTargets == {KernelTarget, InteractiveTarget}
ImageOnly     == {ImageTarget}
BareTargets   == {ImageTarget, InteractiveTarget}
OneCode       == {0}
ExitCodes     == {0, 3}
=============================================================================
