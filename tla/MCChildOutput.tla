----------------------------- MODULE MCChildOutput -----------------------------
(***************************************************************************)
(* The instance of ChildOutput that TLC checks: every text of up to        *)
(* MaxText symbols on each of the three paths, a captured one truncated by *)
(* the agent or not.                                                       *)
(***************************************************************************)
EXTENDS ChildOutput
=============================================================================
