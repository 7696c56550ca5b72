------------------------------- MODULE MCGuestCalls -------------------------------
(***************************************************************************)
(* The instance of GuestCalls that TLC checks, with the code's own retry   *)
(* limit and mount(8)'s exit code.                                         *)
(***************************************************************************)
EXTENDS GuestCalls

ExitCodes == {0, 1, 32}
=============================================================================
