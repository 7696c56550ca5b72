------------------------------ MODULE MCGuestBoot ------------------------------
(***************************************************************************)
(* The instance of GuestBoot that TLC checks: two values for guest-sync,   *)
(* so that attempts may draw the same, and one version per outcome of      *)
(* Version::new and of the choice of the capture mode.                     *)
(***************************************************************************)
EXTENDS GuestBoot

TwoValues == {1, 2}

\* Old, first with merged output, the next major; with two parts, and past u8.
SomeVersions == {<<8, 0, 2>>, <<8, 1, 0>>, <<9, 0, 0>>, <<2, 12>>, <<8, 1, 256>>, <<2, 5, 0>>}
=============================================================================
