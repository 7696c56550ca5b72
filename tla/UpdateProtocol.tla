---------------------------- MODULE UpdateProtocol ----------------------------
(***************************************************************************)
(* What the receiver of a target's updates may rely on, whatever goes      *)
(* wrong on the sending side: the stages come in order, a stage that       *)
(* failed is the last one, and the channel is hung up only after the last  *)
(* stage of the target.  Output lines are not part of this protocol.       *)
(***************************************************************************)
EXTENDS Updates

VARIABLES
  interactive,   \* does the target end after its setup stage?
  last,          \* the last Start or End sent
  hungUp         \* have all senders of the channel been dropped?

vars == <<interactive, last, hungUp>>

TypeOK == /\ interactive \in BOOLEAN
          /\ last \in Output
          /\ hungUp \in BOOLEAN

Init == /\ interactive \in BOOLEAN
        /\ last = NoUpdate
        /\ hungUp = FALSE

(***************************************************************************)
(* n may follow m.  A target that cannot even be set up reports a boot     *)
(* failure with no BootStart before it.                                    *)
(***************************************************************************)
Follows(m, n) ==
  \/ m = NoUpdate               /\ n \in {Update("BootStart"), Failure("BootEnd")}
  \/ m = Update("BootStart")    /\ n \in {Update("BootEnd"), Failure("BootEnd")}
  \/ m = Update("BootEnd")      /\ n = Update("SetupStart")
  \/ m = Update("SetupStart")   /\ n \in {Update("SetupEnd"), Failure("SetupEnd")}
  \/ m = Update("SetupEnd")     /\ ~interactive /\ n = Update("CommandStart")
  \/ m = Update("CommandStart") /\ n.variant = "CommandEnd"

Final(m) == \/ ~m.ok
            \/ m.variant = "CommandEnd"
            \/ interactive /\ m = Update("SetupEnd")

Advance == /\ ~hungUp
           /\ last' \in Output
           /\ Follows(last, last')
           /\ UNCHANGED <<interactive, hungUp>>

HangUp == /\ ~hungUp
          /\ Final(last)
          /\ hungUp' = TRUE
          /\ UNCHANGED <<interactive, last>>

Next == Advance \/ HangUp

Spec == Init /\ [][Next]_vars
=============================================================================
