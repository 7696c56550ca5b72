------------------------------- MODULE Updates -------------------------------
(***************************************************************************)
(* The updates that a running target sends to its receiver (output.rs).    *)
(* A stage opens with a "Start", may produce lines, and closes with an     *)
(* "End" that carries a result.  Text is left out: a line is known by its  *)
(* variant only.  An "End" keeps whether its result is Ok and, for         *)
(* CommandEnd, the exit code.                                              *)
(***************************************************************************)
EXTENDS Naturals, Sequences

Starts == {"BootStart", "SetupStart", "CommandStart"}
Lines  == {"Boot", "Setup", "Command"}
Ends   == {"BootEnd", "SetupEnd", "CommandEnd"}

\* "None" is not an update: it marks the time before the first one.
Output == [variant : Starts \cup Lines \cup Ends \cup {"None"},
           ok : BOOLEAN, code : Nat]

NoUpdate    == [variant |-> "None", ok |-> TRUE, code |-> 0]
Update(v)   == [variant |-> v, ok |-> TRUE, code |-> 0]
Failure(v)  == [variant |-> v, ok |-> FALSE, code |-> 0]
Exited(rc)  == [variant |-> "CommandEnd", ok |-> TRUE, code |-> rc]

\* The Start update that opens the stage of a line.
Opening == [v \in Lines |-> CASE v = "Boot"    -> "BootStart"
                              [] v = "Setup"   -> "SetupStart"
                              [] v = "Command" -> "CommandStart"]
=============================================================================
