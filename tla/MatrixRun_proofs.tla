----------------------------- MODULE MatrixRun_proofs -----------------------------
(***************************************************************************)
(* Proofs about MatrixRun, for any number of targets and any exit codes.   *)
(***************************************************************************)
EXTENDS MatrixRun, TLAPS

\* The two counters account for every target that was run; result and status
\* are what the counters, or the only target's code, make of them.
Counted ==
  /\ targets # 1 => failed + passed = idx
  /\ targets = 1 => passed <= idx /\ (idx = 1 => (passed = 1 <=> RcOf(outcome) = 0))
  /\ pc = "config" => idx = 0 /\ failed = 0 /\ passed = 0
  /\ pc = "targets" => failed <= idx /\ (targets = 1 => idx = 0)
  /\ pc = "exit" => /\ idx = targets
                    /\ IF targets = 1 THEN result = RcOf(outcome) ELSE result = failed
  /\ pc # "done" => status = {}
  /\ ZeroMeansAllPassed

IInv == TypeOK /\ Counted

\* The code of an outcome is that of the command, or EX_UNAVAILABLE.
LEMMA RcOfOutcome ==
  ASSUME NEW o \in Outcomes
  PROVE  /\ RcOf(o) \in 0..255
         /\ RcOf(o) = 0 <=> o = {0}
         /\ {RcOf(o)} = IF o = {} THEN {EX_UNAVAILABLE} ELSE o
<1>1. CASE o = {}
  BY <1>1 DEF RcOf, EX_UNAVAILABLE
<1>2. CASE o # {}
  <2>1. PICK c \in Codes : o = {c}
    BY <1>2 DEF Outcomes
  <2>2. RcOf(o) = c
    BY <2>1 DEF RcOf
  <2>3. QED
    BY <1>2, <2>1, <2>2, CodesAssumption
<1>3. QED
  BY <1>1, <1>2

\* The initial states satisfy the inductive invariant.
LEMMA InitIInv == Init => IInv
BY CountsAssumption
DEF Init, IInv, TypeOK, Counted, Outcomes, ZeroMeansAllPassed

\* Every step preserves the inductive invariant.
LEMMA Step ==
  ASSUME IInv, [Next]_vars
  PROVE  IInv'
  <1> USE CountsAssumption DEF IInv, TypeOK, Counted
<1>1. CASE Config
  <2>1. CASE pc' = "targets" /\ UNCHANGED status
    BY <1>1, <2>1 DEF Config, ZeroMeansAllPassed
  <2>2. CASE pc' = "done" /\ status' = {1}
    <3>1. idx' = 0 /\ TypeOK'
      BY <1>1, <2>2 DEF Config
    <3>2. status' # {0} /\ pc' # "exit"
      BY <2>2
    <3>3. QED
      BY <1>1, <2>2, <3>1, <3>2 DEF Config, ZeroMeansAllPassed
  <2>3. QED
    BY <1>1, <2>1, <2>2 DEF Config
<1>2. CASE RunTarget
  <2>1. outcome' \in Outcomes /\ status' = {} /\ idx' = idx + 1
    BY <1>2 DEF RunTarget, MoreTargets
  <2>2. CASE targets = 1
    BY <1>2, <2>1, <2>2, RcOfOutcome DEF RunTarget, MoreTargets, ZeroMeansAllPassed
  <2>3. CASE targets # 1
    BY <1>2, <2>1, <2>3, RcOfOutcome DEF RunTarget, MoreTargets, ZeroMeansAllPassed
  <2>4. QED
    BY <2>2, <2>3
<1>3. CASE Finish
  BY <1>3 DEF Finish, MoreTargets, ZeroMeansAllPassed
<1>4. CASE Exit
  <2>1. PICK n \in 0..255 : n = result % 256
    BY DEF TypeOK
  <2>2. status' = {n} /\ idx = targets /\ (status' = {0} <=> n = 0)
    BY <1>4, <2>1 DEF Exit
  <2>3. CASE targets = 1
    <3>1. n = RcOf(outcome) /\ (n = 0 <=> passed = 1) /\ passed \in 0..1
      BY <1>4, <2>1, <2>3, RcOfOutcome DEF Exit
    <3>2. (targets - passed) % 256 = targets - passed
      BY <2>3, <3>1
    <3>3. QED
      BY <1>4, <2>2, <2>3, <3>1, <3>2 DEF Exit, ZeroMeansAllPassed
  <2>4. CASE targets # 1
    <3>1. targets - passed = result
      BY <1>4, <2>2, <2>4 DEF Exit
    <3>2. QED
      BY <1>4, <2>1, <2>2, <2>4, <3>1 DEF Exit, ZeroMeansAllPassed
  <2>5. QED
    BY <2>3, <2>4
<1>5. CASE UNCHANGED vars
  BY <1>5 DEF vars, ZeroMeansAllPassed
<1>6. QED
  BY <1>1, <1>2, <1>3, <1>4, <1>5 DEF Next, Done

\* Every reachable state is well typed: in particular no more targets are run
\* than there are, and the status fits in eight bits.
THEOREM TypeCorrect == Spec => []TypeOK
<1>1. IInv /\ [Next]_vars => IInv'
  BY Step
<1>2. IInv => TypeOK
  BY DEF IInv
<1>3. QED
  BY InitIInv, <1>1, <1>2, PTL DEF Spec

\* The exit status is 0 exactly when a multiple of 256 targets failed, however
\* many there are.
THEOREM StatusIsRight == Spec => []ZeroMeansAllPassed
<1>1. IInv /\ [Next]_vars => IInv'
  BY Step
<1>2. IInv => ZeroMeansAllPassed
  BY DEF IInv, Counted
<1>3. QED
  BY InitIInv, <1>1, <1>2, PTL DEF Spec

\* Where the status can hold the number of failures, it is 0 exactly when every
\* target passed: ZeroMeansAllPassed says no less.
THEOREM FewFailures ==
  Spec => [](status # {} /\ idx > 0 /\ targets - passed < 256
               => (status = {0} <=> passed = targets))
<1>1. ASSUME IInv, status # {}, idx > 0, targets - passed < 256
      PROVE  status = {0} <=> passed = targets
  <2>1. passed <= targets
    BY <1>1, CountsAssumption DEF IInv, TypeOK, Counted
  <2>2. (targets - passed) % 256 = targets - passed
    BY <1>1, <2>1, CountsAssumption DEF IInv, TypeOK
  <2>3. QED
    BY <1>1, <2>1, <2>2, CountsAssumption DEF IInv, TypeOK, Counted, ZeroMeansAllPassed
<1>2. IInv /\ [Next]_vars => IInv'
  BY Step
<1>3. QED
  BY InitIInv, <1>1, <1>2, PTL DEF Spec
===============================================================================
