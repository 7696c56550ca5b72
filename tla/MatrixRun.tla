-------------------------------- MODULE MatrixRun --------------------------------
(***************************************************************************)
(* A whole run of vmtest: the targets that passed the filter, one after    *)
(* the other (ui.rs Ui::run), and the status the process exits with        *)
(* (main.rs).  What becomes of one target is the subject of QemuRun; here  *)
(* it is the value that its UI thread returns.                             *)
(***************************************************************************)
EXTENDS Naturals

CONSTANTS
  TargetCounts,   \* how many targets there may be
  Codes           \* exit codes of the targets' commands

ASSUME CountsAssumption == TargetCounts \subseteq Nat
ASSUME CodesAssumption == Codes \subseteq 0..255

EX_UNAVAILABLE == 69

VARIABLES
  pc,        \* "config", "targets", "exit" or "done"
  targets,   \* the number of targets
  idx,       \* how many have been run
  failed,    \* how many of them failed
  result,    \* what Ui::run returns
  status,    \* the exit status of vmtest: {} until it exits
  passed,    \* history: targets whose command ended with 0
  outcome    \* history: what the last target's UI returned

vars == <<pc, targets, idx, failed, result, status, passed, outcome>>

\* Option<i32>: {} is None.
Outcomes == {{}} \cup {{c} : c \in Codes}

Init == /\ pc = "config"
        /\ targets \in TargetCounts
        /\ idx = 0 /\ failed = 0 /\ result = 0 /\ status = {}
        /\ passed = 0 /\ outcome = {}

\* The configuration is read and validated; main returns its error as status 1.
Config ==
  /\ pc = "config"
  /\ \/ pc' = "targets" /\ UNCHANGED status
     \/ pc' = "done" /\ status' = {1}
  /\ UNCHANGED <<targets, idx, failed, result, passed, outcome>>

\* Mutant of RcOf: a VM that failed to run the command counts as 0.
RcOfLenient(o) == IF o = {} THEN 0 ELSE CHOOSE c \in o : TRUE

\* A target with no code failed.
RcOf(o) == IF o = {} THEN EX_UNAVAILABLE ELSE CHOOSE c \in o : TRUE

\* Mutant of MoreTargets: one round too many.
MoreTargetsOffByOne == idx <= targets

MoreTargets == idx < targets

\* Run a target; a single one returns its own code at once.
RunTarget ==
  /\ pc = "targets" /\ MoreTargets
  /\ idx' = idx + 1
  /\ outcome' \in Outcomes
  /\ passed' = IF outcome' = {0} THEN passed + 1 ELSE passed
  /\ \/ /\ targets = 1
        /\ pc' = "exit" /\ result' = RcOf(outcome')
        /\ UNCHANGED failed
     \/ /\ targets # 1
        /\ failed' = IF RcOf(outcome') = 0 THEN failed ELSE failed + 1
        /\ UNCHANGED <<pc, result>>
  /\ UNCHANGED <<targets, status>>

Finish ==
  /\ pc = "targets" /\ ~MoreTargets
  /\ pc' = "exit" /\ result' = failed
  /\ UNCHANGED <<targets, idx, failed, status, passed, outcome>>

\* exit(rc): the parent sees the low eight bits.
Exit ==
  /\ pc = "exit"
  /\ pc' = "done" /\ status' = {result % 256}
  /\ UNCHANGED <<targets, idx, failed, result, passed, outcome>>

Done == pc = "done" /\ UNCHANGED vars

Next == Config \/ RunTarget \/ Finish \/ Exit \/ Done

Spec == Init /\ [][Next]_vars

-----------------------------------------------------------------------------
TypeOK == /\ pc \in {"config", "targets", "exit", "done"}
          /\ targets \in TargetCounts
          /\ idx \in 0..targets /\ failed \in Nat /\ passed \in Nat
          /\ result \in Nat
          /\ status \in SUBSET (0..255)
          /\ outcome \in Outcomes

\* The status of a run that got as far as its targets is 0 exactly if the
\* number of those that failed is a multiple of 256: if fewer than 256 failed,
\* 0 says that every target's command ran and ended with 0, as the callers in a
\* CI job take it.  With 256 failures it says so as well, and all of them failed:
\* "it returns how many targets failed" (ui.rs:282) does not fit in a status.
ZeroMeansAllPassed ==
  /\ status = {0} => idx = targets
  /\ status # {} /\ idx > 0 => (status = {0} <=> (targets - passed) % 256 = 0)
=============================================================================
