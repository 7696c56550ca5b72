------------------------------- MODULE GuestInit -------------------------------
(***************************************************************************)
(* PID 1 of the guest of a kernel target: the script init.sh.template,     *)
(* under set -eu, from the first mount to the login shell.                 *)
(***************************************************************************)
EXTENDS Naturals, Sequences

VARIABLES
  line,     \* which of Steps the script is at
  mounts,   \* which of the Mandatory mounts are in place
  trapped,  \* the EXIT trap is set
  guest,    \* "running", "off", or "panicked"
  agent     \* of which the script decides when it starts

initVars == <<line, mounts, trapped, guest, agent>>

\* What the script does, in its order: its mounts, by mount point, and the
\* trap, the links, the search of the agent's port, the agent, the shell.
Steps == <<"/proc", "trap", "/dev", "/dev/shm", "/run", "run link", "/sys", "debugfs",
           "tracefs", "cgroup2", "/mnt", "/dev/fd", "vport", "agent", "shell">>

\* "mount ... || log ..."
\* Mutant of Optional: /mnt has one too.
OptionalAndMnt    == {"debugfs", "tracefs", "cgroup2", "/mnt"}
Optional          == {"debugfs", "tracefs", "cgroup2"}

\* The mounts that the script cannot do without.  /dev/shm is none of them: where
\* there is such a directory the script leaves it as it is.
Mandatory == {"/proc", "/dev", "/run", "/sys", "/mnt"}

Init ==
  /\ line = 1 /\ mounts = {} /\ trapped = FALSE
  /\ guest = "running"

Step    == Steps[line]
Running == guest = "running"

Starts == IF Step = "agent" THEN agent' = "starting" ELSE UNCHANGED agent

\* A step succeeds, or finds that it need not: /dev is mounted already, or
\* /dev/shm or /dev/fd exists.
StepDone ==
  /\ Running /\ Step # "shell"
  /\ line' = line + 1 /\ mounts' = mounts \cup ({Step} \cap Mandatory)
  /\ trapped' = (trapped \/ Step = "trap")
  /\ Starts
  /\ UNCHANGED guest

StepOptional ==
  /\ Running /\ Step \in Optional
  /\ line' = line + 1
  /\ UNCHANGED <<mounts, trapped, guest, agent>>

\* The script ends: "poweroff -f" if trapped, unless that fails too, and a
\* panic of the kernel otherwise.
Exit ==
  /\ \/ trapped /\ guest' = "off"
     \/ guest' = "panicked"
  /\ UNCHANGED <<line, mounts, trapped, agent>>

StepFails == Running /\ Step \notin Optional \cup {"trap", "shell"} /\ Exit

ShellExits == Running /\ Step = "shell" /\ Exit

Next == StepDone \/ StepOptional \/ StepFails \/ ShellExits
=============================================================================
