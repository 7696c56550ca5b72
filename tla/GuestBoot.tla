------------------------------- MODULE GuestBoot -------------------------------
(***************************************************************************)
(* The boot of a guest as vmtest sees it: QgaSync on the host against the  *)
(* init script of a kernel target, or an image that starts its agent by    *)
(* itself.  The two share the agent, and the end of the guest is that of   *)
(* QEMU: a guest that powers off ends it, and so does one that panics      *)
(* (panic=-1 makes the kernel reboot, -no-reboot makes QEMU exit).         *)
(***************************************************************************)
EXTENDS QgaSync

VARIABLES
  kind,                 \* "kernel" or "image"
  line, mounts, trapped,  \* of the script
  guest                 \* of the guest

guestVars == <<line, mounts, trapped, guest>>
vars      == <<syncVars, kind, guestVars>>

Script == INSTANCE GuestInit

Init ==
  /\ SyncInit /\ Script!Init
  /\ kind \in {"kernel", "image"}
  /\ agent = IF kind = "kernel" THEN "absent" ELSE "starting"

Host == (Program \/ Expire) /\ UNCHANGED <<kind, guestVars>>

Vm == /\ Socket \/ QemuExits \/ (guest = "running" /\ Agent)
      /\ UNCHANGED <<kind, guestVars>>

InitScript ==
  /\ kind = "kernel" /\ qemu = "running"
  /\ Script!Next
  /\ UNCHANGED <<hostVars, queueVars, prompt, qemu, version, kind>>

GuestEnds ==
  /\ guest # "running" /\ QemuEnds
  /\ UNCHANGED <<hostVars, agent, prompt, version, kind, guestVars>>

Return == Ended /\ UNCHANGED vars

Next == Host \/ Vm \/ InitScript \/ GuestEnds \/ Return

Spec == Init /\ [][Next]_vars

\* vmtest's thread runs; a prompt agent and QEMU answer; a guest that ended
\* takes QEMU with it.  Nothing says that the deadline comes, that the script
\* gets on, or that QEMU serves a guest that is not prompt.
FairSpec ==
  /\ Spec
  /\ WF_vars(Program /\ UNCHANGED <<kind, guestVars>>)
  /\ WF_vars(/\ prompt
             /\ Socket \/ (guest = "running" /\ AgentAnswers)
             /\ UNCHANGED <<kind, guestVars>>)
  /\ WF_vars(GuestEnds)

-----------------------------------------------------------------------------
(***************************************************************************)
(* Properties.                                                             *)
(***************************************************************************)
TypeOK ==
  /\ SyncTypeOK
  /\ kind \in {"kernel", "image"}
  /\ line \in 1..Len(Script!Steps)
  /\ mounts \subseteq Script!Mandatory
  /\ trapped \in BOOLEAN
  /\ guest \in {"running", "off", "panicked"}

\* When new returns Ok on a kernel target the guest's own /proc, /dev, /run,
\* /sys and /mnt are in place: setup mounts the shares under /mnt, which a
\* later mount of /mnt would hide, and commands must not see the host's trees.
OkMeansReady == pc = "ok" /\ kind = "kernel" => Script!Mandatory \subseteq mounts

\* With a prompt agent, once QEMU is gone, and once the guest has powered off or
\* panicked, which takes QEMU with it, new needs no deadline to return (the
\* circuit break in qga.rs).
EndsWithoutDeadline == (prompt \/ qemu = "gone" \/ guest # "running") ~> Ended
=============================================================================
