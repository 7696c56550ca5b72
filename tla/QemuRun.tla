-------------------------------- MODULE QemuRun --------------------------------
(***************************************************************************)
(* One target, from Qemu::new to the return of its UI thread (qemu.rs,     *)
(* vmtest.rs run_one, ui.rs target_ui).                                    *)
(*                                                                         *)
(* The actors are: the run thread (pc), the two threads that stream the    *)
(* boot log and the command's output (bootLog, cmdOut), the UI thread at   *)
(* the other end of the update channel (ui), and outside of vmtest the     *)
(* QEMU process, the guest and its agent (qemu), the user's command (job), *)
(* and whoever kills vmtest.                                               *)
(*                                                                         *)
(* Each mount_in_guest, and the final sync, is one step here; the retry    *)
(* loop and the polling inside are the subject of GuestCalls.              *)
(***************************************************************************)
EXTENDS Updates, FiniteSets

CONSTANTS
  Targets,        \* the targets to run
  Codes,          \* exit codes of guest processes
  MaxBootLines,   \* bound: lines QEMU writes to its stdout
  MaxCmdLines     \* bound: lines the user's command writes

ASSUME TargetsAssumption ==
  Targets \subseteq {t \in [kernel : BOOLEAN, interactive : BOOLEAN, mounts : Nat] :
                       t.interactive => t.kernel}

ASSUME CodesAssumption == Codes \subseteq Nat /\ 0 \in Codes

ASSUME BoundsAssumption == MaxBootLines \in Nat /\ MaxCmdLines \in Nat

VARIABLES
  target,       \* the target being run
  pc,           \* where the run thread is
  mountsLeft,   \* shares still to be mounted in the guest
  readTimeout,  \* of the agent's stream: "5s" or "none"
  initFile,     \* the temporary init script on disk
  qemu,         \* the QEMU child process and what runs inside it
  socks,        \* socket files that exist
  bootLog,      \* the boot log's streaming thread
  bootPipe,     \* lines in QEMU's stdout pipe
  booted,       \* lines QEMU ever wrote to that pipe
  job,          \* the user's command inside the guest
  exitCode,     \* its exit code, when it exited
  sink,         \* where its output goes: virtio port or the agent's capture
  port,         \* lines in the command's output socket
  captured,     \* lines in the agent's capture buffer
  cut,          \* captured streams that the agent truncated
  marked,       \* truncated streams that run_in_vm has told of
  lost,         \* lines of which the agent kept nothing
  written,      \* lines the command ever wrote
  cmdOut,       \* the command output's streaming thread
  log,          \* the update channel: everything ever sent
  mark,         \* the last Start or End sent
  ui,           \* the UI thread
  taken,        \* how many updates it has received
  rc            \* its Option<i32>: {} is None, {c} is Some(c)

runVars   == <<mountsLeft, readTimeout, initFile>>
qemuVars  == <<qemu, socks>>
bootVars  == <<bootLog, bootPipe, booted>>
capVars   == <<captured, cut, marked, lost>>
jobVars   == <<job, exitCode, sink, port, capVars, written, cmdOut>>
sendVars  == <<log, mark>>
uiVars    == <<ui, taken, rc>>
vars == <<target, pc, runVars, qemuVars, bootVars, jobVars, sendVars, uiVars>>

(***************************************************************************)
(* Vocabulary.                                                             *)
(***************************************************************************)
\* "starting": opening its sockets; "booting": firmware, kernel or init is
\* running; "agent": the guest agent answers; "mute": it no longer does.
Alive  == qemu \in {"starting", "booting", "agent", "mute"}
Gone   == qemu \in {"zombie", "reaped"}

Socks == {"qga", "qmp", "cmdout"}

\* The agent captures stdout and stderr, or one stream of both if it can merge
\* them.
CapturedStreams == 2

PCs == {"gen_init", "verify", "new_err", "boot_start", "spawn", "wait_socks",
        "qmp_connect", "handshake", "qmp_stderr", "boot_bail", "boot_err", "qga",
        "qga_connect", "boot_ok", "setup_start", "mount", "setup_ok", "setup_err", "drop_init",
        "wait_shell", "cmd_start", "cmd_connect", "exec", "exec_wait", "poll",
        "flush", "cmd_ok", "cmd_err", "sync", "quit", "wait_quit", "drop_child",
        "drop_self", "return", "join", "done", "killed"}

Count(s, variant, n) == Cardinality({i \in 1..n : s[i].variant = variant})
Received(variant)    == Count(log, variant, taken)

\* Send a Start or an End; send a line.
SendStage(m) == /\ log' = Append(log, m)
                /\ mark' = m
SendLine(variant) == /\ log' = Append(log, Update(variant))
                     /\ UNCHANGED mark

Goto(from, to) == pc = from /\ pc' = to

\* A step of the run thread that changes nothing else; one that reports a stage.
OnlyMoves == UNCHANGED <<target, runVars, qemuVars, bootVars, jobVars, sendVars, uiVars>>
Report(from, to, m) ==
  /\ Goto(from, to)
  /\ SendStage(m)
  /\ UNCHANGED <<target, runVars, qemuVars, bootVars, jobVars, uiVars>>

\* A step of the world that touches only the QEMU process, or only the command.
OnlyQemu == UNCHANGED <<target, pc, runVars, bootVars, jobVars, sendVars, uiVars>>
NotTheJob == UNCHANGED <<target, pc, runVars, qemuVars, bootVars, cmdOut, sendVars, uiVars>>

Init ==
  /\ target \in Targets
  /\ pc = "gen_init"
  /\ mountsLeft = 1 + target.mounts
  /\ readTimeout = "5s"
  /\ initFile = "absent"
  /\ qemu = "none" /\ socks = {}
  /\ bootLog = "idle" /\ bootPipe = 0 /\ booted = 0
  /\ job = "idle" /\ exitCode = 0 /\ sink = "capture"
  /\ port = 0 /\ captured = 0 /\ cut = 0 /\ marked = 0 /\ lost = 0
  /\ written = 0 /\ cmdOut = "idle"
  /\ log = <<>> /\ mark = NoUpdate
  /\ ui = "receiving" /\ taken = 0 /\ rc = {0}

-----------------------------------------------------------------------------
(***************************************************************************)
(* The run thread: Qemu::new.                                              *)
(***************************************************************************)
\* gen_init writes the init script next to the rootfs.
GenInit ==
  /\ \/ Goto("gen_init", "verify") /\ initFile' = "present"
     \/ Goto("gen_init", "new_err") /\ UNCHANGED initFile
  /\ UNCHANGED <<target, mountsLeft, readTimeout, qemuVars, bootVars, jobVars, sendVars, uiVars>>

\* Mutant of Verify: the script is dropped at the end of Qemu::new.
VerifyDropsInit ==
  /\ Goto("verify", "boot_start") \/ Goto("verify", "new_err")
  /\ initFile' = "absent"
  /\ UNCHANGED <<target, mountsLeft, readTimeout, qemuVars, bootVars, jobVars, sendVars, uiVars>>

\* verify_qemu_exists; on failure the script is dropped with Qemu::new's frame.
Verify ==
  /\ \/ Goto("verify", "boot_start") /\ UNCHANGED initFile
     \/ Goto("verify", "new_err") /\ initFile' = "absent"
  /\ UNCHANGED <<target, mountsLeft, readTimeout, qemuVars, bootVars, jobVars, sendVars, uiVars>>

\* run_one reports a Qemu that could not be constructed.
NewErr == Report("new_err", "return", Failure("BootEnd"))

(***************************************************************************)
(* The run thread: boot_vm.                                                *)
(***************************************************************************)
\* Mutant of BootStart: the update is forgotten.
BootStartUnsent == Goto("boot_start", "spawn") /\ OnlyMoves

BootStart == Report("boot_start", "spawn", Update("BootStart"))

\* Spawn QEMU and, unless its stdio is the user's terminal, the thread that
\* streams its stdout.
Spawn ==
  /\ \/ /\ Goto("spawn", "wait_socks")
        /\ qemu' = "starting"
        /\ bootLog' = IF target.interactive THEN "idle" ELSE "reading"
     \/ /\ Goto("spawn", "boot_err")
        /\ UNCHANGED <<qemu, bootLog>>
  /\ UNCHANGED <<target, runVars, socks, bootPipe, booted, jobVars, sendVars, uiVars>>

\* try_wait: a child that is gone is reaped.
TryWait == qemu' = IF qemu = "zombie" THEN "reaped" ELSE qemu

\* wait_for_qemu.  QEMU may die between try_wait and the two try_exists, so
\* finding the sockets says nothing of the process.
WaitSocks ==
  /\ \/ /\ Goto("wait_socks", "qmp_connect")
        /\ {"qga", "qmp"} \subseteq socks
        /\ UNCHANGED qemu
     \/ /\ Goto("wait_socks", "boot_bail")   \* it exited, or 5s passed
        /\ TryWait
  /\ UNCHANGED <<target, runVars, socks, bootVars, jobVars, sendVars, uiVars>>

\* connect_to_uds on the QMP socket, then cloning the stream.
QmpConnect ==
  /\ \/ Goto("qmp_connect", "handshake") /\ Alive /\ "qmp" \in socks
     \/ Goto("qmp_connect", "qmp_stderr") /\ ~(Alive /\ "qmp" \in socks)
     \/ Goto("qmp_connect", "boot_bail") /\ Alive /\ "qmp" \in socks
  /\ OnlyMoves

\* The QMP stream has no read timeout: a live QEMU may answer, refuse, or
\* never answer; a dead one is an end of file.
HandshakeAnswer ==
  /\ Alive
  /\ Goto("handshake", "qga") \/ Goto("handshake", "qmp_stderr")
  /\ OnlyMoves

HandshakeEof ==
  /\ ~Alive
  /\ Goto("handshake", "qmp_stderr")
  /\ OnlyMoves

\* extract_child_stderr reads to the end of the pipe, which QEMU holds open
\* for as long as it lives.
QmpStderr ==
  /\ ~Alive
  /\ Goto("qmp_stderr", "boot_bail")
  /\ OnlyMoves

\* UnixStream::connect has no timeout: once the attempts that QEMU did not
\* accept have filled the backlog of its socket, another one blocks until QEMU
\* accepts or ends.  The loop's deadline is not looked at meanwhile.
QgaBlock ==
  /\ Goto("qga", "qga_connect")
  /\ Alive
  /\ OnlyMoves

\* QgaWrapper::new: the agent answered sync and guest-info.
QgaConnect ==
  /\ Goto("qga", "boot_ok") \/ Goto("qga_connect", "boot_ok")
  /\ qemu = "agent"
  /\ OnlyMoves

\* It gives up when QEMU exited, when 80s or 120s passed, or when guest-info
\* or the version it returns is bad.  The end of QEMU ends a blocked connect.
QgaGiveUp ==
  /\ Goto("qga", "boot_bail") \/ (Goto("qga_connect", "boot_bail") /\ ~Alive)
  /\ TryWait
  /\ UNCHANGED <<target, runVars, socks, bootVars, jobVars, sendVars, uiVars>>

\* The same after a connect that QEMU accepted late.
QgaGiveUpLate ==
  /\ Goto("qga_connect", "boot_bail")
  /\ Alive
  /\ OnlyMoves

\* Mutant of ChildCleanup: a child that still runs is left alone.
ChildCleanupNoKill ==
  /\ Goto("boot_bail", "boot_err") \/ Goto("drop_child", "drop_self")
  /\ TryWait
  /\ UNCHANGED <<target, runVars, socks, bootVars, jobVars, sendVars, uiVars>>

\* The guard around the child: an early return from boot_vm drops it before
\* run reports the failure, and a return from run before Qemu itself is
\* dropped.  child_cleanup kills the child if it still runs, and waits for it.
ChildCleanup ==
  /\ Goto("boot_bail", "boot_err") \/ Goto("drop_child", "drop_self")
  /\ qemu' = "reaped"
  /\ UNCHANGED <<target, runVars, socks, bootVars, jobVars, sendVars, uiVars>>

BootErr == Report("boot_err", "drop_self", Failure("BootEnd"))

BootOk == Report("boot_ok", "setup_start", Update("BootEnd"))

(***************************************************************************)
(* The run thread: setup_vm and the end of the init script.                *)
(***************************************************************************)
SetupStart == Report("setup_start", "mount", Update("SetupStart"))

\* Whatever mkdir and mount printed is sent as Setup lines.
SetupOutput == SendLine("Setup") \/ UNCHANGED sendVars

\* Mutant of MountOk: one mount too many.
MountOkOffByOne ==
  /\ pc = "mount"
  /\ qemu = "agent"
  /\ mountsLeft' = mountsLeft - 1
  /\ pc' = IF mountsLeft = 0 THEN "setup_ok" ELSE "mount"
  /\ SetupOutput
  /\ UNCHANGED <<target, readTimeout, initFile, qemuVars, bootVars, jobVars, uiVars>>

\* mount_in_guest succeeded.
MountOk ==
  /\ pc = "mount"
  /\ qemu = "agent"
  /\ mountsLeft' = mountsLeft - 1
  /\ pc' = IF mountsLeft = 1 THEN "setup_ok" ELSE "mount"
  /\ SetupOutput
  /\ UNCHANGED <<target, readTimeout, initFile, qemuVars, bootVars, jobVars, uiVars>>

\* The agent or a guest tool refused, or the agent was slower than 5s.
MountRefused ==
  /\ Goto("mount", "setup_err")
  /\ qemu = "agent"
  /\ SetupOutput
  /\ UNCHANGED <<target, runVars, qemuVars, bootVars, jobVars, uiVars>>

\* Nobody answers.
MountLost ==
  /\ Goto("mount", "setup_err")
  /\ Gone \/ (qemu = "mute" /\ readTimeout = "5s")
  /\ OnlyMoves

SetupOk == Report("setup_ok", "drop_init", Update("SetupEnd"))

\* Mutant of SetupErr: the return after the report is missing.
SetupErrGoesOn == Report("setup_err", "drop_init", Failure("SetupEnd"))

\* The child is still running when this failure is reported.
SetupErr == Report("setup_err", "drop_child", Failure("SetupEnd"))

\* Mutant of DropInit: the script is left to Qemu's destructor.
DropInitLate ==
  /\ Goto("drop_init", IF target.interactive THEN "wait_shell" ELSE "cmd_start")
  /\ OnlyMoves

DropInit ==
  /\ Goto("drop_init", IF target.interactive THEN "wait_shell" ELSE "cmd_start")
  /\ initFile' = "absent"
  /\ UNCHANGED <<target, mountsLeft, readTimeout, qemuVars, bootVars, jobVars, sendVars, uiVars>>

(***************************************************************************)
(* The run thread: run_command and run_in_vm.                              *)
(***************************************************************************)
CommandStart == Report("cmd_start", "cmd_connect", Update("CommandStart"))

\* Mutant of CmdConnect: the read timeout stays in force.
CmdConnectTimed ==
  /\ \/ Goto("cmd_connect", "exec") /\ Alive /\ "cmdout" \in socks
     \/ Goto("cmd_connect", "cmd_err") /\ ~(Alive /\ "cmdout" \in socks)
  /\ OnlyMoves

\* Reads of the agent's stream stop timing out, then the output socket is
\* connected; a failure restores the timeout (scopeguard).
CmdConnect ==
  /\ \/ /\ Goto("cmd_connect", "exec")
        /\ Alive /\ "cmdout" \in socks
        /\ readTimeout' = "none"
     \/ /\ Goto("cmd_connect", "cmd_err")
        /\ ~(Alive /\ "cmdout" \in socks)
        /\ UNCHANGED readTimeout
  /\ UNCHANGED <<target, mountsLeft, initFile, qemuVars, bootVars, jobVars, sendVars, uiVars>>

\* guest-exec is written to the agent's stream; a dead peer is a broken pipe.
Exec ==
  /\ \/ /\ Goto("exec", "exec_wait")
        /\ Alive
        /\ job' = "requested"
        /\ UNCHANGED readTimeout
     \/ /\ Goto("exec", "cmd_err")
        /\ ~Alive
        /\ readTimeout' = "5s"
        /\ UNCHANGED job
  /\ UNCHANGED <<target, mountsLeft, initFile, qemuVars, bootVars, exitCode, sink, port,
                 capVars, written, cmdOut, sendVars, uiVars>>

\* The reply with the command's pid: start streaming its output.
ExecAck ==
  /\ Goto("exec_wait", "poll")
  /\ qemu = "agent" /\ job \in {"running", "exited", "signaled"}
  /\ cmdOut' = "reading"
  /\ UNCHANGED <<target, runVars, qemuVars, bootVars, job, exitCode, sink, port,
                 capVars, written, sendVars, uiVars>>

\* guest-exec-status says exited; keeping on polling is a stuttering step.
PollExited ==
  /\ Goto("poll", "flush")
  /\ qemu = "agent" /\ job \in {"exited", "signaled"}
  /\ OnlyMoves

\* The agent answers either request with an error (no such program, no such
\* pid); the output stream is dropped if no thread has taken it.
CallRefused ==
  /\ \/ Goto("exec_wait", "cmd_err") /\ job = "requested" /\ job' = "idle"
     \/ Goto("poll", "cmd_err") /\ UNCHANGED job
  /\ qemu = "agent"
  /\ readTimeout' = "5s"
  /\ UNCHANGED <<target, mountsLeft, initFile, qemuVars, bootVars, exitCode, sink, port,
                 capVars, written, cmdOut, sendVars, uiVars>>

\* The stream ends with QEMU, or a read of it times out.
CallLost ==
  /\ Goto("exec_wait", "cmd_err") \/ Goto("poll", "cmd_err")
  /\ Gone \/ readTimeout = "5s"
  /\ readTimeout' = "5s"
  /\ UNCHANGED <<target, mountsLeft, initFile, qemuVars, bootVars, jobVars, sendVars, uiVars>>

\* What the agent captured is sent once the command has exited: first its
\* stdout, then its stderr, which makes no difference to lines without text.
FlushLine ==
  /\ pc = "flush" /\ captured > 0
  /\ captured' = captured - 1
  /\ SendLine("Command")
  /\ UNCHANGED <<target, pc, runVars, qemuVars, bootVars, job, exitCode, sink, port,
                 cut, marked, lost, written, cmdOut, uiVars>>

\* A stream that the agent truncated is followed by a line that says so.
FlushMarker ==
  /\ pc = "flush" /\ marked < cut
  /\ marked' = marked + 1
  /\ SendLine("Command")
  /\ UNCHANGED <<target, pc, runVars, qemuVars, bootVars, job, exitCode, sink, port,
                 captured, cut, lost, written, cmdOut, uiVars>>

\* Mutant of FlushEnd: the old timeout is not restored.
FlushEndUntimed ==
  /\ Goto("flush", "cmd_ok") /\ captured = 0 /\ marked = cut
  /\ OnlyMoves

FlushEnd ==
  /\ Goto("flush", "cmd_ok") /\ captured = 0 /\ marked = cut
  /\ readTimeout' = "5s"
  /\ UNCHANGED <<target, mountsLeft, initFile, qemuVars, bootVars, jobVars, sendVars, uiVars>>

\* status.exitcode.unwrap_or(0): the agent gives no code for a signal.
ReportedCode == IF job = "exited" THEN exitCode ELSE 0

CommandOk == Report("cmd_ok", "sync", Exited(ReportedCode))

CommandErr == Report("cmd_err", "sync", Failure("CommandEnd"))

(***************************************************************************)
(* The run thread: the end of run, the drops, and the return to Ui::run.   *)
(***************************************************************************)
\* A failed sync is only a warning.
SyncAnswered ==
  /\ Goto("sync", "quit")
  /\ qemu = "agent"
  /\ OnlyMoves

SyncLost ==
  /\ Goto("sync", "quit")
  /\ Gone \/ (qemu = "mute" /\ readTimeout = "5s")
  /\ OnlyMoves

\* QMP quit, on a stream with no read timeout.
QuitAnswered ==
  /\ Goto("quit", "wait_quit") \/ Goto("quit", "drop_child")
  /\ Alive
  /\ OnlyMoves

QuitLost ==
  /\ Goto("quit", "drop_child")
  /\ ~Alive
  /\ OnlyMoves

\* child.wait(), of an interactive target and after a quit that was accepted.
WaitChild ==
  /\ Goto("wait_shell", "drop_child") \/ Goto("wait_quit", "drop_child")
  /\ qemu = "zombie"
  /\ TryWait
  /\ UNCHANGED <<target, runVars, socks, bootVars, jobVars, sendVars, uiVars>>

\* Qemu is dropped: the socket files, the init script if it is still there,
\* and Qemu's end of the channel.
DropSelf ==
  /\ Goto("drop_self", "return")
  /\ socks' = {}
  /\ initFile' = "absent"
  /\ UNCHANGED <<target, mountsLeft, readTimeout, qemu, bootVars, jobVars, sendVars, uiVars>>

\* run_one returns and drops the last of the run thread's senders.
Return ==
  /\ Goto("return", "join")
  /\ OnlyMoves

\* Ui::run joins the UI thread.
Join ==
  /\ Goto("join", "done")
  /\ ui = "done"
  /\ OnlyMoves

-----------------------------------------------------------------------------
(***************************************************************************)
(* The streaming threads and the UI thread.                                *)
(***************************************************************************)
\* stream_child_output
BootLogLine ==
  /\ bootLog = "reading" /\ bootPipe > 0
  /\ bootPipe' = bootPipe - 1
  /\ SendLine("Boot")
  /\ UNCHANGED <<target, pc, runVars, qemuVars, bootLog, booted, jobVars, uiVars>>

\* Mutant of BootLogEof: read_line returning Ok(0) does not break the loop.
BootLogSpins ==
  /\ bootLog = "reading" /\ bootPipe = 0 /\ ~Alive
  /\ UNCHANGED vars

BootLogEof ==
  /\ bootLog = "reading" /\ bootPipe = 0 /\ ~Alive
  /\ bootLog' = "ended"
  /\ UNCHANGED <<target, pc, runVars, qemuVars, bootPipe, booted, jobVars, sendVars, uiVars>>

\* stream_command_output
CmdOutLine ==
  /\ cmdOut = "reading" /\ port > 0
  /\ port' = port - 1
  /\ SendLine("Command")
  /\ UNCHANGED <<target, pc, runVars, qemuVars, bootVars, job, exitCode, sink, capVars,
                 written, cmdOut, uiVars>>

CmdOutEof ==
  /\ cmdOut = "reading" /\ port = 0 /\ ~Alive
  /\ cmdOut' = "ended"
  /\ UNCHANGED <<target, pc, runVars, qemuVars, bootVars, job, exitCode, sink, port,
                 capVars, written, sendVars, uiVars>>

\* Mutant of HungUp: the streaming threads own no sender.
HungUpEarly == pc \in {"join", "done"}

\* The channel is hung up when every sender is gone: those of the run thread
\* and the clones that the streaming threads own.
HungUp == pc \in {"join", "done"} /\ bootLog # "reading" /\ cmdOut # "reading"

\* Mutant of RcAfter: a command that could not be run leaves the code alone.
RcAfterIgnoring(m) ==
  IF m.variant \notin Ends THEN rc
  ELSE CASE m.variant = "CommandEnd"  -> IF m.ok THEN {m.code} ELSE rc
         [] m.variant # "CommandEnd"  -> IF m.ok THEN rc ELSE {}

\* What target_ui makes of an update.
RcAfter(m) ==
  IF m.variant \notin Ends THEN rc
  ELSE CASE ~m.ok                               -> {}
         [] m.ok /\ m.variant = "CommandEnd"  -> {m.code}
         [] m.ok /\ m.variant # "CommandEnd"  -> rc

UiReceive ==
  /\ ui = "receiving" /\ taken < Len(log)
  /\ taken' = taken + 1
  /\ rc' = RcAfter(log[taken'])
  /\ UNCHANGED <<target, pc, runVars, qemuVars, bootVars, jobVars, sendVars, ui>>

UiHangUp ==
  /\ ui = "receiving" /\ taken = Len(log) /\ HungUp
  /\ ui' = "done"
  /\ UNCHANGED <<target, pc, runVars, qemuVars, bootVars, jobVars, sendVars, taken, rc>>

-----------------------------------------------------------------------------
(***************************************************************************)
(* The world outside of vmtest: QEMU, the guest, the user.                 *)
(***************************************************************************)
\* QEMU opens its sockets before the guest runs.
CreateSock ==
  /\ qemu = "starting"
  /\ \E s \in Socks \ socks : socks' = socks \cup {s}
  /\ UNCHANGED qemu /\ OnlyQemu

GuestStart ==
  /\ qemu = "starting" /\ socks = Socks
  /\ qemu' = "booting"
  /\ UNCHANGED socks /\ OnlyQemu

\* The agent comes up; in a kernel target the init script starts it.
AgentUp ==
  /\ qemu = "booting"
  /\ target.kernel => initFile = "present"
  /\ qemu' = "agent"
  /\ UNCHANGED socks /\ OnlyQemu

\* The guest hangs, or its agent dies.
AgentMute ==
  /\ qemu = "agent"
  /\ qemu' = "mute"
  /\ UNCHANGED socks /\ OnlyQemu

\* QEMU ends: told to, powered off, panicked or killed.  A clean end unlinks
\* its sockets.
QemuExit ==
  /\ Alive
  /\ qemu' = "zombie"
  /\ socks' \in {socks, {}}
  /\ OnlyQemu

\* QEMU and the guest's console write to the stdout that vmtest reads.
QemuPrint ==
  /\ Alive /\ bootLog = "reading" /\ booted < MaxBootLines
  /\ bootPipe' = bootPipe + 1 /\ booted' = booted + 1
  /\ UNCHANGED <<target, pc, runVars, qemuVars, bootLog, jobVars, sendVars, uiVars>>

\* The agent starts the command, whose script sends its output to the virtio
\* port if it can find it.
JobStart ==
  /\ job = "requested" /\ qemu = "agent"
  /\ job' = "running"
  /\ sink' \in {"port", "capture"}
  /\ UNCHANGED <<exitCode, port, capVars, written>> /\ NotTheJob

\* The agent captures a line whole; or, when its stream outgrows what the agent
\* keeps, the beginning of it or nothing; and nothing of that stream from then on.
Capture ==
  \/ /\ cut < CapturedStreams
     /\ captured' = captured + 1
     /\ cut' \in {cut, cut + 1}
     /\ UNCHANGED lost
  \/ /\ cut' \in {cut, cut + 1} \cap 1..CapturedStreams
     /\ lost' = lost + 1
     /\ UNCHANGED captured

\* A child that outlives the command may go on writing to the port, but the
\* agent's capture ends with the command.
JobWrite ==
  /\ qemu \in {"agent", "mute"} /\ written < MaxCmdLines
  /\ \/ /\ sink = "port" /\ job \in {"running", "exited", "signaled"}
        /\ port' = port + 1 /\ UNCHANGED capVars
     \/ /\ sink = "capture" /\ job = "running"
        /\ Capture /\ UNCHANGED <<port, marked>>
  /\ written' = written + 1
  /\ UNCHANGED <<job, exitCode, sink>> /\ NotTheJob

JobEnd ==
  /\ qemu \in {"agent", "mute"} /\ job = "running"
  /\ \/ job' = "exited" /\ exitCode' \in Codes
     \/ job' = "signaled" /\ UNCHANGED exitCode
  /\ UNCHANGED <<sink, port, capVars, written>> /\ NotTheJob

\* vmtest is killed, by Ctrl-C for one: no destructor runs, and the model ends
\* here.  Once Qemu is dropped there is nothing left that this could leak.
Killed ==
  /\ pc \notin {"join", "done"}
  /\ pc' = "killed"
  /\ ui' = "killed"
  /\ bootLog' = IF bootLog = "reading" THEN "killed" ELSE bootLog
  /\ cmdOut' = IF cmdOut = "reading" THEN "killed" ELSE cmdOut
  /\ UNCHANGED <<target, runVars, qemuVars, bootPipe, booted, job, exitCode, sink, port,
                 capVars, written, sendVars, taken, rc>>

\* The process may stop here for good.
Terminating == pc \in {"done", "killed"} /\ UNCHANGED vars

-----------------------------------------------------------------------------
\* Steps of the run thread that wait for nobody but the clock.
Prompt ==
  \/ GenInit \/ Verify \/ NewErr
  \/ BootStart \/ Spawn \/ WaitSocks \/ QmpConnect \/ HandshakeEof \/ QmpStderr
  \/ QgaGiveUp \/ ChildCleanup \/ BootErr \/ BootOk
  \/ SetupStart \/ MountLost \/ SetupOk \/ SetupErr \/ DropInit
  \/ CommandStart \/ CmdConnect \/ Exec \/ CallLost \/ FlushLine \/ FlushMarker
  \/ FlushEnd \/ CommandOk \/ CommandErr
  \/ SyncLost \/ QuitLost \/ WaitChild \/ DropSelf \/ Return \/ Join

\* Steps of the run thread that depend on what QEMU or the guest does.
Answered ==
  \/ HandshakeAnswer \/ QgaBlock \/ QgaConnect \/ QgaGiveUpLate \/ MountOk \/ MountRefused
  \/ ExecAck \/ PollExited \/ CallRefused \/ SyncAnswered \/ QuitAnswered

BootLogThread == BootLogLine \/ BootLogEof
CmdOutThread  == CmdOutLine \/ CmdOutEof
UiThread      == UiReceive \/ UiHangUp

World == /\ pc # "killed"
         /\ \/ CreateSock \/ GuestStart \/ AgentUp \/ AgentMute \/ QemuExit \/ QemuPrint
            \/ JobStart \/ JobWrite \/ JobEnd \/ Killed

Next == \/ Prompt \/ Answered \/ BootLogThread \/ CmdOutThread \/ UiThread
        \/ World \/ Terminating

Spec == Init /\ [][Next]_vars

\* The operating system runs vmtest's threads.  Nothing is assumed of QEMU,
\* the guest or the command: they may stop at any point.
Fairness == /\ WF_vars(Prompt)
            /\ WF_vars(BootLogThread)
            /\ WF_vars(CmdOutThread)
            /\ WF_vars(UiThread)

FairSpec == Spec /\ Fairness

-----------------------------------------------------------------------------
(***************************************************************************)
(* Properties.                                                             *)
(***************************************************************************)
TypeOK ==
  /\ target \in Targets
  /\ pc \in PCs
  /\ mountsLeft \in Nat
  /\ readTimeout \in {"5s", "none"}
  /\ initFile \in {"absent", "present"}
  /\ qemu \in {"none", "starting", "booting", "agent", "mute", "zombie", "reaped"}
  /\ socks \subseteq Socks
  /\ bootLog \in {"idle", "reading", "ended", "killed"}
  /\ bootPipe \in Nat /\ booted \in Nat
  /\ job \in {"idle", "requested", "running", "exited", "signaled"}
  /\ exitCode \in Codes
  /\ sink \in {"port", "capture"}
  /\ port \in Nat /\ captured \in Nat /\ lost \in Nat /\ written \in Nat
  /\ cut \in 0..CapturedStreams /\ marked \in 0..cut
  /\ cmdOut \in {"idle", "reading", "ended", "killed"}
  /\ log \in Seq(Output)
  /\ mark \in Output
  /\ ui \in {"receiving", "done", "killed"}
  /\ taken \in 0..Len(log)
  /\ rc \in SUBSET Nat

\* However a target ends, run_one returns with QEMU dead and reaped, its
\* socket files removed and the init script gone: qemu.rs drops the child's
\* guard before Qemu, so that no live QEMU can create a socket after Drop.
NothingLeftBehind ==
  pc \in {"return", "join", "done"} =>
    qemu \in {"none", "reaped"} /\ socks = {} /\ initFile = "absent"

\* The init script stays on disk for as long as a booting kernel target may
\* have to execute it (the file is owned by Qemu until SetupEnd).
GuestFindsInit ==
  qemu \in {"starting", "booting"} /\ target.kernel /\ pc # "killed" => initFile = "present"

\* From the command on, not even killing vmtest leaves the init script behind
\* (the early drop of self.init in run).
NoInitOnceCommandRuns ==
  mark.variant \in {"CommandStart", "CommandEnd"} => initFile = "absent"

\* A line is never received before the stage it belongs to was opened, and
\* Setup lines stay inside their stage, although three threads send.
LinesFollowStart ==
  \A i \in 1..Len(log) : log[i].variant \in Lines =>
    /\ \E j \in 1..i-1 : log[j].variant = Opening[log[i].variant]
    /\ log[i].variant = "Setup" => \A j \in 1..i-1 : log[j].variant # "SetupEnd"

\* Every complete UTF-8 line that QEMU printed, and of a command completed by
\* the agent every line that it wrote to the port, even after it ended, or that the
\* agent kept at least the beginning of, was received by the time the UI thread
\* returns: the streaming threads keep the channel open.  A captured stream that
\* the agent truncated was told of by one line more (qemu.rs out_truncated).
NoLineLost ==
  ui = "done" =>
    /\ Received("Boot") = booted
    /\ mark.variant = "CommandEnd" /\ mark.ok =>
         Received("Command") = (written - lost) + cut

\* What target_ui returns: None exactly if some stage failed, and otherwise
\* the code that the agent reported for a command that really ended, or 0 for
\* an interactive target whose setup succeeded.
VerdictIsRight ==
  ui = "done" =>
    /\ rc = {} <=> \E i \in 1..Len(log) : ~log[i].ok
    /\ rc # {} => IF target.interactive
                     THEN rc = {0} /\ mark = Update("SetupEnd")
                     ELSE rc = {ReportedCode} /\ job \in {"exited", "signaled"}

\* The stages follow the protocol of output.rs and the channel is hung up only
\* after the last of them.
Protocol == INSTANCE UpdateProtocol
              WITH interactive <- target.interactive, last <- mark, hungUp <- HungUp
FollowsProtocol == Protocol!Spec

\* The command of a guest that is merely slow or hung is never abandoned: only
\* the end of QEMU or an answer of the agent makes run_command fail (#40).
PatientCommand ==
  [][(pc \in {"exec_wait", "poll"} /\ pc' = "cmd_err") => (Gone \/ qemu = "agent")]_vars

\* Once QEMU is gone, every thread notices and the target completes.
EndOfQemuEndsRun == Gone ~> pc \in {"done", "killed"}

\* Where vmtest may wait for ever on a live QEMU: reads and a connect with no
\* timeout, and child.wait.  A guest that stopped answering is one of these only
\* while the user's command is running or at the QMP and agent sockets.
UntimedWaits == {"handshake", "qmp_stderr", "qga_connect", "exec_wait", "poll", "quit",
                 "wait_quit", "wait_shell"}

\* A run that never completes waits at one of those points, or polls an agent
\* that keeps answering.  In particular neither setup nor the final sync waits
\* for ever on an agent that is silent: the 5s timeout is back in force.
NeverStuckElsewhere ==
  \/ <>(pc \in {"done", "killed"})
  \/ <>[](Alive /\ pc \in UntimedWaits)
  \/ <>[](qemu = "agent" /\ pc \in {"mount", "sync"})

(***************************************************************************)
(* What the comments say and the code does not do.                         *)
(***************************************************************************)
\* qemu.rs:1050 "Ensure child is cleaned up even if we bail early", of the two
\* early returns that first read QEMU's stderr to its end.
BailCleansUpChild == pc = "qmp_stderr" ~> (qemu = "reaped" \/ pc = "killed")

\* qemu.rs:539 "Returns the exit code if command is run": a command that a
\* signal killed has none, and is not one that passed.
SignalIsNoPass == (ui = "done" /\ job = "signaled") => rc # {0}
=============================================================================
