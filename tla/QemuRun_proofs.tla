----------------------------- MODULE QemuRun_proofs -----------------------------
(***************************************************************************)
(* Proofs about QemuRun, for every set of targets, every set of exit codes *)
(* and every bound on the output.                                          *)
(***************************************************************************)
EXTENDS QemuRun, TLAPS

USE DEF vars, runVars, qemuVars, bootVars, jobVars, capVars, sendVars, uiVars, Goto, OnlyMoves,
        Report, OnlyQemu, NotTheJob

(***************************************************************************)
(* Where the run thread is tells what it holds and what it has reported.   *)
(***************************************************************************)
BeforeSpawn == {"gen_init", "verify", "new_err", "boot_start", "spawn"}

\* boot_vm with a child.
Booting == {"wait_socks", "qmp_connect", "handshake", "qmp_stderr", "boot_bail", "qga",
            "qga_connect"}

Settling == {"boot_ok", "setup_start", "mount", "setup_ok", "setup_err", "drop_init"}

\* run, once the init script has been dropped.
Serving == {"wait_shell", "cmd_start", "cmd_connect", "exec", "exec_wait", "poll", "flush",
            "cmd_ok", "cmd_err", "sync", "quit", "wait_quit"}

Resources ==
  /\ pc \in BeforeSpawn => qemu = "none" /\ socks = {}
  /\ pc \in Settling \cup Serving \cup {"drop_child"} =>
       qemu \notin {"none", "starting", "booting"}
  /\ pc \in {"boot_err", "drop_self"} => qemu \in {"none", "reaped"}
  /\ pc \in {"gen_init", "new_err"} \cup Serving => initFile = "absent"
  /\ pc \in {"verify", "boot_start", "spawn"} \cup Booting \cup Settling => initFile = "present"
  /\ pc \in BeforeSpawn \cup Booting \cup {"boot_ok", "setup_start", "mount"} => mountsLeft > 0
  /\ pc \in {"exec", "exec_wait", "poll"} => readTimeout = "none"

Reported ==
  /\ pc \in {"gen_init", "verify", "new_err", "boot_start"} => mark = NoUpdate
  /\ pc \in {"spawn", "boot_err", "boot_ok"} \cup Booting => mark = Update("BootStart")
  /\ pc = "setup_start" => mark = Update("BootEnd")
  /\ pc \in {"mount", "setup_ok", "setup_err"} => mark = Update("SetupStart")
  /\ pc \in {"drop_init", "wait_shell", "cmd_start"} => mark = Update("SetupEnd")
  /\ pc \in {"cmd_connect", "exec", "exec_wait", "poll", "flush", "cmd_ok", "cmd_err"} =>
       mark = Update("CommandStart")
  /\ pc \in {"sync", "quit", "wait_quit"} => mark.variant = "CommandEnd"
  /\ pc \in {"drop_child", "drop_self", "return", "join", "done"} => Protocol!Final(mark)
  /\ pc = "wait_shell" => target.interactive
  /\ pc = "cmd_start" => ~target.interactive
  /\ pc = "drop_child" /\ mark.variant = "CommandEnd" => initFile = "absent"

IInv == TypeOK /\ Resources /\ Reported /\ NothingLeftBehind /\ NoInitOnceCommandRuns

-----------------------------------------------------------------------------
\* Every update that vmtest builds is an Output.
LEMMA MessagesTyped ==
  /\ NoUpdate \in Output
  /\ \A v \in Starts \cup Lines \cup Ends : Update(v) \in Output /\ Failure(v) \in Output
  /\ \A c \in Nat : Exited(c) \in Output
BY DEF NoUpdate, Update, Failure, Exited, Output, Starts, Lines, Ends

\* Every step keeps the types.
LEMMA TypeStep ==
  ASSUME IInv, [Next]_vars
  PROVE  TypeOK'
  <1> USE MessagesTyped DEF IInv, TypeOK, PCs, SendStage, SendLine, Starts, Lines, Ends, TryWait
<1>1. CASE GenInit
  BY <1>1 DEF GenInit
<1>2. CASE Verify
  BY <1>2 DEF Verify
<1>3. CASE NewErr
  BY <1>3 DEF NewErr
<1>4. CASE BootStart
  BY <1>4 DEF BootStart
<1>5. CASE Spawn
  BY <1>5 DEF Spawn
<1>6. CASE WaitSocks
  BY <1>6 DEF WaitSocks
<1>7. CASE QmpConnect
  BY <1>7 DEF QmpConnect
<1>8. CASE HandshakeEof
  BY <1>8 DEF HandshakeEof
<1>9. CASE QmpStderr
  BY <1>9 DEF QmpStderr
<1>10. CASE QgaGiveUp
  BY <1>10 DEF QgaGiveUp
<1>11. CASE ChildCleanup
  BY <1>11 DEF ChildCleanup
<1>12. CASE BootErr
  BY <1>12 DEF BootErr
<1>13. CASE BootOk
  BY <1>13 DEF BootOk
<1>14. CASE SetupStart
  BY <1>14 DEF SetupStart
<1>15. CASE MountLost
  BY <1>15 DEF MountLost
<1>16. CASE SetupOk
  BY <1>16 DEF SetupOk
<1>17. CASE SetupErr
  BY <1>17 DEF SetupErr
<1>18. CASE DropInit
  BY <1>18 DEF DropInit
<1>19. CASE WaitChild
  BY <1>19 DEF WaitChild
<1>20. CASE CommandStart
  BY <1>20 DEF CommandStart
<1>21. CASE CmdConnect
  BY <1>21 DEF CmdConnect
<1>22. CASE Exec
  BY <1>22 DEF Exec
<1>23. CASE CallLost
  BY <1>23 DEF CallLost
<1>24. CASE FlushLine \/ FlushMarker
  <2>1. CASE FlushLine
    BY <2>1 DEF FlushLine
  <2>2. CASE FlushMarker
    <3>1. marked' \in 0..cut' /\ cut' = cut
      BY <2>2 DEF FlushMarker, CapturedStreams
    <3>2. QED
      BY <2>2, <3>1 DEF FlushMarker
  <2>3. QED
    BY <1>24, <2>1, <2>2
<1>25. CASE FlushEnd
  BY <1>25 DEF FlushEnd
<1>26. CASE CommandOk
  BY <1>26, CodesAssumption DEF CommandOk, ReportedCode
<1>27. CASE CommandErr
  BY <1>27 DEF CommandErr
<1>28. CASE SyncLost
  BY <1>28 DEF SyncLost
<1>29. CASE QuitLost
  BY <1>29 DEF QuitLost
<1>30. CASE DropSelf
  BY <1>30 DEF DropSelf
<1>31. CASE Return
  BY <1>31 DEF Return
<1>32. CASE Join
  BY <1>32 DEF Join
<1>33. CASE HandshakeAnswer
  BY <1>33 DEF HandshakeAnswer
<1>34. CASE QgaBlock \/ QgaConnect \/ QgaGiveUpLate
  BY <1>34 DEF QgaBlock, QgaConnect, QgaGiveUpLate
<1>35. CASE MountOk
  BY <1>35 DEF MountOk, SetupOutput, Resources
<1>36. CASE MountRefused
  BY <1>36 DEF MountRefused, SetupOutput
<1>37. CASE ExecAck
  BY <1>37 DEF ExecAck
<1>38. CASE PollExited
  BY <1>38 DEF PollExited
<1>39. CASE CallRefused
  BY <1>39 DEF CallRefused
<1>40. CASE SyncAnswered
  BY <1>40 DEF SyncAnswered
<1>41. CASE QuitAnswered
  BY <1>41 DEF QuitAnswered
<1>42. CASE BootLogLine
  BY <1>42 DEF BootLogLine
<1>43. CASE BootLogEof
  BY <1>43 DEF BootLogEof
<1>44. CASE CmdOutLine
  BY <1>44 DEF CmdOutLine
<1>45. CASE CmdOutEof
  BY <1>45 DEF CmdOutEof
<1>46. CASE UiReceive
  <2>1. log[taken + 1] \in Output
    BY <1>46 DEF UiReceive
  <2>2. RcAfter(log[taken + 1]) \in SUBSET Nat
    BY <2>1 DEF RcAfter, Output
  <2>3. QED
    BY <1>46, <2>2 DEF UiReceive
<1>47. CASE UiHangUp
  BY <1>47 DEF UiHangUp
<1>48. CASE CreateSock
  BY <1>48 DEF CreateSock
<1>49. CASE GuestStart
  BY <1>49 DEF GuestStart
<1>50. CASE AgentUp
  BY <1>50 DEF AgentUp
<1>51. CASE AgentMute
  BY <1>51 DEF AgentMute
<1>52. CASE QemuExit
  BY <1>52 DEF QemuExit
<1>53. CASE QemuPrint
  BY <1>53 DEF QemuPrint
<1>54. CASE JobStart
  BY <1>54 DEF JobStart
<1>55. CASE JobWrite
  <2>1. /\ port' \in Nat /\ captured' \in Nat /\ lost' \in Nat /\ written' \in Nat
        /\ cut' \in 0..CapturedStreams /\ marked' \in 0..cut'
    BY <1>55 DEF JobWrite, Capture, CapturedStreams
  <2>2. QED
    BY <1>55, <2>1 DEF JobWrite
<1>56. CASE JobEnd
  BY <1>56 DEF JobEnd
<1>57. CASE Killed
  BY <1>57 DEF Killed
<1>58. CASE UNCHANGED vars
  BY <1>58
<1>59. QED
  BY <1>1, <1>2, <1>3, <1>4, <1>5, <1>6, <1>7, <1>8, <1>9, <1>10, <1>11,
     <1>12, <1>13, <1>14, <1>15, <1>16, <1>17, <1>18, <1>19, <1>20, <1>21,
     <1>22, <1>23, <1>24, <1>25, <1>26, <1>27, <1>28, <1>29, <1>30, <1>31,
     <1>32, <1>33, <1>34, <1>35, <1>36, <1>37, <1>38, <1>39, <1>40, <1>41,
     <1>42, <1>43, <1>44, <1>45, <1>46, <1>47, <1>48, <1>49, <1>50, <1>51,
     <1>52, <1>53, <1>54, <1>55, <1>56, <1>57, <1>58
  DEF Next, Prompt, Answered, BootLogThread, CmdOutThread, UiThread, World, Terminating

\* Every step keeps what each place of the run thread says of QEMU, the sockets,
\* the init script and the read timeout.
LEMMA ResourceStep ==
  ASSUME IInv, [Next]_vars
  PROVE  Resources' /\ NothingLeftBehind'
  <1> USE DEF IInv, TypeOK, Resources, NothingLeftBehind, BeforeSpawn, Booting, Settling, Serving,
          TryWait, Alive
<1>1. CASE GenInit \/ Verify
  BY <1>1 DEF GenInit, Verify
<1>2. CASE NewErr
  BY <1>2 DEF NewErr
<1>3. CASE BootStart
  BY <1>3 DEF BootStart
<1>4. CASE Spawn
  BY <1>4 DEF Spawn
<1>5. CASE WaitSocks \/ QmpConnect \/ HandshakeAnswer \/ HandshakeEof
  BY <1>5 DEF WaitSocks, QmpConnect, HandshakeAnswer, HandshakeEof
<1>6. CASE QmpStderr \/ QgaBlock \/ QgaConnect \/ QgaGiveUp \/ QgaGiveUpLate
  BY <1>6 DEF QmpStderr, QgaBlock, QgaConnect, QgaGiveUp, QgaGiveUpLate
<1>7. CASE ChildCleanup
  BY <1>7 DEF ChildCleanup
<1>8. CASE BootErr
  BY <1>8 DEF BootErr
<1>9. CASE BootOk
  BY <1>9 DEF BootOk
<1>10. CASE SetupStart
  BY <1>10 DEF SetupStart
<1>11. CASE MountOk
  BY <1>11 DEF MountOk
<1>12. CASE MountRefused \/ MountLost
  BY <1>12 DEF MountRefused, MountLost
<1>13. CASE SetupOk
  BY <1>13 DEF SetupOk
<1>14. CASE SetupErr
  BY <1>14 DEF SetupErr
<1>15. CASE DropInit
  BY <1>15 DEF DropInit
<1>16. CASE WaitChild
  BY <1>16 DEF WaitChild
<1>17. CASE CommandStart
  BY <1>17 DEF CommandStart
<1>18. CASE CmdConnect \/ Exec \/ ExecAck
  BY <1>18 DEF CmdConnect, Exec, ExecAck
<1>19. CASE PollExited \/ CallRefused \/ CallLost
  BY <1>19 DEF PollExited, CallRefused, CallLost
<1>20. CASE FlushLine \/ FlushMarker \/ FlushEnd
  BY <1>20 DEF FlushLine, FlushMarker, FlushEnd
<1>21. CASE CommandOk
  BY <1>21 DEF CommandOk
<1>22. CASE CommandErr
  BY <1>22 DEF CommandErr
<1>23. CASE SyncAnswered \/ SyncLost \/ QuitAnswered \/ QuitLost
  BY <1>23 DEF SyncAnswered, SyncLost, QuitAnswered, QuitLost
<1>24. CASE DropSelf
  BY <1>24 DEF DropSelf
<1>25. CASE Return
  BY <1>25 DEF Return
<1>26. CASE Join
  BY <1>26 DEF Join
<1>27. CASE BootLogLine \/ BootLogEof
  BY <1>27 DEF BootLogLine, BootLogEof
<1>28. CASE CmdOutLine \/ CmdOutEof
  BY <1>28 DEF CmdOutLine, CmdOutEof
<1>29. CASE UiReceive \/ UiHangUp
  BY <1>29 DEF UiReceive, UiHangUp
<1>30. CASE CreateSock \/ GuestStart \/ AgentUp \/ AgentMute \/ QemuExit
  <2>1. CASE CreateSock \/ GuestStart
    BY <2>1 DEF CreateSock, GuestStart
  <2>2. CASE AgentUp \/ AgentMute \/ QemuExit
    BY <2>2 DEF AgentUp, AgentMute, QemuExit
  <2>3. QED
    BY <1>30, <2>1, <2>2
<1>31. CASE QemuPrint \/ JobStart \/ JobWrite \/ JobEnd
  <2>1. CASE QemuPrint \/ JobStart
    BY <2>1 DEF QemuPrint, JobStart
  <2>2. CASE JobWrite \/ JobEnd
    BY <2>2 DEF JobWrite, JobEnd
  <2>3. QED
    BY <1>31, <2>1, <2>2
<1>32. CASE Killed
  BY <1>32 DEF Killed
<1>33. CASE UNCHANGED vars
  BY <1>33
<1>34. QED
  BY <1>1, <1>2, <1>3, <1>4, <1>5, <1>6, <1>7, <1>8, <1>9, <1>10, <1>11,
     <1>12, <1>13, <1>14, <1>15, <1>16, <1>17, <1>18, <1>19, <1>20, <1>21,
     <1>22, <1>23, <1>24, <1>25, <1>26, <1>27, <1>28, <1>29, <1>30, <1>31,
     <1>32, <1>33
  DEF Next, Prompt, Answered, BootLogThread, CmdOutThread, UiThread, World, Terminating

\* Every step keeps what each place of the run thread says of the last stage
\* reported.
LEMMA ReportStep ==
  ASSUME IInv, [Next]_vars
  PROVE  Reported' /\ NoInitOnceCommandRuns'
  <1> USE DEF IInv, Resources, Reported, NothingLeftBehind, NoInitOnceCommandRuns, BeforeSpawn,
                    Booting, Settling, Serving, SendStage, SendLine, Protocol!Final,
            Protocol!Update, NoUpdate, Update,
          Failure, Exited
<1>1. CASE GenInit \/ Verify
  BY <1>1 DEF GenInit, Verify
<1>2. CASE NewErr
  BY <1>2 DEF NewErr
<1>3. CASE BootStart
  BY <1>3 DEF BootStart
<1>4. CASE Spawn
  BY <1>4 DEF Spawn
<1>5. CASE WaitSocks \/ QmpConnect \/ HandshakeAnswer \/ HandshakeEof
  BY <1>5 DEF WaitSocks, QmpConnect, HandshakeAnswer, HandshakeEof
<1>6. CASE QmpStderr \/ QgaBlock \/ QgaConnect \/ QgaGiveUp \/ QgaGiveUpLate
  BY <1>6 DEF QmpStderr, QgaBlock, QgaConnect, QgaGiveUp, QgaGiveUpLate
<1>7. CASE ChildCleanup
  BY <1>7 DEF ChildCleanup
<1>8. CASE BootErr
  BY <1>8 DEF BootErr
<1>9. CASE BootOk
  BY <1>9 DEF BootOk
<1>10. CASE SetupStart
  BY <1>10 DEF SetupStart
<1>11. CASE MountOk
  BY <1>11 DEF MountOk, SetupOutput
<1>12. CASE MountRefused \/ MountLost
  BY <1>12 DEF MountRefused, MountLost, SetupOutput
<1>13. CASE SetupOk
  BY <1>13 DEF SetupOk
<1>14. CASE SetupErr
  BY <1>14 DEF SetupErr
<1>15. CASE DropInit
  BY <1>15 DEF DropInit
<1>16. CASE WaitChild
  BY <1>16 DEF WaitChild
<1>17. CASE CommandStart
  BY <1>17 DEF CommandStart
<1>18. CASE CmdConnect \/ Exec \/ ExecAck
  BY <1>18 DEF CmdConnect, Exec, ExecAck
<1>19. CASE PollExited \/ CallRefused \/ CallLost
  BY <1>19 DEF PollExited, CallRefused, CallLost
<1>20. CASE FlushLine \/ FlushMarker \/ FlushEnd
  BY <1>20 DEF FlushLine, FlushMarker, FlushEnd
<1>21. CASE CommandOk
  BY <1>21 DEF CommandOk
<1>22. CASE CommandErr
  BY <1>22 DEF CommandErr
<1>23. CASE SyncAnswered \/ SyncLost \/ QuitAnswered \/ QuitLost
  BY <1>23 DEF SyncAnswered, SyncLost, QuitAnswered, QuitLost
<1>24. CASE DropSelf
  BY <1>24 DEF DropSelf
<1>25. CASE Return
  BY <1>25 DEF Return
<1>26. CASE Join
  BY <1>26 DEF Join
<1>27. CASE BootLogLine \/ BootLogEof
  BY <1>27 DEF BootLogLine, BootLogEof
<1>28. CASE CmdOutLine \/ CmdOutEof
  BY <1>28 DEF CmdOutLine, CmdOutEof
<1>29. CASE UiReceive \/ UiHangUp
  BY <1>29 DEF UiReceive, UiHangUp
<1>30. CASE CreateSock \/ GuestStart \/ AgentUp \/ AgentMute \/ QemuExit
  <2>1. CASE CreateSock \/ GuestStart
    BY <2>1 DEF CreateSock, GuestStart
  <2>2. CASE AgentUp \/ AgentMute \/ QemuExit
    BY <2>2 DEF AgentUp, AgentMute, QemuExit
  <2>3. QED
    BY <1>30, <2>1, <2>2
<1>31. CASE QemuPrint \/ JobStart \/ JobWrite \/ JobEnd
  <2>1. CASE QemuPrint \/ JobStart
    BY <2>1 DEF QemuPrint, JobStart
  <2>2. CASE JobWrite \/ JobEnd
    BY <2>2 DEF JobWrite, JobEnd
  <2>3. QED
    BY <1>31, <2>1, <2>2
<1>32. CASE Killed
  BY <1>32 DEF Killed
<1>33. CASE UNCHANGED vars
  BY <1>33
<1>34. QED
  BY <1>1, <1>2, <1>3, <1>4, <1>5, <1>6, <1>7, <1>8, <1>9, <1>10, <1>11,
     <1>12, <1>13, <1>14, <1>15, <1>16, <1>17, <1>18, <1>19, <1>20, <1>21,
     <1>22, <1>23, <1>24, <1>25, <1>26, <1>27, <1>28, <1>29, <1>30, <1>31,
     <1>32, <1>33
  DEF Next, Prompt, Answered, BootLogThread, CmdOutThread, UiThread, World, Terminating

-----------------------------------------------------------------------------
\* The initial states satisfy the inductive invariant.
LEMMA InitIInv == Init => IInv
BY TargetsAssumption, CodesAssumption, MessagesTyped
DEF Init, IInv, TypeOK, PCs, Socks, CapturedStreams, Resources, Reported, NothingLeftBehind, NoInitOnceCommandRuns,
    BeforeSpawn, Booting, Settling, Serving, NoUpdate

\* The inductive invariant holds of every run: the run thread's place determines
\* what it holds and what it has reported.
THEOREM Inductive == Spec => []IInv
<1>1. IInv /\ [Next]_vars => IInv'
  BY TypeStep, ResourceStep, ReportStep DEF IInv
<1>2. QED
  BY InitIInv, <1>1, PTL DEF Spec

\* Every variable keeps its type, whatever the guest and QEMU do.
THEOREM TypeCorrect == Spec => []TypeOK
<1>1. IInv => TypeOK
  BY DEF IInv
<1>2. QED
  BY Inductive, <1>1, PTL

\* run_one returns with QEMU reaped, its sockets and the init script removed.
THEOREM ReturnsClean == Spec => []NothingLeftBehind
<1>1. IInv => NothingLeftBehind
  BY DEF IInv
<1>2. QED
  BY Inductive, <1>1, PTL

\* A kernel target that boots still has the init script it will execute.
THEOREM InitScriptThere == Spec => []GuestFindsInit
<1>1. IInv => GuestFindsInit
  BY DEF IInv, TypeOK, PCs, Resources, NothingLeftBehind, GuestFindsInit, BeforeSpawn, Booting,
         Settling, Serving
<1>2. QED
  BY Inductive, <1>1, PTL

\* Killing vmtest once the command runs leaks no init script.
THEOREM InitScriptGone == Spec => []NoInitOnceCommandRuns
<1>1. IInv => NoInitOnceCommandRuns
  BY DEF IInv
<1>2. QED
  BY Inductive, <1>1, PTL

-----------------------------------------------------------------------------
(***************************************************************************)
(* A step of QemuRun is a step of UpdateProtocol or leaves it alone.       *)
(***************************************************************************)
\* Sending a Start or an End is Advance, dropping the last sender is HangUp.
LEMMA ProtocolStep ==
  ASSUME IInv, IInv', [Next]_vars
  PROVE  [Protocol!Next]_(Protocol!vars)
  <1> USE DEF IInv, TypeOK, Reported, Booting, SendStage, SendLine, HungUp, Protocol!Next,
          Protocol!Advance, Protocol!HangUp, Protocol!Follows, Protocol!vars,
          NoUpdate, Update, Failure, Exited, Protocol!NoUpdate, Protocol!Update,
          Protocol!Failure, Output, Protocol!Output, Starts, Lines, Ends, Protocol!Starts,
          Protocol!Lines, Protocol!Ends
<1>1. CASE GenInit \/ Verify
  BY <1>1 DEF GenInit, Verify
<1>2. CASE NewErr
  BY <1>2 DEF NewErr
<1>3. CASE BootStart
  BY <1>3 DEF BootStart
<1>4. CASE Spawn
  BY <1>4 DEF Spawn
<1>5. CASE WaitSocks \/ QmpConnect \/ HandshakeAnswer \/ HandshakeEof
  BY <1>5 DEF WaitSocks, QmpConnect, HandshakeAnswer, HandshakeEof
<1>6. CASE QmpStderr \/ QgaBlock \/ QgaConnect \/ QgaGiveUp \/ QgaGiveUpLate
  BY <1>6 DEF QmpStderr, QgaBlock, QgaConnect, QgaGiveUp, QgaGiveUpLate
<1>7. CASE ChildCleanup
  BY <1>7 DEF ChildCleanup
<1>8. CASE BootErr
  BY <1>8 DEF BootErr
<1>9. CASE BootOk
  BY <1>9 DEF BootOk
<1>10. CASE SetupStart
  BY <1>10 DEF SetupStart
<1>11. CASE MountOk
  BY <1>11 DEF MountOk, SetupOutput
<1>12. CASE MountRefused \/ MountLost
  BY <1>12 DEF MountRefused, MountLost, SetupOutput
<1>13. CASE SetupOk
  BY <1>13 DEF SetupOk
<1>14. CASE SetupErr
  BY <1>14 DEF SetupErr
<1>15. CASE DropInit
  BY <1>15 DEF DropInit
<1>16. CASE WaitChild
  BY <1>16 DEF WaitChild
<1>17. CASE CommandStart
  BY <1>17 DEF CommandStart
<1>18. CASE CmdConnect \/ Exec \/ ExecAck
  BY <1>18 DEF CmdConnect, Exec, ExecAck
<1>19. CASE PollExited \/ CallRefused \/ CallLost
  BY <1>19 DEF PollExited, CallRefused, CallLost
<1>20. CASE FlushLine \/ FlushMarker \/ FlushEnd
  BY <1>20 DEF FlushLine, FlushMarker, FlushEnd
<1>21. CASE CommandOk
  BY <1>21, CodesAssumption DEF CommandOk, ReportedCode
<1>22. CASE CommandErr
  BY <1>22 DEF CommandErr
<1>23. CASE SyncAnswered \/ SyncLost \/ QuitAnswered \/ QuitLost
  BY <1>23 DEF SyncAnswered, SyncLost, QuitAnswered, QuitLost
<1>24. CASE DropSelf
  BY <1>24 DEF DropSelf
<1>25. CASE Return
  BY <1>25 DEF Return
<1>26. CASE Join
  BY <1>26 DEF Join
<1>27. CASE BootLogLine \/ BootLogEof
  BY <1>27 DEF BootLogLine, BootLogEof
<1>28. CASE CmdOutLine \/ CmdOutEof
  BY <1>28 DEF CmdOutLine, CmdOutEof
<1>29. CASE UiReceive \/ UiHangUp
  BY <1>29 DEF UiReceive, UiHangUp
<1>30. CASE CreateSock \/ GuestStart \/ AgentUp \/ AgentMute \/ QemuExit
  <2>1. CASE CreateSock \/ GuestStart
    BY <2>1 DEF CreateSock, GuestStart
  <2>2. CASE AgentUp \/ AgentMute \/ QemuExit
    BY <2>2 DEF AgentUp, AgentMute, QemuExit
  <2>3. QED
    BY <1>30, <2>1, <2>2
<1>31. CASE QemuPrint \/ JobStart \/ JobWrite \/ JobEnd
  <2>1. CASE QemuPrint \/ JobStart
    BY <2>1 DEF QemuPrint, JobStart
  <2>2. CASE JobWrite \/ JobEnd
    BY <2>2 DEF JobWrite, JobEnd
  <2>3. QED
    BY <1>31, <2>1, <2>2
<1>32. CASE Killed
  BY <1>32 DEF Killed
<1>33. CASE UNCHANGED vars
  BY <1>33
<1>34. QED
  BY <1>1, <1>2, <1>3, <1>4, <1>5, <1>6, <1>7, <1>8, <1>9, <1>10, <1>11,
     <1>12, <1>13, <1>14, <1>15, <1>16, <1>17, <1>18, <1>19, <1>20, <1>21,
     <1>22, <1>23, <1>24, <1>25, <1>26, <1>27, <1>28, <1>29, <1>30, <1>31,
     <1>32, <1>33
  DEF Next, Prompt, Answered, BootLogThread, CmdOutThread, UiThread, World, Terminating

\* The updates of a target follow the protocol of output.rs.
THEOREM ImplementsProtocol == Spec => FollowsProtocol
<1>1. Init => Protocol!Init
  BY TargetsAssumption DEF Init, Protocol!Init, HungUp, NoUpdate, Protocol!NoUpdate
<1>2. QED
  BY Inductive, ProtocolStep, <1>1, PTL DEF Spec, Protocol!Spec, FollowsProtocol

-----------------------------------------------------------------------------
\* While the VM lives, the command is given up only on an answer of the agent.
THEOREM CommandIsWaitedFor == Spec => PatientCommand
<1>1. ASSUME IInv, [Next]_vars, pc \in {"exec_wait", "poll"}, pc' = "cmd_err"
      PROVE  Gone \/ qemu = "agent"
  <2>1. CASE CallRefused
    BY <1>1, <2>1 DEF CallRefused
  <2>2. CASE CallLost
    BY <1>1, <2>2 DEF CallLost, IInv, Resources
  <2>3. ~UNCHANGED vars
    BY <1>1
  <2>4. CASE ~CallRefused /\ ~CallLost
    BY <1>1, <2>3, <2>4
    DEF Next, Prompt, Answered, BootLogThread, CmdOutThread, UiThread, World, Terminating,
                GenInit, Verify, NewErr, BootStart, Spawn, WaitSocks, QmpConnect,
        HandshakeEof, QmpStderr, QgaGiveUp, ChildCleanup, BootErr, BootOk, SetupStart,
        MountLost, SetupOk, SetupErr, DropInit, WaitChild, CommandStart, CmdConnect, Exec,
        FlushLine, FlushMarker, FlushEnd, CommandOk, CommandErr, SyncLost, QuitLost, DropSelf, Return,
        Join, HandshakeAnswer, QgaBlock, QgaConnect, QgaGiveUpLate, MountOk, MountRefused, ExecAck, PollExited,
        SyncAnswered, QuitAnswered, BootLogLine, BootLogEof, CmdOutLine, CmdOutEof, UiReceive,
        UiHangUp, CreateSock, GuestStart, AgentUp, AgentMute, QemuExit, QemuPrint, JobStart,
        JobWrite, JobEnd, Killed
  <2>5. QED
    BY <2>1, <2>2, <2>4
<1>2. IInv /\ [Next]_vars =>
        [(pc \in {"exec_wait", "poll"} /\ pc' = "cmd_err") => (Gone \/ qemu = "agent")]_vars
  BY <1>1
<1>3. QED
  BY Inductive, <1>2, PTL DEF Spec, PatientCommand
===============================================================================
