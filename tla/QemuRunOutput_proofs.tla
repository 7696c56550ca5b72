-------------------------- MODULE QemuRunOutput_proofs --------------------------
(***************************************************************************)
(* Proofs about what arrives at the other end of the update channel of     *)
(* QemuRun: the verdict of the UI thread, and the order and completeness   *)
(* of the lines that three threads send.                                   *)
(***************************************************************************)
EXTENDS QemuRun_proofs, FiniteSetTheorems

USE DEF vars, runVars, qemuVars, bootVars, jobVars, capVars, sendVars, uiVars, Goto, OnlyMoves,
        Report, OnlyQemu, NotTheJob

JobOver == job \in {"exited", "signaled"}

(***************************************************************************)
(* What the threads leave behind: a streaming thread that ended has read   *)
(* everything, and a command that is reported is over and flushed.         *)
(***************************************************************************)
Threads ==
  /\ bootLog \in {"idle", "ended"} => bootPipe = 0
  /\ cmdOut = "ended" => port = 0 /\ Gone
  /\ bootLog # "idle" \/ cmdOut # "idle" => qemu # "none"
  /\ bootLog = "killed" \/ cmdOut = "killed" => pc = "killed"
  /\ pc \in {"poll", "flush", "cmd_ok"} => cmdOut # "idle"
  /\ pc \in {"flush", "cmd_ok"} => JobOver
  /\ pc = "cmd_ok" => captured = 0 /\ marked = cut
  /\ mark.variant = "CommandEnd" /\ mark.ok =>
       /\ mark.code = ReportedCode /\ JobOver
       /\ captured = 0 /\ marked = cut /\ cmdOut # "idle"
  /\ mark.variant \in {"CommandStart", "CommandEnd"} => ~target.interactive
  /\ ui = "done" => taken = Len(log) /\ HungUp

(***************************************************************************)
(* What has been sent: mark is the last stage in the log, a failure and    *)
(* the end of the command are followed by lines only, and the stage of a   *)
(* thread that streams has been opened.                                    *)
(***************************************************************************)
Sent(variant) == \E i \in 1..Len(log) : log[i].variant = variant
Conclusive(m) == ~m.ok \/ m.variant = "CommandEnd"
Early         == {"None", "BootStart", "BootEnd", "SetupStart"}

Channel ==
  /\ mark # NoUpdate => \E i \in 1..Len(log) : log[i] = mark
  /\ \A i \in 1..Len(log) :
       /\ ~log[i].ok => log[i].variant \in Ends
       /\ Conclusive(log[i]) =>
            log[i] = mark /\ \A j \in i+1..Len(log) : log[j].variant \in Lines
  /\ bootLog # "idle" => Sent("BootStart")
  /\ cmdOut # "idle" => Sent("CommandStart")
  /\ mark.variant \in Early => ~Sent("SetupEnd")

\* What the UI thread has made of what it has received.
Verdict ==
  /\ rc = {} <=> \E i \in 1..taken : ~log[i].ok
  /\ rc # {} => rc = IF \E i \in 1..taken : log[i].variant = "CommandEnd"
                       THEN {mark.code} ELSE {0}

\* Lines of the command that the log must hold: those that the agent did not
\* lose and that no pipe or buffer still holds, and what was told of truncations.
CommandLines == (written - lost) - (port + captured) + marked

\* Every line written is lost by the agent, in a pipe, in the agent's buffer, or in
\* the log.
Accounts ==
  /\ Count(log, "Boot", Len(log)) = booted - bootPipe
  /\ Count(log, "Command", Len(log)) = CommandLines

-----------------------------------------------------------------------------
\* Every step keeps what the threads leave behind.
LEMMA ThreadsStep ==
  ASSUME IInv, Threads, [Next]_vars
  PROVE  Threads'
<1>a. /\ Resources /\ Reported /\ Threads
      /\ bootLog \in {"idle", "reading", "ended", "killed"}
      /\ cmdOut \in {"idle", "reading", "ended", "killed"}
      /\ ui \in {"receiving", "done", "killed"}
      /\ qemu \in {"none", "starting", "booting", "agent", "mute", "zombie", "reaped"}
      /\ bootPipe \in Nat /\ port \in Nat /\ captured \in Nat
      /\ taken \in 0..Len(log)
  BY DEF IInv, TypeOK
  <1> USE <1>a DEF Threads, Resources, Reported, BeforeSpawn, Booting, Settling, Serving,
          SendStage, SendLine, Alive, Gone, TryWait, HungUp, ReportedCode, JobOver,
          Update, Failure, Exited, NoUpdate
<1>1. CASE GenInit \/ Verify
  BY <1>1 DEF GenInit, Verify
<1>2. CASE NewErr
  BY <1>2 DEF NewErr
<1>3. CASE BootStart
  BY <1>3 DEF BootStart
<1>4. CASE Spawn
  BY <1>4 DEF Spawn
<1>5. CASE WaitSocks \/ QmpConnect \/ HandshakeAnswer \/ HandshakeEof
  BY <1>5 DEF WaitSocks, QmpConnect, HandshakeAnswer, HandshakeEof
<1>6. CASE QmpStderr \/ QgaBlock \/ QgaConnect \/ QgaGiveUp \/ QgaGiveUpLate
  BY <1>6 DEF QmpStderr, QgaBlock, QgaConnect, QgaGiveUp, QgaGiveUpLate
<1>7. CASE ChildCleanup
  BY <1>7 DEF ChildCleanup
<1>8. CASE BootErr \/ BootOk
  BY <1>8 DEF BootErr, BootOk
<1>9. CASE SetupStart
  BY <1>9 DEF SetupStart
<1>10. CASE MountOk
  BY <1>10 DEF MountOk, SetupOutput
<1>11. CASE MountRefused \/ MountLost
  BY <1>11 DEF MountRefused, MountLost, SetupOutput
<1>12. CASE SetupOk \/ SetupErr
  BY <1>12 DEF SetupOk, SetupErr
<1>13. CASE DropInit \/ WaitChild
  BY <1>13 DEF DropInit, WaitChild
<1>14. CASE CommandStart
  BY <1>14 DEF CommandStart
<1>15. CASE CmdConnect \/ Exec \/ ExecAck
  BY <1>15 DEF CmdConnect, Exec, ExecAck
<1>16. CASE PollExited \/ CallRefused \/ CallLost
  BY <1>16 DEF PollExited, CallRefused, CallLost
<1>17. CASE FlushLine \/ FlushMarker
  BY <1>17 DEF FlushLine, FlushMarker
<1>18. CASE FlushEnd
  BY <1>18 DEF FlushEnd
<1>19. CASE CommandOk
  BY <1>19 DEF CommandOk
<1>20. CASE CommandErr
  BY <1>20 DEF CommandErr
<1>21. CASE SyncAnswered \/ SyncLost \/ QuitAnswered \/ QuitLost
  BY <1>21 DEF SyncAnswered, SyncLost, QuitAnswered, QuitLost
<1>22. CASE DropSelf
  BY <1>22 DEF DropSelf
<1>23. CASE Return \/ Join
  BY <1>23 DEF Return, Join
<1>24. CASE BootLogLine
  BY <1>24 DEF BootLogLine
<1>25. CASE BootLogEof
  BY <1>25 DEF BootLogEof
<1>26. CASE CmdOutLine
  BY <1>26 DEF CmdOutLine
<1>27. CASE CmdOutEof
  BY <1>27 DEF CmdOutEof
<1>28. CASE UiReceive
  BY <1>28 DEF UiReceive
<1>29. CASE UiHangUp
  BY <1>29 DEF UiHangUp
<1>30. CASE CreateSock \/ GuestStart \/ AgentUp \/ AgentMute \/ QemuExit
  BY <1>30 DEF CreateSock, GuestStart, AgentUp, AgentMute, QemuExit
<1>31. CASE QemuPrint
  BY <1>31 DEF QemuPrint
<1>32. CASE JobStart
  BY <1>32 DEF JobStart
<1>33. CASE JobWrite
  BY <1>33 DEF JobWrite, Capture
<1>34. CASE JobEnd
  BY <1>34 DEF JobEnd
<1>35. CASE Killed
  BY <1>35 DEF Killed
<1>36. CASE UNCHANGED vars
  BY <1>36
<1>37. QED
  BY <1>1, <1>2, <1>3, <1>4, <1>5, <1>6, <1>7, <1>8, <1>9, <1>10, <1>11, <1>12,
     <1>13, <1>14, <1>15, <1>16, <1>17, <1>18, <1>19, <1>20, <1>21, <1>22, <1>23,
     <1>24, <1>25, <1>26, <1>27, <1>28, <1>29, <1>30, <1>31, <1>32, <1>33, <1>34,
     <1>35, <1>36
  DEF Next, Prompt, Answered, BootLogThread, CmdOutThread, UiThread, World, Terminating

IOut == IInv /\ Threads /\ Channel /\ Verdict /\ Accounts

-----------------------------------------------------------------------------
(***************************************************************************)
(* The kinds of steps, as far as the channel is concerned.                 *)
(***************************************************************************)
Silent ==
  /\ UNCHANGED sendVars
  /\ bootLog = "idle" => bootLog' = "idle" \/ mark = Update("BootStart")
  /\ cmdOut = "idle" => cmdOut' = "idle" \/ mark = Update("CommandStart")
  /\ booted' - bootPipe' = booted - bootPipe
  /\ CommandLines' = CommandLines
  /\ UNCHANGED <<taken, rc>> \/ UiReceive

Reports(m) ==
  /\ SendStage(m)
  /\ m.variant \in Starts \cup Ends /\ (m.ok \/ m.variant \in Ends)
  /\ ~Conclusive(mark)
  /\ m.variant \in Early => mark.variant \in Early
  /\ UNCHANGED <<bootVars, cmdOut, port, captured, marked, lost, written, taken, rc>>

Speaks(v) ==
  /\ SendLine(v)
  /\ v = "Boot" => bootLog # "idle"
  /\ v = "Setup" => mark = Update("SetupStart")
  /\ v = "Command" => cmdOut # "idle"
  /\ booted' - bootPipe' = IF v = "Boot" THEN booted - bootPipe + 1 ELSE booted - bootPipe
  /\ CommandLines' = IF v = "Command" THEN CommandLines + 1 ELSE CommandLines
  /\ UNCHANGED <<bootLog, cmdOut, taken, rc>>

\* Every step sends nothing, a stage after one that was not the last, or a line
\* of a stage that has been opened.
LEMMA StepKind ==
  ASSUME IInv, Threads, [Next]_vars
  PROVE  Silent \/ (\E m \in Output : Reports(m)) \/ (\E v \in Lines : Speaks(v))
  <1> USE MessagesTyped DEF IInv, TypeOK, Silent, CommandLines
<1>1. CASE GenInit \/ Verify
  BY <1>1 DEF GenInit, Verify
<1>2. CASE NewErr
  <2>1. Reports(Failure("BootEnd"))
    BY <1>2 DEF NewErr, Reports, SendStage, Conclusive, Early, Reported, Starts, Ends, NoUpdate, Update, Failure, Exited, Booting
  <2>2. Failure("BootEnd") \in Output
    BY DEF Starts, Ends
  <2>3. QED
    BY <2>1, <2>2
<1>3. CASE BootStart
  <2>1. Reports(Update("BootStart"))
    BY <1>3 DEF BootStart, Reports, SendStage, Conclusive, Early, Reported, Starts, Ends, NoUpdate, Update, Failure, Exited, Booting
  <2>2. Update("BootStart") \in Output
    BY DEF Starts, Ends
  <2>3. QED
    BY <2>1, <2>2
<1>4. CASE Spawn
  BY <1>4 DEF Spawn, Reported
<1>5. CASE WaitSocks \/ QmpConnect \/ HandshakeAnswer \/ HandshakeEof
  BY <1>5 DEF WaitSocks, QmpConnect, HandshakeAnswer, HandshakeEof
<1>6. CASE QmpStderr \/ QgaBlock \/ QgaConnect \/ QgaGiveUp \/ QgaGiveUpLate
  BY <1>6 DEF QmpStderr, QgaBlock, QgaConnect, QgaGiveUp, QgaGiveUpLate
<1>7. CASE ChildCleanup
  BY <1>7 DEF ChildCleanup
<1>8. CASE BootErr \/ BootOk
  <2>1. Reports(Failure("BootEnd")) \/ Reports(Update("BootEnd"))
    BY <1>8 DEF BootErr, BootOk, Reports, SendStage, Conclusive, Early, Reported, Starts, Ends, NoUpdate, Update, Failure, Exited, Booting
  <2>2. Failure("BootEnd") \in Output /\ Update("BootEnd") \in Output
    BY DEF Starts, Ends
  <2>3. QED
    BY <2>1, <2>2
<1>9. CASE SetupStart
  <2>1. Reports(Update("SetupStart"))
    BY <1>9 DEF SetupStart, Reports, SendStage, Conclusive, Early, Reported, Starts, Ends, NoUpdate, Update, Failure, Exited, Booting
  <2>2. Update("SetupStart") \in Output
    BY DEF Starts, Ends
  <2>3. QED
    BY <2>1, <2>2
<1>10. CASE MountOk
  BY <1>10 DEF MountOk, SetupOutput, Speaks, SendLine, Lines, Reported
<1>11. CASE MountRefused \/ MountLost
  BY <1>11 DEF MountRefused, MountLost, SetupOutput, Speaks, SendLine, Lines, Reported
<1>12. CASE SetupOk \/ SetupErr
  <2>1. Reports(Update("SetupEnd")) \/ Reports(Failure("SetupEnd"))
    BY <1>12 DEF SetupOk, SetupErr, Reports, SendStage, Conclusive, Early, Reported, Starts, Ends, NoUpdate, Update, Failure, Exited, Booting
  <2>2. Update("SetupEnd") \in Output /\ Failure("SetupEnd") \in Output
    BY DEF Starts, Ends
  <2>3. QED
    BY <2>1, <2>2
<1>13. CASE DropInit \/ WaitChild
  BY <1>13 DEF DropInit, WaitChild
<1>14. CASE CommandStart
  <2>1. Reports(Update("CommandStart"))
    BY <1>14 DEF CommandStart, Reports, SendStage, Conclusive, Early, Reported, Starts, Ends, NoUpdate, Update, Failure, Exited, Booting
  <2>2. Update("CommandStart") \in Output
    BY DEF Starts, Ends
  <2>3. QED
    BY <2>1, <2>2
<1>15. CASE CmdConnect \/ Exec \/ ExecAck
  BY <1>15 DEF CmdConnect, Exec, ExecAck, Reported
<1>16. CASE PollExited \/ CallRefused \/ CallLost
  BY <1>16 DEF PollExited, CallRefused, CallLost
<1>17. CASE FlushLine \/ FlushMarker
  <2>1. CASE FlushLine
    BY <2>1 DEF FlushLine, Speaks, SendLine, Lines, Threads
  <2>2. CASE FlushMarker
    BY <2>2 DEF FlushMarker, Speaks, SendLine, Lines, Threads, CapturedStreams
  <2>3. QED
    BY <1>17, <2>1, <2>2
<1>18. CASE FlushEnd
  BY <1>18 DEF FlushEnd
<1>19. CASE CommandOk
  <2>1. Reports(Exited(ReportedCode))
    BY <1>19 DEF CommandOk, Reports, SendStage, Conclusive, Early, Reported, Starts, Ends, NoUpdate, Update, Failure, Exited, Booting
  <2>2. Exited(ReportedCode) \in Output
    BY CodesAssumption DEF ReportedCode
  <2>3. QED
    BY <2>1, <2>2
<1>20. CASE CommandErr
  <2>1. Reports(Failure("CommandEnd"))
    BY <1>20 DEF CommandErr, Reports, SendStage, Conclusive, Early, Reported, Starts, Ends, NoUpdate, Update, Failure, Exited, Booting
  <2>2. Failure("CommandEnd") \in Output
    BY DEF Starts, Ends
  <2>3. QED
    BY <2>1, <2>2
<1>21. CASE SyncAnswered \/ SyncLost \/ QuitAnswered \/ QuitLost
  BY <1>21 DEF SyncAnswered, SyncLost, QuitAnswered, QuitLost
<1>22. CASE DropSelf
  BY <1>22 DEF DropSelf
<1>23. CASE Return \/ Join
  BY <1>23 DEF Return, Join
<1>24. CASE BootLogLine
  BY <1>24 DEF BootLogLine, Speaks, SendLine, Lines, Threads
<1>25. CASE BootLogEof
  BY <1>25 DEF BootLogEof
<1>26. CASE CmdOutLine
  BY <1>26 DEF CmdOutLine, Speaks, SendLine, Lines, Threads
<1>27. CASE CmdOutEof
  BY <1>27 DEF CmdOutEof
<1>28. CASE UiReceive
  BY <1>28 DEF UiReceive
<1>29. CASE UiHangUp
  BY <1>29 DEF UiHangUp
<1>30. CASE CreateSock \/ GuestStart \/ AgentUp \/ AgentMute \/ QemuExit
  BY <1>30 DEF CreateSock, GuestStart, AgentUp, AgentMute, QemuExit
<1>31. CASE QemuPrint
  BY <1>31 DEF QemuPrint
<1>32. CASE JobStart
  BY <1>32 DEF JobStart
<1>33. CASE JobWrite
  <2>1. /\ UNCHANGED <<sendVars, bootVars, cmdOut, taken, rc>>
        /\ written' = written + 1 /\ marked' = marked
    BY <1>33 DEF JobWrite
  <2>2. \/ port' = port + 1 /\ captured' = captured /\ lost' = lost
        \/ port' = port /\ captured' = captured + 1 /\ lost' = lost
        \/ port' = port /\ captured' = captured /\ lost' = lost + 1
    BY <1>33 DEF JobWrite, Capture
  <2>3. CommandLines' = CommandLines
    BY <2>1, <2>2 DEF CapturedStreams
  <2>4. QED
    BY <2>1, <2>3
<1>34. CASE JobEnd
  BY <1>34 DEF JobEnd
<1>35. CASE Killed
  BY <1>35 DEF Killed
<1>36. CASE UNCHANGED vars
  BY <1>36
<1>37. QED
  BY <1>1, <1>2, <1>3, <1>4, <1>5, <1>6, <1>7, <1>8, <1>9, <1>10, <1>11, <1>12,
     <1>13, <1>14, <1>15, <1>16, <1>17, <1>18, <1>19, <1>20, <1>21, <1>22, <1>23,
     <1>24, <1>25, <1>26, <1>27, <1>28, <1>29, <1>30, <1>31, <1>32, <1>33, <1>34,
     <1>35, <1>36
  DEF Next, Prompt, Answered, BootLogThread, CmdOutThread, UiThread, World, Terminating

-----------------------------------------------------------------------------
(***************************************************************************)
(* What each kind of step does to the log.                                 *)
(***************************************************************************)
\* A message is added to what is in the log.
LEMMA LogGrows ==
  ASSUME log \in Seq(Output), NEW m \in Output, log' = Append(log, m)
  PROVE  /\ Len(log') = Len(log) + 1
         /\ \A i \in 1..Len(log) : log'[i] = log[i]
         /\ log'[Len(log) + 1] = m
BY DEF Output

\* The messages of a variant are finitely many.
LEMMA CountFinite ==
  ASSUME log \in Seq(Output), NEW v
  PROVE  /\ IsFiniteSet({i \in 1..Len(log) : log[i].variant = v})
         /\ Count(log, v, Len(log)) \in Nat
<1> DEFINE S == {i \in 1..Len(log) : log[i].variant = v}
<1>1. IsFiniteSet(1..Len(log)) /\ S \subseteq 1..Len(log)
  BY FS_Interval
<1>2. IsFiniteSet(S) /\ Cardinality(S) \in Nat
  BY <1>1, FS_Subset, FS_CardinalityType
<1>3. QED
  BY <1>2 DEF Count

\* One more message is counted if it is of the variant.
LEMMA CountGrows ==
  ASSUME log \in Seq(Output), NEW m \in Output, log' = Append(log, m), NEW v
  PROVE  Count(log', v, Len(log')) = Count(log, v, Len(log)) + (IF m.variant = v THEN 1 ELSE 0)
<1> DEFINE S == {i \in 1..Len(log) : log[i].variant = v}
           T == {i \in 1..Len(log') : log'[i].variant = v}
<1>1. IsFiniteSet(S) /\ Cardinality(S) \in Nat
  BY CountFinite DEF Count
<1>2. CASE m.variant = v
  <2>1. T = S \cup {Len(log) + 1} /\ Len(log) + 1 \notin S
    BY <1>2, LogGrows
  <2>2. Cardinality(T) = Cardinality(S) + 1
    BY <1>1, <2>1, FS_AddElement
  <2>3. QED
    BY <1>1, <1>2, <2>2 DEF Count
<1>3. CASE m.variant # v
  <2>1. T = S
    BY <1>3, LogGrows
  <2>2. Cardinality(T) = Cardinality(S)
    BY <2>1
  <2>3. Count(log', v, Len(log')) = Count(log, v, Len(log))
    BY <2>2 DEF Count
  <2>4. \A c \in Nat : c = c + 0
    OBVIOUS
  <2>5. QED
    BY <1>3, <2>3, <2>4, CountFinite
<1>4. QED
  BY <1>2, <1>3

\* A stage that is reported becomes the mark, and nothing before it was
\* conclusive.
LEMMA ChannelReports ==
  ASSUME IInv, Channel, NEW m \in Output, Reports(m)
  PROVE  Channel'
<1>1. /\ log \in Seq(Output) /\ log' = Append(log, m) /\ mark' = m
      /\ bootLog' = bootLog /\ cmdOut' = cmdOut
  BY DEF IInv, TypeOK, Reports, SendStage
<1>2. /\ Len(log') = Len(log) + 1 /\ Len(log) \in Nat
      /\ \A i \in 1..Len(log) : log'[i] = log[i]
      /\ log'[Len(log) + 1] = m
  BY <1>1, LogGrows
<1>3. \A i \in 1..Len(log) : ~Conclusive(log[i])
  BY DEF Channel, Reports
<1>4. \A v : Sent(v) => Sent(v)'
  BY <1>2 DEF Sent
<1>5. mark' # NoUpdate => \E i \in 1..Len(log') : log'[i] = mark'
  BY <1>1, <1>2
<1>6. ASSUME NEW i \in 1..Len(log')
      PROVE  /\ ~log'[i].ok => log'[i].variant \in Ends
             /\ Conclusive(log'[i]) =>
                  log'[i] = mark' /\ \A j \in i+1..Len(log') : log'[j].variant \in Lines
  <2>1. CASE i \in 1..Len(log)
    BY <1>2, <1>3, <2>1 DEF Channel
  <2>2. CASE i = Len(log) + 1
    BY <1>1, <1>2, <2>2 DEF Reports
  <2>3. QED
    BY <1>2, <2>1, <2>2
<1>7. mark'.variant \in Early => ~Sent("SetupEnd")'
  BY <1>1, <1>2 DEF Channel, Reports, Sent, Early
<1>8. QED
  BY <1>1, <1>4, <1>5, <1>6, <1>7 DEF Channel, Conclusive

\* A line changes neither the mark nor what is said of it.
LEMMA ChannelSpeaks ==
  ASSUME IInv, Channel, NEW v \in Lines, Speaks(v)
  PROVE  Channel'
<1>1. /\ log \in Seq(Output) /\ Update(v) \in Output /\ log' = Append(log, Update(v))
      /\ mark' = mark /\ bootLog' = bootLog /\ cmdOut' = cmdOut
  BY MessagesTyped DEF IInv, TypeOK, Speaks, SendLine
<1>2. /\ Len(log') = Len(log) + 1 /\ Len(log) \in Nat
      /\ \A i \in 1..Len(log) : log'[i] = log[i]
      /\ log'[Len(log) + 1] = Update(v)
  BY <1>1, LogGrows
<1>3. Update(v).ok /\ Update(v).variant = v /\ v \notin {"CommandEnd", "SetupEnd"}
  BY DEF Update, Lines
<1>4. \A u : Sent(u) => Sent(u)'
  BY <1>2 DEF Sent
<1>5. mark' # NoUpdate => \E i \in 1..Len(log') : log'[i] = mark'
  BY <1>1, <1>2 DEF Channel
<1>6. ASSUME NEW i \in 1..Len(log')
      PROVE  /\ ~log'[i].ok => log'[i].variant \in Ends
             /\ Conclusive(log'[i]) =>
                  log'[i] = mark' /\ \A j \in i+1..Len(log') : log'[j].variant \in Lines
  <2>1. CASE i \in 1..Len(log)
    BY <1>1, <1>2, <1>3, <2>1 DEF Channel
  <2>2. CASE i = Len(log) + 1
    BY <1>2, <1>3, <2>2 DEF Conclusive
  <2>3. QED
    BY <1>2, <2>1, <2>2
<1>7. mark'.variant \in Early => ~Sent("SetupEnd")'
  BY <1>1, <1>2, <1>3 DEF Channel, Sent
<1>8. QED
  BY <1>1, <1>4, <1>5, <1>6, <1>7 DEF Channel, Conclusive

\* A thread that begins to stream does so when its stage has just been opened.
LEMMA ChannelSilent ==
  ASSUME Channel, Silent
  PROVE  Channel'
<1>1. UNCHANGED <<log, mark>>
  BY DEF Silent
<1>2. \A v \in Starts : mark = Update(v) => Sent(v)
  BY DEF Channel, Sent, Update, NoUpdate, Starts
<1>3. QED
  BY <1>1, <1>2 DEF Channel, Silent, Sent, Starts

\* The verdict follows from what has been received.
LEMMA VerdictStep ==
  ASSUME IInv, Channel, Verdict, [Next]_vars,
         Silent \/ (\E m \in Output : Reports(m)) \/ (\E v \in Lines : Speaks(v))
  PROVE  Verdict'
<1> USE DEF IInv, TypeOK
<1>1. CASE Silent /\ UNCHANGED <<taken, rc>>
  BY <1>1 DEF Silent, Verdict
<1>2. CASE Silent /\ UiReceive
  <2> DEFINE e == log[taken + 1]
  <2>1. /\ taken + 1 \in 1..Len(log) /\ taken' = taken + 1 /\ rc' = RcAfter(e)
        /\ UNCHANGED <<log, mark>>
    BY <1>2 DEF UiReceive
  <2>2. ~e.ok => e.variant \in Ends
    BY <2>1 DEF Channel
  <2>3. Conclusive(e) => e = mark
    BY <2>1 DEF Channel
  <2>4. e.variant \in Ends => \A i \in 1..taken : ~Conclusive(log[i])
    BY <2>1 DEF Channel, Ends, Lines
  <2>5. 1..taken' = 1..taken \cup {taken + 1}
    BY <2>1
  <2>6. CASE e.variant \notin Ends
    <3>1. rc' = rc /\ e.ok /\ e.variant # "CommandEnd"
      BY <2>1, <2>2, <2>6 DEF RcAfter, Ends
    <3>2. QED
      BY <2>1, <2>5, <3>1 DEF Verdict
  <2>7. CASE e.variant \in Ends
    <3>1. /\ \A i \in 1..taken : log[i].ok /\ log[i].variant # "CommandEnd"
          /\ rc = {0}
      BY <2>4, <2>7 DEF Verdict, Conclusive
    <3>2. CASE ~e.ok
      <4>1. rc' = {}
        BY <2>1, <2>7, <3>2 DEF RcAfter
      <4>2. QED
        BY <2>1, <2>5, <3>2, <4>1 DEF Verdict
    <3>3. CASE e.ok /\ e.variant = "CommandEnd"
      <4>1. rc' = {mark.code}
        BY <2>1, <2>3, <2>7, <3>3 DEF RcAfter, Conclusive
      <4>2. QED
        BY <2>1, <2>5, <3>1, <3>3, <4>1 DEF Verdict
    <3>4. CASE e.ok /\ e.variant # "CommandEnd"
      <4>1. rc' = rc
        BY <2>1, <2>7, <3>4 DEF RcAfter
      <4>2. QED
        BY <2>1, <2>5, <3>1, <3>4, <4>1 DEF Verdict
    <3>5. QED
      BY <3>2, <3>3, <3>4
  <2>8. QED
    BY <2>6, <2>7
<1>3. ASSUME NEW m \in Output, Reports(m)
      PROVE  Verdict'
  <2>1. log' = Append(log, m) /\ UNCHANGED <<taken, rc>>
    BY <1>3 DEF Reports, SendStage
  <2>2. \A i \in 1..taken : log'[i] = log[i] /\ ~Conclusive(log[i])
    BY <1>3, <2>1, LogGrows DEF Channel, Reports
  <2>3. QED
    BY <2>1, <2>2 DEF Verdict, Conclusive
<1>4. ASSUME NEW v \in Lines, Speaks(v)
      PROVE  Verdict'
  <2>1. log' = Append(log, Update(v)) /\ UNCHANGED <<taken, rc, mark>>
    BY <1>4 DEF Speaks, SendLine
  <2>2. \A i \in 1..taken : log'[i] = log[i]
    BY <2>1, LogGrows, MessagesTyped
  <2>3. QED
    BY <2>1, <2>2 DEF Verdict
<1>5. QED
  BY <1>1, <1>2, <1>3, <1>4 DEF Silent

\* A line is written, read and sent without being lost or made up.
LEMMA AccountsStep ==
  ASSUME IInv, Accounts,
         Silent \/ (\E m \in Output : Reports(m)) \/ (\E v \in Lines : Speaks(v))
  PROVE  Accounts'
<1>a. log \in Seq(Output) /\ Count(log, "Boot", Len(log)) \in Nat
      /\ Count(log, "Command", Len(log)) \in Nat
  BY CountFinite DEF IInv, TypeOK
<1>1. CASE Silent
  BY <1>1 DEF Silent, Accounts
<1>2. ASSUME NEW m \in Output, Reports(m)
      PROVE  Accounts'
  <2>1. log' = Append(log, m) /\ m.variant \notin Lines
    BY <1>2 DEF Reports, SendStage, Starts, Ends, Lines
  <2>2. \A c \in Nat : c + 0 = c
    OBVIOUS
  <2>3. /\ Count(log', "Boot", Len(log')) = Count(log, "Boot", Len(log))
        /\ Count(log', "Command", Len(log')) = Count(log, "Command", Len(log))
    BY <1>a, <2>1, <2>2, CountGrows DEF Lines
  <2>4. QED
    BY <1>2, <2>3 DEF Reports, Accounts, CommandLines
<1>3. ASSUME NEW v \in Lines, Speaks(v)
      PROVE  Accounts'
  <2>1. log' = Append(log, Update(v)) /\ Update(v).variant = v /\ Update(v) \in Output
    BY <1>3, MessagesTyped DEF Speaks, SendLine, Update
  <2>2. ASSUME NEW u
        PROVE  Count(log', u, Len(log')) = IF v = u THEN Count(log, u, Len(log)) + 1
                                                    ELSE Count(log, u, Len(log))
    <3>1. Count(log, u, Len(log)) \in Nat
      BY <1>a, CountFinite
    <3>2. Count(log', u, Len(log')) = Count(log, u, Len(log)) + (IF v = u THEN 1 ELSE 0)
      BY <1>a, <2>1, CountGrows
    <3>3. QED
      BY <3>1, <3>2
  <2>3. QED
    BY <1>3, <2>2 DEF Speaks, Accounts
<1>4. QED
  BY <1>1, <1>2, <1>3

\* A message that is no line, or a line of an open stage, keeps the order.
LEMMA OrderStep ==
  ASSUME IInv, Channel, LinesFollowStart,
         Silent \/ (\E m \in Output : Reports(m)) \/ (\E v \in Lines : Speaks(v))
  PROVE  LinesFollowStart'
<1>a. log \in Seq(Output)
  BY DEF IInv, TypeOK
<1>1. CASE Silent
  BY <1>1 DEF Silent, LinesFollowStart
<1>2. ASSUME NEW m \in Output, log' = Append(log, m),
             m.variant \in Lines =>
               /\ \E j \in 1..Len(log) : log[j].variant = Opening[m.variant]
               /\ m.variant = "Setup" => \A j \in 1..Len(log) : log[j].variant # "SetupEnd"
      PROVE  LinesFollowStart'
  <2>1. /\ Len(log) \in Nat /\ Len(log') = Len(log) + 1 /\ log'[Len(log) + 1] = m
        /\ \A i \in 1..Len(log) : log'[i] = log[i]
    BY <1>a, <1>2, LogGrows
  <2>2. ASSUME NEW i \in 1..Len(log'), log'[i].variant \in Lines
        PROVE  /\ \E j \in 1..i-1 : log'[j].variant = Opening[log'[i].variant]
               /\ log'[i].variant = "Setup" => \A j \in 1..i-1 : log'[j].variant # "SetupEnd"
    <3>1. CASE i \in 1..Len(log)
      <4>1. \A j \in 1..i-1 : j \in 1..Len(log)
        BY <2>1, <3>1
      <4>2. QED
        BY <2>1, <2>2, <3>1, <4>1 DEF LinesFollowStart
    <3>2. CASE i = Len(log) + 1
      <4>1. i - 1 = Len(log) /\ log'[i] = m
        BY <2>1, <3>2
      <4>2. QED
        BY <1>2, <2>1, <2>2, <4>1
    <3>3. QED
      BY <2>1, <3>1, <3>2
  <2>3. QED
    BY <2>2 DEF LinesFollowStart
<1>3. ASSUME NEW m \in Output, Reports(m)
      PROVE  LinesFollowStart'
  <2>1. log' = Append(log, m) /\ m.variant \notin Lines
    BY <1>3 DEF Reports, SendStage, Starts, Ends, Lines
  <2>2. QED
    BY <1>2, <2>1
<1>4. ASSUME NEW v \in Lines, Speaks(v)
      PROVE  LinesFollowStart'
  <2>1. log' = Append(log, Update(v)) /\ Update(v).variant = v /\ Update(v) \in Output
    BY <1>4, MessagesTyped DEF Speaks, SendLine, Update
  <2>2. \E j \in 1..Len(log) : log[j].variant = Opening[v]
    <3>1. CASE v = "Boot"
      BY <1>4, <3>1 DEF Speaks, Channel, Sent, Opening, Lines
    <3>2. CASE v = "Command"
      BY <1>4, <3>2 DEF Speaks, Channel, Sent, Opening, Lines
    <3>3. CASE v = "Setup"
      <4>1. mark # NoUpdate /\ mark.variant = "SetupStart" /\ Opening[v] = "SetupStart"
        BY <1>4, <3>3 DEF Speaks, Update, NoUpdate, Opening, Lines
      <4>2. QED
        BY <4>1 DEF Channel
    <3>4. QED
      BY <3>1, <3>2, <3>3 DEF Lines
  <2>3. v = "Setup" => \A j \in 1..Len(log) : log[j].variant # "SetupEnd"
    BY <1>4 DEF Speaks, Channel, Sent, Early, Update
  <2>4. QED
    BY <1>2, <2>1, <2>2, <2>3
<1>5. QED
  BY <1>1, <1>3, <1>4

-----------------------------------------------------------------------------
\* Nothing has been sent or received at the start.
LEMMA InitIOut == Init => IOut /\ LinesFollowStart
<1> SUFFICES ASSUME Init
             PROVE  IOut /\ LinesFollowStart
  OBVIOUS
<1>1. IInv
  BY InitIInv
<1>2. log = << >> /\ Len(log) = 0 /\ 1..Len(log) = {}
  BY DEF Init
<1>3. Threads /\ Verdict
  BY <1>2 DEF Init, Threads, Verdict, NoUpdate
<1>4. Channel /\ LinesFollowStart
  BY <1>2 DEF Init, Channel, Sent, LinesFollowStart
<1>5. \A u : Count(log, u, Len(log)) = 0
  BY <1>2, FS_EmptySet DEF Count
<1>6. Accounts
  BY <1>5 DEF Init, Accounts, CommandLines
<1>7. QED
  BY <1>1, <1>3, <1>4, <1>6 DEF IOut

\* What holds of the channel, of its threads and of its lines holds of every run.
THEOREM ChannelInductive == Spec => [](IOut /\ LinesFollowStart)
<1>1. IOut /\ LinesFollowStart /\ [Next]_vars => (IOut /\ LinesFollowStart)'
  <2> SUFFICES ASSUME IOut, LinesFollowStart, [Next]_vars
               PROVE  IOut' /\ LinesFollowStart'
    OBVIOUS
  <2>1. IInv /\ Threads /\ Channel /\ Verdict /\ Accounts
    BY DEF IOut
  <2>2. IInv'
    BY <2>1, TypeStep, ResourceStep, ReportStep DEF IInv
  <2>3. Threads'
    BY <2>1, ThreadsStep
  <2>4. Silent \/ (\E m \in Output : Reports(m)) \/ (\E v \in Lines : Speaks(v))
    BY <2>1, StepKind
  <2>5. Channel'
    BY <2>1, <2>4, ChannelSilent, ChannelReports, ChannelSpeaks
  <2>6. Verdict'
    BY <2>1, <2>4, VerdictStep
  <2>7. Accounts'
    BY <2>1, <2>4, AccountsStep
  <2>8. LinesFollowStart'
    BY <2>1, <2>4, OrderStep
  <2>9. QED
    BY <2>2, <2>3, <2>5, <2>6, <2>7, <2>8 DEF IOut
<1>2. QED
  BY InitIOut, <1>1, PTL DEF Spec

\* A line is never received before its stage was opened, although the run
\* thread and two streaming threads send on one channel (output.rs).
THEOREM LinesInOrder == Spec => []LinesFollowStart
  BY ChannelInductive, PTL

\* Every line that QEMU printed, and every line of a command that ended but those
\* of which the agent kept nothing, is received before the UI thread returns (the
\* streaming threads of qemu.rs); a captured stream that the agent truncated is
\* told of by one line more (run_in_vm).
THEOREM NothingIsLost == Spec => []NoLineLost
<1>1. IOut => NoLineLost
  <2> SUFFICES ASSUME IOut, ui = "done"
               PROVE  /\ Received("Boot") = booted
                      /\ mark.variant = "CommandEnd" /\ mark.ok =>
                           Received("Command") = (written - lost) + cut
    BY DEF NoLineLost
  <2>a. /\ taken = Len(log) /\ HungUp
        /\ booted \in Nat /\ written \in Nat /\ lost \in Nat /\ cut \in Nat
    BY DEF IOut, Threads, IInv, TypeOK, CapturedStreams
  <2>1. bootPipe = 0
    <3>1. CASE bootLog = "idle" \/ bootLog = "ended"
      BY <3>1 DEF IOut, Threads
    <3>2. CASE bootLog = "killed"
      BY <2>a, <3>2 DEF IOut, Threads, HungUp
    <3>3. QED
      BY <2>a, <3>1, <3>2 DEF IOut, IInv, TypeOK, HungUp
  <2>2. Received("Boot") = booted
    BY <2>a, <2>1 DEF IOut, Accounts, Received
  <2>3. ASSUME mark.variant = "CommandEnd", mark.ok
        PROVE  Received("Command") = (written - lost) + cut
    <3>1. cmdOut = "ended"
      BY <2>a, <2>3 DEF IOut, Threads, HungUp, IInv, TypeOK
    <3>2. port = 0 /\ captured = 0 /\ marked = cut
      BY <2>3, <3>1 DEF IOut, Threads
    <3>3. CommandLines = (written - lost) + cut
      BY <2>a, <3>2 DEF CommandLines
    <3>4. QED
      BY <2>a, <3>3 DEF IOut, Accounts, Received
  <2>4. QED
    BY <2>2, <2>3
<1>2. QED
  BY ChannelInductive, <1>1, PTL

\* target_ui returns None exactly if a stage failed, and otherwise the code of
\* the command that ended in the guest, or 0 for an interactive target (ui.rs).
THEOREM VerdictIsTrue == Spec => []VerdictIsRight
<1>1. IOut => VerdictIsRight
  <2> SUFFICES ASSUME IOut, ui = "done"
               PROVE  /\ rc = {} <=> \E i \in 1..Len(log) : ~log[i].ok
                      /\ rc # {} => IF target.interactive
                                       THEN rc = {0} /\ mark = Update("SetupEnd")
                                       ELSE rc = {ReportedCode} /\ job \in {"exited", "signaled"}
    BY DEF VerdictIsRight
  <2>a. /\ taken = Len(log) /\ HungUp /\ Protocol!Final(mark)
        /\ Channel /\ Verdict
    BY DEF IOut, Threads, HungUp, IInv, Reported
  <2>1. rc = {} <=> \E i \in 1..Len(log) : ~log[i].ok
    BY <2>a DEF Verdict
  <2>2. ASSUME rc # {}
        PROVE  IF target.interactive
                 THEN rc = {0} /\ mark = Update("SetupEnd")
                 ELSE rc = {ReportedCode} /\ job \in {"exited", "signaled"}
    <3>1. mark # NoUpdate
      BY <2>a DEF Protocol!Final, Protocol!Update, NoUpdate
    <3>2. PICK k \in 1..Len(log) : log[k] = mark
      BY <2>a, <3>1 DEF Channel
    <3>3. mark.ok
      BY <2>1, <2>2, <3>2
    <3>4. CASE target.interactive
      <4>1. mark.variant # "CommandEnd"
        BY <3>4 DEF IOut, Threads
      <4>2. mark = Update("SetupEnd")
        BY <2>a, <3>3, <4>1 DEF Protocol!Final, Protocol!Update, Update
      <4>3. \A i \in 1..taken : log[i].variant # "CommandEnd"
        BY <2>a, <4>1 DEF Channel, Conclusive
      <4>4. QED
        BY <2>a, <2>2, <3>4, <4>2, <4>3 DEF Verdict
    <3>5. CASE ~target.interactive
      <4>1. mark.variant = "CommandEnd"
        BY <2>a, <3>3, <3>5 DEF Protocol!Final
      <4>2. rc = {mark.code}
        BY <2>a, <2>2, <3>2, <4>1 DEF Verdict
      <4>3. QED
        BY <3>3, <3>5, <4>1, <4>2 DEF IOut, Threads, JobOver
    <3>6. QED
      BY <3>4, <3>5
  <2>3. QED
    BY <2>1, <2>2
<1>2. QED
  BY ChannelInductive, <1>1, PTL
===============================================================================
