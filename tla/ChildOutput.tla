------------------------------ MODULE ChildOutput ------------------------------
(***************************************************************************)
(* From what a program writes to the lines that vmtest sends on (qemu.rs): *)
(* the boot log over QEMU's stdout (stream_child_output), the output of    *)
(* the command over its socket (stream_command_output), and what the agent *)
(* captured of a process, which comes all at once when the process has     *)
(* ended (run_in_vm): its stdout, then its stderr.                         *)
(*                                                                         *)
(* A text is a sequence of symbols: "a" for any character, "r" for a       *)
(* carriage return, "n" for a newline, "x" for a byte that is not UTF-8.   *)
(* QEMU writes its messages to another pipe, its stderr, which nobody      *)
(* reads while the target runs.                                            *)
(***************************************************************************)
EXTENDS Naturals, Sequences, FiniteSets

CONSTANTS
  PipeSize,    \* what the pipe or the socket holds
  StderrSize,  \* what QEMU's stderr pipe holds
  MaxText,     \* bound: length of the text
  MaxStderr    \* bound: messages on stderr

ASSUME SizesAssumption == PipeSize \in Nat \ {0} /\ StderrSize \in Nat \ {0}
ASSUME BoundsAssumption == MaxText \in Nat /\ MaxStderr \in Nat

Symbols == {"a", "r", "n", "x"}
Texts   == UNION {[1..n -> Symbols] : n \in 0..MaxText}
Paths   == {"boot", "command", "captured"}

VARIABLES
  path,       \* which of Paths
  stream,     \* captured: which of the two is sent, "out_data" or "err_data"
  text,       \* all that has been written, or that the agent kept of the stream
  truncated,  \* captured: the agent did not keep all of it
  qemu,       \* "runs", "quits" when told to, or "ended"
  writer,     \* "runs" or "ended": a process in the guest, or QEMU on the boot path
  writing,    \* the symbol that the writer is blocked on, or "nothing"
  telling,    \* QEMU is writing a message to its stderr
  stderr,     \* messages in the stderr pipe
  pipe,       \* what has been written and not been read
  line,       \* what has been read of the current line
  reader,     \* "reads" or "ended"
  sent        \* lines sent to the UI, of the current stream

sourceVars == <<path, stream, truncated>>
qemuVars   == <<qemu, telling, stderr>>
writerVars == <<sourceVars, qemuVars, text, writer, writing>>
readerVars == <<line, reader, sent>>
vars == <<writerVars, pipe, readerVars>>

\* On the captured path the answer to guest-exec-status has come.
Init ==
  /\ path \in Paths /\ stream = "out_data"
  /\ IF path = "captured" THEN text \in Texts /\ truncated \in BOOLEAN
                          ELSE text = <<>> /\ truncated = FALSE
  /\ qemu = "runs" /\ telling = FALSE /\ stderr = 0
  /\ writer = (IF path = "captured" THEN "ended" ELSE "runs") /\ writing = "nothing"
  /\ pipe = text /\ line = <<>> /\ reader = "reads" /\ sent = <<>>

-----------------------------------------------------------------------------
(***************************************************************************)
(* The writer, and QEMU.                                                   *)
(***************************************************************************)
BeginWrite ==
  /\ qemu # "ended" /\ writer = "runs" /\ writing = "nothing" /\ Len(text) < MaxText
  /\ writing' \in Symbols
  /\ UNCHANGED <<sourceVars, qemuVars, text, writer, pipe, readerVars>>

\* A write waits for room.
EndWrite ==
  /\ qemu # "ended" /\ writing # "nothing" /\ Len(pipe) < PipeSize
  /\ text' = Append(text, writing) /\ pipe' = Append(pipe, writing)
  /\ writing' = "nothing"
  /\ UNCHANGED <<sourceVars, qemuVars, writer, readerVars>>

\* The process in the guest ends, or is killed in a write.
WriterEnds ==
  /\ path = "command" /\ writer = "runs"
  /\ writer' = "ended" /\ writing' = "nothing"
  /\ UNCHANGED <<sourceVars, qemuVars, text, pipe, readerVars>>

BeginMessage ==
  /\ path # "captured" /\ qemu # "ended" /\ ~telling /\ stderr < MaxStderr
  /\ telling' = TRUE
  /\ UNCHANGED <<sourceVars, qemu, stderr, text, writer, writing, pipe, readerVars>>

EndMessage ==
  /\ qemu # "ended" /\ telling /\ stderr < StderrSize
  /\ telling' = FALSE /\ stderr' = stderr + 1
  /\ UNCHANGED <<sourceVars, qemu, text, writer, writing, pipe, readerVars>>

\* QMP quit is accepted,
Quit ==
  /\ path # "captured" /\ qemu = "runs" /\ qemu' = "quits"
  /\ UNCHANGED <<sourceVars, telling, stderr, text, writer, writing, pipe, readerVars>>

\* and ends a QEMU that is not blocked in a write of its own.
QemuQuits ==
  /\ qemu = "quits" /\ ~telling
  /\ path = "boot" => writing = "nothing"
  /\ qemu' = "ended" /\ writer' = "ended" /\ writing' = "nothing"
  /\ UNCHANGED <<sourceVars, telling, stderr, text, pipe, readerVars>>

\* child_cleanup kills it, or somebody else does, or it crashes.
QemuKilled ==
  /\ path # "captured" /\ qemu # "ended"
  /\ qemu' = "ended" /\ telling' = FALSE /\ writer' = "ended" /\ writing' = "nothing"
  /\ UNCHANGED <<sourceVars, stderr, text, pipe, readerVars>>

-----------------------------------------------------------------------------
(***************************************************************************)
(* vmtest.                                                                 *)
(***************************************************************************)
Front(s)    == SubSeq(s, 1, Len(s) - 1)
Ends(s, x)  == s # <<>> /\ s[Len(s)] = x
Holds(s, x) == \E i \in 1..Len(s) : s[i] = x

\* str::lines strips a newline and one carriage return before it, and
\* from_utf8_lossy puts a character in place of an invalid byte.
Stripped(s) ==
  IF ~Ends(s, "n") THEN s
  ELSE IF Ends(Front(s), "r") THEN Front(Front(s)) ELSE Front(s)

Lossy(s) == [i \in 1..Len(s) |-> IF s[i] = "x" THEN "a" ELSE s[i]]

\* What is sent for a line that was read: read_line fails on one that is not
\* UTF-8, having consumed it, and the boot log loses its last character,
\* newline or not.
\* Mutants: the command's output loses it too, or the reader gives up.
DeliveredPopped(l) ==
  CASE path = "captured" -> <<Stripped(Lossy(l))>>
    [] path # "captured" -> IF Holds(l, "x") THEN <<>> ELSE <<Front(l)>>

Delivered(l) ==
  CASE path = "captured" -> <<Stripped(Lossy(l))>>
    [] path = "boot"     -> IF Holds(l, "x") THEN <<>> ELSE <<Front(l)>>
    [] path = "command"  -> IF Holds(l, "x") THEN <<>>
                            ELSE <<IF Ends(l, "n") THEN Front(l) ELSE l>>

AfterLineGivesUp(l) == IF path # "captured" /\ Holds(l, "x") THEN "ended" ELSE "reads"
AfterLine(l)        == "reads"

\* The answer of the agent holds all of a stream.  The end of the others comes
\* with the end of QEMU, not with that of the process that writes.
Closed == path = "captured" \/ qemu = "ended"
AtEof  == pipe = <<>> /\ Closed

\* Run_in_vm tells of a stream that the agent truncated by a line of its own.
Marker  == <<"truncation">>
Markers == IF truncated THEN <<Marker>> ELSE <<>>

\* read_line goes on to the newline,
ReadSymbol ==
  /\ reader = "reads" /\ pipe # <<>> /\ Head(pipe) # "n"
  /\ line' = Append(line, Head(pipe)) /\ pipe' = Tail(pipe)
  /\ UNCHANGED <<writerVars, reader, sent>>

\* Mutant of ReadNewline: one String for all lines, to which read_line appends.
ReadNewlineAppends ==
  /\ reader = "reads" /\ pipe # <<>> /\ Head(pipe) = "n"
  /\ line' = Append(line, "n") /\ pipe' = Tail(pipe)
  /\ sent' = sent \o Delivered(line') /\ reader' = AfterLine(line')
  /\ UNCHANGED writerVars

ReadNewline ==
  /\ reader = "reads" /\ pipe # <<>> /\ Head(pipe) = "n"
  /\ LET l == Append(line, "n")
     IN  sent' = sent \o Delivered(l) /\ reader' = AfterLine(l)
  /\ line' = <<>> /\ pipe' = Tail(pipe)
  /\ UNCHANGED writerVars

\* or to the end, which is a line if there is anything,
ReadLast ==
  /\ reader = "reads" /\ AtEof /\ line # <<>>
  /\ sent' = sent \o Delivered(line) /\ reader' = AfterLine(line)
  /\ line' = <<>>
  /\ UNCHANGED <<writerVars, pipe>>

\* and Ok(0) if not.
ReadEof ==
  /\ reader = "reads" /\ AtEof /\ line = <<>>
  /\ reader' = "ended" /\ sent' = sent \o Markers
  /\ UNCHANGED <<writerVars, pipe, line>>

\* After out_data comes err_data.
NextStream ==
  /\ path = "captured" /\ stream = "out_data" /\ reader = "ended"
  /\ stream' = "err_data" /\ text' \in Texts /\ truncated' \in BOOLEAN
  /\ pipe' = text' /\ line' = <<>> /\ reader' = "reads" /\ sent' = <<>>
  /\ UNCHANGED <<path, qemuVars, writer, writing>>

Over ==
  /\ reader = "ended"
  /\ IF path = "captured" THEN stream = "err_data" ELSE qemu = "ended"
  /\ UNCHANGED vars

Read == ReadSymbol \/ ReadNewline \/ ReadLast \/ ReadEof

World == BeginWrite \/ EndWrite \/ WriterEnds \/ BeginMessage \/ EndMessage
         \/ Quit \/ QemuQuits \/ QemuKilled

Next == Read \/ NextStream \/ World \/ Over

Spec == Init /\ [][Next]_vars

\* vmtest's thread runs, and so does a writer or a QEMU that has room.  Nobody
\* need tell QEMU to quit, or kill it.
FairSpec ==
  Spec /\ WF_vars(Read) /\ WF_vars(EndWrite) /\ WF_vars(EndMessage) /\ WF_vars(QemuQuits)

-----------------------------------------------------------------------------
(***************************************************************************)
(* Properties.                                                             *)
(***************************************************************************)
TypeOK ==
  /\ path \in Paths /\ stream \in {"out_data", "err_data"} /\ truncated \in BOOLEAN
  /\ text \in Seq(Symbols) /\ Len(text) <= MaxText
  /\ qemu \in {"runs", "quits", "ended"} /\ telling \in BOOLEAN /\ stderr \in 0..StderrSize
  /\ writer \in {"runs", "ended"} /\ writing \in Symbols \cup {"nothing"}
  /\ pipe \in Seq(Symbols) /\ (path # "captured" => Len(pipe) <= PipeSize)
  /\ line \in Seq(Symbols \ {"n"})
  /\ reader \in {"reads", "ended"}
  /\ sent \in Seq(Seq(Symbols \cup {"truncation"}))

\* The lines of the text: each lies between two places where a newline is, or
\* where the text begins or ends, and holds none.
Newlines == {i \in 1..Len(text) : text[i] = "n"}
Places   == (Newlines \cup {0}) \X (Newlines \cup {Len(text) + 1})
Lines    == {s \in Places : s[1] < s[2] /\ \A i \in s[1]+1..s[2]-1 : i \notin Newlines}

Content(s)    == SubSeq(text, s[1] + 1, s[2] - 1)
Terminated(s) == s[2] <= Len(text)

\* Those that have to be sent: what follows the last newline if that is anything,
\* and except for what was captured nothing that is not UTF-8.
Due == {s \in Lines : /\ Terminated(s) \/ Content(s) # <<>>
                      /\ path = "captured" \/ ~Holds(Content(s), "x")}

\* How a line may come out on each path.  Of a boot log that does not end in a
\* newline the last character may be missing.
Shown(s) ==
  CASE path = "boot"     -> {Content(s)} \cup (IF Terminated(s) THEN {} ELSE {Front(Content(s))})
    [] path = "command"  -> {Content(s)}
    [] path = "captured" -> {Lossy(IF Terminated(s) /\ Ends(Content(s), "r")
                                     THEN Front(Content(s)) ELSE Content(s))}

InOrder(S) == {at \in [1..Cardinality(S) -> S] :
                 \A j, k \in DOMAIN at : j < k => at[j][2] < at[k][2]}

\* Once all of a stream has been read, the UI was sent every line of it, once and
\* in order, but those of a boot log or a command that are not UTF-8, and then what
\* follows the last newline; and then a line more if the agent truncated it.
EveryLineOnce ==
  reader = "ended" =>
    \E at \in InOrder(Due) :
      /\ Len(sent) = Cardinality(Due) + Len(Markers)
      /\ \A k \in DOMAIN at : sent[k] \in Shown(at[k])
      /\ truncated => sent[Len(sent)] = Marker

\* A QEMU that was told to quit ends, whatever it or the guest has written, and
\* then so does the thread that reads: only a full stderr may prevent it.
OnlyStderrBlocks ==
  (qemu = "quits") ~> \/ qemu = "ended" /\ reader = "ended"
                      \/ telling /\ stderr = StderrSize
=============================================================================
