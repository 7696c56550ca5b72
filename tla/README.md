# A formal model of vmtest

vmtest runs a command inside a virtual machine: for each target of a
`vmtest.toml`, or for the one kernel given on the command line, it starts QEMU,
waits for the guest agent, mounts the shared directories in the guest, runs the
command, reports its output and exit code, and shuts QEMU down.  This directory
holds TLA+ modules translated from the Rust source, the TLC configurations that
check them, and TLAPS proofs.  Paths below are relative to the repository.

## Inventory

| component | source | state | operations | module |
|---|---|---|---|---|
| update channel | `src/output.rs`, senders in `qemu.rs`, `vmtest.rs`, receiver in `ui.rs` | messages in flight, number of senders | send, receive, hang up | `Updates`, `UpdateProtocol` |
| run of one target | `src/qemu.rs`, `run_one` in `src/vmtest.rs` | where `run` is, child process, sockets, init script, streaming threads | `Qemu::new`, `boot_vm`, `setup_vm`, `run_command`, `sync`, `quit`, the destructors | `QemuRun` |
| calls to the guest agent | `run_in_vm`, `mount_in_guest`, `sync`, `run_command`; `src/qga.rs` | one stream, its read timeout, the process of the call | request, reply, poll, retry | `GuestCalls` |
| test matrix | `Ui::run`, `main` | counters | run a target, exit | `MatrixRun` |
| configuration | `main.rs` `config`, `vmtest.rs`, `config.rs`, `Qemu::new` | targets, base directory | filter, validate, resolve, build the invocation | `Config` |
| agent connection | `QgaWrapper::new`, `Version::new`, the capture mode in `run_in_vm` | attempts, deadline, one stream per attempt, the agent's version | connect, guest-sync, guest-info, sleep | `QgaSync` |
| init script | `src/init/init.sh.template` | mounts, trap | mount, start the agent, power off or panic | `GuestInit`; with the agent connection in `GuestBoot` |
| terminal UI | `Stage`, `error_out_stage`, `target_ui` in `ui.rs` | rows on the screen, the lines of the current stage | print, clear, expand, verdict | `TargetUi` (the verdict in `QemuRun` too) |
| command script | `src/init/command.template` | working directory, output | cd, pick the port | `JobStart` of `QemuRun`, `GuestCwd` of `Config` |
| line streaming | `stream_child_output`, `stream_command_output`, captured output in `run_in_vm` | pipes, the line being read | split bytes into lines, replace or drop what is not UTF-8 | `ChildOutput` (whole lines in `QemuRun`) |
| logging, clap, library exports | `main.rs`, `lib.rs` | a file handle | write | not modelled: nothing else reads that state |

How they interact.  `Ui::run` makes a channel per target, spawns the UI thread
on its receiver, and calls `run_one` on its own thread, which we call the run
thread.  The run thread owns QEMU (a child process under a scope guard), a QMP
stream and an agent stream; two more threads copy the child's stdout and the
command's output socket into the same channel, each with its own clone of the
sender.  `Ui::run` then joins the UI thread, which ends only when every sender
is gone.

What is hard here:

* *Interleaving.*  Three threads send on one channel; nothing orders them but
  the code that starts them and the end of QEMU.
* *Failure at every step.*  QEMU can die between any two steps, the guest can
  hang, the agent can refuse; `run` has a dozen ways out and each must report
  one failure and release the child, the sockets and the script.
* *Timeouts.*  Reads of the agent's stream time out after 5 s, except during
  the command, when they must not; reads of QMP never do.
* *Order of destruction.*  The child's guard, the streams and `Qemu` itself are
  dropped in an order that the language fixes and the code relies on.
* *A stream without identifiers.*  A reply belongs to a request by its position
  only, so a call that timed out poisons the stream.  QEMU's end outlives a
  connection: what an earlier attempt asked for may be answered to a later one.
* *A busy guest.*  The agent starts when the init script comes to it, and may be
  slower than the timeouts; the script may fail at each of its mounts.
* *Redrawing by counts.*  Nothing but counts of lines says which rows of the
  terminal are cleared and printed again.
* *Pipes that fill up.*  QEMU's stdout is drained by a thread, its stderr by
  nobody.
* *Paths with two readers.*  The init script, the mounts and the working
  directory are named on the host and used in the guest.

What makes each component correct: the stages are reported in order and failure
ends them (`FollowsProtocol`); the returned code is that of the command
(`VerdictIsRight`); nothing is left behind (`NothingLeftBehind`); the run ends
when QEMU does (`EndOfQemuEndsRun`); no reply is taken for another's
(`NothingStale`), from the first call on (`OkIsInStep`); an agent that answers
belongs to a guest that is set up (`OkMeansReady`); every line is sent once
(`EveryLineOnce`, `NoLineLost`) and the screen shows what it should
(`ScreenShowsRun`, `FailureShownWhole`); the command sees its shares
(`SharesReady`); a status of 0 means that everything passed, as far as a status
can say so (`ZeroMeansAllPassed`); an accepted target boots, with its options and
from the files that were meant (`ValidationPreventsPanic`, `OptionsTakeEffect`,
`PathsFromConfigDir`).  `PROJECT.json` lists the hazards line by line.

## Modules

`Updates` has the messages of `output.rs`; text is dropped, a line is its
variant.  `UpdateProtocol` is the abstract specification of what a receiver may
rely on: the stages in order, nothing after a failed stage (but lines, which it
leaves out), the channel hung up only after the last stage.

`QemuRun` is the core.  `pc` names the run thread's place in `Qemu::new`,
`boot_vm`, `setup_vm`, `run_command`, `run` and the destructors, one action per
step that another actor can observe:

| places | code |
|---|---|
| `gen_init` .. `new_err` | `Qemu::new`, error path of `run_one` |
| `boot_start` .. `boot_ok` | `boot_vm` and its early returns; `boot_bail` is the guard on those, `qga` is `QgaWrapper::new`, and `qga_connect` a connect in there that blocks |
| `setup_start` .. `setup_err` | `setup_vm`; one `Mount*` step per `mount_in_guest` |
| `drop_init`, `wait_shell` | `drop(self.init.take())`, the interactive wait |
| `cmd_start` .. `cmd_err` | `run_command`, `run_in_vm` |
| `sync`, `quit`, `wait_quit` | the end of `run` |
| `drop_child`, `drop_self`, `return`, `join` | the guard, `Drop for Qemu`, `run_one`, `Ui::run` |

`bootLog` and `cmdOut` are the streaming threads, `ui`, `taken` and `rc` the UI
thread.  `log` is everything ever sent and `taken` how much of it was received,
so the channel itself is the part between.  The environment is QEMU (`qemu`,
`socks`), the guest agent (a phase of `qemu`), the command (`job`, with `sink`
for where its script found its output port), and whoever kills vmtest
(`Killed`).

Merged into one step, because no other actor could tell: the process check and
the two file checks of `wait_for_qemu` (the model allows QEMU to be dead
after them, as the code does); a poll of a process that still runs (it changes
nothing); kill and wait in `child_cleanup`; the three unlinks in `Drop`.
`kill` and `waitpid` on vmtest's own child are taken to succeed.  A line counts
as written once it is in the socket on the host.  Lines are complete and UTF-8:
what the threads do with others belongs to `ChildOutput`.  What the script does
not send to the port the agent captures, in at most `CapturedStreams` streams, and
it may truncate each (`cut`): from a truncated stream it loses lines (`lost`), and
`FlushMarker` sends the line that says so.  After `Killed` the model ends.

`GuestCalls` opens what is one step in `QemuRun`: a call is a guest-exec
request, its reply, and guest-exec-status polls.  `requests` and `replies` are
the two directions of the stream; a read times out at any moment when `timeout`
is `5s`; the agent may fall silent (`mute`) or go with QEMU (`gone`).  A request
is short enough for the socket's buffer, so that only a read waits.  `slept` is
the time slept between tries, over all shares.
`mounted` and `aborted` record what became of each share's `mount`.

`QgaSync` opens the steps `Qga*` of `QemuRun`:

| places | code |
|---|---|
| `check` | the head of the loop in `QgaWrapper::new`: deadline, then `host_cb` |
| `connect`, `sync`, `sync_wait` | `UnixStream::connect`, `guest_sync` |
| `sleep` | the second between attempts; the stream is dropped after it |
| `info`, `info_wait` | `guest_info` and `Version::new`, which nothing retries |
| `ok`, `err` | `new` has returned |

`conns` is QEMU's side of the socket: the connections in the order in which they
came, each with what QEMU has not read of it; `accepted`, whether it serves the
first; `inbox`, the port of the guest; `readable`, the replies on vmtest's own
stream.  A reply goes to whoever is connected when the agent gives it.  The
agent is `absent`, `starting`, `up` or `mute`, and from `AgentSettles` on it
answers within the second of a sleep (`prompt`).  `GuestInit` is the script, a
step per command that can fail, and `GuestBoot` composes the two: they share
`agent`, and a guest that ends takes QEMU with it (`-no-reboot`, `panic=-1`).
QEMU's socket and the agent are external: they are modelled by what `qga.rs` can
see of them.

`ChildOutput` is one of the three paths from a program's bytes to
`Output::Boot` and `Output::Command`.  A text is a sequence of symbols, one for
any character, one for a carriage return, a newline, a byte that is not UTF-8;
`ReadSymbol`, `ReadNewline`, `ReadLast` and `ReadEof` are the pieces of a call
of `read_line` and of the loop around it, `Delivered` what is sent for a line.
The process that writes (`writer`) and QEMU (`qemu`) are two: on the command's
path the process may end long before QEMU, and only the end of QEMU ends the
stream (`Closed`).  A captured stream is complete from the start, in the agent's
answer, and may be truncated; `NextStream` goes on from `out_data` to `err_data`,
and `text` and `sent` are those of the current one of the two.  `Marker` is the
line for a truncated stream.

`TargetUi` is `Stage` and `target_ui`.  `screen` is the rows printed and not
cleared, by all targets so far; `lines` and `expand` are those of the current
`Stage`.  Its updates come as `UpdateProtocol` allows (`Protocol!Follows`), so
that what `QemuRun` is proved to send is what the UI is checked to receive;
lines come at any time.  `ErrorOut` prints the error of a failed stage one line
per step, as `error_out_stage` does: a line of a streaming thread may not come
between them, but the channel fills meanwhile.  A row is one row of the
terminal, since `print_line` clips; text is dropped, so a row is its kind and
its number.

`MatrixRun` counts outcomes over the targets and computes the exit status in
eight bits.  `Config` goes from the parsed arguments or file to a record with
the conditional parts of the QEMU command line.  A path is a flag and a sequence
of `Names`; "." is no name, and the only path that has it is the one that
`plan9_fs_args` writes for an empty path (`Dot`).  `Locate` says which file a path
names on the host: the empty path none.  The targets that the filter retains are
picked in the order of the file (`InOrder`), without recursion.

## Runs

| run | shows | size |
|---|---|---|
| `MCQemuRun` | types, `NothingLeftBehind`, `GuestFindsInit`, `NoInitOnceCommandRuns`, `VerdictIsRight`, `PatientCommand`, `LinesFollowStart`, `NoLineLost`, and the refinement `FollowsProtocol`, for a kernel target and an interactive one with an extra mount | 2.99 M states |
| `MCQemuRunLive` | `EndOfQemuEndsRun`, `NeverStuckElsewhere` under fairness, for an image and an interactive target | 0.2 M |
| `MCGuestCalls` | `NothingStale`, `SharesReady`, the retry (`RetriesBounded`, `GivesUpLate`), `TimedCallsEnd` | 36 k |
| `MCGuestBoot` | late answers (`OkIsInStep`, `SyncMeansInStep`, `SettlesFast`), the guest when `new` returns (`OkMeansReady`), that it returns (`EndsByDeadline`, `EndsWithoutDeadline`) | 93 k |
| `MCChildOutput` | all texts of up to five symbols on each path, captured ones truncated or not: `EveryLineOnce`, `OnlyStderrBlocks` | 230 k |
| `MCTargetUi` | two targets: `ScreenShowsRun`, `PassLeavesTwoRows`, `FailureShownWhole`, `EarlierRowsStay` | 1.9 M |
| `MCMatrixRun` | the exit status with 0 to 3 and 255 to 257 targets | 501 k |
| `MCConfig` | all combinations of one target's conditional options; pairs of targets under all filters; one-liners | 64 k |

Bounds.

* `QemuRun`: `MaxBootLines` and `MaxCmdLines` bound the output.  One boot line
  is enough to be early, late or unread, and two command lines to be written on
  either side of the end of the command, and to be kept or lost by the agent before
  and after each truncation; the properties speak of single lines or of counts,
  and are proved for any number.  The run thread and the guest treat an image
  target as they do a kernel target whose guest needs no init script, so the large
  run has none.  One extra mount makes `mountsLeft`
  two, so that failures happen at the first, at the last and between.  Exit
  codes are 0 and one other (`GuestCalls`: also 32).
* `GuestCalls`: two shares, the smallest number with a transition between
  shares, and all five tries of the code.
* `GuestBoot`: two sync values, so that attempts may draw the same or not;
  `Backlog` and `PortCapacity` two, so that each queue can be full, empty, or
  hold the request of an older attempt before that of the current one; one
  version for each outcome of `Version::new` and of the capture mode.
  `failures` counts attempts after the agent has settled, and stops at two, one
  more than `SettlesFast` allows.  The number of attempts is not bounded.
* `ChildOutput`: `MaxText` five, which holds two terminated lines and a rest,
  or a line with a carriage return and a bad byte; `PipeSize` two and
  `StderrSize` one, of at most `MaxStderr` two messages, so that both pipes fill.
* `TargetUi`: `Window` two, three lines per target and errors of one or three
  lines, so that stages fit the window, fill it and overflow it; `Heights` of
  one, three and nine rows above the cursor: lower than a window, just enough
  for what a target shows, and plenty.  What the screen shows is stated for
  terminals with room (`Roomy`), `EarlierRowsStay` for all.
* `Config`: every combination of a missing, empty or given value of each option
  of one target, under a config file next to vmtest, below it and elsewhere.
  `GuestInitIsHostInit` excludes an empty `rootfs`, for which it is false.  A target
  of the run has no two mounts of one host path, whose tags would be the same and
  refused by QEMU.  Two targets suffice for the filter, which
  treats each by itself.
* `MatrixRun`: small counts, and those on both sides of what a status can hold:
  with 256 and 257 targets it happens that 256 fail.

The action graphs have no other bounds.

Four runs end in a violation, each of a sentence of a comment or a test, quoted
in `PROJECT.json`:

* `MCQemuRunBail`: when QMP fails and QEMU lives, `extract_child_stderr` waits
  for ever for the end of QEMU's stderr, before the guard could kill it.
* `MCQemuRunSignal`: a command killed by a signal passes.
* `MCConfigCwd`: with the default `vmtest.toml` the command of a kernel target
  runs in `$HOME`; with `-c dir/vmtest.toml` its `cd` is relative to the agent.
* `MCGuestBootMerge`: an agent of version 9.0 or 10.0 is not asked for merged
  streams, as its minor version is less than 1.

Smaller disagreements of code and text, which the modules follow the code in and
which need no run of their own:

* Lines still arrive after a reported failure, and `Boot` lines after `BootEnd`,
  `Command` lines after `CommandEnd`, where `output.rs` (lines 6 and 10)
  describes a stage as what lies between its start and its end.
* "it returns how many targets failed" (`ui.rs` 282) does not fit in an exit
  status: 256 failed targets give 0.  `ZeroMeansAllPassed` says so: 0 stands for
  any multiple of 256 failures, hence for none if there are fewer than 256.
* "Remove newline" (`qemu.rs` 978) removes the last character of an
  unterminated boot line as well.  `EveryLineOnce` accepts that line with its last
  character and without it, and says nothing in favour of either.
* `validate_config` accepts a `rootfs` without a `kernel`, which
  `docs/config.md` (line 41) rules out, and it has no effect then.  So
  `OptionsTakeEffect` is not that nothing is dropped: it says when a `rootfs` is
  used.  An accepted empty `bios` is handed on as any other path, and names no file.
* The mounts of kernel targets take effect, though `config.rs` (line 37) says
  that they are only respected when using an image.

## Fairness

`QemuRun` assumes that the operating system runs vmtest's three kinds of thread
(`WF` of each) and that a step of the run thread that needs no answer (`Prompt`)
is taken; that includes the 5 s, 80 s and 120 s limits, since time passes.
Nothing is assumed of QEMU, the guest, the agent or the command.  So
`EndOfQemuEndsRun` says that vmtest always completes once QEMU is gone, and
`NeverStuckElsewhere` that a run which does not complete is at one of the reads
or waits that have no limit, with QEMU alive, or is polling an agent that keeps
answering.  A connect to the agent's socket is one of them (`qga_connect`): the
attempts before it, which QEMU did not accept, may have filled the backlog.
`GuestCalls` assumes also that `mkdir`, `mount` and `sync` end once started, so
`TimedCallsEnd` does not claim that a share on a dead host filesystem is given
up: the poll loop of `run_in_vm` has no limit of its own.

`GuestBoot` assumes that vmtest's thread runs, that QEMU's socket and the agent
do their part once the agent is prompt, and that QEMU ends when its guest does.
Nothing is assumed of the deadline, of the script, or of a guest that is busy.
So `EndsWithoutDeadline` says what needs no deadline, and `EndsByDeadline` what
the deadline ensures: it cannot reach a `connect` on a full queue, which has no
timeout.  `ChildOutput` assumes that the reading thread runs (`Read`), that a
write with room for it is made (`EndWrite`, `EndMessage`), and that a QEMU that
was told to quit does, if it is not blocked in a write (`QemuQuits`); nobody
need tell it or kill it, and nobody need end the process in the guest.
`TargetUi`, `MatrixRun` and `Config` are checked for safety only.

## Proofs

For all sets of targets, exit codes and output bounds (`QemuRun_proofs`):

* `Inductive`: `IInv`.  None of the invariants is inductive alone; what makes
  them so is that the place of the run thread determines what it holds
  (`Resources`: QEMU's phase, the sockets, the init script, the mounts left,
  the read timeout) and what it has reported (`Reported`: the last stage).
  Every action is a case of `TypeStep`, `ResourceStep` and `ReportStep`.
* `TypeCorrect`, `ReturnsClean`, `InitScriptThere`, `InitScriptGone` follow.
* `ImplementsProtocol`: the refinement.  A stage reported is `Advance`, the end
  of the last sender is `HangUp`, and everything else stutters; that `Final`
  holds when the run thread has returned is part of `Reported`.
* `CommandIsWaitedFor`: the read timeout is off where replies are awaited.

`QemuRunOutput_proofs` goes on from there to what arrives at the UI:

* `ChannelInductive`: `IOut`, which adds to `IInv` what the threads leave behind
  (`Threads`), what is in the log (`Channel`: a failure or the end of the
  command is the last stage, and lines alone follow it), what the UI made of
  what it received (`Verdict`), and that every line written is in a pipe, in
  the agent's buffer, lost by the agent or in the log, beside a line for each
  truncation told of (`Accounts`).  A step is one of three kinds:
  it sends nothing (`Silent`), reports a stage (`Reports`) or passes on a line
  (`Speaks`), and each part of `IOut` is proved by kind.
* `LinesInOrder`, `NothingIsLost` and `VerdictIsTrue` follow.

For any number of shares and tries (`GuestCalls_proofs`): `StreamInStep`, from
`Outstanding` (where the program is determines what is on the stream), and
`CommandSeesShares`, from `Truthful` (an unread reply still describes the
process) and `Progress` (shares behind the current one are ready).
`SleepsBounded` and `AllTriesUsed` come from `Retrying`: a share that is mounted
has cost at most `Cost`, what all its tries but the last have slept, and n failures
of the current share 0 + 1 + ... + (n-1) seconds more, all stated doubled and so without
division; and a further try follows a mount failure only.  The sum over the shares
is `CostUpTo`, a product, which the lemmas `Products` and `Costs` relate from share
to share.

For any sync values, versions, backlog and capacity (`GuestBoot_proofs`): the
replies have no identifiers, so the argument is about where the messages of each
attempt can be.  `AllOld` says that only messages of earlier attempts are on the
way, `OneCurrent` that exactly one of this attempt is, and that it is the last.
The answer that `guest_sync` accepts may be that of an attempt which drew the
same value; then this attempt's own is still to come, is read as the answer to
guest-info, and fails, so that `new` returns Ok in step or not at all
(`ReturnsInStep`).
`SyncIsTrusted` is the same without a repeated value.  `OneMoreTry` needs
`Fresh`: after one failure with a prompt agent nothing old is left, because the
stream stays open through the sleep.  `AgentMeansReady` needs `Booted`, which
ties the agent's phase to the line of the script.

For any numbers of targets (`MatrixRun_proofs`): `StatusIsRight`, from `Counted`
(the two counters account for every target run), and `FewFailures`, what it comes
to as long as fewer than 256 targets fail.

For any window, terminal, number of targets and length of an error
(`TargetUi_proofs`): nothing on the screen says what it is, so the invariant
relates it to counts.  `Drawn` is the screen of a run on a terminal with room:
what was there before, the headings of its stages (`Counted` bounds them by the
last update), and the last `WindowSize` of its lines.  `Printed` is the same
without a terminal, where nothing is cleared.  `Judged` ties the verdict, `expand`
and the lines of an error to the last update.  `PassIsTwoRows` and
`FailureIsWhole` are about what the drop of a stage makes of these.
`EarlierTargetsStay` holds on a terminal of any height, where `Drawn` does not: it
needs only `Enough`, that the target has at least as many rows on the screen as
it will ever clear.

For any inputs, names and directories (`Config_proofs`): the invariant says that
the targets are what validation let through (`Valid`), that `base` is the
directory of the config file or that of vmtest (`Given`), and that the current
Qemu is the invocation of the current target (`SetUpRight`).  The rest is about
paths: `ResolveLocated` says that resolving a path against `base` and locating it
from where vmtest was started is locating it from the config's directory, and
`InitIsFound` that joining rootfs and temporary directory commutes with it.

For any text and any capacity of the pipes (`ChildOutput_proofs`): the places of
the newlines divide the text into `Lines`, each a pair of places.  `Unread` says
that the pipe holds the end of the text, `InLine` that what `read_line` has
collected is the beginning of the line that starts where the last one ended, and
`SentRight` that exactly the lines which end before that were sent.  They do not
hold once the rest after the last newline was sent, which is no line that a
newline ends: `Flushed` is that state, and `Finished` says that the stream is
`Closed` then, so that no more can come.  `Rendered` is what the code makes of a
line, one of those that `Shown` allows; `New` is a stream at its beginning,
which `NextStream` comes back to; `AllSent` adds the line for a truncated one.
`LineRead` finds the line that a newline completes, and that no other ends
there; `GrownText` that lines which the text has had stay as they are when it
grows; `DeliveredTerminated` and `DeliveredUnterminated` that each path sends
what `Shown` asks for.

No proof is by induction over data.  A count is that of a set
(`EveryLineOnce`, the filter of `Config`): an enumeration in order is stated to
exist and is extended by one element in a step, never computed.

Assumptions are those of the modules (`TargetsAssumption`, `CodesAssumption`,
`SyncValuesAssumption`, `WindowAssumption`, `InputsAssumption`, `NamesAssumption`,
`HostAssumption`, `SizesAssumption`, ...), evaluated by TLC in the runs; no theorem
has others.  `NamesAssumption` says that "."
is not a name: `PathBuf` drops such components when it compares and iterates.
`InputsAssumption` gives the inputs the types of `config.rs` and of `Args`, with
arbitrary paths, texts and sets of mounts.

Every safety invariant of the passing runs, and the refinement, is a theorem.
Model-checked only: the liveness properties `EndOfQemuEndsRun`,
`NeverStuckElsewhere`, `TimedCallsEnd`, `EndsByDeadline`, `EndsWithoutDeadline` and
`OnlyStderrBlocks`, which are out of the prover's reach, as ENABLED is.

## Plan

What would add most from here:

1. `GuestCalls` as a refinement of the mount, command and sync steps of
   `QemuRun`, and `QgaSync` of its `Qga*` steps; both are now
   related by the README only.
2. The safety half of the liveness properties: what remains to be done when a
   thread is at a place, as invariants that a theorem can state.
3. `ChildOutput` as what `QemuRun`'s streaming threads do with whole lines, so that
   `EveryLineOnce` and `NoLineLost` join into one statement.

## Not modelled

Arguments of QEMU that depend on nothing but the architecture, rendering and
styling of the terminal, logging, `clap`, TOML syntax, and the concrete text of
any message: no property is about them.  Wall-clock time appears only as the
possibility that a limit expires.
