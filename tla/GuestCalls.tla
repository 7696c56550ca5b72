------------------------------- MODULE GuestCalls -------------------------------
(***************************************************************************)
(* The calls that one target makes to the guest agent over one stream:     *)
(* for each share mkdir and mount(8), then the user's command, then sync   *)
(* (qemu.rs setup_vm, mount_in_guest, run_in_vm, run_command, sync).       *)
(*                                                                         *)
(* A call is a guest-exec request, its reply, and guest-exec-status        *)
(* requests until a reply says that the process ended.  Requests carry no  *)
(* identifier: a reply is taken to be that of the last request.            *)
(***************************************************************************)
EXTENDS Naturals, Sequences

CONSTANTS
  Shares,       \* how many shares setup_vm mounts
  Codes,        \* exit codes of guest processes
  MountFailure, \* 32, mount(8)'s code for a mount failure
  Tries         \* 5, the limit of the retry loop

ASSUME SharesAssumption == Shares \in Nat \ {0}
ASSUME CodesAssumption == Codes \subseteq Nat /\ {0, MountFailure} \subseteq Codes
ASSUME TriesAssumption == MountFailure # 0 /\ Tries \in Nat \ {0}

VARIABLES
  share,     \* the share being mounted
  call,      \* the call being made
  attempt,   \* tries at mounting this share that are over
  step,      \* where in run_in_vm
  timeout,   \* of reads from the stream: "5s" or "none"
  requests,  \* requests the agent has not answered yet
  replies,   \* replies that have not been read yet
  peer,      \* the other end: "up", "mute", or "gone" with QEMU
  proc,      \* the guest process of the current call
  mounted,   \* shares that are mounted in the guest
  aborted,   \* shares whose mount(8) was killed by a signal
  slept      \* seconds slept between tries, for all shares

progVars  == <<share, call, attempt, step, timeout, slept>>
guestVars == <<peer, proc, mounted, aborted>>
vars == <<progVars, requests, replies, guestVars>>

Setup == {"mkdir", "mount"}
Calls == Setup \cup {"command", "sync"}

\* A guest process: not started, running, or over with an exit code, or with
\* none when a signal killed it.
Proc == [state : {"idle", "running", "exited", "signaled"}, code : Nat]
Idle    == [state |-> "idle",    code |-> 0]
Running == [state |-> "running", code |-> 0]

\* Replies: "pid" answers guest-exec; "status" tells the state of the process;
\* "error" answers either.
Reply == [kind : {"pid", "status", "error"}, proc : Proc]
Answer(kind, p) == [kind |-> kind, proc |-> p]

Init ==
  /\ share = 1 /\ call = "mkdir" /\ attempt = 0 /\ step = "exec"
  /\ timeout = "5s" /\ slept = 0
  /\ requests = <<>> /\ replies = <<>>
  /\ peer = "up" /\ proc = Idle /\ mounted = {} /\ aborted = {}

-----------------------------------------------------------------------------
(***************************************************************************)
(* What follows a call.                                                    *)
(***************************************************************************)
\* The next call, made from its beginning.
Begin(c) == call' = c /\ step' = "exec"

\* run_command clears the timeout before its call and restores it after it;
\* "over" is the end of run, or its early return when setup fails.
\* Mutants of the two: the timeout is left as it is.
StartCommandTimed == Begin("command") /\ UNCHANGED timeout
StartSyncUntimed  == Begin("sync") /\ UNCHANGED timeout

StartCommand == Begin("command") /\ timeout' = "none"
StartSync    == Begin("sync") /\ timeout' = "5s"
End          == UNCHANGED <<call, timeout>> /\ step' = "over"

MkdirDone(rc) ==
  /\ call = "mkdir"
  /\ IF rc = 0 THEN Begin("mount") /\ UNCHANGED timeout ELSE End
  /\ attempt' = 0
  /\ UNCHANGED <<share, slept>>

\* Conditions of the retry loop and of what follows it, each after its mutants.
TriesLeftMore  == attempt + 1 <= Tries
TriesLeftFewer == attempt + 2 < Tries
TriesLeft      == attempt + 1 < Tries

SharesLeftMore == share <= Shares
SharesLeft     == share < Shares

SucceededAnyhow(rc) == rc # MountFailure
Succeeded(rc)       == rc = 0

\* The loop sleeps after each mount failure, the last one included.
MountDone(rc) ==
  /\ call = "mount"
  /\ attempt' = attempt + 1
  /\ \/ /\ rc = MountFailure
        /\ slept' = slept + attempt
        /\ IF TriesLeft THEN Begin("mount") /\ UNCHANGED timeout ELSE End
        /\ UNCHANGED share
     \/ /\ rc # MountFailure /\ Succeeded(rc)
        /\ share' = share + 1
        /\ IF SharesLeft THEN Begin("mkdir") /\ UNCHANGED timeout ELSE StartCommand
        /\ UNCHANGED slept
     \/ /\ rc # MountFailure /\ ~Succeeded(rc)
        /\ End
        /\ UNCHANGED <<share, slept>>

CommandDone == call = "command" /\ StartSync /\ UNCHANGED <<share, attempt, slept>>
SyncDone    == call = "sync" /\ End /\ UNCHANGED <<share, attempt, slept>>

\* run_in_vm returned Ok(rc); a process killed by a signal has no exit code
\* and counts as 0.
Returned(p) ==
  LET rc == IF p.state = "exited" THEN p.code ELSE 0
  IN  MkdirDone(rc) \/ MountDone(rc) \/ CommandDone \/ SyncDone

\* run_in_vm returned Err.
Failed ==
  \/ call \in Setup /\ End /\ UNCHANGED <<share, attempt, slept>>
  \/ CommandDone
  \/ SyncDone

-----------------------------------------------------------------------------
(***************************************************************************)
(* run_in_vm.                                                              *)
(***************************************************************************)
Send(from, to, request) ==
  /\ step = from /\ peer # "gone"
  /\ step' = to
  /\ requests' = Append(requests, request)
  /\ UNCHANGED <<share, call, attempt, timeout, slept, replies, peer, mounted, aborted>>

SendExec   == Send("exec", "exec_wait", "guest-exec") /\ proc' = Idle
SendStatus == Send("status", "status_wait", "guest-exec-status") /\ UNCHANGED proc

\* The command's output socket cannot be connected: nothing has been sent.
ConnectFails ==
  /\ step = "exec" /\ CommandDone
  /\ UNCHANGED <<requests, replies, guestVars>>

\* A request cannot be written once QEMU is gone.
SendFails ==
  /\ step \in {"exec", "status"} /\ peer = "gone"
  /\ Failed
  /\ UNCHANGED <<requests, replies, guestVars>>

\* Read the first reply, whichever request it answers.
First   == Head(replies)
Receive == replies # <<>> /\ replies' = Tail(replies)

RecvPid ==
  /\ step = "exec_wait"
  /\ Receive /\ First.kind = "pid"
  /\ step' = "status"
  /\ UNCHANGED <<share, call, attempt, timeout, slept, requests, guestVars>>

\* Not exited: sleep for a while, then ask again.
RecvRunning ==
  /\ step = "status_wait"
  /\ Receive /\ First.kind = "status" /\ First.proc = Running
  /\ step' = "status"
  /\ UNCHANGED <<share, call, attempt, timeout, slept, requests, guestVars>>

RecvExited ==
  /\ step = "status_wait"
  /\ Receive /\ First.kind = "status" /\ First.proc # Running
  /\ Returned(First.proc)
  /\ UNCHANGED <<requests, guestVars>>

\* An error, or a reply that is not of the type that the request has.
RecvError ==
  /\ step \in {"exec_wait", "status_wait"}
  /\ Receive /\ First.kind # (IF step = "exec_wait" THEN "pid" ELSE "status")
  /\ Failed
  /\ UNCHANGED <<requests, guestVars>>

\* End of file, or 5s without a reply.
RecvFails ==
  /\ step \in {"exec_wait", "status_wait"} /\ replies = <<>>
  /\ peer = "gone" \/ timeout = "5s"
  /\ Failed
  /\ UNCHANGED <<requests, replies, guestVars>>

-----------------------------------------------------------------------------
(***************************************************************************)
(* The guest.                                                              *)
(***************************************************************************)
Serve(request) == /\ peer = "up"
                  /\ requests # <<>> /\ Head(requests) = request
                  /\ requests' = Tail(requests)

AgentExecs ==
  /\ Serve("guest-exec")
  /\ \/ proc' = Running /\ replies' = Append(replies, Answer("pid", Idle))
     \/ UNCHANGED proc /\ replies' = Append(replies, Answer("error", Idle))
  /\ UNCHANGED <<progVars, peer, mounted, aborted>>

AgentReports ==
  /\ Serve("guest-exec-status")
  /\ \/ replies' = Append(replies, Answer("status", proc))
     \/ replies' = Append(replies, Answer("error", Idle))
  /\ UNCHANGED <<progVars, guestVars>>

ProcExits ==
  /\ proc = Running /\ peer # "gone"
  /\ \E code \in Codes :
       /\ proc' = [state |-> "exited", code |-> code]
       /\ mounted' = IF call = "mount" /\ code = 0 THEN mounted \cup {share} ELSE mounted
  /\ UNCHANGED <<progVars, requests, replies, peer, aborted>>

ProcKilled ==
  /\ proc = Running /\ peer # "gone"
  /\ proc' = [state |-> "signaled", code |-> 0]
  /\ aborted' = IF call = "mount" THEN aborted \cup {share} ELSE aborted
  /\ UNCHANGED <<progVars, requests, replies, peer, mounted>>

PeerFails ==
  /\ \/ peer = "up" /\ peer' = "mute"
     \/ peer # "gone" /\ peer' = "gone"
  /\ UNCHANGED <<progVars, requests, replies, proc, mounted, aborted>>

Over == step = "over" /\ UNCHANGED vars

-----------------------------------------------------------------------------
Program == \/ SendExec \/ SendStatus \/ SendFails \/ ConnectFails
           \/ RecvPid \/ RecvRunning \/ RecvExited \/ RecvError \/ RecvFails

ProcEnds == ProcExits \/ ProcKilled

Next == Program \/ AgentExecs \/ AgentReports \/ ProcEnds \/ PeerFails \/ Over

Spec == Init /\ [][Next]_vars

\* vmtest runs, and guest processes other than the user's command end.  The
\* agent may stop answering at any time.
FairSpec == Spec /\ WF_vars(Program) /\ WF_vars(ProcEnds /\ call # "command")

-----------------------------------------------------------------------------
(***************************************************************************)
(* Properties.                                                             *)
(***************************************************************************)
TypeOK ==
  /\ share \in 1..Shares + 1
  /\ call \in Calls
  /\ attempt \in Nat
  /\ step \in {"exec", "exec_wait", "status", "status_wait", "over"}
  /\ timeout \in {"5s", "none"}
  /\ requests \in Seq({"guest-exec", "guest-exec-status"})
  /\ replies \in Seq(Reply)
  /\ peer \in {"up", "mute", "gone"}
  /\ proc \in Proc
  /\ mounted \subseteq 1..Shares
  /\ aborted \subseteq 1..Shares
  /\ slept \in Nat

\* Replies are matched to requests by order alone, and a call that timed out
\* leaves its reply on the way: no other request may follow it.  So when a
\* request is sent on a live stream, nothing is outstanding (which is why the
\* command is called with no timeout and a failed setup makes no more calls).
NothingStale ==
  step \in {"exec", "status"} /\ peer # "gone" => requests = <<>> /\ replies = <<>>

\* SetupEnd(Ok) and the user's command come only after every share has been
\* mounted, or its mount was killed: mount_in_guest takes a missing exit code
\* for success.
SharesReady ==
  call \in {"command", "sync"} => 1..Shares \subseteq mounted \cup aborted

\* Vmtest mounts a share again only when mount(8) ended with a mount failure, never
\* because of another code, a signal, an error or a timeout; and gives up on the
\* Tries-th failure.  So a share that is mounted has cost 0 + 1 + ... + (Tries - 2)
\* seconds at most, and the one that is given up (Tries - 1) more.
RetriesBounded ==
  /\ call = "mount" /\ step = "exec" /\ attempt > 0 =>
       proc = [state |-> "exited", code |-> MountFailure]
  /\ 2 * slept <= (Shares - 1) * ((Tries - 1) * (Tries - 2)) + Tries * (Tries - 1)

\* A mount failure alone ends the setup only once every try has been used.
GivesUpLate ==
  [][(RecvExited /\ call = "mount" /\ step' = "over")
       => (First.proc.code # MountFailure \/ attempt = Tries - 1)]_vars

\* Setup ends, in success or failure, even if the agent stops answering, as
\* every read of it times out; so does the final sync, after a command whose
\* reads had no timeout.
TimedCallsEnd ==
  \A calls \in {Setup, {"sync"}} : (call \in calls) ~> (call \notin calls \/ step = "over")
=============================================================================
