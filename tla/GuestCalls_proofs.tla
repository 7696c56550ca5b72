---------------------------- MODULE GuestCalls_proofs ----------------------------
(***************************************************************************)
(* Proofs about GuestCalls, for any number of shares and tries and any set *)
(* of exit codes.                                                          *)
(***************************************************************************)
EXTENDS GuestCalls, TLAPS

USE DEF vars, progVars, guestVars

\* What the stream may hold: nothing, one request, or one reply.
Empty         == requests = <<>> /\ replies = <<>>
OneRequest(q) == requests = <<q>> /\ replies = <<>>
OneReply      == requests = <<>> /\ \E r \in Reply : replies = <<r>>

\* What is outstanding follows from where the program is.
Outstanding ==
  /\ step \in {"exec", "status"} /\ peer # "gone" => Empty
  /\ step = "exec_wait"   => OneRequest("guest-exec") \/ OneReply
  /\ step = "status_wait" => OneRequest("guest-exec-status") \/ OneReply
  /\ call = "command" => timeout = "none"

\* What a reply says is true of the process of the current call.
Truthful ==
  /\ proc.state = "running" => proc = Running
  /\ step \in {"status", "status_wait"} => proc.state # "idle"
  /\ step = "exec_wait" /\ replies # <<>> /\ First.kind = "pid" => proc.state # "idle"
  /\ step = "status_wait" /\ replies # <<>> /\ First.kind = "status" =>
       First.proc = Running \/ First.proc = proc
  /\ call = "mount" /\ step \in {"exec_wait", "status", "status_wait"} =>
       /\ proc.state = "exited" /\ proc.code = 0 => share \in mounted
       /\ proc.state = "signaled" => share \in aborted

\* The shares before the current one are ready.
Progress ==
  /\ call \in Setup => share <= Shares
  /\ call \notin Setup => share = Shares + 1
  /\ \A s \in 1..share - 1 : s \in mounted \cup aborted

IInv == TypeOK /\ Outstanding /\ Truthful /\ Progress

-----------------------------------------------------------------------------
\* The guest's processes and replies have their types.
LEMMA RepliesTyped ==
  /\ Idle \in Proc /\ Running \in Proc
  /\ \A k \in {"pid", "status", "error"}, p \in Proc : Answer(k, p) \in Reply
  /\ \A c \in Nat : [state |-> "exited", code |-> c] \in Proc
  /\ [state |-> "signaled", code |-> 0] \in Proc
BY DEF Idle, Running, Proc, Answer, Reply

\* Queues keep their types.
LEMMA QueueTyped ==
  ASSUME NEW S, NEW q \in Seq(S)
  PROVE  /\ \A x \in S : Append(q, x) \in Seq(S)
         /\ q # <<>> => Head(q) \in S /\ Tail(q) \in Seq(S)
OBVIOUS

\* The end of a call keeps the types of the variables that it sets, and never
\* leaves a call half-way.
LEMMA CallOver ==
  ASSUME IInv, NEW p \in Proc, Returned(p) \/ Failed
  PROVE  /\ share' \in 1..Shares + 1
         /\ call' \in Calls /\ attempt' \in Nat /\ timeout' \in {"5s", "none"}
         /\ step' \in {"exec", "over"} /\ slept' \in Nat
         /\ call' = "command" => timeout' = "none"
         /\ call' \in Setup => share' <= Shares
         /\ call' \notin Setup => share' = Shares + 1
         /\ share' = share \/ (call = "mount" /\ share' = share + 1)
  <1> USE SharesAssumption DEF IInv, TypeOK, Outstanding, Progress, Setup, Calls, End, Begin
<1>1. PICK rc \in Nat : MkdirDone(rc) \/ MountDone(rc) \/ CommandDone \/ SyncDone \/ Failed
  <2>1. p.state = "exited" => p.code \in Nat
    BY DEF Proc
  <2>2. QED
    BY <2>1 DEF Returned
<1>2. CASE MkdirDone(rc)
  BY <1>2 DEF MkdirDone
<1>3. CASE MountDone(rc)
  BY <1>3 DEF MountDone, StartCommand, SharesLeft
<1>4. CASE CommandDone
  BY <1>4 DEF CommandDone, StartSync
<1>5. CASE SyncDone
  BY <1>5 DEF SyncDone
<1>6. CASE Failed
  BY <1>4, <1>5, <1>6 DEF Failed
<1>7. QED
  BY <1>1, <1>2, <1>3, <1>4, <1>5, <1>6

\* Every step keeps the types.
LEMMA TypeStep ==
  ASSUME IInv, [Next]_vars
  PROVE  TypeOK'
  <1> USE RepliesTyped DEF IInv, TypeOK, Receive, Serve
<1>1. CASE SendExec \/ SendStatus
  <2>1. requests' \in Seq({"guest-exec", "guest-exec-status"})
    <3>1. PICK q \in {"guest-exec", "guest-exec-status"} : requests' = Append(requests, q)
      BY <1>1 DEF SendExec, SendStatus, Send
    <3>2. QED
      BY <3>1, QueueTyped
  <2>2. QED
    BY <1>1, <2>1 DEF SendExec, SendStatus, Send
<1>2. CASE SendFails \/ ConnectFails \/ RecvFails
  BY <1>2, CallOver DEF SendFails, ConnectFails, RecvFails, Failed
<1>3. CASE RecvPid \/ RecvRunning
  <2>1. replies # <<>> /\ replies' = Tail(replies)
    BY <1>3 DEF RecvPid, RecvRunning
  <2>2. replies' \in Seq(Reply)
    BY <2>1, QueueTyped
  <2>3. QED
    BY <1>3, <2>2 DEF RecvPid, RecvRunning
<1>4. CASE RecvExited
  <2>1. First \in Reply
    BY <1>4 DEF RecvExited, First
  <2>2. First.proc \in Proc
    BY <2>1 DEF Reply
  <2>3. QED
    BY <1>4, <2>2, CallOver DEF RecvExited
<1>5. CASE RecvError
  BY <1>5, CallOver DEF RecvError
<1>6. CASE AgentExecs \/ AgentReports
  <2>1. requests' \in Seq({"guest-exec", "guest-exec-status"}) /\ replies' \in Seq(Reply)
    <3>1. requests # <<>> /\ requests' = Tail(requests)
      BY <1>6 DEF AgentExecs, AgentReports
    <3>2. PICK r \in Reply : replies' = Append(replies, r)
      BY <1>6 DEF AgentExecs, AgentReports
    <3>3. QED
      BY <3>1, <3>2, QueueTyped
  <2>2. QED
    BY <1>6, <2>1 DEF AgentExecs, AgentReports
<1>7. CASE ProcExits
  BY <1>7, CodesAssumption, SharesAssumption DEF ProcExits, Progress, Setup
<1>8. CASE ProcKilled
  BY <1>8, SharesAssumption DEF ProcKilled, Progress, Setup
<1>9. CASE PeerFails
  BY <1>9 DEF PeerFails
<1>10. CASE UNCHANGED vars
  BY <1>10
<1>11. QED
  BY <1>1, <1>2, <1>3, <1>4, <1>5, <1>6, <1>7, <1>8, <1>9, <1>10
  DEF Next, Program, ProcEnds, Over

\* A reply or a refusal empties the stream, and a timeout, which leaves a
\* request or its reply on it, ends the program's use of it.
LEMMA StreamStep ==
  ASSUME IInv, [Next]_vars
  PROVE  Outstanding'
  <1> USE RepliesTyped DEF IInv, TypeOK, Outstanding, Empty, OneRequest, OneReply
<1>1. CASE SendExec \/ SendStatus
  <2>1. requests = <<>> /\ replies = <<>>
    BY <1>1 DEF SendExec, SendStatus, Send
  <2>2. \A q : Append(<<>>, q) = <<q>>
    OBVIOUS
  <2>3. CASE SendExec
    BY <2>1, <2>2, <2>3 DEF SendExec, Send
  <2>4. CASE SendStatus
    BY <2>1, <2>2, <2>4 DEF SendStatus, Send
  <2>5. QED
    BY <1>1, <2>3, <2>4
<1>2. CASE SendFails
  BY <1>2, CallOver DEF SendFails
<1>3. CASE ConnectFails
  BY <1>3 DEF ConnectFails, CommandDone, StartSync, Begin
<1>4. CASE RecvFails
  <2>1. CASE peer = "gone"
    BY <1>4, <2>1, CallOver DEF RecvFails
  <2>2. CASE peer # "gone"
    <3>1. call # "command"
      BY <1>4, <2>2 DEF RecvFails
    <3>2. step' = "over" /\ call' = call
      BY <1>4, <3>1 DEF RecvFails, Failed, CommandDone, SyncDone, End
    <3>3. QED
      BY <3>1, <3>2
  <2>3. QED
    BY <2>1, <2>2
<1>5. CASE RecvPid \/ RecvRunning
  BY <1>5 DEF RecvPid, RecvRunning, Receive
<1>6. CASE RecvExited \/ RecvError
  <2>1. Empty'
    BY <1>6 DEF RecvExited, RecvError, Receive
  <2>2. First \in Reply
    BY <1>6 DEF RecvExited, RecvError, Receive, First
  <2>3. First.proc \in Proc
    BY <2>2 DEF Reply
  <2>4. step' \in {"exec", "over"} /\ (call' = "command" => timeout' = "none")
    BY <1>6, <2>3, CallOver DEF RecvExited, RecvError
  <2>5. QED
    BY <2>1, <2>4
<1>7. CASE AgentExecs
  BY <1>7 DEF AgentExecs, Serve
<1>8. CASE AgentReports
  BY <1>8 DEF AgentReports, Serve
<1>9. CASE ProcExits \/ ProcKilled \/ PeerFails
  BY <1>9 DEF ProcExits, ProcKilled, PeerFails
<1>10. CASE UNCHANGED vars
  BY <1>10
<1>11. QED
  BY <1>1, <1>2, <1>3, <1>4, <1>5, <1>6, <1>7, <1>8, <1>9, <1>10
  DEF Next, Program, ProcEnds, Over

\* A reply stays true until it is read: the process of a call is not replaced
\* while one of its requests is outstanding.
LEMMA TruthStep ==
  ASSUME IInv, [Next]_vars
  PROVE  Truthful'
  <1> USE RepliesTyped DEF IInv, TypeOK, Outstanding, Truthful, Empty, OneRequest, OneReply, First
<1>1. CASE SendExec \/ SendStatus
  BY <1>1 DEF SendExec, SendStatus, Send, Idle
<1>2. CASE SendFails \/ ConnectFails \/ RecvFails
  BY <1>2, CallOver DEF SendFails, ConnectFails, RecvFails, Failed
<1>3. CASE RecvPid \/ RecvRunning
  BY <1>3 DEF RecvPid, RecvRunning, Receive
<1>4. CASE RecvExited \/ RecvError
  <2>1. First.proc \in Proc
    BY <1>4 DEF RecvExited, RecvError, Receive, Reply
  <2>2. step' \in {"exec", "over"}
    BY <1>4, <2>1, CallOver DEF RecvExited, RecvError
  <2>3. UNCHANGED proc
    BY <1>4 DEF RecvExited, RecvError
  <2>4. QED
    BY <2>2, <2>3
<1>5. CASE AgentExecs
  BY <1>5 DEF AgentExecs, Serve, Answer, Running, Idle
<1>6. CASE AgentReports
  BY <1>6 DEF AgentReports, Serve, Answer
<1>7. CASE ProcExits
  BY <1>7 DEF ProcExits, Running
<1>8. CASE ProcKilled
  BY <1>8 DEF ProcKilled, Running
<1>9. CASE PeerFails
  BY <1>9 DEF PeerFails
<1>10. CASE UNCHANGED vars
  BY <1>10
<1>11. QED
  BY <1>1, <1>2, <1>3, <1>4, <1>5, <1>6, <1>7, <1>8, <1>9, <1>10
  DEF Next, Program, ProcEnds, Over

\* A share is left behind only when its mount succeeded or was killed.
LEMMA ProgressStep ==
  ASSUME IInv, [Next]_vars
  PROVE  Progress'
  <1> USE DEF IInv, TypeOK
<1>1. CASE SendExec \/ SendStatus \/ RecvPid \/ RecvRunning
  BY <1>1 DEF SendExec, SendStatus, Send, RecvPid, RecvRunning, Progress
<1>2. CASE SendFails \/ ConnectFails \/ RecvFails \/ RecvError
  <2>1. Failed /\ share' = share
    BY <1>2 DEF SendFails, ConnectFails, RecvFails, RecvError, Failed, CommandDone, SyncDone
  <2>2. mounted' = mounted /\ aborted' = aborted
    BY <1>2 DEF SendFails, ConnectFails, RecvFails, RecvError
  <2>3. QED
    BY <2>1, <2>2, CallOver, RepliesTyped DEF Progress
<1>3. CASE RecvExited
  <2>1. First \in Reply
    BY <1>3 DEF RecvExited, Receive, First
  <2>2. First.proc \in Proc /\ Returned(First.proc)
    BY <1>3, <2>1 DEF RecvExited, Reply
  <2>3. mounted' = mounted /\ aborted' = aborted
    BY <1>3 DEF RecvExited
  <2>4. First.proc = proc /\ proc # Running /\ proc.state # "idle" /\ step = "status_wait"
    BY <1>3 DEF RecvExited, Receive, Truthful
  <2>5. ASSUME call = "mount", share' = share + 1
        PROVE  share \in mounted \cup aborted
    <3>1. proc.state = "exited" => proc.code = 0
      BY <2>2, <2>4, <2>5 DEF Returned, MkdirDone, MountDone, CommandDone, SyncDone, Succeeded
    <3>2. proc.state \in {"exited", "signaled"} \/ proc.state = "running"
      BY <2>4 DEF Proc
    <3>3. proc.state # "running"
      BY <2>4 DEF Truthful, Proc, Running
    <3>4. QED
      BY <2>4, <2>5, <3>1, <3>2, <3>3 DEF Truthful
  <2>6. QED
    BY <2>2, <2>3, <2>5, CallOver, SharesAssumption DEF Progress
<1>4. CASE AgentExecs \/ AgentReports \/ PeerFails
  BY <1>4 DEF AgentExecs, AgentReports, PeerFails, Progress
<1>5. CASE ProcExits \/ ProcKilled
  BY <1>5 DEF ProcExits, ProcKilled, Progress
<1>6. CASE UNCHANGED vars
  BY <1>6 DEF Progress
<1>7. QED
  BY <1>1, <1>2, <1>3, <1>4, <1>5, <1>6 DEF Next, Program, ProcEnds, Over

\* The initial states satisfy the inductive invariant.
LEMMA InitIInv == Init => IInv
BY SharesAssumption, RepliesTyped
DEF Init, IInv, TypeOK, Outstanding, Truthful, Progress, Empty, Calls, Setup, Idle

-----------------------------------------------------------------------------
\* The inductive invariant holds of every run: what is outstanding on the stream
\* follows from where the program is, and what it reads is true.
THEOREM Inductive == Spec => []IInv
<1>1. IInv /\ [Next]_vars => IInv'
  BY TypeStep, StreamStep, TruthStep, ProgressStep DEF IInv
<1>2. QED
  BY InitIInv, <1>1, PTL DEF Spec

\* Every variable keeps its type.
THEOREM TypeCorrect == Spec => []TypeOK
<1>1. IInv => TypeOK
  BY DEF IInv
<1>2. QED
  BY Inductive, <1>1, PTL

\* No request is ever sent on a stream that still owes a reply.
THEOREM StreamInStep == Spec => []NothingStale
<1>1. IInv => NothingStale
  BY DEF IInv, Outstanding, Empty, NothingStale
<1>2. QED
  BY Inductive, <1>1, PTL

\* The command runs only once every share has been dealt with.
THEOREM CommandSeesShares == Spec => []SharesReady
<1>1. IInv => SharesReady
  BY SharesAssumption DEF IInv, Progress, SharesReady, Setup
<1>2. QED
  BY Inductive, <1>1, PTL

-----------------------------------------------------------------------------
(***************************************************************************)
(* The retries of a mount.                                                 *)
(***************************************************************************)
\* Twice what a share costs that is mounted in the last try, and n - 1 of them.
Cost        == (Tries - 1) * (Tries - 2)
CostUpTo(n) == (n - 1) * Cost

\* After n mount failures a share has cost 0 + 1 + ... + (n - 1) seconds, and a
\* further try comes only after such a failure.
Retrying ==
  /\ call = "mount" /\ step # "over" =>
       attempt < Tries /\ 2 * slept <= CostUpTo(share) + attempt * (attempt - 1)
  /\ call = "mkdir" /\ step # "over" => 2 * slept <= CostUpTo(share)
  /\ call = "mount" /\ step = "exec" /\ attempt > 0 =>
       proc = [state |-> "exited", code |-> MountFailure]
  /\ 2 * slept <= CostUpTo(Shares) + Tries * (Tries - 1)

\* A product grows with its factors.
LEMMA Products ==
  ASSUME NEW a \in Nat, NEW n \in Nat
  PROVE  /\ a * (a - 1) \in Nat
         /\ a <= n => a * (a - 1) <= n * (n - 1)
         /\ (a + 1) * ((a + 1) - 1) = a * (a - 1) + 2 * a
<1>1. a * (a - 1) \in Nat
  <2>1. CASE a = 0
    BY <2>1
  <2>2. CASE a # 0
    <3>1. a - 1 \in Nat
      BY <2>2
    <3>2. ASSUME NEW b \in Nat
          PROVE  a * b \in Nat
      OBVIOUS
    <3>3. QED
      BY <3>1, <3>2
  <2>3. QED
    BY <2>1, <2>2
<1>2. a <= n => a * (a - 1) <= n * (n - 1)
  OBVIOUS
<1>3. (a + 1) * ((a + 1) - 1) = a * (a - 1) + 2 * a
  OBVIOUS
<1>4. QED
  BY <1>1, <1>2, <1>3

LEMMA Costs ==
  ASSUME NEW n \in Nat \ {0}, n <= Shares
  PROVE  /\ Cost \in Nat /\ CostUpTo(n) \in Nat
         /\ CostUpTo(n + 1) = CostUpTo(n) + Cost
         /\ CostUpTo(n) <= CostUpTo(Shares)
         /\ \A a \in Nat : a < Tries => a * (a - 1) <= Cost
<1>1. PICK t \in Nat : t = Tries - 1
  BY TriesAssumption
<1>2. Cost = t * (t - 1)
  BY <1>1, TriesAssumption DEF Cost
<1>3. Cost \in Nat
  BY <1>1, <1>2, Products
<1>4. \A a \in Nat : a < Tries => a * (a - 1) <= Cost
  <2>1. ASSUME NEW a \in Nat, a < Tries
        PROVE  a * (a - 1) <= Cost
    <3>1. a <= t
      BY <1>1, <2>1, TriesAssumption
    <3>2. QED
      BY <1>2, <3>1, Products
  <2>2. QED
    BY <2>1
<1>5. PICK k \in Nat : k = Cost
  BY <1>3
<1>6. ASSUME NEW x \in Nat, NEW y \in Nat, x <= y
      PROVE  x * k \in Nat /\ x * k <= y * k /\ (x + 1) * k = x * k + k
  <2>1. PICK d \in Nat : y = x + d
    BY <1>6
  <2>2. x * k \in Nat /\ d * k \in Nat /\ (x + d) * k = x * k + d * k
    OBVIOUS
  <2>3. (x + 1) * k = x * k + k
    OBVIOUS
  <2>4. QED
    BY <2>1, <2>2, <2>3
<1>7. PICK m \in Nat : m = n - 1 /\ (n + 1) - 1 = m + 1
  OBVIOUS
<1>8. m <= Shares - 1 /\ Shares - 1 \in Nat
  BY <1>7, SharesAssumption
<1>9. CostUpTo(n) = m * k /\ CostUpTo(n + 1) = (m + 1) * k /\ CostUpTo(Shares) = (Shares - 1) * k
  BY <1>5, <1>7 DEF CostUpTo
<1>10. QED
  BY <1>3, <1>4, <1>5, <1>6, <1>8, <1>9

\* A failed or finished call keeps to the sum.
LEMMA RetryStep ==
  ASSUME IInv, Retrying, [Next]_vars
  PROVE  Retrying'
<1>0. /\ attempt \in Nat /\ slept \in Nat /\ share \in Nat \ {0} /\ Tries \in Nat
      /\ call \in Setup => share <= Shares
  BY SharesAssumption, TriesAssumption DEF IInv, TypeOK, Progress
<1>1. CASE SendFails \/ ConnectFails \/ RecvFails \/ RecvError
  <2>1. UNCHANGED <<attempt, slept>> /\ (call' \notin Setup \/ step' = "over")
    BY <1>1 DEF SendFails, ConnectFails, RecvFails, RecvError, Failed, CommandDone, SyncDone,
                StartSync, Begin, End, Setup
  <2>2. QED
    BY <2>1 DEF Retrying, Setup
<1>2. CASE RecvExited
  <2>1. step = "status_wait" /\ Returned(First.proc) /\ UNCHANGED proc /\ First = Head(replies)
    BY <1>2 DEF RecvExited, First
  <2>2. PICK rc : /\ MkdirDone(rc) \/ MountDone(rc) \/ CommandDone \/ SyncDone
                  /\ rc = IF First.proc.state = "exited" THEN First.proc.code ELSE 0
    BY <2>1 DEF Returned
  <2>3. CASE MkdirDone(rc)
    <3>1. call = "mkdir" /\ attempt' = 0 /\ UNCHANGED <<share, slept>>
          /\ (call' = "mount" \/ step' = "over")
      BY <2>3 DEF MkdirDone, Begin, End
    <3>2. 2 * slept <= CostUpTo(share) /\ 0 * (0 - 1) = 0 /\ 0 < Tries
      BY <2>1, <3>1, TriesAssumption DEF Retrying
    <3>3. CostUpTo(share) \in Nat
      BY <1>0, <3>1, Costs DEF Setup
    <3>4. 2 * slept <= CostUpTo(share) + 0 * (0 - 1)
      BY <1>0, <3>2, <3>3
    <3>5. CostUpTo(share') = CostUpTo(share)
      BY <3>1
    <3>6. call' # "mkdir" \/ step' = "over"
      BY <3>1
    <3>7. QED
      BY <3>1, <3>2, <3>4, <3>5, <3>6 DEF Retrying
  <2>4. CASE MountDone(rc)
    <3>1. call = "mount" /\ attempt' = attempt + 1
      BY <2>4 DEF MountDone
    <3>2. attempt < Tries /\ 2 * slept <= CostUpTo(share) + attempt * (attempt - 1)
      BY <2>1, <3>1 DEF Retrying
    <3>3. /\ Cost \in Nat /\ CostUpTo(share) \in Nat
          /\ CostUpTo(share + 1) = CostUpTo(share) + Cost
          /\ CostUpTo(share) <= CostUpTo(Shares) /\ CostUpTo(Shares) \in Nat
          /\ attempt * (attempt - 1) \in Nat /\ attempt * (attempt - 1) <= Cost
      <4>1. /\ Cost \in Nat /\ CostUpTo(share) \in Nat
            /\ CostUpTo(share + 1) = CostUpTo(share) + Cost
            /\ CostUpTo(share) <= CostUpTo(Shares)
            /\ attempt * (attempt - 1) <= Cost
        BY <1>0, <3>1, <3>2, Costs DEF Setup
      <4>2. CostUpTo(Shares) \in Nat
        BY Costs, SharesAssumption
      <4>3. QED
        BY <1>0, <4>1, <4>2, Products
    <3>4. CASE rc = MountFailure
      <4>1. /\ slept' = slept + attempt /\ UNCHANGED share
            /\ call' = "mount" /\ (attempt' < Tries \/ step' = "over")
        BY <2>4, <3>1, <3>4 DEF MountDone, TriesLeft, End, Begin
      <4>2. proc = [state |-> "exited", code |-> MountFailure]
        <5>1. First.proc.state = "exited" /\ First.proc.code = MountFailure
          BY <2>2, <3>4, TriesAssumption
        <5>2. First.proc = proc /\ proc \in Proc
          BY <1>2, RepliesTyped DEF RecvExited, Receive, First, IInv, TypeOK, Outstanding, Truthful,
             Empty, OneRequest, OneReply
        <5>3. QED
          BY <5>1, <5>2 DEF Proc
      <4>3. PICK p \in Nat : p = attempt * (attempt - 1)
        BY <3>3
      <4>4. (attempt + 1) * ((attempt + 1) - 1) = p + 2 * attempt
        BY <1>0, <4>3, Products
      <4>5. p + 2 * attempt <= Tries * (Tries - 1)
        <5>1. attempt + 1 \in Nat /\ attempt + 1 <= Tries
          BY <1>0, <3>2
        <5>2. (attempt + 1) * ((attempt + 1) - 1) <= Tries * (Tries - 1)
          BY <1>0, <5>1, Products
        <5>3. QED
          BY <4>4, <5>2
      <4>6. PICK c \in Nat : c = CostUpTo(share)
        BY <3>3
      <4>7. 2 * (slept + attempt) <= c + (p + 2 * attempt)
        BY <1>0, <3>2, <4>3, <4>6
      <4>8. 2 * slept' <= CostUpTo(share') + attempt' * (attempt' - 1)
        BY <3>1, <4>1, <4>4, <4>6, <4>7
      <4>9. 2 * slept' <= CostUpTo(Shares) + Tries * (Tries - 1)
        <5>1. Tries * (Tries - 1) \in Nat
          BY <1>0, Products
        <5>2. PICK x \in Nat, y \in Nat : x = CostUpTo(Shares) /\ y = Tries * (Tries - 1)
          BY <3>3, <5>1
        <5>3. c <= x /\ p + 2 * attempt <= y
          BY <3>3, <4>5, <4>6, <5>2
        <5>4. 2 * (slept + attempt) <= x + y
          BY ONLY <1>0, <4>7, <5>3, c \in Nat, p \in Nat, x \in Nat, y \in Nat
        <5>5. QED
          BY <4>1, <5>2, <5>4
      <4>10. QED
        BY <2>1, <4>1, <4>2, <4>8, <4>9 DEF Retrying
    <3>5. CASE rc # MountFailure
      <4>1. /\ UNCHANGED slept /\ (call' # "mount" \/ step' = "over")
            /\ call' = "mkdir" /\ step' # "over" => share' = share + 1
        BY <2>4, <3>5 DEF MountDone, StartCommand, Begin, End
      <4>2. 2 * slept <= CostUpTo(share + 1)
        <5>1. PICK p \in Nat, c \in Nat, k \in Nat :
                p = attempt * (attempt - 1) /\ c = CostUpTo(share) /\ k = Cost
          BY <3>3
        <5>2. 2 * slept <= c + p /\ p <= k /\ CostUpTo(share + 1) = c + k
          BY <3>2, <3>3, <5>1
        <5>3. QED
          BY <1>0, <5>2
      <4>3. QED
        BY <4>1, <4>2 DEF Retrying
    <3>6. QED
      BY <3>4, <3>5
  <2>5. CASE CommandDone \/ SyncDone
    <3>1. UNCHANGED <<attempt, slept>> /\ (call' \notin Setup \/ step' = "over")
      BY <2>5 DEF CommandDone, SyncDone, StartSync, Begin, End, Setup
    <3>2. QED
      BY <3>1 DEF Retrying, Setup
  <2>6. QED
    BY <2>2, <2>3, <2>4, <2>5
<1>3. CASE SendExec \/ SendStatus \/ RecvPid \/ RecvRunning
  <2>1. UNCHANGED <<share, call, attempt, slept>> /\ step # "over" /\ step' # "exec"
    BY <1>3 DEF SendExec, SendStatus, Send, RecvPid, RecvRunning
  <2>2. QED
    BY <2>1 DEF Retrying
<1>4. CASE ProcExits \/ ProcKilled
  <2>1. UNCHANGED progVars /\ proc = Running
    BY <1>4 DEF ProcExits, ProcKilled
  <2>2. proc # [state |-> "exited", code |-> MountFailure]
    BY <2>1 DEF Running
  <2>3. QED
    BY <2>1, <2>2 DEF Retrying
<1>5. CASE AgentExecs \/ AgentReports \/ PeerFails \/ UNCHANGED vars
  <2>1. UNCHANGED progVars /\ (step = "exec" => UNCHANGED proc)
    BY <1>5, RepliesTyped DEF AgentExecs, AgentReports, PeerFails, Serve, IInv, Outstanding, Empty
  <2>2. QED
    BY <2>1 DEF Retrying
<1>6. QED
  BY <1>1, <1>2, <1>3, <1>4, <1>5 DEF Next, Program, ProcEnds, Over

\* What vmtest has slept follows from the share and the try it is at.
THEOREM RetryInductive == Spec => [](IInv /\ Retrying)
<1>1. Init => Retrying
  <2> SUFFICES ASSUME Init
               PROVE  Retrying
    OBVIOUS
  <2>2. call = "mkdir" /\ slept = 0 /\ share = 1 /\ 2 * 0 = 0
    BY DEF Init
  <2>3. CostUpTo(1) \in Nat /\ CostUpTo(Shares) \in Nat /\ Tries * (Tries - 1) \in Nat
    BY Costs, Products, SharesAssumption, TriesAssumption
  <2>4. 0 <= CostUpTo(1) /\ 0 <= CostUpTo(Shares) + Tries * (Tries - 1)
    <3>1. PICK x \in Nat, y \in Nat : x = CostUpTo(Shares) /\ y = Tries * (Tries - 1)
      BY <2>3
    <3>2. 0 <= x + y
      OBVIOUS
    <3>3. QED
      BY <2>3, <3>1, <3>2
  <2>5. QED
    BY <2>2, <2>4 DEF Retrying
<1>2. Retrying /\ IInv /\ [Next]_vars => Retrying'
  BY RetryStep
<1>3. QED
  BY Inductive, <1>1, <1>2, PTL DEF Spec

\* mount_in_guest (qemu.rs) mounts a share again only after a mount failure, and
\* the sleeps for all the shares of a boot stay within the sum of theirs, whatever
\* the limit of its loop.
THEOREM SleepsBounded == Spec => []RetriesBounded
<1>1. Retrying => RetriesBounded
  BY DEF Retrying, RetriesBounded, CostUpTo, Cost
<1>2. QED
  BY RetryInductive, <1>1, PTL

\* A mount failure alone makes mount_in_guest (qemu.rs) give up only with the
\* last try.
THEOREM AllTriesUsed == Spec => GivesUpLate
<1>1. ASSUME IInv, Retrying, RecvExited, call = "mount", step' = "over"
      PROVE  First.proc.code # MountFailure \/ attempt = Tries - 1
  <2>1. step = "status_wait" /\ Returned(First.proc) /\ First \in Reply
    BY <1>1 DEF RecvExited, Receive, First, IInv, TypeOK
  <2>2. SUFFICES ASSUME First.proc.code = MountFailure
                 PROVE  attempt = Tries - 1
    OBVIOUS
  <2>3. PICK rc : MountDone(rc) /\ rc \in {0, MountFailure}
    BY <1>1, <2>1, <2>2 DEF Returned, MkdirDone, MountDone, CommandDone, SyncDone
  <2>4. MountDone(MountFailure)
    BY <1>1, <2>3, TriesAssumption DEF MountDone, Succeeded, StartCommand, Begin
  <2>5. ~TriesLeft
    BY <1>1, <2>4 DEF MountDone, Begin
  <2>6. attempt < Tries /\ attempt \in Nat /\ Tries \in Nat
    BY <1>1, <2>1, TriesAssumption DEF Retrying, IInv, TypeOK
  <2>7. QED
    BY <2>5, <2>6 DEF TriesLeft
<1>2. IInv /\ Retrying /\ [Next]_vars =>
        [(RecvExited /\ call = "mount" /\ step' = "over")
           => (First.proc.code # MountFailure \/ attempt = Tries - 1)]_vars
  BY <1>1
<1>3. QED
  BY RetryInductive, <1>2, PTL DEF Spec, GivesUpLate
===============================================================================
