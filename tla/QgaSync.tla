-------------------------------- MODULE QgaSync --------------------------------
(***************************************************************************)
(* How vmtest gets in step with the guest agent: QgaWrapper::new (qga.rs), *)
(* and what it concludes from the version of the agent (Version::new,      *)
(* run_in_vm in qemu.rs).                                                  *)
(*                                                                         *)
(* Each attempt connects anew, sends guest-sync with a random value, and   *)
(* is over when the answer is not that value or does not come.  QEMU       *)
(* serves one connection at a time and reads from it only what the guest   *)
(* port can take, so the answer to an attempt may reach a later one.       *)
(*                                                                         *)
(* The module has no specification of its own: what the guest does until   *)
(* its agent is started is left to the modules that extend it.             *)
(***************************************************************************)
EXTENDS Integers, Sequences

CONSTANTS
  SyncValues,   \* values that vmtest draws for guest-sync
  Versions,     \* version strings of agents, as sequences of numbers
  Backlog,      \* how many connections QEMU's socket keeps waiting
  PortCapacity  \* how many requests the guest's port holds

ASSUME SyncValuesAssumption == SyncValues # {} /\ SyncValues \subseteq Nat \ {0}
ASSUME VersionsAssumption == Versions # {} /\ Versions \subseteq Seq(Nat)
ASSUME CapacityAssumption == Backlog \in Nat \ {0} /\ PortCapacity \in Nat \ {0}

VARIABLES
  pc,        \* where in QgaWrapper::new
  expired,   \* the deadline of the whole wait has passed
  value,     \* the last value drawn
  drawn,     \* those that earlier attempts had drawn
  readable,  \* replies on vmtest's stream that it has not read
  conns,     \* QEMU's side: connections in the order in which they came
  accepted,  \* QEMU serves the first of them
  inbox,     \* requests in the guest's port
  agent,     \* "absent", "starting", "up", or "mute"
  prompt,    \* from now on the agent answers within the second of a sleep
  failures,  \* attempts that failed since then, with QEMU running, up to 2
  qemu,      \* "running" or "gone"
  version    \* of the agent, as QgaWrapper has it: <<>> before new returns Ok

tryVars   == <<value, drawn, failures>>
hostVars  == <<pc, expired, tryVars>>
queueVars == <<readable, conns, accepted, inbox>>
peerVars  == <<agent, prompt, qemu>>
syncVars  == <<hostVars, queueVars, peerVars, version>>

\* A request, or the reply to it.
Sync(v)  == [kind |-> "sync", id |-> v]
Info     == [kind |-> "info", id |-> 0]
InfoFail == [kind |-> "error", id |-> 0]
Request  == {Sync(v) : v \in SyncValues} \cup {Info}
Reply    == Request \cup {InfoFail}

\* A connection: whether vmtest still holds its end, and what QEMU has not
\* read from it.
Connection == [live : BOOLEAN, unread : Seq(Request)]
New        == [live |-> TRUE, unread |-> <<>>]

SyncInit ==
  /\ pc = "check" /\ expired = FALSE /\ value = 0 /\ drawn = {} /\ failures = 0
  /\ readable = <<>> /\ conns = <<>> /\ accepted = FALSE /\ inbox = <<>>
  /\ prompt = FALSE /\ qemu = "running"
  /\ version = <<>>

-----------------------------------------------------------------------------
(***************************************************************************)
(* Version::new and the choice of how guest-exec captures output.          *)
(***************************************************************************)
\* Three numbers that fit u8.
Parses(v) == Len(v) = 3 /\ \A i \in 1..3 : v[i] \in 0..255

Merges(v) == v[1] >= 8 /\ v[2] >= 1

-----------------------------------------------------------------------------
(***************************************************************************)
(* vmtest.                                                                 *)
(***************************************************************************)
Last   == Len(conns)
Hung   == Last > 0 /\ conns[Last].live
HangUp == IF Hung THEN [conns EXCEPT ![Last].live = FALSE] ELSE conns

\* The deadline is looked at only here, then whether QEMU has exited.
\* Mutant: new does not look at QEMU.
CheckDeadlineOnly ==
  /\ pc = "check"
  /\ pc' = IF expired THEN "err" ELSE "connect"
  /\ UNCHANGED <<expired, tryVars, queueVars, peerVars, version>>

Check ==
  /\ pc = "check"
  /\ pc' = IF expired \/ qemu = "gone" THEN "err" ELSE "connect"
  /\ UNCHANGED <<expired, tryVars, queueVars, peerVars, version>>

\* connect(2) waits while the queue of QEMU's socket is full.
QueueFull == Last - (IF accepted THEN 1 ELSE 0) >= Backlog

\* A stream whose read timeout cannot be set ends new.
Connect ==
  /\ pc = "connect" /\ qemu = "running" /\ ~QueueFull
  /\ conns' = Append(conns, New) /\ readable' = <<>>
  /\ pc' \in {"sync", "err"}
  /\ UNCHANGED <<expired, tryVars, accepted, inbox, peerVars, version>>

ConnectRefused ==
  /\ pc = "connect" /\ qemu = "gone"
  /\ pc' = "sleep"
  /\ UNCHANGED <<expired, tryVars, queueVars, peerVars, version>>

\* A write needs QEMU to exist, not to have accepted the connection.
Write(request) == conns' = [conns EXCEPT ![Last].unread = Append(@, request)]

SendSync ==
  /\ pc = "sync" /\ qemu = "running"
  /\ \E v \in SyncValues : value' = v /\ Write(Sync(v))
  /\ drawn' = drawn \cup ({value} \ {0})
  /\ pc' = "sync_wait"
  /\ UNCHANGED <<expired, failures, readable, accepted, inbox, peerVars, version>>

\* guest_sync compares the answer with the value sent.
\* Mutant of InStep: any answer will do.
InStepAnyhow == readable # <<>>
InStep       == readable # <<>> /\ Head(readable) = Sync(value)

RecvSync ==
  /\ pc = "sync_wait" /\ InStep
  /\ readable' = Tail(readable)
  /\ pc' = "info"
  /\ UNCHANGED <<expired, tryVars, conns, accepted, inbox, peerVars, version>>

\* The attempt fails and the stream stays open while new sleeps.
\* Mutant of SyncFailed: new retries at once, on a new stream.
Counted == IF prompt /\ qemu = "running" /\ failures < 2 THEN failures + 1 ELSE failures

SyncFailedNoSleep == pc' = "check" /\ conns' = HangUp /\ failures' = Counted
SyncFailed        == pc' = "sleep" /\ UNCHANGED conns /\ failures' = Counted

RecvOther ==
  /\ pc = "sync_wait" /\ readable # <<>> /\ ~InStep
  /\ readable' = Tail(readable)
  /\ SyncFailed
  /\ UNCHANGED <<expired, value, drawn, accepted, inbox, peerVars, version>>

\* Mutant of SyncFails: the stream has no read timeout.
SyncFailsAtEof ==
  /\ qemu = "gone"
  /\ pc = "sync" \/ (pc = "sync_wait" /\ readable = <<>>)
  /\ SyncFailed
  /\ UNCHANGED <<expired, value, drawn, readable, accepted, inbox, peerVars, version>>

\* End of file, a failed write, or 5s without an answer.
SyncFails ==
  /\ \/ pc = "sync" /\ qemu = "gone"
     \/ pc = "sync_wait" /\ readable = <<>> /\ (qemu = "gone" \/ ~prompt)
  /\ SyncFailed
  /\ UNCHANGED <<expired, value, drawn, readable, accepted, inbox, peerVars, version>>

\* A second has passed: what a prompt agent had to answer, it has answered.
Quiet == Last = 1 /\ accepted /\ conns[1].unread = <<>> /\ inbox = <<>>

Wake ==
  /\ pc = "sleep"
  /\ prompt /\ qemu = "running" => Quiet
  /\ pc' = "check" /\ conns' = HangUp /\ readable' = <<>>
  /\ UNCHANGED <<expired, tryVars, accepted, inbox, peerVars, version>>

SendInfo ==
  /\ pc = "info" /\ qemu = "running"
  /\ Write(Info)
  /\ pc' = "info_wait"
  /\ UNCHANGED <<expired, tryVars, readable, accepted, inbox, peerVars, version>>

\* Nothing that goes wrong from here on is retried.
RecvInfo ==
  /\ pc = "info_wait" /\ readable # <<>>
  /\ readable' = Tail(readable)
  /\ \E v \in Versions :
       IF Head(readable) = Info /\ Parses(v)
         THEN pc' = "ok" /\ version' = v
         ELSE pc' = "err" /\ UNCHANGED version
  /\ UNCHANGED <<expired, tryVars, conns, accepted, inbox, peerVars>>

\* Mutant of InfoFails: guest-info is sent again on the same stream.
InfoFailsAgain ==
  /\ \/ pc = "info" /\ qemu = "gone"
     \/ pc = "info_wait" /\ readable = <<>> /\ (qemu = "gone" \/ ~prompt)
  /\ pc' = IF qemu = "gone" THEN "err" ELSE "info"
  /\ UNCHANGED <<expired, tryVars, queueVars, peerVars, version>>

InfoFails ==
  /\ \/ pc = "info" /\ qemu = "gone"
     \/ pc = "info_wait" /\ readable = <<>> /\ (qemu = "gone" \/ ~prompt)
  /\ pc' = "err"
  /\ UNCHANGED <<expired, tryVars, queueVars, peerVars, version>>

Expire ==
  /\ ~expired /\ expired' = TRUE
  /\ UNCHANGED <<pc, tryVars, queueVars, peerVars, version>>

Program == \/ Check \/ Connect \/ ConnectRefused \/ SendSync \/ RecvSync \/ RecvOther
           \/ SyncFails \/ Wake \/ SendInfo \/ RecvInfo \/ InfoFails

-----------------------------------------------------------------------------
(***************************************************************************)
(* QEMU's socket and the agent.                                            *)
(***************************************************************************)
Serving == qemu = "running" /\ accepted

Accept ==
  /\ qemu = "running" /\ ~accepted /\ conns # <<>>
  /\ accepted' = TRUE
  /\ UNCHANGED <<hostVars, readable, conns, inbox, peerVars, version>>

\* QEMU reads nothing from a connection before the agent has opened its port.
Forward ==
  /\ Serving /\ agent \in {"up", "mute"} /\ Len(inbox) < PortCapacity
  /\ conns[1].unread # <<>>
  /\ inbox' = Append(inbox, Head(conns[1].unread))
  /\ conns' = [conns EXCEPT ![1].unread = Tail(@)]
  /\ UNCHANGED <<hostVars, readable, accepted, peerVars, version>>

\* What was left on a connection that vmtest has closed may be lost with it.
\* Mutant: QEMU goes on as if it served the next connection, if any.
NoticeNothing ==
  /\ Serving /\ ~conns[1].live
  /\ conns' = Tail(conns)
  /\ UNCHANGED <<hostVars, readable, accepted, inbox, peerVars, version>>

NoticeHangUp ==
  /\ Serving /\ ~conns[1].live
  /\ conns' = Tail(conns) /\ accepted' = FALSE
  /\ UNCHANGED <<hostVars, readable, inbox, peerVars, version>>

AgentOpens ==
  /\ qemu = "running" /\ agent = "starting"
  /\ agent' = "up"
  /\ UNCHANGED <<hostVars, queueVars, prompt, qemu, version>>

\* A reply goes to whoever is connected by now.  guest-info may be refused.
AgentAnswers ==
  /\ qemu = "running" /\ agent = "up" /\ inbox # <<>>
  /\ inbox' = Tail(inbox)
  /\ \E r \in {Head(inbox)} \cup (IF Head(inbox) = Info THEN {InfoFail} ELSE {}) :
       readable' = IF accepted /\ conns[1].live THEN Append(readable, r) ELSE readable
  /\ UNCHANGED <<hostVars, conns, accepted, peerVars, version>>

\* The agent, or the guest, hangs.
AgentHangs ==
  /\ agent = "up" /\ ~prompt
  /\ agent' = "mute"
  /\ UNCHANGED <<hostVars, queueVars, prompt, qemu, version>>

\* The boot is over and the guest is no longer busy.
AgentSettles ==
  /\ agent = "up" /\ ~prompt
  /\ prompt' = TRUE
  /\ UNCHANGED <<hostVars, queueVars, agent, qemu, version>>

\* Replies that QEMU had passed on may still be read, or not.
QemuEnds ==
  /\ qemu = "running" /\ qemu' = "gone"
  /\ conns' = <<>> /\ accepted' = FALSE /\ inbox' = <<>>
  /\ readable' \in {readable, <<>>}

QemuExits ==
  /\ QemuEnds
  /\ UNCHANGED <<hostVars, agent, prompt, version>>

Socket == Accept \/ Forward \/ NoticeHangUp
Agent  == AgentOpens \/ AgentAnswers \/ AgentHangs \/ AgentSettles

Ended == pc \in {"ok", "err"}

-----------------------------------------------------------------------------
(***************************************************************************)
(* Properties.                                                             *)
(***************************************************************************)
SyncTypeOK ==
  /\ pc \in {"check", "connect", "sync", "sync_wait", "info", "info_wait", "sleep", "ok", "err"}
  /\ expired \in BOOLEAN
  /\ value \in SyncValues \cup {0} /\ drawn \subseteq SyncValues
  /\ readable \in Seq(Reply)
  /\ conns \in Seq(Connection)
  /\ accepted \in BOOLEAN
  /\ inbox \in Seq(Request)
  /\ agent \in {"absent", "starting", "up", "mute"}
  /\ prompt \in BOOLEAN
  /\ failures \in 0..2
  /\ qemu \in {"running", "gone"}
  /\ version \in Versions \cup {<<>>}
  /\ accepted => conns # <<>>
  /\ Len(inbox) <= PortCapacity

\* The calls that follow take each reply for that of their last request.  So
\* when new returns Ok the stream owes no reply, neither of this attempt nor of
\* an earlier one, whatever values were drawn, even twice the same.
OkIsInStep ==
  pc = "ok" =>
    /\ readable = <<>> /\ inbox = <<>>
    /\ qemu = "running" => Last = 1 /\ accepted /\ conns[1] = New

\* An attempt that guest-sync accepts owes nothing, unless an earlier attempt
\* had drawn the same value, so that its answer could be taken for this one's.
SyncMeansInStep ==
  pc = "info" /\ qemu = "running" /\ value \notin drawn =>
    /\ readable = <<>> /\ inbox = <<>>
    /\ Last = 1 /\ accepted /\ conns[1] = New

\* A late answer costs one attempt at most: the stream of a failed attempt stays
\* open during the sleep and takes what is late, so that once the agent answers
\* within the sleep the attempts do not go on reading each other's answers.
SettlesFast == failures <= 1

\* The claim of qemu.rs:555: streams are merged "if qga supports it".
MergesIfSupported ==
  pc = "ok" /\ (version[1] > 8 \/ (version[1] = 8 /\ version[2] >= 1)) => Merges(version)

\* Past its deadline new returns, unless connect waits for a QEMU that accepts
\* no connection.
EndsByDeadline ==
  expired ~> (Ended \/ [](pc = "connect" /\ QueueFull))
=============================================================================
