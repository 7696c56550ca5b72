---------------------------- MODULE GuestBoot_proofs ----------------------------
(***************************************************************************)
(* Proofs about GuestBoot, for every set of values and versions and every  *)
(* size of the queues.  Replies carry no identifier that vmtest looks at,  *)
(* except for that of guest-sync: the argument is about where the requests *)
(* and replies of each attempt can be.                                     *)
(***************************************************************************)
EXTENDS GuestBoot, SequenceTheorems, TLAPS

USE DEF vars, syncVars, hostVars, tryVars, queueVars, peerVars, guestVars

\* Everything on the queue q is in Old.
Only(q, Old) == \A i \in 1..Len(q) : q[i] \in Old

\* The last on the queue q is in Cur, everything before it in Old.
EndsIn(q, Old, Cur) == /\ q # <<>> /\ q[Len(q)] \in Cur
                       /\ \A i \in 1..Len(q)-1 : q[i] \in Old

\* QEMU serves the one connection there is and has read all of it.
Alone == Last = 1 /\ accepted /\ conns[1] = New

\* Nothing but Old is on the way.
AllOld(Old) == /\ Only(readable, Old) /\ Only(inbox, Old)
               /\ \A i \in 1..Last : Only(conns[i].unread, Old)

(***************************************************************************)
(* The last message on the way, and no other, is one of Cur: a request not *)
(* read from the connection, or in the port, or its reply, or QEMU took it *)
(* along.                                                                  *)
(***************************************************************************)
OneCurrent(Old, Cur) ==
  \/ /\ qemu = "running" /\ Last > 0
     /\ \A i \in 1..Last-1 : Only(conns[i].unread, Old)
     /\ EndsIn(conns[Last].unread, Old, Cur)
     /\ Only(inbox, Old) /\ Only(readable, Old)
  \/ /\ qemu = "running" /\ Alone
     /\ EndsIn(inbox, Old, Cur) /\ Only(readable, Old)
  \/ /\ qemu = "running" => Alone
     /\ inbox = <<>> /\ EndsIn(readable, Old, Cur)
  \/ /\ qemu = "gone" /\ Only(readable, Old)

\* What earlier attempts have sent, and this one too.
Past   == {Sync(v) : v \in drawn}
Spoken == {Sync(v) : v \in drawn \cup {value}}

\* Once an attempt has failed with a prompt agent, the next begins afresh.
Fresh(Old) == IF failures = 0 THEN Old ELSE {}

\* The connections: vmtest holds the last one, during an attempt.
Connections ==
  /\ qemu = "gone" => conns = <<>> /\ inbox = <<>> /\ ~accepted
  /\ \A i \in 1..Last-1 : ~conns[i].live
  /\ pc \in {"sync", "sync_wait", "info", "info_wait", "sleep", "ok"} /\ qemu = "running" => Hung
  /\ pc \in {"check", "connect"} => ~Hung /\ readable = <<>>

InOrder ==
  /\ pc \in {"check", "connect", "sync"} => AllOld(Fresh(Spoken))
  /\ pc = "sync_wait" => OneCurrent(Fresh(Past), {Sync(value)})
  /\ pc \in {"sleep", "info"} => AllOld(Spoken)
  /\ pc = "info_wait" => OneCurrent(Spoken, {Info, InfoFail})

Settling == /\ failures # 0 => prompt
            /\ prompt => agent = "up"

\* The guest's agent is started after all its mounts, and answers after that.
Booted ==
  /\ \A i \in 1..line-1 : Script!Steps[i] \in Script!Mandatory => Script!Steps[i] \in mounts
  /\ kind = "kernel" /\ agent # "absent" => line > 14
  /\ agent \in {"absent", "starting"} =>
       readable = <<>> /\ inbox = <<>> /\ pc \notin {"info", "info_wait", "ok"}

ISync == Connections /\ InOrder /\ Settling /\ SettlesFast /\ SyncMeansInStep /\ OkIsInStep
IInv  == TypeOK /\ ISync /\ Booted

-----------------------------------------------------------------------------
(***************************************************************************)
(* Facts about queues and messages.                                        *)
(***************************************************************************)
\* Queues keep their types.
LEMMA QueueTyped ==
  ASSUME NEW S, NEW q \in Seq(S)
  PROVE  /\ \A x \in S : Append(q, x) \in Seq(S)
         /\ q # <<>> => Head(q) \in S /\ Tail(q) \in Seq(S)
OBVIOUS

\* Messages have their types, and guest-info is no guest-sync.
LEMMA MessagesTyped ==
  /\ \A v \in SyncValues : Sync(v) \in Request
  /\ Info \in Request /\ Request \subseteq Reply /\ InfoFail \in Reply
  /\ New \in Connection
  /\ \A c \in Connection : c.live \in BOOLEAN /\ c.unread \in Seq(Request)
<1>1. \A v \in SyncValues : Sync(v) \in Request
  BY DEF Request
<1>2. Info \in Request /\ Request \subseteq Reply /\ InfoFail \in Reply
  BY DEF Request, Reply
<1>3. New \in Connection
  BY DEF Connection, New
<1>4. \A c \in Connection : c.live \in BOOLEAN /\ c.unread \in Seq(Request)
  BY DEF Connection
<1>5. QED
  BY <1>1, <1>2, <1>3, <1>4

\* What a queue holds when something is added or taken.
LEMMA OnlyQueue ==
  ASSUME NEW Old, NEW S, NEW q \in Seq(S), Only(q, Old)
  PROVE  /\ \A x \in S : x \in Old => Only(Append(q, x), Old)
         /\ q # <<>> => Head(q) \in Old /\ Only(Tail(q), Old)
BY DEF Only

\* What a queue ends in when something is added or taken.
LEMMA EndsQueue ==
  ASSUME NEW Old, NEW Cur, NEW S, NEW q \in Seq(S)
  PROVE  /\ \A x \in S : Only(q, Old) /\ x \in Cur => EndsIn(Append(q, x), Old, Cur)
         /\ EndsIn(q, Old, Cur) =>
              \/ Len(q) = 1 /\ Head(q) \in Cur /\ Tail(q) = <<>>
              \/ Head(q) \in Old /\ EndsIn(Tail(q), Old, Cur)
<1>1. ASSUME NEW x \in S, Only(q, Old), x \in Cur
      PROVE  EndsIn(Append(q, x), Old, Cur)
  BY <1>1 DEF Only, EndsIn
<1>2. ASSUME EndsIn(q, Old, Cur)
      PROVE  \/ Len(q) = 1 /\ Head(q) \in Cur /\ Tail(q) = <<>>
             \/ Head(q) \in Old /\ EndsIn(Tail(q), Old, Cur)
  <2>1. PICK n \in Nat : n = Len(q)
    BY LenProperties
  <2>2. n > 0 /\ q # <<>> /\ q[n] \in Cur /\ Head(q) = q[1] /\ \A i \in 1..n-1 : q[i] \in Old
    BY <1>2, <2>1, EmptySeq DEF EndsIn
  <2>3. CASE n = 1
    <3>1. Tail(q) \in Seq(S) /\ Len(Tail(q)) = 1 - 1
      BY <2>1, <2>2, <2>3, HeadTailProperties
    <3>2. Tail(q) = <<>>
      <4>1. Len(Tail(q)) \notin Nat \ {0}
        BY <3>1
      <4>2. QED
        BY <3>1, <4>1, EmptySeq
    <3>3. QED
      BY <2>1, <2>2, <2>3, <3>2
  <2>4. CASE n > 1
    <3>1. /\ Tail(q) \in Seq(S) /\ Len(Tail(q)) = n - 1
          /\ \A i \in 1..n-1 : Tail(q)[i] = q[i+1]
      BY <2>1, <2>2, <2>4, HeadTailProperties
    <3>2. Tail(q) # <<>>
      <4> DEFINE rest == Len(Tail(q))
      <4>1. rest = n - 1
        BY <3>1
      <4> HIDE DEF rest
      <4>2. rest # 0
        BY <2>4, <4>1
      <4>3. QED
        BY <4>2, EmptySeq DEF rest
    <3>3. Head(q) \in Old
      BY <2>2, <2>4
    <3>4. Tail(q)[n-1] \in Cur
      BY <2>2, <2>4, <3>1
    <3>5. ASSUME NEW i \in 1..(n-1)-1
          PROVE  Tail(q)[i] \in Old
      <4>1. i \in 1..n-1 /\ i+1 \in 1..n-1
        OBVIOUS
      <4>2. QED
        BY <2>2, <3>1, <4>1
    <3>6. QED
      BY <3>1, <3>2, <3>3, <3>4, <3>5 DEF EndsIn
  <2>5. n = 1 \/ n > 1
    BY <2>2
  <2>6. QED
    BY <2>3, <2>4, <2>5
<1>3. QED
  BY <1>1, <1>2

-----------------------------------------------------------------------------
(***************************************************************************)
(* What vmtest and QEMU do to the connections.                             *)
(***************************************************************************)
\* Only what is unread of the k-th connection changes.
LEMMA SetUnread ==
  ASSUME conns \in Seq(Connection), NEW k \in 1..Last, NEW q \in Seq(Request),
         conns' = [conns EXCEPT ![k].unread = q]
  PROVE  /\ conns' \in Seq(Connection) /\ Last' = Last
         /\ conns'[k] = [live |-> conns[k].live, unread |-> q]
         /\ \A i \in 1..Last : i # k => conns'[i] = conns[i]
<1>1. conns[k] \in Connection
  BY DEF Last
<1>2. [live |-> conns[k].live, unread |-> q] \in Connection
  BY <1>1 DEF Connection
<1>3. conns' = [conns EXCEPT ![k] = [live |-> conns[k].live, unread |-> q]]
  <2>1. [conns[k] EXCEPT !.unread = q] = [live |-> conns[k].live, unread |-> q]
    BY <1>1 DEF Connection
  <2>2. conns' = [conns EXCEPT ![k] = [conns[k] EXCEPT !.unread = q]]
    OBVIOUS
  <2>3. QED
    BY <2>1, <2>2
<1>4. QED
  BY <1>2, <1>3, ExceptSeq DEF Last

\* A request is added to the last connection.
LEMMA Written ==
  ASSUME conns \in Seq(Connection), Hung, NEW r \in Request, Write(r)
  PROVE  /\ conns' \in Seq(Connection) /\ Last' = Last
         /\ conns'[Last] = [live |-> TRUE, unread |-> Append(conns[Last].unread, r)]
         /\ \A i \in 1..Last : i # Last => conns'[i] = conns[i]
<1>1. Last \in 1..Last /\ conns[Last] \in Connection /\ conns[Last].live = TRUE
  <2>1. Last \in Nat /\ conns \in [1..Last -> Connection]
    BY LenProperties DEF Last
  <2>2. Last \in 1..Last /\ conns[Last].live
    BY <2>1 DEF Hung
  <2>3. conns[Last] \in Connection
    BY <2>1, <2>2
  <2>4. conns[Last].live \in BOOLEAN
    BY <2>3 DEF Connection
  <2>5. QED
    BY <2>2, <2>3, <2>4
<1>2. Append(conns[Last].unread, r) \in Seq(Request)
  BY <1>1 DEF Connection
<1>3. conns' = [conns EXCEPT ![Last].unread = Append(conns[Last].unread, r)]
  BY <1>1 DEF Write
<1>4. /\ conns' \in Seq(Connection) /\ Last' = Last
      /\ conns'[Last] = [live |-> conns[Last].live, unread |-> Append(conns[Last].unread, r)]
      /\ \A i \in 1..Last : i # Last => conns'[i] = conns[i]
  BY <1>1, <1>2, <1>3, SetUnread
<1>5. QED
  BY <1>1, <1>4

\* QEMU reads a request of the first connection.
LEMMA Forwarded ==
  ASSUME conns \in Seq(Connection), conns # <<>>, conns[1].unread # <<>>,
         conns' = [conns EXCEPT ![1].unread = Tail(@)]
  PROVE  /\ conns' \in Seq(Connection) /\ Last' = Last
         /\ conns[1].unread \in Seq(Request) /\ Head(conns[1].unread) \in Request
         /\ conns'[1] = [live |-> conns[1].live, unread |-> Tail(conns[1].unread)]
         /\ \A i \in 1..Last : i # 1 => conns'[i] = conns[i]
<1>1. 1 \in 1..Last /\ conns[1] \in Connection
  BY EmptySeq, LenProperties DEF Last
<1>2. conns[1].unread \in Seq(Request)
  BY <1>1 DEF Connection
<1>3. Tail(conns[1].unread) \in Seq(Request) /\ Head(conns[1].unread) \in Request
  BY <1>2, HeadTailProperties
<1>4. conns' = [conns EXCEPT ![1].unread = Tail(conns[1].unread)]
  BY <1>1
<1>5. QED
  BY <1>1, <1>2, <1>3, <1>4, SetUnread

\* vmtest closes its end.
LEMMA ClosedByUs ==
  ASSUME conns \in Seq(Connection), conns' = HangUp
  PROVE  /\ conns' \in Seq(Connection) /\ Last' = Last /\ ~Hung'
         /\ \A i \in 1..Last : /\ conns'[i].unread = conns[i].unread
                               /\ ~conns[i].live => ~conns'[i].live
<1>1. CASE ~Hung
  BY <1>1 DEF HangUp, Hung, Last
<1>2. CASE Hung
  <2>1. PICK k \in 1..Last : k = Last
    BY <1>2, LenProperties DEF Hung, Last
  <2>2. PICK c \in Connection : c = conns[k]
    BY DEF Last
  <2>3. /\ [live |-> FALSE, unread |-> c.unread] \in Connection
        /\ [c EXCEPT !.live = FALSE] = [live |-> FALSE, unread |-> c.unread]
    <3>1. c = [live |-> c.live, unread |-> c.unread] /\ c.unread \in Seq(Request)
      BY DEF Connection
    <3>2. [live |-> FALSE, unread |-> c.unread] \in Connection
      BY <3>1 DEF Connection
    <3>3. [c EXCEPT !.live = FALSE] = [live |-> FALSE, unread |-> c.unread]
      <4>1. ASSUME NEW x \in BOOLEAN
            PROVE  [c EXCEPT !.live = x] = [live |-> x, unread |-> c.unread]
        BY <3>1 DEF Connection
      <4>2. FALSE \in BOOLEAN
        OBVIOUS
      <4>3. QED
        BY <4>1, <4>2, Zenon
    <3>4. QED
      BY <3>2, <3>3
  <2>4. conns' = [conns EXCEPT ![k] = [c EXCEPT !.live = FALSE]]
    BY <1>2, <2>1, <2>2 DEF HangUp
  <2>5. conns' = [conns EXCEPT ![k] = [live |-> FALSE, unread |-> c.unread]]
    BY <2>3, <2>4
  <2>6. /\ conns' \in Seq(Connection) /\ Last' = Last
        /\ conns'[k] = [live |-> FALSE, unread |-> c.unread]
        /\ \A i \in 1..Last : i # k => conns'[i] = conns[i]
    BY <2>3, <2>5, ExceptSeq DEF Last
  <2>7. QED
    BY <2>1, <2>2, <2>6 DEF Hung
<1>3. QED
  BY <1>1, <1>2

\* vmtest connects.
LEMMA Connected ==
  ASSUME conns \in Seq(Connection), conns' = Append(conns, New)
  PROVE  /\ Last \in Nat /\ conns' \in Seq(Connection) /\ Last' = Last + 1
         /\ conns'[Last + 1] = New /\ conns' # <<>>
         /\ \A i \in 1..Last : conns'[i] = conns[i]
BY MessagesTyped, AppendProperties, LenProperties DEF Last

\* QEMU drops the first connection.
LEMMA Dropped ==
  ASSUME conns \in Seq(Connection), conns # <<>>, conns' = Tail(conns)
  PROVE  /\ Last \in Nat /\ Last > 0 /\ conns' \in Seq(Connection) /\ Last' = Last - 1
         /\ \A i \in 1..Last - 1 : conns'[i] = conns[i + 1]
<1>1. Last \in Nat /\ Last # 0
  BY EmptySeq, LenProperties DEF Last
<1>2. /\ conns' \in Seq(Connection) /\ Last' = Last - 1
      /\ \A i \in 1..Last' : conns'[i] = conns[i + 1]
  BY HeadTailProperties DEF Last
<1>3. PICK n \in Nat : n = Last
  BY <1>1
<1>4. n > 0 /\ n - 1 = Last'
  BY <1>1, <1>2, <1>3
<1>5. QED
  BY <1>2, <1>3, <1>4

-----------------------------------------------------------------------------
\* Every step of vmtest and of QEMU's socket keeps the types of QgaSync.
LEMMA SyncTypeStep ==
  ASSUME SyncTypeOK, Connections,
         Program \/ Expire \/ Socket \/ Agent \/ QemuExits
  PROVE  SyncTypeOK'
  <1> USE DEF SyncTypeOK
<1>1. CASE Check \/ ConnectRefused \/ InfoFails \/ Expire
  <2>1. pc' \in {"connect", "err", "sleep", pc} /\ expired' \in BOOLEAN
    BY <1>1 DEF Check, ConnectRefused, InfoFails, Expire
  <2>2. UNCHANGED <<tryVars, queueVars, peerVars, version>>
    BY <1>1 DEF Check, ConnectRefused, InfoFails, Expire
  <2>3. QED
    BY <2>1, <2>2
<1>2. CASE Connect
  <2>1. conns' \in Seq(Connection) /\ conns' # <<>> /\ readable' = <<>> /\ pc' \in {"sync", "err"}
    BY <1>2, Connected DEF Connect
  <2>2. QED
    BY <1>2, <2>1 DEF Connect
<1>3. CASE SendSync
  <2>1. PICK v \in SyncValues : value' = v /\ Write(Sync(v))
    BY <1>3 DEF SendSync
  <2>2. conns' \in Seq(Connection) /\ Last' = Last /\ Hung
    BY <1>3, <2>1, MessagesTyped, Written DEF SendSync, Connections
  <2>3. conns' # <<>>
    BY <2>2, EmptySeq DEF Hung, Last
  <2>4. QED
    BY <1>3, <2>1, <2>2, <2>3 DEF SendSync
<1>4. CASE RecvSync
  BY <1>4, HeadTailProperties DEF RecvSync, InStep
<1>5. CASE RecvOther
  <2>1. readable' \in Seq(Reply) /\ pc' = "sleep" /\ failures' \in 0..2
    BY <1>5, HeadTailProperties DEF RecvOther, SyncFailed, Counted
  <2>2. QED
    BY <1>5, <2>1 DEF RecvOther, SyncFailed
<1>6. CASE SyncFails
  BY <1>6 DEF SyncFails, SyncFailed, Counted
<1>7. CASE Wake
  <2>1. conns' \in Seq(Connection) /\ Last' = Last
    BY <1>7, ClosedByUs DEF Wake
  <2>2. conns # <<>> => conns' # <<>>
    BY <2>1, EmptySeq DEF Last
  <2>3. QED
    BY <1>7, <2>1, <2>2 DEF Wake
<1>8. CASE SendInfo
  <2>1. conns' \in Seq(Connection) /\ Last' = Last /\ Hung
    BY <1>8, MessagesTyped, Written DEF SendInfo, Connections
  <2>2. conns' # <<>>
    BY <2>1, EmptySeq DEF Hung, Last
  <2>3. QED
    BY <1>8, <2>1, <2>2 DEF SendInfo
<1>9. CASE RecvInfo
  <2>1. readable' \in Seq(Reply)
    BY <1>9, HeadTailProperties DEF RecvInfo
  <2>2. pc' \in {"ok", "err"} /\ version' \in Versions \cup {<<>>}
    BY <1>9 DEF RecvInfo
  <2>3. QED
    BY <1>9, <2>1, <2>2 DEF RecvInfo
<1>10. CASE Accept
  BY <1>10 DEF Accept
<1>11. CASE Forward
  <2>1. /\ conns' \in Seq(Connection) /\ Last' = Last
        /\ Head(conns[1].unread) \in Request
    BY <1>11, Forwarded DEF Forward, Serving
  <2>2. conns' # <<>>
    BY <1>11, <2>1, EmptySeq DEF Last, Forward, Serving
  <2>3. inbox' \in Seq(Request) /\ Len(inbox') <= PortCapacity
    BY <1>11, <2>1, AppendProperties, LenProperties, CapacityAssumption DEF Forward
  <2>4. QED
    BY <1>11, <2>1, <2>2, <2>3 DEF Forward
<1>12. CASE NoticeHangUp
  <2>1. conns' \in Seq(Connection)
    BY <1>12, Dropped DEF NoticeHangUp, Serving
  <2>2. QED
    BY <1>12, <2>1 DEF NoticeHangUp
<1>13. CASE AgentAnswers
  <2>1. inbox' \in Seq(Request) /\ Head(inbox) \in Reply /\ Len(inbox') = Len(inbox) - 1
    BY <1>13, HeadTailProperties, MessagesTyped DEF AgentAnswers
  <2>2. \A r \in Reply : Append(readable, r) \in Seq(Reply)
    BY AppendProperties
  <2>3. readable' \in Seq(Reply)
    BY <1>13, <2>1, <2>2, MessagesTyped DEF AgentAnswers
  <2>4. Len(inbox') <= PortCapacity
    BY <2>1, LenProperties, CapacityAssumption
  <2>5. QED
    BY <1>13, <2>1, <2>3, <2>4 DEF AgentAnswers
<1>14. CASE AgentOpens \/ AgentHangs \/ AgentSettles
  <2>1. agent' \in {"up", "mute", agent} /\ prompt' \in BOOLEAN
    BY <1>14 DEF AgentOpens, AgentHangs, AgentSettles
  <2>2. UNCHANGED <<hostVars, queueVars, qemu, version>>
    BY <1>14 DEF AgentOpens, AgentHangs, AgentSettles
  <2>3. QED
    BY <2>1, <2>2
<1>15. CASE QemuExits
  <2>1. /\ UNCHANGED <<hostVars, agent, prompt, version>> /\ qemu' = "gone"
        /\ conns' = <<>> /\ accepted' = FALSE /\ inbox' = <<>> /\ readable' \in Seq(Reply)
    BY <1>15, EmptySeq DEF QemuExits, QemuEnds
  <2>2. /\ conns' \in Seq(Connection) /\ inbox' \in Seq(Request)
        /\ Len(inbox') <= PortCapacity
    BY <2>1, EmptySeq, CapacityAssumption
  <2>3. QED
    BY <2>1, <2>2
<1>16. QED
  BY <1>1, <1>2, <1>3, <1>4, <1>5, <1>6, <1>7, <1>8, <1>9, <1>10, <1>11, <1>12, <1>13,
     <1>14, <1>15
  DEF Program, Socket, Agent

-----------------------------------------------------------------------------
\* If the connection that QEMU serves is held by vmtest, it is the last one.
LEMMA ServedIsLast ==
  ASSUME SyncTypeOK, Connections, conns # <<>>, conns[1].live
  PROVE  Last = 1 /\ Hung
<1>1. PICK n \in Nat : n = Last
  BY LenProperties DEF SyncTypeOK, Last
<1>2. n # 0
  BY <1>1, EmptySeq DEF SyncTypeOK, Last
<1>3. ~(1 \in 1..n-1)
  BY <1>1 DEF Connections
<1>4. n = 1
  BY <1>2, <1>3
<1>5. QED
  BY <1>1, <1>4 DEF Hung

\* Every step keeps what is known of the connections.
LEMMA ConnectionsStep ==
  ASSUME SyncTypeOK, Connections,
         Program \/ Expire \/ Socket \/ Agent \/ QemuExits
  PROVE  Connections'
<1>0. conns \in Seq(Connection) /\ Last \in Nat
  BY LenProperties DEF SyncTypeOK, Last
<1>1. CASE Check \/ ConnectRefused \/ InfoFails \/ Expire
  <2>1. UNCHANGED <<queueVars, peerVars>> /\ (Last' = Last) /\ (Hung' = Hung)
    BY <1>1 DEF Check, ConnectRefused, InfoFails, Expire, Last, Hung
  <2>2. \/ pc' \in {"err", pc}
        \/ pc = "check" /\ pc' = "connect"
        \/ pc' = "sleep" /\ qemu = "gone"
    BY <1>1 DEF Check, ConnectRefused, InfoFails, Expire
  <2>3. QED
    BY <2>1, <2>2 DEF Connections
<1>2. CASE Connect
  <2>1. /\ Last' = Last + 1 /\ conns'[Last + 1] = New /\ pc' \in {"sync", "err"} /\ pc = "connect"
        /\ \A i \in 1..Last : conns'[i] = conns[i]
        /\ UNCHANGED qemu /\ qemu = "running"
    BY <1>0, <1>2, Connected DEF Connect
  <2>2. Hung'
    BY <1>0, <2>1 DEF Hung, New
  <2>3. \A i \in 1..Last : ~conns[i].live
    BY <1>0, <2>1 DEF Connections, Hung
  <2>4. \A i \in 1..Last'-1 : ~conns'[i].live
    BY <1>0, <2>1, <2>3
  <2>5. QED
    BY <2>1, <2>2, <2>4 DEF Connections
<1>3. CASE SendSync \/ SendInfo
  <2>1. /\ pc \in {"sync", "info"} /\ pc' \in {"sync_wait", "info_wait"} /\ qemu = "running"
        /\ UNCHANGED <<qemu, accepted, inbox>>
        /\ \E r \in Request : Write(r)
    BY <1>3, MessagesTyped DEF SendSync, SendInfo
  <2>2. Hung
    BY <2>1 DEF Connections
  <2>3. /\ Last' = Last /\ conns'[Last].live
        /\ \A i \in 1..Last : i # Last => conns'[i] = conns[i]
    <3>1. PICK r \in Request : Write(r)
      BY <2>1
    <3>2. /\ Last' = Last
          /\ conns'[Last] = [live |-> TRUE, unread |-> Append(conns[Last].unread, r)]
          /\ \A i \in 1..Last : i # Last => conns'[i] = conns[i]
      BY <1>0, <2>2, <3>1, Written
    <3>3. QED
      BY <3>2
  <2>4. Hung'
    BY <2>2, <2>3 DEF Hung
  <2>5. \A i \in 1..Last'-1 : ~conns'[i].live
    BY <1>0, <2>3 DEF Connections
  <2>6. QED
    BY <2>1, <2>4, <2>5 DEF Connections
<1>4. CASE RecvSync \/ RecvOther \/ SyncFails \/ RecvInfo
  <2>1. UNCHANGED <<conns, accepted, inbox, qemu>> /\ (Last' = Last) /\ (Hung' = Hung)
    BY <1>4 DEF RecvSync, RecvOther, SyncFails, RecvInfo, SyncFailed, Last, Hung
  <2>2. /\ pc \in {"sync", "sync_wait", "info_wait"}
        /\ pc' \in {"info", "sleep", "ok", "err"}
    BY <1>4 DEF RecvSync, RecvOther, SyncFails, RecvInfo, SyncFailed
  <2>3. QED
    BY <2>1, <2>2 DEF Connections
<1>5. CASE Wake
  <2>1. /\ pc' = "check" /\ readable' = <<>> /\ conns' = HangUp
        /\ UNCHANGED <<accepted, inbox, qemu>>
    BY <1>5 DEF Wake
  <2>2. /\ Last' = Last /\ ~Hung'
        /\ \A i \in 1..Last : ~conns[i].live => ~conns'[i].live
    BY <1>0, <2>1, ClosedByUs
  <2>3. qemu = "gone" => conns' = <<>>
    BY <2>1 DEF Connections, HangUp, Hung, Last
  <2>4. QED
    BY <1>0, <2>1, <2>2, <2>3 DEF Connections
<1>6. CASE Accept
  BY <1>6 DEF Accept, Connections, Last, Hung
<1>7. CASE Forward
  <2>1. /\ Last' = Last /\ \A i \in 1..Last : conns'[i].live = conns[i].live
        /\ UNCHANGED <<pc, readable, qemu, accepted>> /\ qemu = "running"
    BY <1>7, Forwarded DEF Forward, Serving, SyncTypeOK
  <2>2. Hung' = Hung
    BY <1>0, <2>1 DEF Hung
  <2>3. QED
    BY <1>0, <2>1, <2>2 DEF Connections
<1>8. CASE NoticeHangUp
  <2>1. /\ Last > 0 /\ Last' = Last - 1 /\ \A i \in 1..Last - 1 : conns'[i] = conns[i + 1]
        /\ UNCHANGED <<pc, readable, qemu, inbox>> /\ qemu = "running" /\ ~conns[1].live
    BY <1>8, Dropped DEF NoticeHangUp, Serving, SyncTypeOK
  <2>2. CASE Last = 1
    BY <2>1, <2>2 DEF Connections, Hung
  <2>3. CASE Last > 1
    <3>1. conns'[Last - 1] = conns[Last]
      BY <1>0, <2>1, <2>3
    <3>2. Hung' = Hung
      BY <1>0, <2>1, <2>3, <3>1 DEF Hung
    <3>3. \A i \in 1..Last'-1 : ~conns'[i].live
      BY <1>0, <2>1 DEF Connections
    <3>4. QED
      BY <2>1, <3>2, <3>3 DEF Connections
  <2>4. QED
    BY <1>0, <2>1, <2>2, <2>3
<1>9. CASE AgentAnswers
  <2>1. /\ UNCHANGED <<pc, conns, accepted, qemu>> /\ qemu = "running"
        /\ readable' = readable \/ (accepted /\ conns[1].live)
    BY <1>9 DEF AgentAnswers
  <2>2. readable' = readable \/ Hung
    BY <2>1, ServedIsLast DEF SyncTypeOK
  <2>3. (Last' = Last) /\ (Hung' = Hung)
    BY <2>1 DEF Last, Hung
  <2>4. QED
    BY <2>1, <2>2, <2>3 DEF Connections
<1>10. CASE AgentOpens \/ AgentHangs \/ AgentSettles
  BY <1>10 DEF AgentOpens, AgentHangs, AgentSettles, Connections, Last, Hung
<1>11. CASE QemuExits
  <2>1. /\ UNCHANGED pc /\ qemu' = "gone" /\ conns' = <<>> /\ inbox' = <<>> /\ ~accepted'
        /\ readable' \in {readable, <<>>}
    BY <1>11 DEF QemuExits, QemuEnds
  <2>2. Last' = 0 /\ ~Hung'
    BY <2>1 DEF Last, Hung
  <2>3. QED
    BY <2>1, <2>2 DEF Connections
<1>12. QED
  BY <1>1, <1>2, <1>3, <1>4, <1>5, <1>6, <1>7, <1>8, <1>9, <1>10, <1>11
  DEF Program, Socket, Agent

-----------------------------------------------------------------------------
(***************************************************************************)
(* Where QEMU and the agent move what is on the way.                       *)
(***************************************************************************)
\* Nothing new gets on the way.
LEMMA CarriesOld ==
  ASSUME SyncTypeOK, Connections, NEW Old, Info \notin Old, AllOld(Old),
         Socket \/ Agent \/ QemuExits
  PROVE  /\ Only(readable', Old) /\ Only(inbox', Old)
         /\ \A i \in 1..Last' : Only(conns'[i].unread, Old)
<1> USE DEF AllOld
<1>0. /\ conns \in Seq(Connection) /\ Last \in Nat
      /\ inbox \in Seq(Request) /\ readable \in Seq(Reply)
  BY LenProperties DEF SyncTypeOK, Last
<1>1. CASE Accept \/ AgentOpens \/ AgentHangs \/ AgentSettles
  BY <1>1 DEF Accept, AgentOpens, AgentHangs, AgentSettles, Last
<1>2. CASE Forward
  <2>1. /\ conns # <<>> /\ Last \in Nat \ {0} /\ UNCHANGED readable
        /\ inbox' = Append(inbox, Head(conns[1].unread))
        /\ conns[1].unread # <<>> /\ conns' = [conns EXCEPT ![1].unread = Tail(@)]
    BY <1>0, <1>2, EmptySeq DEF Forward, Serving, SyncTypeOK, Last
  <2>2. /\ Last' = Last
        /\ conns[1].unread \in Seq(Request) /\ Head(conns[1].unread) \in Request
        /\ conns'[1].unread = Tail(conns[1].unread)
        /\ \A i \in 1..Last : i # 1 => conns'[i] = conns[i]
    BY <1>0, <2>1, Forwarded
  <2>3. Only(conns[1].unread, Old)
    BY <2>1
  <2>4. Head(conns[1].unread) \in Old /\ Only(Tail(conns[1].unread), Old)
    BY <2>1, <2>2, <2>3, OnlyQueue
  <2>5. Only(inbox', Old)
    BY <1>0, <2>1, <2>2, <2>4, OnlyQueue
  <2>6. ASSUME NEW i \in 1..Last'
        PROVE  Only(conns'[i].unread, Old)
    BY <2>2, <2>4
  <2>7. QED
    BY <2>1, <2>5, <2>6
<1>3. CASE NoticeHangUp
  <2>1. /\ Last' = Last - 1 /\ \A i \in 1..Last - 1 : conns'[i] = conns[i + 1]
        /\ UNCHANGED <<readable, inbox>>
    BY <1>0, <1>3, Dropped DEF NoticeHangUp, Serving, SyncTypeOK
  <2>2. \A i \in 1..Last - 1 : i + 1 \in 1..Last
    BY <1>0
  <2>3. QED
    BY <2>1, <2>2
<1>4. CASE AgentAnswers
  <2>1. /\ UNCHANGED conns /\ inbox # <<>> /\ inbox' = Tail(inbox) /\ (Last' = Last)
    BY <1>4 DEF AgentAnswers, Last
  <2>2. Head(inbox) \in Old /\ Only(inbox', Old) /\ Head(inbox) \in Reply
    BY <1>0, <2>1, OnlyQueue, HeadTailProperties, MessagesTyped
  <2>3. readable' \in {readable, Append(readable, Head(inbox))}
    BY <1>4, <2>2 DEF AgentAnswers
  <2>4. Only(Append(readable, Head(inbox)), Old)
    BY <1>0, <2>2, OnlyQueue
  <2>5. QED
    BY <2>1, <2>2, <2>3, <2>4
<1>5. CASE QemuExits
  <2>1. conns' = <<>> /\ Last' = 0 /\ inbox' = <<>> /\ readable' \in {readable, <<>>}
    BY <1>5 DEF QemuExits, QemuEnds, Last
  <2>2. Only(<<>>, Old)
    BY DEF Only
  <2>3. QED
    BY <2>1, <2>2
<1>6. QED
  BY <1>1, <1>2, <1>3, <1>4, <1>5 DEF Socket, Agent

\* The current message stays the last one on the way.
LEMMA CarriesCurrent ==
  ASSUME SyncTypeOK, Connections, NEW Old, NEW Cur, OneCurrent(Old, Cur),
         Info \notin Old, Info \in Cur => InfoFail \in Cur,
         qemu = "running" => Hung,
         Socket \/ Agent \/ QemuExits
  PROVE  OneCurrent(Old, Cur)'
<1>0. /\ conns \in Seq(Connection) /\ Last \in Nat
      /\ inbox \in Seq(Request) /\ readable \in Seq(Reply)
  BY LenProperties DEF SyncTypeOK, Last
<1>1. CASE Accept
  BY <1>1 DEF Accept, OneCurrent, Alone, Last
<1>2. CASE AgentOpens \/ AgentHangs \/ AgentSettles
  BY <1>2 DEF AgentOpens, AgentHangs, AgentSettles, OneCurrent, Alone, Last
<1>3. CASE Forward
  <2>1. /\ conns # <<>> /\ Last \in Nat \ {0} /\ UNCHANGED <<readable, qemu, accepted>>
        /\ qemu = "running" /\ accepted /\ inbox' = Append(inbox, Head(conns[1].unread))
        /\ conns[1].unread # <<>> /\ conns' = [conns EXCEPT ![1].unread = Tail(@)]
    BY <1>0, <1>3, EmptySeq DEF Forward, Serving, SyncTypeOK, Last
  <2>2. /\ Last' = Last
        /\ conns[1].unread \in Seq(Request) /\ Head(conns[1].unread) \in Request
        /\ conns'[1] = [live |-> conns[1].live, unread |-> Tail(conns[1].unread)]
        /\ \A i \in 1..Last : i # 1 => conns'[i] = conns[i]
    BY <1>0, <2>1, Forwarded
  <2>3. ~Alone
    BY <2>1 DEF Alone, New
  <2>4. /\ \A i \in 1..Last-1 : Only(conns[i].unread, Old)
        /\ EndsIn(conns[Last].unread, Old, Cur)
        /\ Only(inbox, Old) /\ Only(readable, Old)
    BY <2>1, <2>3 DEF OneCurrent
  <2>5. ASSUME Head(conns[1].unread) \in Old
        PROVE  Only(inbox', Old)
    BY <1>0, <2>1, <2>2, <2>4, <2>5, OnlyQueue
  <2>6. CASE Last = 1
    <3>1. CASE Head(conns[1].unread) \in Old /\ EndsIn(Tail(conns[1].unread), Old, Cur)
      <4>1. EndsIn(conns'[Last'].unread, Old, Cur)
        <5>1. Last' = 1 /\ conns'[1].unread = Tail(conns[1].unread)
          BY <2>2, <2>6
        <5>2. QED
          BY <3>1, <5>1
      <4>2. \A i \in 1..Last'-1 : FALSE
        BY <2>2, <2>6
      <4>3. QED
        BY <2>1, <2>2, <2>4, <2>5, <3>1, <4>1, <4>2 DEF OneCurrent
    <3>2. CASE Head(conns[1].unread) \in Cur /\ Tail(conns[1].unread) = <<>>
      <4>1. conns[1].live = TRUE
        <5>1. conns[1].live \in BOOLEAN /\ conns[1].live
          BY <1>0, <2>1, <2>6, MessagesTyped DEF Hung, Last
        <5>2. QED
          BY <5>1
      <4>2. Alone'
        BY <2>1, <2>2, <2>6, <3>2, <4>1 DEF Alone, New
      <4>3. EndsIn(inbox', Old, Cur)
        BY <1>0, <2>1, <2>2, <2>4, <3>2, EndsQueue
      <4>4. QED
        BY <2>1, <2>4, <4>2, <4>3 DEF OneCurrent
    <3>3. QED
      BY <2>2, <2>4, <2>6, <3>1, <3>2, EndsQueue
  <2>7. CASE Last > 1
    <3>1. 1 \in 1..Last-1 /\ Last \in 1..Last /\ Last # 1
      BY <1>0, <2>7
    <3>2. Head(conns[1].unread) \in Old /\ Only(Tail(conns[1].unread), Old)
      BY <2>1, <2>2, <2>4, <3>1, OnlyQueue
    <3>3. EndsIn(conns'[Last].unread, Old, Cur)
      BY <2>2, <2>4, <3>1
    <3>4. ASSUME NEW i \in 1..Last-1
          PROVE  Only(conns'[i].unread, Old)
      <4>1. i \in 1..Last
        BY <1>0
      <4>2. CASE i = 1
        <5>1. conns'[1].unread = Tail(conns[1].unread)
          BY <2>2
        <5>2. QED
          BY <3>2, <4>2, <5>1
      <4>3. CASE i # 1
        BY <2>2, <2>4, <4>1, <4>3
      <4>4. QED
        BY <4>2, <4>3
    <3>5. QED
      BY <2>1, <2>2, <2>4, <2>5, <2>7, <3>2, <3>3, <3>4 DEF OneCurrent
  <2>8. QED
    BY <2>1, <2>6, <2>7
<1>4. CASE NoticeHangUp
  <2>1. /\ Last' = Last - 1 /\ \A i \in 1..Last - 1 : conns'[i] = conns[i + 1]
        /\ UNCHANGED <<readable, inbox, qemu>> /\ qemu = "running" /\ ~conns[1].live
    BY <1>0, <1>4, Dropped DEF NoticeHangUp, Serving, SyncTypeOK
  <2>2. ~Alone
    BY <2>1 DEF Alone, New
  <2>3. Last > 1
    BY <1>0, <2>1 DEF Hung
  <2>4. /\ \A i \in 1..Last-1 : Only(conns[i].unread, Old)
        /\ EndsIn(conns[Last].unread, Old, Cur)
        /\ Only(inbox, Old) /\ Only(readable, Old)
    BY <2>1, <2>2 DEF OneCurrent
  <2>5. EndsIn(conns'[Last'].unread, Old, Cur) /\ Last' > 0
    <3>1. Last - 1 \in 1..Last-1 /\ (Last - 1) + 1 = Last /\ Last - 1 > 0
      BY <1>0, <2>3
    <3>2. QED
      BY <2>1, <2>4, <3>1
  <2>6. ASSUME NEW i \in 1..Last'-1
        PROVE  Only(conns'[i].unread, Old)
    <3> DEFINE n == Last
    <3>1. n \in Nat /\ i \in 1..(n-1)-1
      BY <1>0, <2>1
    <3> HIDE DEF n
    <3>2. i \in 1..n-1 /\ i + 1 \in 1..n-1
      BY <3>1
    <3>3. QED
      BY <2>1, <2>4, <3>2 DEF n
  <2>7. QED
    BY <2>1, <2>4, <2>5, <2>6 DEF OneCurrent
<1>5. CASE AgentAnswers
  <2>1. /\ UNCHANGED <<conns, accepted, qemu>> /\ inbox # <<>> /\ inbox' = Tail(inbox)
        /\ qemu = "running" /\ (Last' = Last) /\ (Alone' = Alone)
    BY <1>5 DEF AgentAnswers, Last, Alone
  <2>2. PICK a \in {Head(inbox)} \cup (IF Head(inbox) = Info THEN {InfoFail} ELSE {}) :
          readable' = IF accepted /\ conns[1].live THEN Append(readable, a) ELSE readable
    BY <1>5 DEF AgentAnswers
  <2>3. /\ Head(inbox) \in Reply /\ a \in Reply
        /\ Head(inbox) \in Old => a \in Old
        /\ Head(inbox) \in Cur => a \in Cur
    BY <1>0, <2>1, <2>2, HeadTailProperties, MessagesTyped
  <2>4. ASSUME Only(readable, Old), Head(inbox) \in Old
        PROVE  Only(readable', Old)
    <3>1. Only(Append(readable, a), Old)
      BY <1>0, <2>3, <2>4, OnlyQueue
    <3>2. QED
      BY <2>2, <2>4, <3>1
  <2>5. CASE /\ Last > 0
             /\ \A i \in 1..Last-1 : Only(conns[i].unread, Old)
             /\ EndsIn(conns[Last].unread, Old, Cur)
             /\ Only(inbox, Old) /\ Only(readable, Old)
    <3>1. Head(inbox) \in Old /\ Only(inbox', Old)
      BY <1>0, <2>1, <2>5, OnlyQueue
    <3>2. QED
      BY <2>1, <2>4, <2>5, <3>1 DEF OneCurrent
  <2>6. CASE Alone /\ EndsIn(inbox, Old, Cur) /\ Only(readable, Old)
    <3>1. CASE Head(inbox) \in Old /\ EndsIn(Tail(inbox), Old, Cur)
      BY <2>1, <2>4, <2>6, <3>1 DEF OneCurrent
    <3>2. CASE Head(inbox) \in Cur /\ Tail(inbox) = <<>>
      <4>1. readable' = Append(readable, a)
        BY <2>2, <2>6 DEF Alone, New
      <4>2. EndsIn(readable', Old, Cur)
        BY <1>0, <2>3, <2>6, <3>2, <4>1, EndsQueue
      <4>3. QED
        BY <2>1, <2>6, <3>2, <4>2 DEF OneCurrent
    <3>3. QED
      BY <1>0, <2>6, <3>1, <3>2, EndsQueue
  <2>7. QED
    BY <2>1, <2>5, <2>6 DEF OneCurrent
<1>6. CASE QemuExits
  <2>1. qemu' = "gone" /\ inbox' = <<>> /\ readable' \in {readable, <<>>}
    BY <1>6 DEF QemuExits, QemuEnds
  <2>2. Only(<<>>, Old)
    BY DEF Only
  <2>3. Only(readable, Old) \/ EndsIn(readable, Old, Cur)
    BY DEF OneCurrent
  <2>4. QED
    BY <2>1, <2>2, <2>3 DEF OneCurrent
<1>7. QED
  BY <1>1, <1>2, <1>3, <1>4, <1>5, <1>6 DEF Socket, Agent

\* What is in one set is in a larger one.
LEMMA OldMonotone ==
  ASSUME NEW A, NEW B, A \subseteq B
  PROVE  /\ \A q : Only(q, A) => Only(q, B)
         /\ AllOld(A) => AllOld(B)
BY DEF Only, AllOld

\* What is on the way with a current message, is of the one kind or the other.
LEMMA CurrentIsOld ==
  ASSUME SyncTypeOK, Connections, NEW Old, NEW Cur, OneCurrent(Old, Cur)
  PROVE  AllOld(Old \cup Cur)
<1>0. /\ conns \in Seq(Connection) /\ Last \in Nat
      /\ inbox \in Seq(Request) /\ readable \in Seq(Reply)
  BY LenProperties DEF SyncTypeOK, Last
<1>1. /\ \A q : Only(q, Old) => Only(q, Old \cup Cur)
      /\ Only(<<>>, Old \cup Cur)
  BY DEF Only
<1>2. ASSUME NEW S, NEW q \in Seq(S), EndsIn(q, Old, Cur)
      PROVE  Only(q, Old \cup Cur)
  <2>1. PICK n \in Nat : n = Len(q)
    BY LenProperties
  <2>2. q[n] \in Cur /\ \A i \in 1..n-1 : q[i] \in Old
    BY <1>2, <2>1 DEF EndsIn
  <2>3. \A i \in 1..n : i = n \/ i \in 1..n-1
    OBVIOUS
  <2>4. QED
    BY <2>1, <2>2, <2>3 DEF Only
<1>3. CASE /\ Last > 0
           /\ \A i \in 1..Last-1 : Only(conns[i].unread, Old)
           /\ EndsIn(conns[Last].unread, Old, Cur)
           /\ Only(inbox, Old) /\ Only(readable, Old)
  <2>1. \A i \in 1..Last : i = Last \/ i \in 1..Last-1
    BY <1>0
  <2>2. Last \in 1..Last
    BY <1>0, <1>3
  <2>3. conns[Last].unread \in Seq(Request)
    BY <1>0, <2>2, MessagesTyped DEF Last
  <2>4. Only(conns[Last].unread, Old \cup Cur)
    BY <1>2, <1>3, <2>3
  <2>5. QED
    BY <1>1, <1>3, <2>1, <2>4 DEF AllOld
<1>4. CASE Alone /\ EndsIn(inbox, Old, Cur) /\ Only(readable, Old)
  <2>1. \A i \in 1..Last : conns[i].unread = <<>>
    BY <1>4 DEF Alone, New
  <2>2. QED
    BY <1>0, <1>1, <1>2, <1>4, <2>1 DEF AllOld
<1>5. CASE Alone /\ inbox = <<>> /\ EndsIn(readable, Old, Cur)
  <2>1. \A i \in 1..Last : conns[i].unread = <<>>
    BY <1>5 DEF Alone, New
  <2>2. QED
    BY <1>0, <1>1, <1>2, <1>5, <2>1 DEF AllOld
<1>6. CASE qemu = "gone" /\ (Only(readable, Old) \/ EndsIn(readable, Old, Cur))
  <2>1. conns = <<>> /\ inbox = <<>> /\ \A i \in 1..Last : FALSE
    BY <1>6 DEF Connections, Last
  <2>2. QED
    BY <1>0, <1>1, <1>2, <1>6, <2>1 DEF AllOld
<1>7. QED
  BY <1>3, <1>4, <1>5, <1>6 DEF OneCurrent, SyncTypeOK

\* Requests of guest-sync differ when their values do, and are no guest-info.
LEMMA SyncsDiffer ==
  /\ \A v, w : Sync(v) = Sync(w) => v = w
  /\ \A v : Sync(v) # Info /\ Sync(v) # InfoFail
  /\ Info \notin Spoken /\ InfoFail \notin Spoken /\ Past \subseteq Spoken
  /\ \A v : Sync(v) \in Reply => v \in SyncValues
<1>1. /\ \A v, w : Sync(v) = Sync(w) => v = w
      /\ \A v : Sync(v) # Info /\ Sync(v) # InfoFail
  BY DEF Sync, Info, InfoFail
<1>2. Info \notin Spoken /\ InfoFail \notin Spoken /\ Past \subseteq Spoken
  BY <1>1 DEF Spoken, Past
<1>3. \A v : Sync(v) \in Reply => v \in SyncValues
  BY <1>1 DEF Reply, Request
<1>4. QED
  BY <1>1, <1>2, <1>3

\* What vmtest reads next is old, or it is current and the only one on the way.
LEMMA ReadCurrent ==
  ASSUME SyncTypeOK, NEW Old, NEW Cur, OneCurrent(Old, Cur), readable # <<>>
  PROVE  \/ Head(readable) \in Old
         \/ /\ Head(readable) \in Cur /\ Tail(readable) = <<>> /\ inbox = <<>>
            /\ qemu = "running" => Alone
<1>0. readable \in Seq(Reply)
  BY DEF SyncTypeOK
<1>1. CASE Only(readable, Old)
  BY <1>0, <1>1, OnlyQueue
<1>2. CASE EndsIn(readable, Old, Cur) /\ inbox = <<>> /\ (qemu = "running" => Alone)
  BY <1>0, <1>2, EndsQueue
<1>3. QED
  BY <1>1, <1>2 DEF OneCurrent

-----------------------------------------------------------------------------
(***************************************************************************)
(* Where the messages of each attempt are.                                 *)
(***************************************************************************)
\* QEMU and the agent keep the order.
LEMMA OrderCarried ==
  ASSUME SyncTypeOK, Connections, InOrder, Socket \/ Agent \/ QemuExits
  PROVE  InOrder'
<1>1. UNCHANGED <<pc, value, drawn, failures>>
  BY DEF Socket, Agent, Accept, Forward, NoticeHangUp, AgentOpens, AgentAnswers, AgentHangs,
         AgentSettles, QemuExits, QemuEnds
<1>2. PICK old : old = Fresh(Spoken)
  OBVIOUS
<1>3. PICK all : all = Spoken
  OBVIOUS
<1>4. PICK past : past = Fresh(Past)
  OBVIOUS
<1>5. PICK mine : mine = {Sync(value)}
  OBVIOUS
<1>6. PICK ours : ours = {Info, InfoFail}
  OBVIOUS
<1>7. Info \notin old /\ Info \notin all /\ Info \notin past /\ Info \notin mine /\ InfoFail \in ours
  BY <1>2, <1>3, <1>4, <1>5, <1>6, SyncsDiffer DEF Fresh
<1>8. /\ old = Fresh(Spoken)' /\ all = Spoken' /\ past = Fresh(Past)'
      /\ mine = {Sync(value)}' /\ ours = {Info, InfoFail}'
  BY <1>1, <1>2, <1>3, <1>4, <1>5, <1>6 DEF Fresh, Spoken, Past
<1>9. ASSUME NEW A, Info \notin A, AllOld(A)
      PROVE  AllOld(A)'
  BY <1>9, CarriesOld DEF AllOld
<1>10. ASSUME NEW A, NEW B, Info \notin A, Info \in B => InfoFail \in B, OneCurrent(A, B),
              pc \in {"sync_wait", "info_wait"}
       PROVE  OneCurrent(A, B)'
  BY <1>10, CarriesCurrent DEF Connections
<1>11. pc' \in {"check", "connect", "sync"} => AllOld(Fresh(Spoken))'
  <2>1. pc' \in {"check", "connect", "sync"} => AllOld(old)'
    BY <1>1, <1>2, <1>7, <1>9 DEF InOrder
  <2>2. QED
    BY <1>8, <2>1 DEF AllOld
<1>12. pc' \in {"sleep", "info"} => AllOld(Spoken)'
  <2>1. pc' \in {"sleep", "info"} => AllOld(all)'
    BY <1>1, <1>3, <1>7, <1>9 DEF InOrder
  <2>2. QED
    BY <1>8, <2>1 DEF AllOld
<1>13. pc' = "sync_wait" => OneCurrent(Fresh(Past), {Sync(value)})'
  <2>1. pc' = "sync_wait" => OneCurrent(past, mine)'
    BY <1>1, <1>4, <1>5, <1>7, <1>10 DEF InOrder
  <2>2. QED
    BY <1>8, <2>1 DEF OneCurrent
<1>14. pc' = "info_wait" => OneCurrent(Spoken, {Info, InfoFail})'
  <2>1. pc' = "info_wait" => OneCurrent(all, ours)'
    BY <1>1, <1>3, <1>6, <1>7, <1>10 DEF InOrder
  <2>2. QED
    BY <1>8, <2>1 DEF OneCurrent
<1>15. QED
  BY <1>11, <1>12, <1>13, <1>14 DEF InOrder

\* A request is written behind all that is on the way.
LEMMA WritesCurrent ==
  ASSUME SyncTypeOK, Hung, NEW Old, NEW Cur, NEW r \in Request, r \in Cur,
         AllOld(Old), Write(r), qemu = "running", UNCHANGED <<qemu, readable, inbox>>
  PROVE  OneCurrent(Old, Cur)'
<1>0. conns \in Seq(Connection) /\ Last \in Nat /\ Last > 0
  BY LenProperties DEF SyncTypeOK, Last, Hung
<1>1. /\ Last' = Last
      /\ conns'[Last].unread = Append(conns[Last].unread, r)
      /\ \A i \in 1..Last : i # Last => conns'[i] = conns[i]
  <2>1. /\ Last' = Last
        /\ conns'[Last] = [live |-> TRUE, unread |-> Append(conns[Last].unread, r)]
        /\ \A i \in 1..Last : i # Last => conns'[i] = conns[i]
    BY <1>0, Written
  <2>2. QED
    BY <2>1
<1>2. Last \in 1..Last /\ \A i \in 1..Last-1 : i \in 1..Last /\ i # Last
  BY <1>0
<1>3. conns[Last].unread \in Seq(Request) /\ Only(conns[Last].unread, Old)
  BY <1>0, <1>2, MessagesTyped DEF AllOld, Last
<1>4. EndsIn(conns'[Last].unread, Old, Cur)
  BY <1>1, <1>3, EndsQueue
<1>5. \A i \in 1..Last-1 : Only(conns'[i].unread, Old)
  BY <1>1, <1>2 DEF AllOld
<1>6. QED
  BY <1>0, <1>1, <1>4, <1>5 DEF AllOld, OneCurrent

\* vmtest's own steps keep the order.
LEMMA OrderKept ==
  ASSUME SyncTypeOK, Connections, InOrder, Settling, Program \/ Expire
  PROVE  InOrder'
<1>0. /\ conns \in Seq(Connection) /\ Last \in Nat
      /\ inbox \in Seq(Request) /\ readable \in Seq(Reply)
  BY LenProperties DEF SyncTypeOK, Last
<1>1. Fresh(Spoken) \subseteq Spoken /\ Fresh(Past) \cup {Sync(value)} \subseteq Spoken
  BY DEF Fresh, Spoken, Past
<1>2. CASE Check \/ InfoFails \/ Expire
  <2>1. UNCHANGED <<tryVars, queueVars, peerVars>> /\ (Last' = Last)
    BY <1>2 DEF Check, InfoFails, Expire, Last
  <2>2. \/ pc' \in {"err", pc}
        \/ pc = "check" /\ pc' = "connect"
    BY <1>2 DEF Check, InfoFails, Expire
  <2>3. QED
    BY <2>1, <2>2 DEF InOrder, AllOld, OneCurrent, Fresh, Spoken, Past, Alone
<1>3. CASE ConnectRefused
  <2>1. pc = "connect" /\ pc' = "sleep" /\ UNCHANGED <<tryVars, queueVars>> /\ (Last' = Last)
    BY <1>3 DEF ConnectRefused, Last
  <2>2. AllOld(Spoken)
    BY <1>1, <2>1, OldMonotone DEF InOrder
  <2>3. QED
    BY <2>1, <2>2 DEF InOrder, AllOld, Spoken
<1>4. CASE Connect
  <2>1. /\ pc = "connect" /\ pc' \in {"sync", "err"} /\ readable' = <<>>
        /\ UNCHANGED <<tryVars, inbox>>
        /\ Last' = Last + 1 /\ conns'[Last + 1] = New
        /\ \A i \in 1..Last : conns'[i] = conns[i]
    BY <1>0, <1>4, Connected DEF Connect
  <2>2. AllOld(Fresh(Spoken)) /\ Fresh(Spoken)' = Fresh(Spoken)
    BY <2>1 DEF InOrder, Fresh, Spoken
  <2>3. Only(<<>>, Fresh(Spoken)) /\ conns'[Last + 1].unread = <<>>
    BY <2>1 DEF Only, New
  <2>4. ASSUME NEW i \in 1..Last'
        PROVE  Only(conns'[i].unread, Fresh(Spoken))
    <3>1. i \in 1..Last \/ i = Last + 1
      BY <1>0, <2>1
    <3>2. QED
      BY <2>1, <2>2, <2>3, <3>1 DEF AllOld
  <2>5. AllOld(Fresh(Spoken))'
    BY <2>1, <2>2, <2>3, <2>4 DEF AllOld
  <2>6. QED
    BY <2>1, <2>5 DEF InOrder
<1>5. CASE SendSync
  <2>1. PICK v \in SyncValues : value' = v /\ Write(Sync(v))
    BY <1>5 DEF SendSync
  <2>2. /\ pc = "sync" /\ pc' = "sync_wait" /\ qemu = "running"
        /\ UNCHANGED <<failures, qemu, readable, inbox>>
        /\ drawn' = drawn \cup ({value} \ {0}) /\ Hung
    BY <1>5 DEF SendSync, Connections
  <2>3. PICK old : old = Fresh(Past)'
    OBVIOUS
  <2>4. \A r \in Reply : r \in Fresh(Spoken) => r \in old
    <3>1. \A w \in SyncValues : w \in drawn \cup {value} => w \in drawn'
      BY <2>2, SyncValuesAssumption
    <3>2. QED
      BY <2>2, <2>3, <3>1, SyncsDiffer DEF Fresh, Spoken, Past
  <2>5. ASSUME NEW S, NEW q \in Seq(S), S \subseteq Reply, Only(q, Fresh(Spoken))
        PROVE  Only(q, old)
    <3>1. \A i \in 1..Len(q) : q[i] \in Reply
      BY <2>5
    <3>2. QED
      BY <2>4, <2>5, <3>1 DEF Only
  <2>6. AllOld(old)
    <3>1. \A i \in 1..Last : conns[i].unread \in Seq(Request)
      BY <1>0, MessagesTyped DEF Last
    <3>2. Request \subseteq Reply /\ Reply \subseteq Reply
      BY MessagesTyped
    <3>3. QED
      BY <1>0, <2>2, <2>5, <3>1, <3>2 DEF InOrder, AllOld
  <2>7. PICK mine : mine = {Sync(v)}
    OBVIOUS
  <2>8. OneCurrent(old, mine)'
    BY <2>1, <2>2, <2>6, <2>7, WritesCurrent, MessagesTyped
  <2>9. mine = {Sync(value)}'
    BY <2>1, <2>7
  <2>10. OneCurrent(Fresh(Past), {Sync(value)})'
    BY <2>3, <2>8, <2>9 DEF OneCurrent
  <2>11. QED
    BY <2>2, <2>10 DEF InOrder
<1>6. CASE RecvSync \/ RecvOther \/ SyncFails
  <2>1. /\ pc' \in {"info", "sleep"} /\ UNCHANGED <<value, drawn, conns, inbox>>
        /\ readable' = readable \/ (readable # <<>> /\ readable' = Tail(readable))
        /\ pc \in {"sync", "sync_wait"}
    <3>1. CASE RecvSync
      BY <3>1 DEF RecvSync, InStep
    <3>2. CASE RecvOther
      BY <3>2 DEF RecvOther, SyncFailed
    <3>3. CASE SyncFails
      BY <3>3 DEF SyncFails, SyncFailed
    <3>4. QED
      BY <1>6, <3>1, <3>2, <3>3
  <2>2. AllOld(Spoken)
    <3>1. CASE pc = "sync"
      BY <1>1, <3>1, OldMonotone DEF InOrder
    <3>2. CASE pc = "sync_wait"
      BY <1>1, <3>2, CurrentIsOld, OldMonotone DEF InOrder
    <3>3. QED
      BY <2>1, <3>1, <3>2
  <2>3. Only(readable', Spoken)
    <3>1. Only(readable, Spoken)
      BY <2>2 DEF AllOld
    <3>2. readable # <<>> => Only(Tail(readable), Spoken)
      BY <1>0, <3>1, OnlyQueue
    <3>3. QED
      BY <2>1, <3>1, <3>2
  <2>4. AllOld(Spoken)'
    BY <2>1, <2>2, <2>3 DEF AllOld, Spoken, Last
  <2>5. QED
    BY <2>1, <2>4 DEF InOrder
<1>7. CASE Wake
  <2>1. /\ pc = "sleep" /\ pc' = "check" /\ readable' = <<>> /\ conns' = HangUp
        /\ UNCHANGED <<tryVars, accepted, inbox, qemu>>
        /\ prompt /\ qemu = "running" => Quiet
    BY <1>7 DEF Wake
  <2>2. Last' = Last /\ \A i \in 1..Last : conns'[i].unread = conns[i].unread
    BY <1>0, <2>1, ClosedByUs
  <2>3. PICK old : old = Fresh(Spoken)
    OBVIOUS
  <2>4. old = Fresh(Spoken)' /\ Only(<<>>, old)
    BY <2>1, <2>3 DEF Fresh, Spoken, Only
  <2>5. AllOld(Spoken)
    BY <2>1 DEF InOrder
  <2>6. Only(inbox, old) /\ \A i \in 1..Last : Only(conns[i].unread, old)
    <3>1. CASE failures = 0
      BY <2>3, <2>5, <3>1 DEF Fresh, AllOld
    <3>2. CASE failures # 0
      <4>1. CASE qemu = "running"
        <5>1. Quiet
          BY <2>1, <3>2, <4>1 DEF Settling
        <5>2. inbox = <<>> /\ \A i \in 1..Last : conns[i].unread = <<>>
          BY <5>1 DEF Quiet
        <5>3. QED
          BY <2>4, <5>2
      <4>2. CASE qemu = "gone"
        <5>1. inbox = <<>> /\ \A i \in 1..Last : FALSE
          BY <4>2 DEF Connections, Last
        <5>2. QED
          BY <2>4, <5>1
      <4>3. QED
        BY <4>1, <4>2 DEF SyncTypeOK
    <3>3. QED
      BY <3>1, <3>2
  <2>7. AllOld(Fresh(Spoken))'
    BY <2>1, <2>2, <2>4, <2>6 DEF AllOld
  <2>8. QED
    BY <2>1, <2>7 DEF InOrder
<1>8. CASE SendInfo
  <2>1. /\ pc = "info" /\ pc' = "info_wait" /\ qemu = "running" /\ Write(Info)
        /\ UNCHANGED <<qemu, readable, inbox, value, drawn>> /\ Hung /\ AllOld(Spoken)
    BY <1>8 DEF SendInfo, Connections, InOrder
  <2>2. PICK all : all = Spoken
    OBVIOUS
  <2>3. PICK ours : ours = {Info, InfoFail}
    OBVIOUS
  <2>4. OneCurrent(all, ours)'
    BY <2>1, <2>2, <2>3, WritesCurrent, MessagesTyped
  <2>5. all = Spoken' /\ ours = {Info, InfoFail}'
    BY <2>1, <2>2, <2>3 DEF Spoken
  <2>6. OneCurrent(Spoken, {Info, InfoFail})'
    BY <2>4, <2>5 DEF OneCurrent
  <2>7. QED
    BY <2>1, <2>6 DEF InOrder
<1>9. CASE RecvInfo
  BY <1>9 DEF RecvInfo, InOrder
<1>10. QED
  BY <1>2, <1>3, <1>4, <1>5, <1>6, <1>7, <1>8, <1>9 DEF Program

-----------------------------------------------------------------------------
\* Only an attempt that reads another's answer is counted, and that happens once.
LEMMA SettleStep ==
  ASSUME SyncTypeOK, InOrder, Settling, SettlesFast,
         Program \/ Expire \/ Socket \/ Agent \/ QemuExits
  PROVE  Settling' /\ SettlesFast'
<1>1. CASE RecvOther
  <2>1. /\ pc = "sync_wait" /\ readable # <<>> /\ Head(readable) # Sync(value)
        /\ failures' = Counted /\ UNCHANGED <<prompt, agent>>
    BY <1>1 DEF RecvOther, InStep, SyncFailed
  <2>2. failures = 0
    <3>1. SUFFICES ASSUME failures # 0
                   PROVE  FALSE
      OBVIOUS
    <3>2. OneCurrent({}, {Sync(value)})
      BY <2>1, <3>1 DEF InOrder, Fresh
    <3>3. QED
      BY <2>1, <3>2, ReadCurrent
  <2>3. failures' \in {0, 1} /\ (failures' # 0 => prompt)
    BY <2>1, <2>2 DEF Counted
  <2>4. QED
    BY <2>1, <2>3 DEF Settling, SettlesFast
<1>2. CASE SyncFails
  BY <1>2 DEF SyncFails, SyncFailed, Counted, Settling, SettlesFast
<1>3. CASE \/ Check \/ Connect \/ ConnectRefused \/ SendSync \/ RecvSync \/ Wake \/ SendInfo
           \/ RecvInfo \/ InfoFails \/ Expire \/ Accept \/ Forward \/ NoticeHangUp
           \/ AgentAnswers \/ QemuExits
  <2>1. UNCHANGED <<failures, prompt, agent>>
    BY <1>3 DEF Check, Connect, ConnectRefused, SendSync, RecvSync, Wake, SendInfo, RecvInfo,
                InfoFails, Expire, Accept, Forward, NoticeHangUp, AgentAnswers, QemuExits
  <2>2. QED
    BY <2>1 DEF Settling, SettlesFast
<1>4. CASE AgentOpens \/ AgentHangs \/ AgentSettles
  BY <1>4 DEF AgentOpens, AgentHangs, AgentSettles, Settling, SettlesFast
<1>5. QED
  BY <1>1, <1>2, <1>3, <1>4 DEF Program, Socket, Agent

\* With nothing on the way, nothing comes.
LEMMA StaysInStep ==
  ASSUME SyncTypeOK, Connections, readable = <<>>, inbox = <<>>, qemu = "running" => Alone,
         Socket \/ Agent \/ QemuExits
  PROVE  /\ UNCHANGED <<pc, value, drawn>> /\ readable' = <<>> /\ inbox' = <<>>
         /\ qemu' = "running" => qemu = "running" /\ Alone'
<1>1. CASE Accept \/ AgentOpens \/ AgentHangs \/ AgentSettles
  BY <1>1 DEF Accept, AgentOpens, AgentHangs, AgentSettles, Alone, Last
<1>2. CASE Forward \/ NoticeHangUp \/ AgentAnswers
  BY <1>2 DEF Forward, NoticeHangUp, AgentAnswers, Serving, Alone, New
<1>3. CASE QemuExits
  BY <1>3 DEF QemuExits, QemuEnds
<1>4. QED
  BY <1>1, <1>2, <1>3 DEF Socket, Agent

\* An attempt that is accepted owes nothing, and new returns Ok owing nothing.
LEMMA InStepStep ==
  ASSUME SyncTypeOK, Connections, InOrder, SyncMeansInStep, OkIsInStep,
         Program \/ Expire \/ Socket \/ Agent \/ QemuExits
  PROVE  SyncMeansInStep' /\ OkIsInStep'
<1> DEFINE owes == ~(readable = <<>> /\ inbox = <<>> /\ (qemu = "running" => Alone))
<1>1. /\ SyncMeansInStep <=> (pc = "info" /\ qemu = "running" /\ value \notin drawn => ~owes)
      /\ OkIsInStep <=> (pc = "ok" => ~owes)
  BY DEF SyncMeansInStep, OkIsInStep, Alone, Last
<1>2. /\ SyncMeansInStep' <=> (pc' = "info" /\ qemu' = "running" /\ value' \notin drawn' => ~owes')
      /\ OkIsInStep' <=> (pc' = "ok" => ~owes')
  BY DEF SyncMeansInStep, OkIsInStep, Alone, Last
<1>3. CASE Socket \/ Agent \/ QemuExits
  <2>1. CASE ~owes
    BY <1>2, <1>3, <2>1, StaysInStep
  <2>2. CASE owes
    <3>1. UNCHANGED <<pc, value, drawn>> /\ (qemu' = "running" => qemu = "running")
      BY <1>3 DEF Socket, Agent, Accept, Forward, NoticeHangUp, AgentOpens, AgentAnswers,
                  AgentHangs, AgentSettles, QemuExits, QemuEnds
    <3>2. QED
      BY <1>1, <1>2, <2>2, <3>1
  <2>3. QED
    BY <2>1, <2>2
<1>4. CASE RecvSync
  <2>1. /\ pc = "sync_wait" /\ pc' = "info" /\ readable # <<>> /\ Head(readable) = Sync(value)
        /\ readable' = Tail(readable)
        /\ UNCHANGED <<value, drawn, conns, accepted, inbox, qemu>>
    BY <1>4 DEF RecvSync, InStep
  <2>2. ASSUME qemu = "running", value \notin drawn
        PROVE  Alone /\ inbox = <<>> /\ Tail(readable) = <<>>
    <3>1. Head(readable) \notin Fresh(Past)
      BY <2>1, <2>2, SyncsDiffer DEF Fresh, Past
    <3>2. QED
      BY <2>1, <2>2, <3>1, ReadCurrent DEF InOrder
  <2>3. QED
    BY <1>2, <2>1, <2>2 DEF Alone, Last
<1>5. CASE RecvInfo
  <2>1. /\ pc = "info_wait" /\ pc' \in {"ok", "err"} /\ readable # <<>>
        /\ pc' = "ok" => Head(readable) = Info
        /\ readable' = Tail(readable)
        /\ UNCHANGED <<value, drawn, conns, accepted, inbox, qemu>>
    BY <1>5 DEF RecvInfo
  <2>2. ASSUME Head(readable) = Info
        PROVE  (qemu = "running" => Alone) /\ inbox = <<>> /\ Tail(readable) = <<>>
    BY <2>1, <2>2, ReadCurrent, SyncsDiffer DEF InOrder
  <2>3. QED
    BY <1>2, <2>1, <2>2 DEF Alone, Last
<1>6. CASE Expire
  BY <1>1, <1>2, <1>6 DEF Expire, Alone, Last
<1>7. CASE \/ Check \/ Connect \/ ConnectRefused \/ SendSync \/ RecvOther \/ SyncFails \/ Wake
           \/ SendInfo \/ InfoFails
  <2>1. pc' \notin {"info", "ok"}
    BY <1>7 DEF Check, Connect, ConnectRefused, SendSync, RecvOther, SyncFails, Wake, SendInfo,
                InfoFails, SyncFailed
  <2>2. QED
    BY <2>1 DEF SyncMeansInStep, OkIsInStep
<1>8. QED
  BY <1>3, <1>4, <1>5, <1>6, <1>7 DEF Program

\* All that QgaSync keeps.
LEMMA SyncStep ==
  ASSUME SyncTypeOK, ISync, Program \/ Expire \/ Socket \/ Agent \/ QemuExits
  PROVE  SyncTypeOK' /\ ISync'
<1>1. SyncTypeOK'
  BY SyncTypeStep DEF ISync
<1>2. Connections'
  BY ConnectionsStep DEF ISync
<1>3. InOrder'
  BY OrderKept, OrderCarried DEF ISync
<1>4. Settling' /\ SettlesFast'
  BY SettleStep DEF ISync
<1>5. SyncMeansInStep' /\ OkIsInStep'
  BY InStepStep DEF ISync
<1>6. QED
  BY <1>1, <1>2, <1>3, <1>4, <1>5 DEF ISync

-----------------------------------------------------------------------------
(***************************************************************************)
(* The init script, and the agent that it starts.                          *)
(***************************************************************************)
\* Where the steps of the script are.
LEMMA ScriptOrder ==
  /\ Len(Script!Steps) = 15
  /\ \A i \in 1..15 : /\ Script!Steps[i] = "agent" => i = 14
                      /\ Script!Steps[i] # "shell" => i < 15
                      /\ Script!Steps[i] \in Script!Optional => Script!Steps[i] \notin Script!Mandatory
  /\ \A m \in Script!Mandatory : \E i \in 1..11 : Script!Steps[i] = m
<1>1. Len(Script!Steps) = 15
  BY DEF Script!Steps
<1>2. ASSUME NEW i \in 1..15
      PROVE  /\ Script!Steps[i] = "agent" => i = 14
             /\ Script!Steps[i] # "shell" => i < 15
             /\ Script!Steps[i] \in Script!Optional => Script!Steps[i] \notin Script!Mandatory
  <2>1. i \in {1, 2, 3, 4, 5, 6, 7, 8, 9, 10, 11, 12, 13, 14, 15}
    OBVIOUS
  <2>2. Script!Steps[i] = "agent" => i = 14
    <3>1. /\ Script!Steps[1] = "/proc" /\ Script!Steps[2] = "trap" /\ Script!Steps[3] = "/dev"
          /\ Script!Steps[4] = "/dev/shm" /\ Script!Steps[5] = "/run"
          /\ Script!Steps[6] = "run link" /\ Script!Steps[7] = "/sys"
          /\ Script!Steps[8] = "debugfs"
      BY DEF Script!Steps
    <3>2. /\ Script!Steps[9] = "tracefs" /\ Script!Steps[10] = "cgroup2"
          /\ Script!Steps[11] = "/mnt" /\ Script!Steps[12] = "/dev/fd"
          /\ Script!Steps[13] = "vport" /\ Script!Steps[15] = "shell"
      BY DEF Script!Steps
    <3>3. QED
      BY <2>1, <3>1, <3>2
  <2>3. Script!Steps[i] # "shell" => i < 15
    <3>1. Script!Steps[15] = "shell"
      BY DEF Script!Steps
    <3>2. QED
      BY <3>1
  <2>4. Script!Steps[i] \in Script!Optional => Script!Steps[i] \notin Script!Mandatory
    BY DEF Script!Optional, Script!Mandatory
  <2>5. QED
    BY <2>2, <2>3, <2>4
<1>3. ASSUME NEW m \in Script!Mandatory
      PROVE  \E i \in 1..11 : Script!Steps[i] = m
  <2>1. /\ 1 \in 1..11 /\ 3 \in 1..11 /\ 5 \in 1..11 /\ 7 \in 1..11 /\ 11 \in 1..11
        /\ Script!Steps[1] = "/proc" /\ Script!Steps[3] = "/dev"
        /\ Script!Steps[5] = "/run" /\ Script!Steps[7] = "/sys" /\ Script!Steps[11] = "/mnt"
    BY DEF Script!Steps
  <2>2. m \in {"/proc", "/dev", "/run", "/sys", "/mnt"}
    BY DEF Script!Mandatory
  <2>3. QED
    BY <2>1, <2>2
<1>4. QED
  BY <1>1, <1>2, <1>3

\* An agent that was not started says nothing.
LEMMA SilentStep ==
  ASSUME SyncTypeOK, Booted, UNCHANGED <<kind, guestVars>>,
         Program \/ Expire \/ Socket \/ Agent \/ QemuExits
  PROVE  Booted'
<1>1. kind = "kernel" /\ agent' # "absent" => line' > 14
  BY DEF Booted, Program, Expire, Socket, Agent, Check, Connect, ConnectRefused, SendSync, RecvSync,
         RecvOther, SyncFails, Wake, SendInfo, RecvInfo, InfoFails, Accept, Forward, NoticeHangUp,
         AgentOpens, AgentAnswers, AgentHangs, AgentSettles, QemuExits
<1>2. ASSUME agent' \in {"absent", "starting"}
      PROVE  readable' = <<>> /\ inbox' = <<>> /\ pc' \notin {"info", "info_wait", "ok"}
  <2>1. agent \in {"absent", "starting"} /\ agent' = agent
    BY <1>2 DEF Program, Expire, Socket, Agent, Check, Connect, ConnectRefused, SendSync, RecvSync,
         RecvOther, SyncFails, Wake, SendInfo, RecvInfo, InfoFails, Accept, Forward, NoticeHangUp,
         AgentOpens, AgentAnswers, AgentHangs, AgentSettles, QemuExits
  <2>2. readable = <<>> /\ inbox = <<>> /\ pc \notin {"info", "info_wait", "ok"}
    BY <2>1 DEF Booted
  <2>3. CASE Program \/ Expire
    BY <2>2, <2>3
    DEF Program, Expire, Check, Connect, ConnectRefused, SendSync, RecvSync, RecvOther, SyncFails,
        Wake, SendInfo, RecvInfo, InfoFails, SyncFailed, InStep
  <2>4. CASE Socket \/ Agent \/ QemuExits
    BY <2>1, <2>2, <2>4
    DEF Socket, Agent, Accept, Forward, NoticeHangUp, AgentOpens, AgentAnswers, AgentHangs,
        AgentSettles, QemuExits, QemuEnds
  <2>5. QED
    BY <2>3, <2>4
<1>3. QED
  BY <1>1, <1>2 DEF Booted

\* What is on the way, and what it says of the attempt, changes with the queues
\* and with the host only.
LEMMA SameQueues ==
  ASSUME UNCHANGED <<hostVars, queueVars, qemu>>
  PROVE  /\ Connections => Connections'
         /\ InOrder => InOrder'
         /\ SyncMeansInStep => SyncMeansInStep'
         /\ OkIsInStep => OkIsInStep'
<1>1. UNCHANGED <<Last, Hung, Alone, Past, Spoken>>
  BY DEF Last, Hung, Alone, Past, Spoken
<1>2. Connections => Connections'
  BY <1>1 DEF Connections
<1>3. InOrder => InOrder'
  <2>1. AllOld(Spoken) => AllOld(Spoken)'
    BY <1>1 DEF AllOld
  <2>2. AllOld(Fresh(Spoken)) => AllOld(Fresh(Spoken))'
    BY <1>1 DEF AllOld, Fresh
  <2>3. OneCurrent(Fresh(Past), {Sync(value)}) => OneCurrent(Fresh(Past), {Sync(value)})'
    BY <1>1 DEF OneCurrent, Fresh
  <2>4. OneCurrent(Spoken, {Info, InfoFail}) => OneCurrent(Spoken, {Info, InfoFail})'
    BY <1>1 DEF OneCurrent
  <2>5. QED
    BY <2>1, <2>2, <2>3, <2>4 DEF InOrder
<1>4. SyncMeansInStep => SyncMeansInStep'
  BY <1>1 DEF SyncMeansInStep
<1>5. OkIsInStep => OkIsInStep'
  BY <1>1 DEF OkIsInStep
<1>6. QED
  BY <1>2, <1>3, <1>4, <1>5

\* So does all of ISync, with the agent.
LEMMA SameISync ==
  ASSUME ISync, UNCHANGED <<hostVars, queueVars, agent, prompt, qemu>>
  PROVE  ISync'
<1>1. Settling' /\ SettlesFast'
  BY DEF ISync, Settling, SettlesFast
<1>2. QED
  BY <1>1, SameQueues DEF ISync

\* The script starts the agent once, behind its mounts.
LEMMA ScriptStep ==
  ASSUME IInv, InitScript
  PROVE  IInv'
<1>1. /\ UNCHANGED <<hostVars, queueVars, prompt, qemu, version, kind>> /\ kind = "kernel"
      /\ Script!Next
  BY DEF InitScript
<1>2. line \in 1..15 /\ mounts \subseteq Script!Mandatory
  BY ScriptOrder DEF IInv, TypeOK
<1>3. CASE Script!StepDone \/ Script!StepOptional
  <2>1. /\ line' = line + 1 /\ Script!Steps[line] # "shell" /\ UNCHANGED guest
        /\ trapped' \in BOOLEAN /\ mounts' \subseteq Script!Mandatory
    BY <1>2, <1>3 DEF Script!StepDone, Script!StepOptional, Script!Step, Script!Optional, IInv, TypeOK
  <2>2. mounts \subseteq mounts' /\ (Script!Steps[line] \in Script!Mandatory => Script!Steps[line] \in mounts')
    BY <1>2, <1>3, ScriptOrder DEF Script!StepDone, Script!StepOptional, Script!Step
  <2>3. \/ UNCHANGED agent /\ line # 14
        \/ line = 14 /\ agent' \in {"starting", agent}
    BY <1>2, <1>3, ScriptOrder DEF Script!StepDone, Script!StepOptional, Script!Step, Script!Starts, Script!Optional
  <2>4. line = 14 => agent = "absent" /\ ~prompt
    BY <1>1, <1>2 DEF IInv, Booted, ISync, Settling
  <2>5. TypeOK'
    <3>1. line' \in 1..15
      BY <1>2, <2>1, ScriptOrder
    <3>2. agent' \in {"absent", "starting", "up", "mute"}
      BY <2>3 DEF IInv, TypeOK, SyncTypeOK
    <3>3. SyncTypeOK'
      BY <1>1, <3>2 DEF IInv, TypeOK, SyncTypeOK
    <3>4. QED
      BY <1>1, <2>1, <3>1, <3>3, ScriptOrder DEF IInv, TypeOK
  <2>6. ISync'
    <3>1. Settling'
      BY <1>1, <2>3, <2>4 DEF IInv, ISync, Settling
    <3>2. QED
      BY <1>1, <3>1, SameQueues DEF IInv, ISync, SettlesFast
  <2>7. Booted'
    <3>1. \A i \in 1..line'-1 : Script!Steps[i] \in Script!Mandatory => Script!Steps[i] \in mounts'
      <4>1. \A i \in 1..line'-1 : i = line \/ i \in 1..line-1
        BY <1>2, <2>1
      <4>2. QED
        BY <2>2, <4>1 DEF IInv, Booted
    <3>2. agent' # "absent" => line' > 14
      BY <1>1, <1>2, <2>1, <2>3 DEF IInv, Booted
    <3>3. agent' \in {"absent", "starting"} =>
            readable' = <<>> /\ inbox' = <<>> /\ pc' \notin {"info", "info_wait", "ok"}
      BY <1>1, <2>3, <2>4 DEF IInv, Booted
    <3>4. QED
      BY <3>1, <3>2, <3>3 DEF Booted
  <2>8. QED
    BY <2>5, <2>6, <2>7 DEF IInv
<1>4. CASE Script!StepFails \/ Script!ShellExits
  <2>1. UNCHANGED <<line, mounts, trapped, agent>> /\ guest' \in {"off", "panicked"}
    BY <1>4 DEF Script!StepFails, Script!ShellExits, Script!Exit
  <2>2. TypeOK' /\ Booted'
    BY <1>1, <2>1 DEF IInv, TypeOK, SyncTypeOK, Booted
  <2>3. ISync'
    BY <1>1, <2>1, SameISync DEF IInv
  <2>4. QED
    BY <2>2, <2>3 DEF IInv
<1>5. QED
  BY <1>1, <1>3, <1>4 DEF Script!Next

-----------------------------------------------------------------------------
\* Nothing has been sent, mounted or started.
LEMMA InitIInv == Init => IInv
<1> SUFFICES ASSUME Init
             PROVE  IInv
  OBVIOUS
<1> USE DEF Init, SyncInit, Script!Init
<1>1. /\ conns = <<>> /\ readable = <<>> /\ inbox = <<>> /\ Last = 0 /\ ~Hung
      /\ readable \in Seq(Reply) /\ inbox \in Seq(Request) /\ conns \in Seq(Connection)
  BY DEF Last, Hung
<1>2. TypeOK
  <2>1. SyncTypeOK
    <3>1. Len(inbox) <= PortCapacity
      <4>1. Len(inbox) = 0
        BY <1>1
      <4>2. QED
        BY <4>1, CapacityAssumption
    <3>2. agent \in {"absent", "starting"}
      OBVIOUS
    <3>3. /\ value \in SyncValues \cup {0} /\ drawn \subseteq SyncValues /\ failures \in 0..2
          /\ version \in Versions \cup {<<>>} /\ (accepted => conns # <<>>)
      OBVIOUS
    <3>4. /\ pc = "check" /\ expired \in BOOLEAN /\ accepted \in BOOLEAN /\ prompt \in BOOLEAN
          /\ qemu \in {"running", "gone"}
      OBVIOUS
    <3>5. QED
      BY <1>1, <3>1, <3>2, <3>3, <3>4 DEF SyncTypeOK
  <2>2. line \in 1..Len(Script!Steps)
    BY ScriptOrder
  <2>3. QED
    BY <2>1, <2>2 DEF TypeOK
<1>3. Connections /\ Settling /\ SettlesFast /\ SyncMeansInStep /\ OkIsInStep
  BY <1>1 DEF Connections, Settling, SettlesFast, SyncMeansInStep, OkIsInStep
<1>4. InOrder
  BY <1>1 DEF InOrder, AllOld, Only
<1>5. Booted
  BY DEF Booted
<1>6. QED
  BY <1>2, <1>3, <1>4, <1>5 DEF IInv, ISync

\* The inductive invariant: where the messages of each attempt are, and that the
\* guest answers nothing before its script has mounted everything.
THEOREM Inductive == Spec => []IInv
<1>1. ASSUME IInv, Program \/ Expire \/ Socket \/ Agent \/ QemuExits, UNCHANGED <<kind, guestVars>>
      PROVE  IInv'
  <2>1. SyncTypeOK' /\ ISync'
    BY <1>1, SyncStep DEF IInv, TypeOK
  <2>2. Booted'
    BY <1>1, SilentStep DEF IInv, TypeOK
  <2>3. QED
    BY <1>1, <2>1, <2>2 DEF IInv, TypeOK
<1>2. ASSUME IInv, GuestEnds
      PROVE  IInv'
  BY <1>1, <1>2 DEF GuestEnds, QemuExits
<1>3. ASSUME IInv, UNCHANGED vars
      PROVE  IInv'
  <2>1. TypeOK' /\ Booted'
    BY <1>3 DEF IInv, TypeOK, SyncTypeOK, Booted
  <2>2. ISync'
    BY <1>3, SameISync DEF IInv
  <2>3. QED
    BY <2>1, <2>2 DEF IInv
<1>4. IInv /\ [Next]_vars => IInv'
  BY <1>1, <1>2, <1>3, ScriptStep DEF Next, Host, Vm, Return
<1>5. QED
  BY InitIInv, <1>4, PTL DEF Spec

\* Every variable keeps its type, whatever the guest and QEMU do.
THEOREM TypeCorrect == Spec => []TypeOK
<1>1. IInv => TypeOK
  BY DEF IInv
<1>2. QED
  BY Inductive, <1>1, PTL

\* When QgaWrapper::new (qga.rs) returns Ok, no reply is on its way on the stream
\* that the later calls use, however many attempts it took and even if two of
\* them drew the same value.
THEOREM ReturnsInStep == Spec => []OkIsInStep
<1>1. IInv => OkIsInStep
  BY DEF IInv, ISync
<1>2. QED
  BY Inductive, <1>1, PTL

\* What guest-sync is for: an attempt that is accepted owes nothing, unless its
\* value had been drawn before (qga.rs).
THEOREM SyncIsTrusted == Spec => []SyncMeansInStep
<1>1. IInv => SyncMeansInStep
  BY DEF IInv, ISync
<1>2. QED
  BY Inductive, <1>1, PTL

\* With an agent that answers within the sleep of qga.rs, at most one attempt
\* reads another's answer, for every backlog and capacity of the port.
THEOREM OneMoreTry == Spec => []SettlesFast
<1>1. IInv => SettlesFast
  BY DEF IInv, ISync
<1>2. QED
  BY Inductive, <1>1, PTL

\* When QgaWrapper::new returns Ok on a kernel target, all that init.sh.template
\* must mount is mounted.
THEOREM AgentMeansReady == Spec => []OkMeansReady
<1>1. ASSUME IInv, pc = "ok", kind = "kernel"
      PROVE  Script!Mandatory \subseteq mounts
  <2>1. line > 14 /\ line \in Nat
    BY <1>1, ScriptOrder DEF IInv, TypeOK, SyncTypeOK, Booted
  <2>2. ASSUME NEW m \in Script!Mandatory
        PROVE  m \in mounts
    <3>1. PICK i \in 1..11 : Script!Steps[i] = m
      BY ScriptOrder
    <3>2. i \in 1..line-1
      BY <2>1
    <3>3. QED
      BY <1>1, <3>1, <3>2 DEF IInv, Booted
  <2>3. QED
    BY <2>2
<1>2. IInv => OkMeansReady
  BY <1>1 DEF OkMeansReady
<1>3. QED
  BY Inductive, <1>2, PTL
===============================================================================
