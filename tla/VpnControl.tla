----------------------------- MODULE VpnControl -----------------------------
(***************************************************************************)
(* The control channel of the OpenVPN client (transport/openvpn): numbered *)
(* messages over UDP with acknowledgements, a bounded receive window and   *)
(* retransmission, started again in every key epoch by a soft reset, and   *)
(* the goroutine that carries one TLS session per epoch over it.           *)
(*                                                                         *)
(* The server is external: it answers record by record and begins every    *)
(* rekey.  A datagram to the server arrives at once or is lost; one to the *)
(* client may also be overtaken, and whatever is not acknowledged is sent  *)
(* again, so that duplicates arrive.  The outer replay window only turns   *)
(* copies of datagrams into losses and is left out.                        *)
(***************************************************************************)
EXTENDS Naturals, Sequences, FiniteSets

CONSTANTS
  MaxEpoch,     \* bound: the number of rekeys; below KeyIDMask, so that no key ID comes back
  Flight,       \* bound: the records of the server's TLS handshake
  Unasked,      \* bound: its rekeys and the messages it pushes unasked, together
  SendAckMax,   \* controlSendAckMax (4): acknowledgements on a control packet
  AckOnlyMax,   \* dedicatedAckMax (8, or 4 without a cryptor): on a packet of their own
  AckSize,      \* reliableAckSize (8): acknowledgements kept to be repeated
  Capacity,     \* reliableCapacity (12): the receive window
  KeyIDMask,    \* 7 in the code
  MaxFlight     \* bound: the datagrams on their way to the client; others are lost

ASSUME BoundsAssumption ==
  /\ MaxEpoch \in Nat /\ KeyIDMask \in Nat /\ MaxEpoch < KeyIDMask
  /\ Flight \in Nat \ {0} /\ Unasked \in Nat
  /\ SendAckMax \in Nat \ {0} /\ AckOnlyMax \in Nat \ {0} /\ AckSize \in Nat \ {0}
  /\ Capacity \in Nat \ {0} /\ MaxFlight \in Nat \ {0}

Epoch == 0 .. MaxEpoch
None  == KeyIDMask + 1     \* no key ID

\* The records of the client in an epoch: its TLS handshake, its key method message, and in the
\* first epoch the request for a push.
Hello   == 1
Keys    == 2
Request == 3

\* The records of the server that the exchange of epoch k needs.
Needed(k) == Flight + IF k = 0 THEN 2 ELSE 1

VARIABLES
  keyID,             \* the epoch the client is in
  sendMessage,       \* the ID of its next message; message 0 is the reset
  recvMessage,       \* the ID it expects
  pending,           \* the IDs it has sent and that are not acknowledged
  recvPending,       \* the IDs it received ahead of recvMessage
  lruAcks,           \* the IDs it acknowledged last, newest first
  parkedTLS,         \* records received while waiting for a soft reset
  pendingSoftReset,  \* the key ID of a soft reset put aside, or None
  accepted,          \* the key ID of the soft reset being acted on, or None
  phase,             \* where the client's goroutine is
  serverKey,         \* the server's epoch
  has,               \* the client's messages of that epoch that reached it
  unacked,           \* its messages of that epoch that are not acknowledged
  net,               \* the datagrams on their way to the client
  written,           \* the records the server's TLS session has written in each epoch
  got                \* the records that reached the client's TLS session in each epoch

epochState == <<keyID, sendMessage, recvMessage, pending, recvPending, lruAcks, parkedTLS>>
client     == <<epochState, pendingSoftReset, accepted, phase>>
server     == <<serverKey, has, unacked, written>>
vars       == <<client, server, net, got>>

Phases == {"reset", "tls", "keys", "push", "token", "watch", "update", "late", "closed"}

TypeOK ==
  /\ keyID \in Epoch /\ serverKey \in Epoch
  /\ sendMessage \in 1 .. Request + 1 /\ recvMessage \in Nat
  /\ pending \subseteq 0 .. Request /\ has \subseteq 0 .. Request
  /\ recvPending \subseteq Nat /\ unacked \subseteq Nat
  /\ lruAcks \in Seq(Nat) /\ Len(lruAcks) <= AckSize
  /\ parkedTLS \in Seq(Nat)
  /\ pendingSoftReset \in Epoch \cup {None} /\ accepted \in Epoch \cup {None}
  /\ phase \in Phases
  /\ written \in [Epoch -> Nat] /\ got \in [Epoch -> Seq(Nat)]

-----------------------------------------------------------------------------
(* Messages to the client.  Its own packets need no form: they arrive at   *)
(* once or not at all.  The server acknowledges what it has, on a message  *)
(* or on a packet of its own, which may arrive at any time.                *)

NextKeyID(k) == LET next == (k + 1) % (KeyIDMask + 1) IN IF next = 0 THEN 1 ELSE next

Opcode(k, id) == IF id # 0 THEN "control" ELSE IF k = 0 THEN "hardReset" ELSE "softReset"

Message(k, id) == [key |-> k, op |-> Opcode(k, id), id |-> id]

\* What a packet of the client's epoch acknowledges.
AckIDs == IF keyID = serverKey THEN has ELSE 0 .. Request

Flying(ps) == Cardinality(ps) <= MaxFlight

\* The server sends p, and it is lost or not.
ToClient(p) == net' = net \/ (net' = net \cup {p} /\ Flying(net'))

-----------------------------------------------------------------------------
(* The reliable layer of the client.                                       *)

Least(m, n) == IF m < n THEN m ELSE n

(* Mutant: the acknowledgements kept are not capped, nor is an older one removed *)
TakeAcksWithoutCap(id) ==
  [j \in 1 .. Len(lruAcks) + 1 |-> IF j = 1 THEN id ELSE lruAcks[j - 1]]

\* takeAcksLocked.  At most one ID waits at a time, since every message that is accepted is
\* followed by SendAck: it moves to the front of those kept, and the others up to its old
\* place, or to the last place there is, move back.
TakeAcks(id) ==
  LET old == {i \in 1 .. Len(lruAcks) : lruAcks[i] = id}
      n   == IF old = {} THEN Least(Len(lruAcks) + 1, AckSize) ELSE Len(lruAcks)
  IN  [j \in 1 .. n |-> IF j = 1 THEN id ELSE IF \E i \in old : i < j THEN lruAcks[j] ELSE lruAcks[j - 1]]

\* The acknowledgements on a packet that takes max of them.
AcksOn(max, lru) == {lru[i] : i \in 1 .. Least(max, Len(lru))}

\* writeControlPacket: a packet with messages ids and acknowledgements acks reaches the server.
Reaches(k, ids, acks) ==
  /\ k = serverKey
  /\ has' = has \cup ids
  /\ unacked' = unacked \ acks
  /\ UNCHANGED <<serverKey, written>>

Lost == UNCHANGED server

\* Send of message id.
Sent(k, id, lru) == Lost \/ Reaches(k, {id}, AcksOn(SendAckMax, lru))

\* SendAck of the list lru.
AckSent(k, lru) == Lost \/ Reaches(k, {}, AcksOn(AckOnlyMax, lru))

\* RetransmitPending, every ControlRetransmitDelay until the exchange is over: one of the
\* packets gets through.  Nothing changes when they are lost.
RetransmitPending(id) ==
  /\ phase \in {"reset", "tls", "keys", "push", "token"} /\ id \in pending
  /\ Reaches(keyID, {id}, AcksOn(SendAckMax, lruAcks))
  /\ UNCHANGED <<client, net, got>>

\* The end of read: a message of the current epoch is acknowledged if it came before, if it
\* is the next one, or if it fits the window; otherwise it is left to be sent again.
Before(p)       == p.id < recvMessage \/ p.id \in recvPending
RecvWindowOK(p) == p.id - recvMessage < Capacity /\ Cardinality(recvPending) < Capacity

Deliver(p) ==
  /\ ~Before(p) /\ p.id = recvMessage
  /\ recvMessage' = recvMessage + 1
  /\ lruAcks' = TakeAcks(p.id) /\ AckSent(keyID, lruAcks')
  /\ UNCHANGED recvPending

Buffer(p) ==
  /\ ~Before(p) /\ p.id > recvMessage /\ RecvWindowOK(p)
  /\ recvPending' = recvPending \cup {p.id}
  /\ lruAcks' = TakeAcks(p.id) /\ AckSent(keyID, lruAcks')
  /\ UNCHANGED recvMessage

(* Mutant: a message that came before is not acknowledged again *)
RepeatSilently(p) == Before(p) /\ Lost /\ UNCHANGED <<recvMessage, recvPending, lruAcks>>

Repeat(p) ==
  /\ Before(p)
  /\ lruAcks' = TakeAcks(p.id) /\ AckSent(keyID, lruAcks')
  /\ UNCHANGED <<recvMessage, recvPending>>

Refuse(p) ==
  /\ ~Before(p) /\ p.id > recvMessage /\ ~RecvWindowOK(p)
  /\ Lost /\ UNCHANGED <<recvMessage, recvPending, lruAcks>>

-----------------------------------------------------------------------------
(* Reading packets.                                                        *)

Received(p) == p \in net /\ net' = net \ {p}

\* Phases in which tls.Conn reads: the handshake, the key method exchange, the wait for the
\* first push, the probe for one at the end of a rekey, after a parked record, and after a soft reset.
Reading == {"tls", "keys", "push", "token", "update", "late"}

\* waitForSoftReset reads when it has neither a reset nor a record put aside.
Watching == phase = "watch" /\ pendingSoftReset = None /\ parkedTLS = <<>>

CanRead == recvMessage \notin recvPending /\ (phase \in Reading \/ Watching)

\* A record goes to tls.Conn; the watcher parks it.
Hand(id) ==
  IF phase = "watch"
  THEN parkedTLS' = Append(parkedTLS, id) /\ UNCHANGED got
  ELSE got' = [got EXCEPT ![keyID] = Append(@, id)] /\ UNCHANGED parkedTLS

\* waitServerReset: read with no remote session takes the server's hard reset only.
ReadHardReset(p) ==
  /\ phase = "reset" /\ p.op = "hardReset" /\ Received(p)
  /\ pending' = pending \ AckIDs
  /\ Deliver(p)
  /\ phase' = "tls"
  /\ UNCHANGED <<keyID, sendMessage, parkedTLS, pendingSoftReset, accepted, got>>

\* read: a message of the current epoch.
ReadMessage(p) ==
  /\ CanRead /\ p.key = keyID /\ p.op \in {"hardReset", "control"} /\ Received(p)
  /\ pending' = pending \ AckIDs
  /\ \/ Deliver(p) /\ Hand(p.id)
     \/ (Buffer(p) \/ Repeat(p) \/ Refuse(p)) /\ UNCHANGED <<parkedTLS, got>>
  /\ UNCHANGED <<keyID, sendMessage, pendingSoftReset, accepted, phase>>

\* read: a P_ACK_V1 of the current epoch.
ReadAck ==
  /\ CanRead
  /\ pending' = pending \ AckIDs
  /\ UNCHANGED <<keyID, sendMessage, recvMessage, recvPending, lruAcks, parkedTLS>>
  /\ UNCHANGED <<pendingSoftReset, accepted, phase, server, net, got>>

\* read outside the watcher: a soft reset of the next epoch is put aside, the first one only.
ParkSoftReset(p) ==
  /\ CanRead /\ phase \in Reading /\ p.op = "softReset" /\ p.key = NextKeyID(keyID) /\ Received(p)
  /\ pendingSoftReset' = IF pendingSoftReset = None THEN p.key ELSE pendingSoftReset
  /\ UNCHANGED <<epochState, accepted, phase, server, got>>

\* read in the watcher: a soft reset of the next epoch ends the wait.
WatchSoftReset(p) ==
  /\ CanRead /\ phase = "watch" /\ p.op = "softReset" /\ p.key = NextKeyID(keyID) /\ Received(p)
  /\ accepted' = p.key /\ phase' = "late"
  /\ UNCHANGED <<epochState, pendingSoftReset, server, got>>

\* read: everything else is dropped.
Drop(p) ==
  /\ \/ phase = "reset" /\ p.op # "hardReset"
     \/ CanRead /\ p.key # (IF p.op = "softReset" THEN NextKeyID(keyID) ELSE keyID)
  /\ Received(p)
  /\ UNCHANGED <<client, server, got>>

\* read: the next message has been received already.
ReadBuffered ==
  /\ phase \in Reading \/ Watching
  /\ recvMessage \in recvPending
  /\ recvPending' = recvPending \ {recvMessage} /\ recvMessage' = recvMessage + 1
  /\ Hand(recvMessage)
  /\ UNCHANGED <<keyID, sendMessage, pending, lruAcks, pendingSoftReset, accepted, phase, server, net>>

(* Mutant: the parked records are fed after those received ahead of them *)
ReadAllReadyFirst ==
  \E gap \in recvMessage .. recvMessage + Capacity :
    LET ready == recvMessage .. gap - 1
    IN  /\ ready \subseteq recvPending /\ gap \notin recvPending
        /\ got' = [got EXCEPT ![keyID] =
                     @ \o [i \in 1 .. gap - recvMessage |-> recvMessage + i - 1] \o parkedTLS]
        /\ recvMessage' = gap /\ recvPending' = recvPending \ ready
        /\ parkedTLS' = <<>>
        /\ UNCHANGED <<keyID, sendMessage, pending, lruAcks, server, net>>

\* ReadAll and UnsafeFeed: the parked records, then those that are ready, up to the first gap.
ReadAll ==
  \E gap \in recvMessage .. recvMessage + Capacity :
    LET ready == recvMessage .. gap - 1
    IN  /\ ready \subseteq recvPending /\ gap \notin recvPending
        /\ got' = [got EXCEPT ![keyID] =
                     @ \o parkedTLS \o [i \in 1 .. gap - recvMessage |-> recvMessage + i - 1]]
        /\ recvMessage' = gap /\ recvPending' = recvPending \ ready
        /\ parkedTLS' = <<>>
        /\ UNCHANGED <<keyID, sendMessage, pending, lruAcks, server, net>>

-----------------------------------------------------------------------------
(* The client's goroutine: Handshake, then watchControl.                   *)

\* ControlConn.Write of record id, once per epoch.
Write(id) ==
  /\ sendMessage = id /\ sendMessage' = id + 1
  /\ pending' = pending \cup {id}
  /\ Sent(keyID, id, lruAcks)
  /\ UNCHANGED <<keyID, recvMessage, recvPending, lruAcks, parkedTLS>>
  /\ UNCHANGED <<pendingSoftReset, accepted, phase, net, got>>

Read(n) == Len(got[keyID]) >= n

\* startTLSEpoch: the TLS handshake is done, and what arrived meanwhile is fed to it.
TlsDone ==
  /\ phase = "tls" /\ sendMessage > Hello /\ Read(Flight)
  /\ phase' = "keys"
  /\ ReadAll /\ UNCHANGED <<pendingSoftReset, accepted>>

\* doKeyExchange: the key method messages are exchanged; the first time a push is asked for, a
\* rekey only probes for one.
KeysDone ==
  /\ phase = "keys" /\ sendMessage > Keys /\ Read(Flight + 1)
  /\ phase' = IF keyID = 0 THEN "push" ELSE "token"
  /\ UNCHANGED <<epochState, pendingSoftReset, accepted, server, net, got>>

\* readPushReply returns, and Handshake starts the watcher.
PushDone ==
  /\ phase = "push" /\ sendMessage > Request /\ Read(Needed(0))
  /\ phase' = "watch"
  /\ UNCHANGED <<epochState, pendingSoftReset, accepted, server, net, got>>

\* readTokenPushReply returns, with a push or by its time-out.
ProbeDone ==
  /\ phase \in {"token", "update"}
  /\ phase' = "watch"
  /\ UNCHANGED <<epochState, pendingSoftReset, accepted, server, net, got>>

(* Mutant: the reset that was put aside is taken as it is *)
TakeAnyParked ==
  /\ phase = "watch" /\ pendingSoftReset # None
  /\ pendingSoftReset' = None /\ accepted' = pendingSoftReset /\ phase' = "late"
  /\ ReadAll

\* waitForSoftReset with a reset put aside: it is taken only if it opens the next epoch, and
\* what has arrived of the old epoch is fed to its TLS session.
TakeParked ==
  /\ phase = "watch" /\ pendingSoftReset = NextKeyID(keyID)
  /\ pendingSoftReset' = None /\ accepted' = pendingSoftReset /\ phase' = "late"
  /\ ReadAll

DropParked ==
  /\ phase = "watch" /\ pendingSoftReset \notin {None, NextKeyID(keyID)}
  /\ pendingSoftReset' = None
  /\ UNCHANGED <<epochState, accepted, phase, server, net, got>>

\* consumeParkedRekeyPush: the parked record is fed to tls.Conn, which reads on for a while.
ConsumeParked ==
  /\ phase = "watch" /\ parkedTLS # <<>>
  /\ phase' = "update"
  /\ ReadAll /\ UNCHANGED <<pendingSoftReset, accepted>>

(* Mutant: the acknowledgements of the old epoch are kept *)
BeginEpochKeepingAcks(k) ==
  /\ keyID' = k /\ sendMessage' = 1 /\ recvMessage' = 1
  /\ pending' = {0} /\ recvPending' = {} /\ lruAcks' = <<0>> \o lruAcks /\ parkedTLS' = <<>>

(* Mutant: the reset of the server is not marked as received *)
BeginEpochUnmarked(k) ==
  /\ keyID' = k /\ sendMessage' = 1 /\ recvMessage' = 0
  /\ pending' = {0} /\ recvPending' = {} /\ lruAcks' = <<0>> /\ parkedTLS' = <<>>

\* beginEpochLocked, and MarkReceived of the server's reset.
BeginEpoch(k) ==
  /\ keyID' = k /\ sendMessage' = 1 /\ recvMessage' = 1
  /\ pending' = {0} /\ recvPending' = {} /\ lruAcks' = <<0>> /\ parkedTLS' = <<>>

\* renegotiate: AdoptKeyID, MarkReceived and QueueAck of the server's reset, SendSoftReset.
Renegotiate ==
  /\ phase = "late"
  /\ BeginEpoch(accepted)
  /\ Sent(accepted, 0, lruAcks')
  /\ accepted' = None /\ phase' = "tls"
  /\ UNCHANGED <<pendingSoftReset, net, got>>

\* A deadline passes or the socket fails: Handshake returns the error, and in every later phase
\* failControl closes the channel.
TimeOut ==
  /\ phase # "closed"
  /\ phase' = "closed"
  /\ UNCHANGED <<epochState, pendingSoftReset, accepted, server, net, got>>

-----------------------------------------------------------------------------
(* The server, external.                                                   *)

Sends(p) == ToClient(p) /\ UNCHANGED <<client, got>>

\* The records of the handshake answer the client's, its key method message the client's, the
\* first push the request.
Asked ==
  IF 0 .. Hello \subseteq has
  THEN Flight + Cardinality(has \ (0 .. Hello))
  ELSE 0

\* What it has done unasked.
Spent == serverKey + Cardinality({r \in Epoch \X (1 .. Needed(0) + Unasked) :
                                    r[2] \in Needed(r[1]) + 1 .. written[r[1]]})

ServerWrite ==
  /\ 0 \notin unacked
  /\ written[serverKey] < Asked \/ (written[serverKey] >= Needed(serverKey) /\ Spent < Unasked)
  /\ LET id == written[serverKey] + 1
     IN  /\ written' = [written EXCEPT ![serverKey] = id]
         /\ unacked' = unacked \cup {id}
         /\ Sends(Message(serverKey, id))
  /\ UNCHANGED <<serverKey, has>>

\* Its hard reset answers the client's.
ServerRetransmit(id) ==
  /\ id \in unacked /\ (serverKey > 0 \/ 0 \in has)
  /\ Message(serverKey, id) \notin net
  /\ net' = net \cup {Message(serverKey, id)} /\ Flying(net')
  /\ UNCHANGED <<client, server, got>>

\* A rekey; pushes of the old epoch may be given up.
ServerSoftReset ==
  /\ serverKey < MaxEpoch /\ Spent < Unasked /\ written[serverKey] >= Needed(serverKey)
  /\ \A id \in unacked : id > Needed(serverKey)
  /\ serverKey' = NextKeyID(serverKey) /\ has' = {} /\ unacked' = {0}
  /\ Sends(Message(serverKey', 0))
  /\ UNCHANGED written

-----------------------------------------------------------------------------
\* The client has sent its hard reset, which has not arrived.
Init ==
  /\ keyID = 0 /\ sendMessage = 1 /\ recvMessage = 0
  /\ pending = {0} /\ recvPending = {} /\ lruAcks = <<>> /\ parkedTLS = <<>>
  /\ pendingSoftReset = None /\ accepted = None /\ phase = "reset"
  /\ serverKey = 0 /\ has = {} /\ unacked = {0} /\ net = {}
  /\ written = [e \in Epoch |-> 0] /\ got = [e \in Epoch |-> <<>>]

ReadPacket(p) ==
  \/ ReadHardReset(p) \/ ReadMessage(p)
  \/ ParkSoftReset(p) \/ WatchSoftReset(p) \/ Drop(p)

ClientStep ==
  \/ ReadBuffered \/ (phase = "tls" /\ Write(Hello)) \/ (phase = "keys" /\ Write(Keys))
  \/ (phase = "push" /\ Write(Request)) \/ TlsDone \/ KeysDone \/ PushDone \/ ProbeDone
  \/ TakeParked \/ DropParked \/ ConsumeParked \/ Renegotiate

Network ==
  \/ \E p \in net : ReadPacket(p)
  \/ ReadAck
  \/ \E id \in pending : RetransmitPending(id)
  \/ \E id \in unacked : ServerRetransmit(id)

Next ==
  /\ phase # "closed"
  /\ ClientStep \/ Network \/ TimeOut \/ ServerWrite \/ ServerSoftReset

Spec == Init /\ [][Next]_vars

\* The goroutines run, and a datagram that is sent again and again gets through now and then,
\* the oldest one of either side at least.
Oldest(ids) == CHOOSE id \in ids : \A other \in ids : id <= other

AckThrough ==
  unacked # {} /\ \E p \in net :
    p = Message(serverKey, Oldest(unacked)) /\ ReadPacket(p) /\ (keyID = serverKey => p.id \notin unacked')

Fairness ==
  /\ WF_vars(ClientStep) /\ WF_vars(\E p \in net : ReadPacket(p)) /\ WF_vars(ServerWrite)
  /\ \A id \in {0, Hello, Keys, Request} : WF_vars(id \in pending /\ RetransmitPending(id))
  /\ SF_vars(unacked # {} /\ ServerRetransmit(Oldest(unacked))) /\ SF_vars(AckThrough)

FairSpec == Spec /\ Fairness

-----------------------------------------------------------------------------
(* Properties.                                                             *)

\* What the client's TLS session of an epoch reads is what the server's session of that epoch
\* wrote, in order and once, whatever is lost, repeated, reordered, parked or received ahead,
\* and nothing of one epoch is fed to the session of another.
Stream == INSTANCE OrderedStream
StreamInOrder == Stream!Spec

\* A message the server no longer keeps has been received: an acknowledgement is neither given
\* for a message that was refused nor carried over from one epoch to the next, whose message
\* IDs begin again.
AckedWasReceived ==
  \A id \in 0 .. written[serverKey] :
    id \notin unacked => keyID = serverKey /\ (id < recvMessage \/ id \in recvPending)

\* The reliable state starts again once for every reset of the server, and for the next epoch:
\* a copy of a reset that was acted on, put aside in the meantime, does nothing.
OneEpochPerReset ==
  [][recvMessage' < recvMessage \/ keyID' # keyID => keyID' = keyID + 1 /\ keyID' = serverKey]_vars

\* Every handshake and rekey ends, in the new epoch or with the channel closed.
RekeysEnd ==
  \A e \in Epoch :
    serverKey = e ~> (phase = "closed" \/ keyID > e
                      \/ (keyID = e /\ phase \in {"token", "watch", "update", "late"}))

\* The server gets its acknowledgements, also from a client that had received the message
\* before and whose first acknowledgement was lost.
MessagesAcknowledged == unacked # {} ~> (unacked = {} \/ phase = "closed")
=============================================================================
