-------------------------- MODULE VpnControlProofs --------------------------
(***************************************************************************)
(* The safety of the control channel for every number of rekeys below the  *)
(* mask, every window, every number of acknowledgements on a packet and    *)
(* every length of a handshake.  The inductive invariant VpnInv says where *)
(* the two epochs may stand to each other (KeyInv), that only what was     *)
(* received is acknowledged (AckInv), and that what was delivered is with  *)
(* the TLS session or parked right behind (StreamInv); with it every step  *)
(* is a step of OrderedStream or leaves its variables alone.               *)
(***************************************************************************)
EXTENDS VpnControl, SequenceTheorems, TLAPS

LEMMA FunctionIsSeq ==
  ASSUME NEW S, NEW n \in Nat, NEW f \in [1 .. n -> S]
  PROVE  f \in Seq(S) /\ Len(f) = n
<1>1. f \in Seq(S)
  BY SeqDef
<1>2. Len(f) \in Nat /\ DOMAIN f = 1 .. Len(f)
  BY <1>1, LenProperties
<1>3. 1 .. Len(f) = 1 .. n
  BY <1>2
<1>4. Len(f) = n
  BY <1>2, <1>3
<1> QED
  BY <1>1, <1>4

\* Key IDs do not wrap within the bound.
LEMMA NextKey ==
  ASSUME NEW k \in Epoch PROVE NextKeyID(k) = k + 1 /\ k + 1 # None
<1>1. k \in Nat /\ k + 1 \in 0 .. KeyIDMask /\ KeyIDMask \in Nat
  BY BoundsAssumption DEF Epoch
<1>2. (k + 1) % (KeyIDMask + 1) = k + 1
  BY <1>1
<1> QED
  BY <1>1, <1>2 DEF NextKeyID, None

\* Acknowledging an ID keeps the others, but for the oldest ones.
LEMMA TakeAcksKeeps ==
  ASSUME TypeOK, NEW id \in Nat
  PROVE  /\ TakeAcks(id) \in Seq(Nat) /\ Len(TakeAcks(id)) <= AckSize
         /\ \A i \in 1 .. Len(TakeAcks(id)) :
              TakeAcks(id)[i] = id \/ \E j \in 1 .. Len(lruAcks) : TakeAcks(id)[i] = lruAcks[j]
<1> DEFINE old == {i \in 1 .. Len(lruAcks) : lruAcks[i] = id}
           n   == IF old = {} THEN Least(Len(lruAcks) + 1, AckSize) ELSE Len(lruAcks)
           e(j) == IF j = 1 THEN id
                   ELSE IF \E i \in old : i < j THEN lruAcks[j] ELSE lruAcks[j - 1]
<1>1. lruAcks \in Seq(Nat) /\ Len(lruAcks) \in Nat /\ Len(lruAcks) <= AckSize
  BY LenProperties DEF TypeOK
<1>2. n \in Nat /\ n <= AckSize /\ n <= Len(lruAcks) + 1 /\ (old # {} => n = Len(lruAcks))
  BY <1>1, BoundsAssumption DEF Least
<1>3. ASSUME NEW j \in 1 .. n PROVE e(j) = id \/ \E i \in 1 .. Len(lruAcks) : e(j) = lruAcks[i]
  <2>1. CASE j = 1
    BY <2>1
  <2>2. CASE j # 1 /\ \E i \in old : i < j
    <3>1. j \in 1 .. Len(lruAcks)
      BY <1>1, <1>2, <2>2
    <3> QED
      BY <2>2, <3>1
  <2>3. CASE j # 1 /\ ~(\E i \in old : i < j)
    <3>1. j - 1 \in 1 .. Len(lruAcks)
      BY <1>1, <1>2, <2>3
    <3> QED
      BY <2>3, <3>1
  <2> QED
    BY <2>1, <2>2, <2>3
<1>4. \A j \in 1 .. n : e(j) \in Nat
  BY <1>1, <1>3, ElementOfSeq
<1>5. TakeAcks(id) = [j \in 1 .. n |-> e(j)]
  BY DEF TakeAcks
<1> HIDE DEF n, e
<1>6. TakeAcks(id) \in [1 .. n -> Nat]
  BY <1>4, <1>5
<1>7. TakeAcks(id) \in Seq(Nat) /\ Len(TakeAcks(id)) = n
  BY <1>2, <1>6, FunctionIsSeq
<1> QED
  BY <1>2, <1>3, <1>5, <1>7

(***************************************************************************)
(* Types.                                                                  *)
(***************************************************************************)

\* What a packet to the server does to it.
LEMMA ServerTypes ==
  ASSUME TypeOK, NEW ids \in SUBSET (0 .. Request), NEW acks, NEW k,
         Lost \/ Reaches(k, ids, acks)
  PROVE  /\ serverKey' \in Epoch /\ has' \subseteq 0 .. Request /\ unacked' \subseteq Nat
         /\ written' \in [Epoch -> Nat]
  BY DEF TypeOK, Lost, Reaches, server

\* What handing a record over does to the two streams.
LEMMA HandTypes ==
  ASSUME TypeOK, NEW id \in Nat, Hand(id)
  PROVE  parkedTLS' \in Seq(Nat) /\ got' \in [Epoch -> Seq(Nat)]
<1>1. CASE phase = "watch"
  <2>1. parkedTLS \in Seq(Nat)
    BY DEF TypeOK
  <2>2. Append(parkedTLS, id) \in Seq(Nat)
    BY <2>1, AppendProperties
  <2> QED
    BY <1>1, <2>2 DEF TypeOK, Hand
<1>2. CASE phase # "watch"
  <2>1. got[keyID] \in Seq(Nat)
    BY DEF TypeOK
  <2>2. Append(got[keyID], id) \in Seq(Nat)
    BY <2>1, AppendProperties
  <2> QED
    BY <1>2, <2>2 DEF TypeOK, Hand
<1> QED
  BY <1>1, <1>2

LEMMA MessageTypes ==
  ASSUME TypeOK, NEW p, p.id \in Nat, Deliver(p) \/ Buffer(p) \/ Repeat(p) \/ Refuse(p)
  PROVE  /\ recvMessage' \in Nat /\ recvPending' \subseteq Nat
         /\ lruAcks' \in Seq(Nat) /\ Len(lruAcks') <= AckSize
         /\ serverKey' \in Epoch /\ has' \subseteq 0 .. Request /\ unacked' \subseteq Nat
         /\ written' \in [Epoch -> Nat]
<1>1. CASE Refuse(p)
  BY <1>1, ServerTypes DEF Refuse, TypeOK, Lost, server
<1>2. CASE Deliver(p) \/ Buffer(p) \/ Repeat(p)
  <2>1. lruAcks' = TakeAcks(p.id) /\ AckSent(keyID, lruAcks')
    BY <1>2 DEF Deliver, Buffer, Repeat
  <2>2. lruAcks' \in Seq(Nat) /\ Len(lruAcks') <= AckSize
    BY <2>1, TakeAcksKeeps
  <2>3. /\ serverKey' \in Epoch /\ has' \subseteq 0 .. Request /\ unacked' \subseteq Nat
        /\ written' \in [Epoch -> Nat]
    BY <2>1, ServerTypes DEF AckSent
  <2>4. recvMessage' \in Nat /\ recvPending' \subseteq Nat
    <3>1. CASE Deliver(p)
      BY <3>1 DEF Deliver, TypeOK
    <3>2. CASE Buffer(p)
      BY <3>2 DEF Buffer, TypeOK
    <3>3. CASE Repeat(p)
      BY <3>3 DEF Repeat, TypeOK
    <3> QED
      BY <1>2, <3>1, <3>2, <3>3
  <2> QED
    BY <2>2, <2>3, <2>4
<1> QED
  BY <1>1, <1>2

\* Where the packets to the client come from.
NetInv ==
  \A p \in net : \E e \in 0 .. serverKey : \E id \in 0 .. written[e] : p = Message(e, id)

LEMMA PacketTypes ==
  ASSUME TypeOK, NetInv, NEW p \in net
  PROVE  p.key \in 0 .. serverKey /\ p.key \in Epoch /\ p.id \in 0 .. written[p.key] /\ p.id \in Nat
         /\ p.op = Opcode(p.key, p.id) /\ written[p.key] \in Nat
<1>0. PICK e \in 0 .. serverKey : \E id \in 0 .. written[e] : p = Message(e, id)
  BY DEF NetInv
<1>1. PICK id \in 0 .. written[e] : p = Message(e, id)
  BY <1>0
<1>2. e \in Epoch /\ written[e] \in Nat
  BY BoundsAssumption DEF TypeOK, Epoch
<1> QED
  BY <1>1, <1>2 DEF Message

LEMMA ReadAllTypes ==
  ASSUME TypeOK, ReadAll
  PROVE  /\ recvMessage' \in Nat /\ recvPending' \subseteq Nat /\ parkedTLS' \in Seq(Nat)
         /\ got' \in [Epoch -> Seq(Nat)]
<1>1. PICK gap \in recvMessage .. recvMessage + Capacity :
        /\ got' = [got EXCEPT ![keyID] =
                     @ \o parkedTLS \o [i \in 1 .. gap - recvMessage |-> recvMessage + i - 1]]
        /\ recvMessage' = gap /\ recvPending' = recvPending \ (recvMessage .. gap - 1)
        /\ parkedTLS' = <<>>
  BY DEF ReadAll
<1> DEFINE ready == [i \in 1 .. gap - recvMessage |-> recvMessage + i - 1]
<1>2. recvMessage \in Nat /\ gap \in Nat /\ gap - recvMessage \in Nat
  BY BoundsAssumption DEF TypeOK
<1>3. ready \in [1 .. gap - recvMessage -> Nat]
  BY <1>2
<1>4. ready \in Seq(Nat)
  BY <1>2, <1>3, FunctionIsSeq
<1>5. got[keyID] \in Seq(Nat) /\ parkedTLS \in Seq(Nat)
  BY DEF TypeOK
<1>6. got[keyID] \o parkedTLS \in Seq(Nat)
  BY <1>5, ConcatProperties
<1> HIDE DEF ready
<1>7. (got[keyID] \o parkedTLS) \o ready \in Seq(Nat)
  BY <1>4, <1>6, ConcatProperties
<1>8. got' = [got EXCEPT ![keyID] = (got[keyID] \o parkedTLS) \o ready]
  BY <1>1 DEF TypeOK, ready
<1>9. parkedTLS' \in Seq(Nat)
  BY <1>1, EmptySeq
<1> QED
  BY <1>1, <1>2, <1>7, <1>8, <1>9 DEF TypeOK

\* The server is at most one epoch ahead, and what it does not have of its epoch the client has
\* not sent yet; a reset that the client acts on opens that epoch.
KeyInv ==
  /\ \/ keyID = serverKey
     \/ keyID + 1 = serverKey /\ has = {} /\ unacked = {0} /\ written[serverKey] = 0
  /\ phase = "late" => accepted = keyID + 1 /\ accepted = serverKey
  /\ pendingSoftReset \in {None} \cup 0 .. serverKey
  /\ \A e \in Epoch : e > serverKey => written[e] = 0
  /\ unacked \subseteq 0 .. written[serverKey]
  /\ NetInv

LEMMA TypesInit == Init => TypeOK
<1> SUFFICES ASSUME Init PROVE TypeOK
  OBVIOUS
<1>1. <<>> \in Seq(Nat) /\ Len(<<>>) = 0
  BY EmptySeq
<1>2. 0 \in Epoch
  BY BoundsAssumption DEF Epoch
<1>3. got \in [Epoch -> Seq(Nat)] /\ written \in [Epoch -> Nat]
  BY <1>1 DEF Init
<1> QED
  BY <1>1, <1>2, <1>3, BoundsAssumption DEF Init, TypeOK, Phases, Request

\* What a step leaves alone keeps its type.
LEMMA TypesRest ==
  ASSUME TypeOK
  PROVE  /\ UNCHANGED server => /\ serverKey' \in Epoch /\ has' \subseteq 0 .. Request
                                /\ unacked' \subseteq Nat /\ written' \in [Epoch -> Nat]
         /\ UNCHANGED epochState =>
              /\ keyID' \in Epoch /\ sendMessage' \in 1 .. Request + 1 /\ recvMessage' \in Nat
              /\ pending' \subseteq 0 .. Request /\ recvPending' \subseteq Nat
              /\ lruAcks' \in Seq(Nat) /\ Len(lruAcks') <= AckSize /\ parkedTLS' \in Seq(Nat)
  BY DEF TypeOK, server, epochState

LEMMA TypesRead ==
  ASSUME TypeOK, NetInv, NEW p \in net, ReadPacket(p)
  PROVE  TypeOK'
<1>1. p.id \in Nat /\ p.key \in Epoch
  BY PacketTypes
<1>2. CASE ReadHardReset(p)
  <2>1. /\ recvMessage' \in Nat /\ recvPending' \subseteq Nat
        /\ lruAcks' \in Seq(Nat) /\ Len(lruAcks') <= AckSize
        /\ serverKey' \in Epoch /\ has' \subseteq 0 .. Request /\ unacked' \subseteq Nat
        /\ written' \in [Epoch -> Nat]
    BY <1>1, <1>2, MessageTypes DEF ReadHardReset
  <2> QED
    BY <1>2, <2>1 DEF ReadHardReset, TypeOK, Phases
<1>3. CASE ReadMessage(p)
  <2>1. /\ recvMessage' \in Nat /\ recvPending' \subseteq Nat
        /\ lruAcks' \in Seq(Nat) /\ Len(lruAcks') <= AckSize
        /\ serverKey' \in Epoch /\ has' \subseteq 0 .. Request /\ unacked' \subseteq Nat
        /\ written' \in [Epoch -> Nat]
    BY <1>1, <1>3, MessageTypes DEF ReadMessage
  <2>2. parkedTLS' \in Seq(Nat) /\ got' \in [Epoch -> Seq(Nat)]
    <3>1. CASE Hand(p.id)
      BY <1>1, <3>1, HandTypes
    <3>2. CASE UNCHANGED <<parkedTLS, got>>
      BY <3>2 DEF TypeOK
    <3> QED
      BY <1>3, <3>1, <3>2 DEF ReadMessage
  <2> QED
    BY <1>3, <2>1, <2>2 DEF ReadMessage, TypeOK
<1>4. CASE ParkSoftReset(p)
  BY <1>1, <1>4, TypesRest DEF ParkSoftReset, TypeOK
<1>5. CASE WatchSoftReset(p)
  BY <1>1, <1>5, TypesRest DEF WatchSoftReset, TypeOK, Phases
<1>6. CASE Drop(p)
  BY <1>6, TypesRest DEF Drop, client, TypeOK
<1> QED
  BY <1>2, <1>3, <1>4, <1>5, <1>6 DEF ReadPacket

LEMMA TypesWrite ==
  ASSUME TypeOK, NEW id \in {Hello, Keys, Request}, Write(id)
  PROVE  TypeOK'
<1>1. id \in 0 .. Request /\ id + 1 \in 1 .. Request + 1
  BY DEF Hello, Keys, Request
<1>2. /\ serverKey' \in Epoch /\ has' \subseteq 0 .. Request /\ unacked' \subseteq Nat
      /\ written' \in [Epoch -> Nat]
  BY <1>1, ServerTypes DEF Write, Sent
<1> QED
  BY <1>1, <1>2 DEF Write, TypeOK

LEMMA TypesClient ==
  ASSUME TypeOK, KeyInv, ClientStep
  PROVE  TypeOK'
<1>1. CASE ReadBuffered
  <2>1. parkedTLS' \in Seq(Nat) /\ got' \in [Epoch -> Seq(Nat)]
    BY <1>1, HandTypes DEF ReadBuffered, TypeOK
  <2> QED
    <3>1. /\ UNCHANGED <<keyID, sendMessage, pending, lruAcks, pendingSoftReset, accepted, phase>>
          /\ UNCHANGED server /\ recvMessage' = recvMessage + 1 /\ recvPending' \subseteq recvPending
      BY <1>1 DEF ReadBuffered
    <3>2. /\ serverKey' \in Epoch /\ has' \subseteq 0 .. Request /\ unacked' \subseteq Nat
          /\ written' \in [Epoch -> Nat]
      BY <3>1, TypesRest
    <3>3. recvMessage' \in Nat /\ recvPending' \subseteq Nat
      BY <3>1 DEF TypeOK
    <3>4. /\ keyID' \in Epoch /\ sendMessage' \in 1 .. Request + 1 /\ pending' \subseteq 0 .. Request
          /\ lruAcks' \in Seq(Nat) /\ Len(lruAcks') <= AckSize
          /\ pendingSoftReset' \in Epoch \cup {None} /\ accepted' \in Epoch \cup {None}
          /\ phase' \in Phases
      BY <3>1 DEF TypeOK
    <3> QED
      BY <2>1, <3>2, <3>3, <3>4 DEF TypeOK
<1>2. CASE \E id \in {Hello, Keys, Request} : Write(id)
  BY <1>2, TypesWrite
<1>3. ASSUME ReadAll, phase' \in Phases, pendingSoftReset' \in Epoch \cup {None},
             accepted' \in Epoch \cup {None}
      PROVE  TypeOK'
  <2>1. UNCHANGED <<keyID, sendMessage, pending, lruAcks, server, net>>
    BY <1>3 DEF ReadAll
  <2> QED
    BY <1>3, <2>1, ReadAllTypes, TypesRest DEF TypeOK
<1>4. CASE TlsDone \/ ConsumeParked
  BY <1>3, <1>4 DEF TlsDone, ConsumeParked, TypeOK, Phases
<1>5. CASE TakeParked
  BY <1>3, <1>5 DEF TakeParked, TypeOK, Phases
<1>6. CASE KeysDone \/ PushDone \/ ProbeDone
  BY <1>6, TypesRest DEF KeysDone, PushDone, ProbeDone, TypeOK, Phases
<1>7. CASE DropParked
  BY <1>7, TypesRest DEF DropParked, TypeOK
<1>8. CASE Renegotiate
  <2>3. accepted \in Epoch
    BY <1>8 DEF Renegotiate, KeyInv, TypeOK
  <2>1. /\ serverKey' \in Epoch /\ has' \subseteq 0 .. Request /\ unacked' \subseteq Nat
        /\ written' \in [Epoch -> Nat]
    BY <1>8, ServerTypes DEF Renegotiate, Sent, Request
  <2>2. <<0>> \in Seq(Nat) /\ Len(<<0>>) = 1 /\ <<>> \in Seq(Nat)
    OBVIOUS
  <2>4. /\ keyID' = accepted /\ sendMessage' = 1 /\ recvMessage' = 1 /\ pending' = {0}
        /\ recvPending' = {} /\ lruAcks' = <<0>> /\ parkedTLS' = <<>>
        /\ accepted' = None /\ phase' = "tls" /\ UNCHANGED <<pendingSoftReset, got>>
    BY <1>8 DEF Renegotiate, BeginEpoch
  <2>5. sendMessage' \in 1 .. Request + 1 /\ pending' \subseteq 0 .. Request
    BY <2>4 DEF Request
  <2>6. lruAcks' \in Seq(Nat) /\ Len(lruAcks') <= AckSize /\ parkedTLS' \in Seq(Nat)
    BY <2>2, <2>4, BoundsAssumption
  <2>7. keyID' \in Epoch /\ accepted' \in Epoch \cup {None} /\ phase' \in Phases
    BY <2>3, <2>4 DEF Phases
  <2> QED
    BY <2>1, <2>4, <2>5, <2>6, <2>7 DEF TypeOK
<1> QED
  BY <1>1, <1>2, <1>4, <1>5, <1>6, <1>7, <1>8 DEF ClientStep

LEMMA TypesStep ==
  ASSUME TypeOK, KeyInv, Next
  PROVE  TypeOK'
<1>1. CASE ClientStep
  BY <1>1, TypesClient
<1>2. ASSUME NEW p \in net, ReadPacket(p) PROVE TypeOK'
  BY <1>2, TypesRead DEF KeyInv
<1>3. CASE ReadAck
  BY <1>3, TypesRest DEF ReadAck, TypeOK
<1>4. ASSUME NEW id \in pending, RetransmitPending(id) PROVE TypeOK'
  <2>1. /\ serverKey' \in Epoch /\ has' \subseteq 0 .. Request /\ unacked' \subseteq Nat
        /\ written' \in [Epoch -> Nat]
    BY <1>4, ServerTypes DEF RetransmitPending, TypeOK
  <2> QED
    BY <1>4, <2>1, TypesRest DEF RetransmitPending, client, TypeOK
<1>5. ASSUME NEW id \in unacked, ServerRetransmit(id) PROVE TypeOK'
  BY <1>5, TypesRest DEF ServerRetransmit, client, TypeOK
<1>6. CASE TimeOut
  BY <1>6, TypesRest DEF TimeOut, TypeOK, Phases
<1>7. CASE ServerWrite
  <2>1. written[serverKey] + 1 \in Nat
    BY DEF TypeOK
  <2>2. written' \in [Epoch -> Nat] /\ unacked' \subseteq Nat /\ UNCHANGED <<serverKey, has>>
    BY <1>7, <2>1 DEF ServerWrite, TypeOK
  <2>3. UNCHANGED client /\ UNCHANGED got
    BY <1>7 DEF ServerWrite, Sends
  <2> QED
    BY <2>2, <2>3 DEF client, epochState, TypeOK
<1>8. CASE ServerSoftReset
  <2>1. serverKey + 1 \in Epoch
    BY <1>8, BoundsAssumption DEF ServerSoftReset, TypeOK, Epoch
  <2> QED
    <3>1. /\ serverKey' = serverKey + 1 /\ has' = {} /\ unacked' = {0} /\ UNCHANGED written
          /\ UNCHANGED client /\ UNCHANGED got
      BY <1>8, NextKey DEF ServerSoftReset, Sends, TypeOK
    <3> QED
      BY <2>1, <3>1 DEF client, epochState, TypeOK
<1> QED
  BY <1>1, <1>2, <1>3, <1>4, <1>5, <1>6, <1>7, <1>8 DEF Next, Network

(***************************************************************************)
(* Key epochs.                                                             *)
(***************************************************************************)

EpochsAlign ==
  \/ keyID = serverKey
  \/ keyID + 1 = serverKey /\ has = {} /\ unacked = {0} /\ written[serverKey] = 0

\* A packet of the client's epoch reaches a server of that epoch only.
LEMMA Reached ==
  ASSUME TypeOK, KeyInv, NEW ids, NEW acks, Lost \/ Reaches(keyID, ids, acks), keyID' = keyID
  PROVE  UNCHANGED <<serverKey, written>> /\ unacked' \subseteq unacked /\ EpochsAlign'
<1>1. CASE Lost
  BY <1>1 DEF Lost, server, KeyInv, EpochsAlign
<1>2. CASE Reaches(keyID, ids, acks)
  BY <1>2 DEF Reaches, EpochsAlign
<1> QED
  BY <1>1, <1>2

LEMMA NetGrows ==
  ASSUME TypeOK, NetInv, serverKey' \in Epoch, serverKey <= serverKey',
         \A e \in 0 .. serverKey : written[e] <= written'[e],
         written' \in [Epoch -> Nat],
         NEW e0 \in 0 .. serverKey', NEW id0 \in 0 .. written'[e0],
         net' \subseteq net \cup {Message(e0, id0)}
  PROVE  NetInv'
<1> SUFFICES ASSUME NEW p \in net'
             PROVE  \E e \in 0 .. serverKey' : \E id \in 0 .. written'[e] : p = Message(e, id)
  BY DEF NetInv, Message, Opcode
<1>1. CASE p \in net
  <2>1. PICK e \in 0 .. serverKey : \E id \in 0 .. written[e] : p = Message(e, id)
    BY <1>1 DEF NetInv
  <2>2. PICK id \in 0 .. written[e] : p = Message(e, id)
    BY <2>1
  <2>3. e \in 0 .. serverKey' /\ e \in Epoch
    BY BoundsAssumption DEF TypeOK, Epoch
  <2>4. id \in 0 .. written'[e]
    <3>1. written[e] \in Nat /\ written'[e] \in Nat
      BY <2>3 DEF TypeOK
    <3>2. written[e] <= written'[e]
      OBVIOUS
    <3> QED
      BY <3>1, <3>2
  <2> QED
    BY <2>2, <2>3, <2>4
<1>2. CASE p = Message(e0, id0)
  BY <1>2
<1> QED
  BY <1>1, <1>2

\* A step that takes packets from the network at most, and leaves the epochs alone.
LEMMA KeysKept ==
  ASSUME TypeOK, KeyInv, EpochsAlign', UNCHANGED <<keyID, serverKey, written>>, net' \subseteq net,
         unacked' \subseteq unacked,
         phase' = "late" => accepted' = keyID + 1 /\ accepted' = serverKey,
         pendingSoftReset' \in {None} \cup 0 .. serverKey
  PROVE  KeyInv'
<1>1. NetInv'
  BY DEF KeyInv, NetInv, Message, Opcode
<1> QED
  BY <1>1 DEF KeyInv, EpochsAlign

LEMMA KeysRead ==
  ASSUME TypeOK, KeyInv, NEW p \in net, ReadPacket(p)
  PROVE  KeyInv'
<1>0. /\ p.key \in 0 .. serverKey /\ keyID \in Epoch /\ NextKeyID(keyID) = keyID + 1
      /\ EpochsAlign /\ keyID \in Nat /\ serverKey \in Nat
  <2>1. p.key \in 0 .. serverKey
    BY PacketTypes DEF KeyInv
  <2> QED
    <3>1. keyID \in Epoch /\ keyID \in Nat /\ serverKey \in Nat /\ EpochsAlign
      BY BoundsAssumption DEF KeyInv, TypeOK, EpochsAlign, Epoch
    <3> QED
      BY <2>1, <3>1, NextKey
<1>1. CASE ReadHardReset(p) \/ ReadMessage(p)
  <2>1. Deliver(p) \/ Buffer(p) \/ Repeat(p) \/ Refuse(p)
    BY <1>1 DEF ReadHardReset, ReadMessage
  <2>2. Lost \/ Reaches(keyID, {}, AcksOn(AckOnlyMax, lruAcks'))
    BY <2>1 DEF Deliver, Buffer, Repeat, Refuse, AckSent
  <2>3. keyID' = keyID
    BY <1>1 DEF ReadHardReset, ReadMessage
  <2>4. UNCHANGED <<serverKey, written>> /\ unacked' \subseteq unacked /\ EpochsAlign'
    BY <2>2, <2>3, Reached
  <2>5. /\ net' \subseteq net /\ UNCHANGED <<pendingSoftReset, accepted>>
        /\ phase' = "late" => phase = "late"
    BY <1>1 DEF ReadHardReset, ReadMessage, Received
  <2> QED
    BY <2>3, <2>4, <2>5, KeysKept DEF KeyInv
<1>2. CASE ParkSoftReset(p)
  BY <1>0, <1>2, KeysKept DEF ParkSoftReset, Received, epochState, server, EpochsAlign, KeyInv
<1>3. CASE WatchSoftReset(p)
  <2>1. accepted' = keyID + 1 /\ accepted' = serverKey
    BY <1>0, <1>3 DEF WatchSoftReset, EpochsAlign
  <2> QED
    BY <1>0, <1>3, <2>1, KeysKept
       DEF WatchSoftReset, Received, epochState, server, EpochsAlign, KeyInv
<1>4. CASE Drop(p)
  BY <1>0, <1>4, KeysKept DEF Drop, Received, client, epochState, server, EpochsAlign, KeyInv
<1> QED
  BY <1>1, <1>2, <1>3, <1>4 DEF ReadPacket

LEMMA KeysClient ==
  ASSUME TypeOK, KeyInv, ClientStep
  PROVE  KeyInv'
<1>0. /\ keyID \in Epoch /\ NextKeyID(keyID) = keyID + 1 /\ keyID + 1 # None
      /\ EpochsAlign /\ keyID \in Nat /\ serverKey \in Nat
  <2>1. keyID \in Epoch /\ serverKey \in Epoch /\ EpochsAlign
    BY DEF KeyInv, TypeOK, EpochsAlign
  <2>2. keyID \in Nat /\ serverKey \in Nat /\ keyID + 1 # None
    BY <2>1, BoundsAssumption DEF Epoch, None
  <2> QED
    BY <2>1, <2>2, NextKey
<1>1. CASE ReadBuffered
  BY <1>0, <1>1, KeysKept DEF ReadBuffered, server, EpochsAlign, KeyInv
<1>2. ASSUME NEW id \in {Hello, Keys, Request}, Write(id) PROVE KeyInv'
  <2>1. UNCHANGED <<serverKey, written>> /\ unacked' \subseteq unacked /\ EpochsAlign'
    BY <1>2, Reached DEF Write, Sent
  <2> QED
    BY <1>2, <2>1, KeysKept DEF Write, KeyInv
<1>3. CASE TlsDone \/ ConsumeParked
  BY <1>0, <1>3, KeysKept DEF TlsDone, ConsumeParked, ReadAll, server, EpochsAlign, KeyInv
<1>4. CASE TakeParked
  <2>1. accepted' = keyID + 1 /\ accepted' = serverKey
    BY <1>0, <1>4 DEF TakeParked, EpochsAlign, KeyInv
  <2> QED
    BY <1>0, <1>4, <2>1, KeysKept DEF TakeParked, ReadAll, server, EpochsAlign, KeyInv
<1>5. CASE KeysDone \/ PushDone \/ ProbeDone \/ DropParked
  BY <1>0, <1>5, KeysKept
     DEF KeysDone, PushDone, ProbeDone, DropParked, epochState, server, EpochsAlign, KeyInv
<1>6. CASE Renegotiate
  <2>1. keyID' = serverKey /\ accepted = serverKey /\ net' = net /\ phase' = "tls"
        /\ UNCHANGED pendingSoftReset
    BY <1>6 DEF Renegotiate, BeginEpoch, KeyInv
  <2>2. UNCHANGED <<serverKey, written>> /\ unacked' \subseteq unacked
    BY <1>6 DEF Renegotiate, Sent, Lost, Reaches, server
  <2>3. NetInv'
    BY <2>1, <2>2 DEF KeyInv, NetInv, Message, Opcode
  <2> QED
    BY <2>1, <2>2, <2>3 DEF KeyInv
<1> QED
  BY <1>1, <1>2, <1>3, <1>4, <1>5, <1>6 DEF ClientStep

LEMMA KeysServer ==
  ASSUME TypeOK, KeyInv, ServerWrite \/ ServerSoftReset \/ \E id \in unacked : ServerRetransmit(id)
  PROVE  KeyInv'
<1>0. /\ keyID \in Nat /\ serverKey \in Nat /\ serverKey \in Epoch /\ EpochsAlign
      /\ written[serverKey] \in Nat
  BY BoundsAssumption DEF KeyInv, TypeOK, Epoch, EpochsAlign
<1>1. CASE ServerWrite
  <2>1. keyID = serverKey /\ UNCHANGED <<keyID, phase, accepted, pendingSoftReset, serverKey>>
    BY <1>0, <1>1 DEF ServerWrite, Sends, client, epochState, EpochsAlign
  <2>2. written' = [written EXCEPT ![serverKey] = @ + 1]
    BY <1>1 DEF ServerWrite, TypeOK
  <2>3. net' \subseteq net \cup {Message(serverKey, written[serverKey] + 1)}
    BY <1>1 DEF ServerWrite, Sends, ToClient
  <2> DEFINE more == written[serverKey] + 1
  <2>4. written' \in [Epoch -> Nat] /\ written'[serverKey] = written[serverKey] + 1
    <3>1. written \in [Epoch -> Nat] /\ written' = [written EXCEPT ![serverKey] = more] /\ more \in Nat
      BY <1>0, <2>2 DEF TypeOK
    <3>2. serverKey \in Epoch
      BY <1>0
    <3> HIDE DEF more
    <3>3. written' \in [Epoch -> Nat] /\ written'[serverKey] = more
      BY <3>1, <3>2
    <3> QED
      BY <3>3 DEF more
  <2>5. ASSUME NEW e \in 0 .. serverKey PROVE e \in Epoch /\ written[e] <= written'[e]
    <3>1. e \in Epoch
      BY <1>0, BoundsAssumption DEF Epoch
    <3>2. written[e] \in Nat
      BY <3>1 DEF TypeOK
    <3>3. e # serverKey => written'[e] = written[e]
      BY <2>2, <3>1 DEF TypeOK
    <3> QED
      BY <1>0, <2>4, <3>1, <3>2, <3>3
  <2>6. NetInv'
    BY <1>0, <2>1, <2>3, <2>4, <2>5, NetGrows DEF KeyInv
  <2>7. unacked' \subseteq 0 .. written'[serverKey']
    <3>1. unacked' = unacked \cup {written[serverKey] + 1}
      BY <1>1 DEF ServerWrite
    <3>2. unacked \subseteq 0 .. written[serverKey]
      BY DEF KeyInv
    <3>3. written'[serverKey'] = written[serverKey] + 1
      BY <2>1, <2>4
    <3>4. \A id \in 0 .. written[serverKey] : id \in 0 .. written[serverKey] + 1
      BY <1>0
    <3>5. written[serverKey] + 1 \in 0 .. written[serverKey] + 1
      BY <1>0
    <3> QED
      BY <3>1, <3>2, <3>3, <3>4, <3>5
  <2> QED
    BY <1>0, <2>1, <2>2, <2>6, <2>7 DEF KeyInv, TypeOK
<1>2. CASE ServerSoftReset
  <2>1. serverKey' = serverKey + 1 /\ serverKey' \in Epoch
    BY <1>0, <1>2, NextKey, BoundsAssumption DEF ServerSoftReset, Epoch
  <2>2. written[serverKey] # 0
    BY <1>0, <1>2, BoundsAssumption DEF ServerSoftReset, Needed
  <2>3. keyID = serverKey /\ UNCHANGED <<keyID, phase, accepted, pendingSoftReset, written>>
    BY <1>0, <1>2, <2>2 DEF ServerSoftReset, Sends, client, epochState, EpochsAlign
  <2>4. has' = {} /\ unacked' = {0} /\ written'[serverKey'] = 0
    BY <1>0, <1>2, <2>1, <2>3 DEF ServerSoftReset, KeyInv
  <2>5. net' \subseteq net \cup {Message(serverKey', 0)}
    BY <1>2 DEF ServerSoftReset, Sends, ToClient
  <2>6. /\ \A e \in 0 .. serverKey : e \in Epoch /\ written[e] \in Nat
        /\ written' \in [Epoch -> Nat]
    <3>1. \A e \in 0 .. serverKey : e \in Epoch
      BY <1>0, BoundsAssumption DEF Epoch
    <3> QED
      BY <2>3, <3>1 DEF TypeOK
  <2>7. NetInv'
    BY <1>0, <2>1, <2>3, <2>4, <2>5, <2>6, NetGrows DEF KeyInv
  <2> QED
    BY <1>0, <2>1, <2>3, <2>4, <2>7 DEF KeyInv, TypeOK, Epoch
<1>3. ASSUME NEW id \in unacked, ServerRetransmit(id), id \in 0 .. written[serverKey]
      PROVE  KeyInv'
  <2>1. UNCHANGED <<client, serverKey, has, unacked, written>>
        /\ net' = net \cup {Message(serverKey, id)}
    BY <1>3 DEF ServerRetransmit, server
  <2>2. \A e \in 0 .. serverKey : e \in Epoch /\ written[e] \in Nat
    BY <1>0, BoundsAssumption DEF TypeOK, Epoch
  <2>4. /\ serverKey' \in Epoch /\ serverKey <= serverKey' /\ written' \in [Epoch -> Nat]
        /\ \A e \in 0 .. serverKey : written[e] <= written'[e]
        /\ serverKey \in 0 .. serverKey' /\ id \in 0 .. written'[serverKey]
    <3>1. serverKey \in Nat /\ serverKey \in Epoch /\ written \in [Epoch -> Nat]
      BY <1>0 DEF TypeOK
    <3>2. serverKey' = serverKey /\ written' = written
      BY <2>1
    <3>3. serverKey <= serverKey /\ serverKey \in 0 .. serverKey /\ \A e \in 0 .. serverKey : written[e] <= written[e]
      BY <2>2, <3>1
    <3> QED
      BY <1>3, <3>1, <3>2, <3>3
  <2>3. NetInv'
    BY <2>1, <2>4, NetGrows DEF KeyInv
  <2> QED
    BY <2>1, <2>3 DEF KeyInv, client, epochState
<1>4. \A id \in unacked : id \in 0 .. written[serverKey]
  BY DEF KeyInv
<1> QED
  BY <1>1, <1>2, <1>3, <1>4

LEMMA KeysStep ==
  ASSUME TypeOK, KeyInv, Next
  PROVE  KeyInv'
<1>0. EpochsAlign
  BY DEF KeyInv, EpochsAlign
<1>1. CASE ClientStep
  BY <1>1, KeysClient
<1>2. ASSUME NEW p \in net, ReadPacket(p) PROVE KeyInv'
  BY <1>2, KeysRead
<1>3. CASE ReadAck \/ TimeOut
  BY <1>0, <1>3, KeysKept DEF ReadAck, TimeOut, server, epochState, EpochsAlign, KeyInv
<1>4. ASSUME NEW id \in pending, RetransmitPending(id) PROVE KeyInv'
  <2>1. UNCHANGED <<client, net>>
    BY <1>4 DEF RetransmitPending
  <2>2. UNCHANGED <<serverKey, written>> /\ unacked' \subseteq unacked /\ EpochsAlign'
    BY <1>4, <2>1, Reached DEF RetransmitPending, client, epochState
  <2> QED
    BY <2>1, <2>2, KeysKept DEF client, epochState, KeyInv
<1>5. CASE ServerWrite \/ ServerSoftReset \/ \E id \in unacked : ServerRetransmit(id)
  BY <1>5, KeysServer
<1> QED
  BY <1>1, <1>2, <1>3, <1>4, <1>5 DEF Next, Network

(***************************************************************************)
(* Acknowledgements.                                                       *)
(***************************************************************************)

Had(id) == id < recvMessage \/ id \in recvPending

\* Only what was received is acknowledged.
AckInv == \A i \in 1 .. Len(lruAcks) : Had(lruAcks[i])

LEMMA AcksWereHad ==
  ASSUME TypeOK, AckInv, NEW max \in Nat, NEW id \in AcksOn(max, lruAcks)
  PROVE  Had(id)
<1>1. PICK i \in 1 .. Least(max, Len(lruAcks)) : id = lruAcks[i]
  BY DEF AcksOn
<1>2. Len(lruAcks) \in Nat
  BY LenProperties DEF TypeOK
<1>3. i \in 1 .. Len(lruAcks)
  BY <1>2 DEF Least
<1> QED
  BY <1>1, <1>3 DEF AckInv

\* A step that forgets no message and drops only acknowledged ones from the server.
LEMMA AckedKept ==
  ASSUME TypeOK, AckInv, AckedWasReceived, UNCHANGED <<keyID, serverKey, written, lruAcks>>,
         \A id \in Nat : Had(id) => id < recvMessage' \/ id \in recvPending',
         \A id \in unacked \ unacked' : keyID = serverKey /\ Had(id)
  PROVE  AckInv' /\ AckedWasReceived'
<1>1. \A i \in 1 .. Len(lruAcks) : lruAcks[i] \in Nat
  BY ElementOfSeq DEF TypeOK
<1>2. AckInv'
  BY <1>1 DEF AckInv, Had
<1>3. \A id \in 0 .. written[serverKey] : id \in Nat
  BY DEF TypeOK
<1>4. AckedWasReceived'
  BY <1>3 DEF AckedWasReceived, Had
<1> QED
  BY <1>2, <1>4

LEMMA AcksRead ==
  ASSUME TypeOK, KeyInv, AckInv, AckedWasReceived, NEW p, p.id \in Nat,
         Deliver(p) \/ Buffer(p) \/ Repeat(p) \/ Refuse(p), keyID' = keyID
  PROVE  AckInv' /\ AckedWasReceived'
<1>1. CASE Refuse(p)
  BY <1>1, AckedKept DEF Refuse, Lost, server, Had
<1>2. CASE Deliver(p) \/ Buffer(p) \/ Repeat(p)
  <2>1. lruAcks' = TakeAcks(p.id) /\ AckSent(keyID, lruAcks')
    BY <1>2 DEF Deliver, Buffer, Repeat
  <2>2. Had(p.id)' /\ \A id \in Nat : Had(id) => Had(id)'
    <3>1. CASE Deliver(p)
      BY <3>1 DEF Deliver, Had, TypeOK
    <3>2. CASE Buffer(p)
      BY <3>2 DEF Buffer, Had, TypeOK
    <3>3. CASE Repeat(p)
      BY <3>3 DEF Repeat, Before, Had, TypeOK
    <3> QED
      BY <1>2, <3>1, <3>2, <3>3
  <2>3. \A i \in 1 .. Len(lruAcks) : lruAcks[i] \in Nat
    BY ElementOfSeq DEF TypeOK
  <2>4. \A i \in 1 .. Len(lruAcks) :
          lruAcks[i] < recvMessage' \/ lruAcks[i] \in recvPending'
    BY <2>2, <2>3 DEF AckInv, Had
  <2>5. \A i \in 1 .. Len(lruAcks') :
          lruAcks'[i] < recvMessage' \/ lruAcks'[i] \in recvPending'
    BY <2>1, <2>2, <2>4, TakeAcksKeeps DEF Had
  <2>6. AckInv'
    BY <2>5 DEF AckInv, Had
  <2>7. lruAcks' \in Seq(Nat) /\ \A i \in 1 .. Len(lruAcks') : lruAcks'[i] \in Nat
    BY <2>1, TakeAcksKeeps, ElementOfSeq
  <2>8. /\ UNCHANGED <<serverKey, written>>
        /\ unacked' \subseteq unacked
        /\ \A id \in unacked \ unacked' : keyID = serverKey /\ id \in AcksOn(AckOnlyMax, lruAcks')
    BY <2>1 DEF AckSent, Lost, Reaches, server
  <2>9. \A id \in AcksOn(AckOnlyMax, lruAcks') : \E i \in 1 .. Len(lruAcks') : id = lruAcks'[i]
    <3>1. Len(lruAcks') \in Nat
      BY <2>7, LenProperties
    <3> QED
      BY <3>1, BoundsAssumption DEF AcksOn, Least
  <2>10. \A id \in unacked \ unacked' :
           keyID = serverKey /\ (id < recvMessage' \/ id \in recvPending')
    BY <2>5, <2>8, <2>9
  <2>11. AckedWasReceived'
    <3>1. SUFFICES ASSUME NEW id \in 0 .. written'[serverKey'], id \notin unacked'
                   PROVE  keyID' = serverKey' /\ (id < recvMessage' \/ id \in recvPending')
      BY DEF AckedWasReceived
    <3>2. id \in 0 .. written[serverKey] /\ id \in Nat
      BY <2>8, <3>1 DEF TypeOK
    <3>3. CASE id \in unacked
      BY <2>8, <2>10, <3>1, <3>3
    <3>4. CASE id \notin unacked
      BY <2>2, <2>8, <3>2, <3>4 DEF AckedWasReceived, Had
    <3> QED
      BY <3>3, <3>4
  <2> QED
    BY <2>6, <2>11
<1> QED
  BY <1>1, <1>2

LEMMA AcksStep ==
  ASSUME TypeOK, KeyInv, AckInv, AckedWasReceived, Next
  PROVE  AckInv' /\ AckedWasReceived'
<1> DEFINE Kept == AckInv' /\ AckedWasReceived'
<1>1. ASSUME NEW p \in net, ReadPacket(p) PROVE Kept
  <2>1. p.id \in Nat
    BY PacketTypes DEF KeyInv
  <2>2. CASE ReadHardReset(p) \/ ReadMessage(p)
    BY <2>1, <2>2, AcksRead DEF ReadHardReset, ReadMessage
  <2>3. CASE ParkSoftReset(p) \/ WatchSoftReset(p)
    BY <2>3, AckedKept DEF ParkSoftReset, WatchSoftReset, epochState, server, Had
  <2>4. CASE Drop(p)
    BY <2>4, AckedKept DEF Drop, client, epochState, server, Had
  <2> QED
    BY <1>1, <2>2, <2>3, <2>4 DEF ReadPacket
<1>2. CASE ReadBuffered
  BY <1>2, AckedKept DEF ReadBuffered, server, Had, TypeOK
<1>3. ASSUME NEW id, NEW k, NEW lru, Sent(k, id, lru), k = keyID, lru = lruAcks,
             UNCHANGED <<keyID, recvMessage, recvPending, lruAcks>>
      PROVE  Kept
  <2>1. \A a \in AcksOn(SendAckMax, lruAcks) : Had(a)
    BY AcksWereHad, BoundsAssumption
  <2>2. UNCHANGED <<serverKey, written>> /\ \A a \in unacked \ unacked' : keyID = serverKey /\ Had(a)
    BY <1>3, <2>1 DEF Sent, Lost, Reaches, server
  <2> QED
    BY <1>3, <2>2, AckedKept DEF Had
<1>4. ASSUME NEW id \in {Hello, Keys, Request}, Write(id) PROVE Kept
  BY <1>3, <1>4 DEF Write
<1>5. ASSUME NEW id \in pending, RetransmitPending(id) PROVE Kept
  BY <1>3, <1>5 DEF RetransmitPending, Sent, client, epochState
<1>6. CASE ReadAll
  <2>1. PICK gap \in recvMessage .. recvMessage + Capacity :
          recvMessage' = gap /\ recvPending' = recvPending \ (recvMessage .. gap - 1)
    BY <1>6 DEF ReadAll
  <2>2. recvMessage \in Nat /\ gap \in Nat /\ recvMessage <= gap
    BY <2>1, BoundsAssumption DEF TypeOK
  <2>3. \A id \in Nat : Had(id) => id < recvMessage' \/ id \in recvPending'
    BY <2>1, <2>2 DEF Had
  <2> QED
    BY <1>6, <2>3, AckedKept DEF ReadAll, server
<1>7. CASE TlsDone \/ ConsumeParked \/ TakeParked
  BY <1>6, <1>7 DEF TlsDone, ConsumeParked, TakeParked
<1>8. CASE KeysDone \/ PushDone \/ ProbeDone \/ DropParked \/ TimeOut
  BY <1>8, AckedKept DEF KeysDone, PushDone, ProbeDone, DropParked, TimeOut, epochState, server, Had
<1>9. CASE Renegotiate
  <2>1. keyID' = serverKey /\ accepted = serverKey /\ serverKey = keyID + 1 /\ written[serverKey] = 0
    BY <1>9, BoundsAssumption DEF Renegotiate, BeginEpoch, KeyInv, TypeOK, Epoch
  <2>2. recvMessage' = 1 /\ recvPending' = {} /\ lruAcks' = <<0>>
        /\ UNCHANGED <<serverKey, written>>
    BY <1>9 DEF Renegotiate, BeginEpoch, Sent, Lost, Reaches, server
  <2>3. AckInv'
    BY <2>2 DEF AckInv, Had
  <2>4. AckedWasReceived'
    BY <2>1, <2>2 DEF AckedWasReceived
  <2> QED
    BY <2>3, <2>4
<1>10. CASE ReadAck
  BY <1>10, AckedKept DEF ReadAck, server, Had
<1>11. ASSUME NEW id \in unacked, ServerRetransmit(id) PROVE Kept
  BY <1>11, AckedKept DEF ServerRetransmit, client, epochState, server, Had
<1>12. CASE ServerWrite \/ ServerSoftReset
  <2>1. UNCHANGED <<keyID, recvMessage, recvPending, lruAcks>>
    BY <1>12 DEF ServerWrite, ServerSoftReset, Sends, client, epochState
  <2>2. AckInv'
    BY <2>1 DEF AckInv, Had
  <2>3. CASE ServerWrite
    <3>1. /\ written'[serverKey] = written[serverKey] + 1 /\ serverKey' = serverKey
          /\ unacked' = unacked \cup {written[serverKey] + 1} /\ written[serverKey] \in Nat
      BY <2>3 DEF ServerWrite, TypeOK
    <3>2. \A id \in 0 .. written'[serverKey'] :
            id \in 0 .. written[serverKey] \/ id = written[serverKey] + 1
      BY <3>1
    <3>3. AckedWasReceived'
      BY <2>1, <3>1, <3>2 DEF AckedWasReceived
    <3> QED
      BY <2>2, <3>3
  <2>4. CASE ServerSoftReset
    <3>1. serverKey' \in Epoch /\ serverKey' > serverKey
      <4>1. serverKey \in Epoch /\ serverKey \in Nat /\ serverKey + 1 \in Epoch
        BY <2>4, BoundsAssumption DEF ServerSoftReset, TypeOK, Epoch
      <4>2. serverKey' = serverKey + 1
        BY <2>4, <4>1, NextKey DEF ServerSoftReset
      <4> QED
        BY <4>1, <4>2
    <3>2. written'[serverKey'] = 0 /\ unacked' = {0}
      BY <2>4, <3>1 DEF ServerSoftReset, KeyInv
    <3>3. AckedWasReceived'
      BY <3>2 DEF AckedWasReceived
    <3> QED
      BY <2>2, <3>3
  <2> QED
    BY <1>12, <2>3, <2>4
<1> QED
  BY <1>1, <1>2, <1>4, <1>5, <1>7, <1>8, <1>9, <1>10, <1>11, <1>12 DEF Next, Network, ClientStep

(***************************************************************************)
(* Streams.                                                                *)
(***************************************************************************)

\* What was delivered in this epoch is with the TLS session, or parked behind that; of the next
\* epochs nothing is.
StreamInv ==
  /\ phase = "reset" => recvMessage = 0 /\ got[keyID] = <<>>
  /\ phase \notin {"reset", "closed"} => recvMessage = Len(got[keyID]) + Len(parkedTLS) + 1
  /\ phase \notin {"watch", "closed"} => parkedTLS = <<>>
  /\ \A e \in Epoch : e > keyID => got[e] = <<>>
  /\ \A e \in Epoch : \A i \in 1 .. Len(got[e]) : got[e][i] = i
  /\ \A i \in 1 .. Len(parkedTLS) : parkedTLS[i] = Len(got[keyID]) + i
  /\ recvMessage \in 0 .. written[keyID] + 1 /\ recvPending \subseteq 1 .. written[keyID]

LEMMA Numbers ==
  ASSUME NEW s \in Seq(Nat), \A i \in 1 .. Len(s) : s[i] = i
  PROVE  s = [i \in 1 .. Len(s) |-> i]
  BY LenProperties

\* A step that hands nothing over.
LEMMA StreamKept ==
  ASSUME TypeOK, StreamInv, UNCHANGED <<keyID, got, parkedTLS, recvMessage, written>>,
         recvPending' \subseteq 1 .. written[keyID],
         phase' = "closed" \/ (phase \notin {"reset", "closed"} /\ phase' # "reset") \/ phase' = phase,
         phase' \notin {"watch", "closed"} => parkedTLS = <<>>
  PROVE  StreamInv'
  BY DEF StreamInv

\* The next message goes to the TLS session or behind what is parked.
LEMMA StreamHand ==
  ASSUME TypeOK, StreamInv, phase \notin {"reset", "closed"}, Hand(recvMessage),
         recvMessage' = recvMessage + 1, recvMessage <= written[keyID],
         recvPending' \subseteq recvPending, UNCHANGED <<keyID, phase, written>>
  PROVE  StreamInv' /\ (got' = got \/ Stream!Read(keyID))
<1>1. /\ got[keyID] \in Seq(Nat) /\ parkedTLS \in Seq(Nat) /\ keyID \in Epoch
      /\ Len(got[keyID]) \in Nat /\ Len(parkedTLS) \in Nat /\ written[keyID] \in Nat
      /\ recvMessage \in Nat
  BY LenProperties DEF TypeOK
<1>4. /\ recvMessage = Len(got[keyID]) + Len(parkedTLS) + 1
      /\ \A i \in 1 .. Len(parkedTLS) : parkedTLS[i] = Len(got[keyID]) + i
      /\ \A i \in 1 .. Len(got[keyID]) : got[keyID][i] = i
      /\ \A e \in Epoch : e > keyID => got[e] = <<>>
  BY <1>1 DEF StreamInv
<1>2. CASE phase = "watch"
  <2> DEFINE s == Append(parkedTLS, recvMessage)
             g == Len(got[keyID])
             k == Len(parkedTLS)
  <2>1. got' = got /\ parkedTLS' = s
    BY <1>2 DEF Hand
  <2>2. /\ s \in Seq(Nat) /\ Len(s) = k + 1 /\ s[k + 1] = recvMessage
        /\ \A i \in 1 .. k : s[i] = parkedTLS[i]
    BY <1>1, AppendProperties
  <2>3. /\ recvMessage = g + k + 1 /\ g \in Nat /\ k \in Nat
        /\ \A i \in 1 .. k : parkedTLS[i] = g + i
    BY <1>1, <1>4
  <2> HIDE DEF s, g, k
  <2>4. \A i \in 1 .. Len(s) : s[i] = g + i
    <3> SUFFICES ASSUME NEW i \in 1 .. k + 1 PROVE s[i] = g + i
      BY <2>2
    <3>1. i \in 1 .. k \/ i = k + 1
      BY <2>3
    <3> QED
      BY <2>2, <2>3, <3>1
  <2>5. recvMessage' = g + Len(s) + 1
    BY <2>2, <2>3
  <2>6. recvMessage' \in 0 .. written[keyID] + 1 /\ recvPending' \subseteq 1 .. written[keyID]
    BY <1>1 DEF StreamInv
  <2> QED
    BY <1>2, <2>1, <2>4, <2>5, <2>6 DEF StreamInv, g
<1>3. CASE phase # "watch"
  <2> DEFINE s == Append(got[keyID], recvMessage)
  <2>1. got' = [got EXCEPT ![keyID] = s] /\ parkedTLS' = <<>> /\ parkedTLS = <<>>
    BY <1>3 DEF Hand, TypeOK, StreamInv
  <2>2. recvMessage = Len(got[keyID]) + 1
    BY <1>1, <2>1 DEF StreamInv
  <2>3. /\ s \in Seq(Nat) /\ Len(s) = Len(got[keyID]) + 1 /\ s[Len(got[keyID]) + 1] = recvMessage
        /\ \A i \in 1 .. Len(got[keyID]) : s[i] = got[keyID][i]
    BY <1>1, AppendProperties
  <2> HIDE DEF s
  <2>4. \A i \in 1 .. Len(s) : s[i] = i
    <3> SUFFICES ASSUME NEW i \in 1 .. Len(s) PROVE s[i] = i
      OBVIOUS
    <3>1. i \in 1 .. Len(got[keyID]) \/ i = Len(got[keyID]) + 1
      BY <1>1, <2>3
    <3> QED
      BY <1>1, <1>4, <2>2, <2>3, <3>1
  <2>5. got'[keyID] = s /\ \A e \in Epoch : e # keyID => got'[e] = got[e]
    BY <1>1, <2>1 DEF TypeOK
  <2>6. recvMessage' \in 0 .. written[keyID] + 1 /\ recvPending' \subseteq 1 .. written[keyID]
    BY <1>1 DEF StreamInv
  <2>7. StreamInv'
    <3>1. \A e \in Epoch : e > keyID => got'[e] = <<>>
      <4>1. \A e \in Epoch : e > keyID => e # keyID
        BY <1>1, BoundsAssumption DEF Epoch
      <4> QED
        BY <1>4, <2>5, <4>1
    <3>2. \A e \in Epoch : \A i \in 1 .. Len(got'[e]) : got'[e][i] = i
      BY <2>4, <2>5 DEF StreamInv
    <3>3. recvMessage' = Len(got'[keyID]) + Len(parkedTLS') + 1
      BY <1>1, <2>1, <2>2, <2>3, <2>5, EmptySeq
    <3> QED
      BY <1>3, <2>1, <2>6, <3>1, <3>2, <3>3 DEF StreamInv
  <2>8. Stream!Read(keyID)
    <3>1. s = [i \in 1 .. Len(s) |-> i]
      BY <2>3, <2>4, Numbers
    <3>2. Len(s) \in Len(got[keyID]) + 1 .. written[keyID]
      BY <1>1, <2>2, <2>3
    <3> QED
      BY <2>1, <3>1, <3>2 DEF Stream!Read
  <2> QED
    BY <2>7, <2>8
<1> QED
  BY <1>2, <1>3

\* What is parked, and then what is ready, goes to the TLS session.
LEMMA StreamAll ==
  ASSUME TypeOK, StreamInv, phase \notin {"reset", "closed"}, ReadAll, phase' # "reset"
  PROVE  StreamInv' /\ (got' = got \/ Stream!Read(keyID))
<1>1. /\ got[keyID] \in Seq(Nat) /\ parkedTLS \in Seq(Nat) /\ keyID \in Epoch
      /\ Len(got[keyID]) \in Nat /\ Len(parkedTLS) \in Nat /\ written[keyID] \in Nat
      /\ recvMessage \in Nat
  BY LenProperties DEF TypeOK
<1>2. /\ recvMessage = Len(got[keyID]) + Len(parkedTLS) + 1
      /\ \A i \in 1 .. Len(parkedTLS) : parkedTLS[i] = Len(got[keyID]) + i
      /\ \A i \in 1 .. Len(got[keyID]) : got[keyID][i] = i
      /\ \A e \in Epoch : e > keyID => got[e] = <<>>
      /\ recvMessage <= written[keyID] + 1 /\ recvPending \subseteq 1 .. written[keyID]
  BY <1>1 DEF StreamInv
<1>3. PICK gap \in recvMessage .. recvMessage + Capacity :
        /\ recvMessage .. gap - 1 \subseteq recvPending
        /\ got' = [got EXCEPT ![keyID] =
                     @ \o parkedTLS \o [i \in 1 .. gap - recvMessage |-> recvMessage + i - 1]]
        /\ recvMessage' = gap /\ recvPending' = recvPending \ (recvMessage .. gap - 1)
        /\ parkedTLS' = <<>>
  BY DEF ReadAll
<1> DEFINE ready == [i \in 1 .. gap - recvMessage |-> recvMessage + i - 1]
           first == got[keyID] \o parkedTLS
           s     == first \o ready
<1> DEFINE g == Len(got[keyID])
           k == Len(parkedTLS)
           n == gap - recvMessage
<1>4. /\ gap \in Nat /\ n \in Nat /\ g \in Nat /\ k \in Nat /\ recvMessage \in Nat
      /\ recvMessage = g + k + 1 /\ gap = recvMessage + n /\ recvMessage <= gap
  <2>1. g \in Nat /\ k \in Nat /\ recvMessage \in Nat
    BY <1>1
  <2>2. recvMessage = g + k + 1
    BY <1>2
  <2>3. gap \in Nat /\ n \in Nat /\ gap = recvMessage + n /\ recvMessage <= gap
    <3> HIDE DEF g, k
    <3> QED
      BY <2>1, BoundsAssumption
  <2> QED
    BY <2>1, <2>2, <2>3
<1>5. ready \in [1 .. n -> Nat]
  BY <1>1, <1>4
<1>6. ready \in Seq(Nat) /\ Len(ready) = n /\ \A i \in 1 .. n : ready[i] = g + k + i
  <2>1. ready \in Seq(Nat) /\ Len(ready) = n
    BY <1>4, <1>5, FunctionIsSeq
  <2>2. \A i \in 1 .. n : ready[i] = recvMessage + i - 1
    OBVIOUS
  <2> HIDE DEF ready, n, g, k
  <2> QED
    BY <1>4, <2>1, <2>2
<1>7. /\ \A i \in 1 .. g : got[keyID][i] = i
      /\ \A i \in 1 .. k : parkedTLS[i] = g + i
  BY <1>2
<1>8. /\ first \in Seq(Nat) /\ Len(first) = g + k
      /\ \A i \in 1 .. g + k : first[i] = IF i <= g THEN got[keyID][i] ELSE parkedTLS[i - g]
  BY <1>1, ConcatProperties
<1> HIDE DEF ready, first
<1>9. /\ s \in Seq(Nat) /\ Len(s) = Len(first) + Len(ready)
      /\ \A i \in 1 .. Len(first) + Len(ready) :
           s[i] = IF i <= Len(first) THEN first[i] ELSE ready[i - Len(first)]
  <2>1. first \in Seq(Nat) /\ ready \in Seq(Nat)
    BY <1>6, <1>8
  <2> QED
    BY <2>1, ConcatProperties
<1>10. got' = [got EXCEPT ![keyID] = s]
  BY <1>3 DEF TypeOK, first, ready
<1> HIDE DEF s, g, k, n
<1>11. Len(s) = gap - 1
  BY <1>4, <1>6, <1>8, <1>9
<1>12. \A i \in 1 .. g + k : first[i] = i
  <2> SUFFICES ASSUME NEW i \in 1 .. g + k PROVE first[i] = i
    OBVIOUS
  <2>0. first[i] = IF i <= g THEN got[keyID][i] ELSE parkedTLS[i - g]
    BY <1>8
  <2>1. CASE i <= g
    <3>1. i \in 1 .. g
      BY <1>4, <2>1
    <3> QED
      BY <1>7, <2>0, <2>1, <3>1
  <2>2. CASE i > g
    <3>1. i - g \in 1 .. k /\ g + (i - g) = i
      BY <1>4, <2>2
    <3>2. ~(i <= g)
      BY <1>4, <2>2
    <3> QED
      BY <1>7, <2>0, <3>1, <3>2
  <2> QED
    BY <1>4, <2>1, <2>2
<1>13. \A i \in 1 .. Len(s) : s[i] = i
  <2>0. \A i \in 1 .. (g + k) + n :
          s[i] = IF i <= g + k THEN first[i] ELSE ready[i - (g + k)]
    BY <1>6, <1>8, <1>9
  <2> SUFFICES ASSUME NEW i \in 1 .. (g + k) + n PROVE s[i] = i
    BY <1>6, <1>8, <1>9
  <2>1. CASE i <= g + k
    BY <1>4, <1>12, <2>0, <2>1
  <2>2. CASE i > g + k
    <3>1. i - (g + k) \in 1 .. n /\ g + k + (i - (g + k)) = i
      BY <1>4, <2>2
    <3>2. s[i] = ready[i - (g + k)]
      BY <1>4, <2>0, <2>2
    <3> QED
      BY <1>6, <3>1, <3>2
  <2> QED
    BY <1>4, <2>1, <2>2
<1>14. got'[keyID] = s /\ \A e \in Epoch : e # keyID => got'[e] = got[e]
  BY <1>1, <1>10 DEF TypeOK
<1>15. gap <= written[keyID] + 1
  <2>1. CASE gap = recvMessage
    BY <1>2, <2>1
  <2>2. CASE gap > recvMessage
    <3>1. gap - 1 \in recvMessage .. gap - 1
      BY <1>1, <1>4, <2>2
    <3>2. gap - 1 \in 1 .. written[keyID]
      BY <1>2, <1>3, <3>1
    <3> QED
      BY <1>1, <1>4, <3>2
  <2> QED
    BY <1>1, <1>4, <2>1, <2>2
<1>16. UNCHANGED <<keyID, written>> /\ recvMessage' = gap /\ parkedTLS' = <<>>
       /\ recvPending' \subseteq recvPending
  BY <1>3 DEF ReadAll, server
<1>17. StreamInv'
  <2>1. \A e \in Epoch : e > keyID => got'[e] = <<>>
    <3>1. \A e \in Epoch : e > keyID => e # keyID
      BY <1>1, BoundsAssumption DEF Epoch
    <3> QED
      BY <1>2, <1>14, <3>1
  <2>2. \A e \in Epoch : \A i \in 1 .. Len(got'[e]) : got'[e][i] = i
    BY <1>13, <1>14 DEF StreamInv
  <2>3. recvMessage' = Len(got'[keyID]) + Len(parkedTLS') + 1
    BY <1>4, <1>11, <1>14, <1>16, EmptySeq
  <2>4. recvMessage' \in 0 .. written[keyID] + 1 /\ recvPending' \subseteq 1 .. written[keyID]
    BY <1>1, <1>2, <1>4, <1>15, <1>16
  <2>5. \A i \in 1 .. Len(parkedTLS') : parkedTLS'[i] = Len(got'[keyID]) + i
    BY <1>16, EmptySeq
  <2> QED
    BY <1>16, <2>1, <2>2, <2>3, <2>4, <2>5 DEF StreamInv
<1>18. got' = got \/ Stream!Read(keyID)
  <2>1. s = [i \in 1 .. Len(s) |-> i]
    BY <1>9, <1>13, Numbers
  <2>2. CASE Len(s) = Len(got[keyID])
    <3>1. got[keyID] = [i \in 1 .. Len(got[keyID]) |-> i]
      BY <1>1, <1>2, Numbers
    <3>2. s = got[keyID]
      BY <2>1, <2>2, <3>1
    <3> QED
      BY <1>1, <1>10, <3>2 DEF TypeOK
  <2>3. CASE Len(s) # Len(got[keyID])
    <3>1. Len(s) \in Len(got[keyID]) + 1 .. written[keyID]
      BY <1>1, <1>2, <1>4, <1>11, <1>15, <2>3
    <3>2. got' = [got EXCEPT ![keyID] = [i \in 1 .. Len(s) |-> i]]
      BY <1>10, <2>1
    <3> QED
      BY <1>16, <3>1, <3>2 DEF Stream!Read
  <2> QED
    BY <2>2, <2>3
<1> QED
  BY <1>17, <1>18

LEMMA StreamStep ==
  ASSUME TypeOK, KeyInv, StreamInv, Next
  PROVE  StreamInv' /\ [Stream!Next]_<<written, got>>
<1> DEFINE Goal == StreamInv' /\ [Stream!Next]_<<written, got>>
<1>0. /\ phase # "closed" /\ keyID \in Epoch /\ serverKey \in Epoch /\ keyID \in Nat
      /\ serverKey \in Nat /\ recvMessage \in Nat
  BY BoundsAssumption DEF Next, TypeOK, Epoch
<1>1. ASSUME StreamInv', got' = got \/ Stream!Read(keyID), written' = written PROVE Goal
  BY <1>0, <1>1 DEF Stream!Next
<1>2. ASSUME NEW p \in net, ReadPacket(p) PROVE Goal
  <2>0. p.id \in Nat /\ p.key \in Epoch /\ p.id <= written[p.key] /\ p.op = Opcode(p.key, p.id)
    BY PacketTypes DEF KeyInv, TypeOK
  <2>1. ASSUME Deliver(p) \/ Buffer(p) \/ Repeat(p) \/ Refuse(p) PROVE UNCHANGED <<serverKey, written>>
    BY <2>1 DEF Deliver, Buffer, Repeat, Refuse, AckSent, Lost, Reaches, server
  <2>2. CASE ReadHardReset(p)
    <3>1. /\ recvMessage = 0 /\ got[keyID] = <<>> /\ parkedTLS = <<>>
      BY <2>2 DEF ReadHardReset, StreamInv
    <3>2. /\ recvMessage' = 1 /\ phase' = "tls"
          /\ UNCHANGED <<keyID, parkedTLS, got, recvPending, written>>
      BY <2>1, <2>2, <3>1 DEF ReadHardReset, Deliver
    <3>3. Len(got[keyID]) = 0 /\ Len(parkedTLS) = 0 /\ written[keyID] \in Nat
      BY <1>0, <3>1, EmptySeq DEF TypeOK
    <3>4. StreamInv'
      BY <3>1, <3>2, <3>3 DEF StreamInv
    <3> QED
      BY <1>1, <3>2, <3>4
  <2>3. CASE ReadMessage(p)
    <3>1. phase \notin {"reset", "closed"} /\ p.id <= written[keyID] /\ UNCHANGED <<keyID, phase>>
      BY <2>0, <2>3 DEF ReadMessage, CanRead, Reading, Watching
    <3>2. CASE Deliver(p) /\ Hand(p.id)
      <4>1. /\ p.id = recvMessage /\ recvMessage' = recvMessage + 1 /\ recvPending' \subseteq recvPending
            /\ written' = written
        BY <2>1, <3>2 DEF Deliver
      <4>2. StreamInv' /\ (got' = got \/ Stream!Read(keyID))
        BY <3>1, <3>2, <4>1, StreamHand
      <4> QED
        BY <1>1, <4>1, <4>2
    <3>3. CASE (Buffer(p) \/ Repeat(p) \/ Refuse(p)) /\ UNCHANGED <<parkedTLS, got>>
      <4>1. UNCHANGED <<recvMessage, written>> /\ recvPending' \subseteq recvPending \cup {p.id}
            /\ (recvPending' # recvPending => p.id > recvMessage)
        BY <2>1, <3>3 DEF Buffer, Repeat, Refuse
      <4>2. recvPending' \subseteq 1 .. written[keyID]
        BY <1>0, <2>0, <3>1, <4>1 DEF StreamInv, TypeOK
      <4>3. phase \notin {"watch", "closed"} => parkedTLS = <<>>
        BY DEF StreamInv
      <4>4. StreamInv'
        BY <3>1, <3>3, <4>1, <4>2, <4>3, StreamKept
      <4> QED
        BY <1>1, <3>3, <4>1, <4>4
    <3> QED
      BY <2>3, <3>2, <3>3 DEF ReadMessage
  <2>4. CASE ParkSoftReset(p) \/ Drop(p)
    <3>1. /\ UNCHANGED <<keyID, got, parkedTLS, recvMessage, written, recvPending, phase>>
      BY <2>4 DEF ParkSoftReset, Drop, client, epochState, server
    <3>2. StreamInv'
      BY <3>1, StreamKept DEF StreamInv
    <3> QED
      BY <1>1, <3>1, <3>2
  <2>5. CASE WatchSoftReset(p)
    <3>1. /\ UNCHANGED <<keyID, got, parkedTLS, recvMessage, written, recvPending>>
          /\ phase' = "late" /\ phase = "watch" /\ parkedTLS = <<>>
      BY <2>5 DEF WatchSoftReset, CanRead, Reading, Watching, epochState, server
    <3>2. StreamInv'
      BY <3>1, StreamKept DEF StreamInv
    <3> QED
      BY <1>1, <3>1, <3>2
  <2> QED
    BY <1>2, <2>2, <2>3, <2>4, <2>5 DEF ReadPacket
<1>3. CASE ReadBuffered
  <2>1. /\ phase \notin {"reset", "closed"} /\ recvMessage \in recvPending
        /\ recvMessage' = recvMessage + 1 /\ recvPending' \subseteq recvPending /\ Hand(recvMessage)
        /\ UNCHANGED <<keyID, phase, written>>
    BY <1>3 DEF ReadBuffered, Reading, Watching, server
  <2>2. recvMessage <= written[keyID]
    BY <1>0, <2>1 DEF StreamInv, TypeOK
  <2>3. StreamInv' /\ (got' = got \/ Stream!Read(keyID))
    BY <2>1, <2>2, StreamHand
  <2> QED
    BY <1>1, <2>1, <2>3
<1>4. CASE TlsDone \/ ConsumeParked \/ TakeParked
  <2>1. ReadAll /\ phase \notin {"reset", "closed"} /\ phase' # "reset"
    BY <1>4 DEF TlsDone, ConsumeParked, TakeParked
  <2>2. StreamInv' /\ (got' = got \/ Stream!Read(keyID))
    BY <2>1, StreamAll
  <2> QED
    BY <1>1, <2>1, <2>2 DEF ReadAll, server
<1>5. CASE KeysDone \/ PushDone \/ ProbeDone \/ DropParked \/ TimeOut
  <2>1. /\ UNCHANGED <<keyID, got, parkedTLS, recvMessage, recvPending, written>>
        /\ phase' = "closed" \/ (phase \notin {"reset", "closed"} /\ phase' # "reset")
        /\ phase = "watch" => phase' \in {"watch", "closed"}
    BY <1>5 DEF KeysDone, PushDone, ProbeDone, DropParked, TimeOut, epochState, server
  <2>2. StreamInv'
    BY <2>1, StreamKept DEF StreamInv
  <2> QED
    BY <1>1, <2>1, <2>2
<1>6. ASSUME UNCHANGED <<keyID, got, parkedTLS, recvMessage, recvPending, phase, written>>
      PROVE  Goal
  BY <1>1, <1>6, StreamKept DEF StreamInv
<1>7. ASSUME NEW id \in {Hello, Keys, Request}, Write(id) PROVE Goal
  BY <1>6, <1>7 DEF Write, Sent, Lost, Reaches, server
<1>8. CASE ReadAck \/ \E id \in pending : RetransmitPending(id)
  BY <1>6, <1>8 DEF ReadAck, RetransmitPending, Reaches, client, epochState, server
<1>9. CASE ServerSoftReset \/ \E id \in unacked : ServerRetransmit(id)
  BY <1>6, <1>9 DEF ServerSoftReset, ServerRetransmit, Sends, client, epochState, server
<1>10. CASE Renegotiate
  <2>1. keyID' = keyID + 1 /\ keyID' \in Epoch
    BY <1>0, <1>10 DEF Renegotiate, BeginEpoch, KeyInv
  <2>2. /\ recvMessage' = 1 /\ recvPending' = {} /\ parkedTLS' = <<>> /\ phase' = "tls"
        /\ UNCHANGED <<got, written>>
    BY <1>10 DEF Renegotiate, BeginEpoch, Sent, Lost, Reaches, server
  <2>3. got[keyID'] = <<>> /\ Len(got[keyID']) = 0 /\ Len(parkedTLS') = 0 /\ written[keyID'] \in Nat
    BY <1>0, <2>1, <2>2, EmptySeq DEF StreamInv, TypeOK
  <2>4. \A e \in Epoch : e > keyID' => got[e] = <<>>
    <3>1. \A e \in Epoch : e > keyID' => e > keyID
      BY <1>0, <2>1, BoundsAssumption DEF Epoch
    <3> QED
      BY <3>1 DEF StreamInv
  <2>5. StreamInv'
    BY <2>2, <2>3, <2>4 DEF StreamInv
  <2> QED
    BY <1>1, <2>2, <2>5
<1>11. CASE ServerWrite
  <2>1. /\ written' = [written EXCEPT ![serverKey] = @ + 1]
        /\ UNCHANGED <<keyID, got, parkedTLS, recvMessage, recvPending, phase>>
    BY <1>11 DEF ServerWrite, Sends, client, epochState, TypeOK
  <2>2. written[keyID] \in Nat /\ written'[keyID] \in Nat /\ written[keyID] <= written'[keyID]
    BY <1>0, <2>1 DEF TypeOK
  <2>3. recvMessage' \in 0 .. written'[keyID] + 1 /\ recvPending' \subseteq 1 .. written'[keyID]
    BY <2>1, <2>2 DEF StreamInv
  <2>4. StreamInv'
    BY <2>1, <2>3 DEF StreamInv
  <2>5. Stream!Write(serverKey)
    BY <2>1 DEF Stream!Write
  <2> QED
    BY <1>0, <2>4, <2>5 DEF Stream!Next
<1> QED
  BY <1>2, <1>3, <1>4, <1>5, <1>7, <1>8, <1>9, <1>10, <1>11 DEF Next, Network, ClientStep

(***************************************************************************)
(* The theorems.                                                           *)
(***************************************************************************)

VpnInv == TypeOK /\ KeyInv /\ AckInv /\ AckedWasReceived /\ StreamInv

LEMMA VpnInit == Init => VpnInv
<1> SUFFICES ASSUME Init PROVE VpnInv
  OBVIOUS
<1>1. TypeOK
  BY TypesInit
<1>2. 0 \in Epoch /\ Len(<<>>) = 0
  BY BoundsAssumption, EmptySeq DEF Epoch
<1>3. KeyInv /\ AckInv /\ AckedWasReceived
  BY <1>2 DEF Init, KeyInv, NetInv, AckInv, AckedWasReceived, None
<1>4. StreamInv
  BY <1>2 DEF Init, StreamInv
<1> QED
  BY <1>1, <1>3, <1>4 DEF VpnInv

LEMMA VpnStep == VpnInv /\ [Next]_vars => VpnInv'
<1> SUFFICES ASSUME VpnInv, [Next]_vars PROVE VpnInv'
  OBVIOUS
<1>1. CASE Next
  BY <1>1, TypesStep, KeysStep, AcksStep, StreamStep DEF VpnInv
<1>2. CASE UNCHANGED vars
  <2>1. TypeOK' /\ StreamInv'
    BY <1>2 DEF vars, client, epochState, server, VpnInv, TypeOK, StreamInv
  <2>2. KeyInv'
    BY <1>2 DEF vars, client, epochState, server, VpnInv, KeyInv, NetInv, Message, Opcode
  <2>3. AckInv' /\ AckedWasReceived'
    BY <1>2 DEF vars, client, epochState, server, VpnInv, AckInv, Had, AckedWasReceived
  <2> QED
    BY <2>1, <2>2, <2>3 DEF VpnInv
<1> QED
  BY <1>1, <1>2

THEOREM VpnInvariant == Spec => []VpnInv
<1>1. Init => VpnInv
  BY VpnInit
<1>2. VpnInv /\ [Next]_vars => VpnInv'
  BY VpnStep
<1> QED
  BY <1>1, <1>2, PTL DEF Spec

\* The variables keep their types, whatever the windows, the lengths and the number of rekeys.
THEOREM TypeCorrect == Spec => []TypeOK
<1>1. VpnInv => TypeOK
  BY DEF VpnInv
<1> QED
  BY <1>1, VpnInvariant, PTL

\* A message is dropped by the server only after the client received it in the same epoch.
THEOREM AcksAreHonest == Spec => []AckedWasReceived
<1>1. VpnInv => AckedWasReceived
  BY DEF VpnInv
<1> QED
  BY <1>1, VpnInvariant, PTL

\* The control channel implements OrderedStream: in every epoch the TLS session reads what the
\* server's session wrote, in order, once, and nothing of another epoch.
THEOREM StreamsInOrder == Spec => StreamInOrder
<1>1. Init => Stream!Init
  BY DEF Init, Stream!Init
<1>2. VpnInv /\ [Next]_vars => [Stream!Next]_<<written, got>>
  <2> SUFFICES ASSUME VpnInv, [Next]_vars PROVE [Stream!Next]_<<written, got>>
    OBVIOUS
  <2>1. CASE Next
    BY <2>1, StreamStep DEF VpnInv
  <2>2. CASE UNCHANGED vars
    BY <2>2 DEF vars, server
  <2> QED
    BY <2>1, <2>2
<1> QED
  BY <1>1, <1>2, VpnInvariant, PTL DEF Spec, StreamInOrder, Stream!Spec

\* Only renegotiate starts the reliable state again, and the epoch it enters is the server's and
\* the next one.
THEOREM EpochsStartOnce == Spec => OneEpochPerReset
<1>1. VpnInv /\ [Next]_vars =>
        [recvMessage' < recvMessage \/ keyID' # keyID => keyID' = keyID + 1 /\ keyID' = serverKey]_vars
  <2> SUFFICES ASSUME VpnInv, Next, recvMessage' < recvMessage \/ keyID' # keyID
               PROVE  keyID' = keyID + 1 /\ keyID' = serverKey
    BY DEF vars
  <2>0. recvMessage \in Nat
    BY DEF VpnInv, TypeOK
  <2>1. CASE Renegotiate
    BY <2>1 DEF Renegotiate, BeginEpoch, VpnInv, KeyInv
  <2>2. ASSUME NEW p \in net, ReadPacket(p) PROVE UNCHANGED keyID /\ recvMessage' >= recvMessage
    BY <2>0, <2>2 DEF ReadPacket, ReadHardReset, ReadMessage, ParkSoftReset, WatchSoftReset, Drop,
                      Deliver, Buffer, Repeat, Refuse, client, epochState
  <2>3. CASE ReadBuffered \/ \E id \in {Hello, Keys, Request} : Write(id)
    BY <2>0, <2>3 DEF ReadBuffered, Write
  <2>4. CASE ReadAll
    <3>1. recvMessage' \in recvMessage .. recvMessage + Capacity /\ keyID' = keyID
      BY <2>4 DEF ReadAll
    <3> QED
      BY <2>0, <3>1, BoundsAssumption
  <2>5. CASE TlsDone \/ ConsumeParked \/ TakeParked
    BY <2>4, <2>5 DEF TlsDone, ConsumeParked, TakeParked
  <2>6. ASSUME KeysDone \/ PushDone \/ ProbeDone \/ DropParked \/ TimeOut \/ ReadAck
        PROVE  UNCHANGED <<keyID, recvMessage>>
    BY <2>6 DEF KeysDone, PushDone, ProbeDone, DropParked, TimeOut, ReadAck, epochState
  <2>7. ASSUME \/ ServerWrite \/ ServerSoftReset \/ \E id \in unacked : ServerRetransmit(id)
               \/ \E id \in pending : RetransmitPending(id)
        PROVE  UNCHANGED <<keyID, recvMessage>>
    BY <2>7 DEF ServerWrite, ServerSoftReset, ServerRetransmit, RetransmitPending, Sends,
                      client, epochState
  <2> QED
    <3>1. recvMessage' \in Nat
      BY VpnStep DEF VpnInv, TypeOK
    <3>2. Renegotiate \/ (keyID' = keyID /\ ~(recvMessage' < recvMessage))
          \/ (keyID' = keyID + 1 /\ keyID' = serverKey)
      BY <2>0, <2>2, <2>3, <2>5, <2>6, <2>7, <3>1 DEF Next, Network, ClientStep
    <3> QED
      BY <2>1, <3>2
<1> QED
  BY <1>1, VpnInvariant, PTL DEF Spec, OneEpochPerReset
=============================================================================
