---------------------------- MODULE RelayProofs ----------------------------
(* Theorems about Relay, for any shells, devices, sockets and traffic. *)
EXTENDS Relay, SequenceTheorems, TLAPS

USE AddressAssumption, NoneAssumption, PeerAssumption, TrafficAssumption

-----------------------------------------------------------------------------
(* The operations of the socket server.                                    *)

LEMMA MessageTypes ==
    /\ ConnectAck \in Messages /\ Disconnect \in Messages
    /\ ConnectAck # Disconnect
    /\ ConnectAck \notin LinkMessages /\ Disconnect \notin LinkMessages
    /\ \A x, y \in Address : Reset(x, y) \in LinkMessages
    /\ LinkMessages \subseteq Messages
    /\ \A m \in LinkMessages : m.from \in Address /\ m.to \in Address
  BY DEF Messages, ConnectAck, Disconnect, LinkMessages, Reset

LEMMA ControlTypes ==
    \A m \in {ConnectAck, Disconnect} : m.type \in {"connect ACK", "disconnect"}
  <1>1. ConnectAck.type = "connect ACK"
    BY DEF ConnectAck
  <1>2. Disconnect.type = "disconnect"
    BY DEF Disconnect
  <1>3. QED
    BY <1>1, <1>2

LEMMA NextHopType == \A a \in Address : NextHop(a) \in IDAddress
  BY DEF NextHop, Address, IDAddress

\* Writing appends to one queue and leaves the others.
LEMMA WriteType ==
  ASSUME NEW q \in [Handles -> Seq(Messages)], NEW h \in Handles,
         NEW m \in Messages
  PROVE  /\ Write(q, h, m) \in [Handles -> Seq(Messages)]
         /\ Write(q, h, m)[h] = Append(q[h], m)
         /\ \A g \in Handles : g # h => Write(q, h, m)[g] = q[g]
  BY DEF Write

LEMMA WriteToType ==
  ASSUME NEW q \in [Handles -> Seq(Messages)], NEW m \in Messages,
         NEW conns \in [IDAddress -> Handles \union {None}],
         NEW a \in Address
  PROVE  WriteTo(conns, q, a, m) \in [Handles -> Seq(Messages)]
  BY WriteType, NextHopType DEF WriteTo

LEMMA EstablishType ==
  ASSUME connections \in [IDAddress -> Handles \union {None}],
         NEW h \in Handles, NEW a \in IDAddress
  PROVE  /\ Wipe(connections, h) \in [IDAddress -> Handles \union {None}]
         /\ Establish(h, a) \in [IDAddress -> Handles \union {None}]
         /\ Establish(h, a)[a] = h
  BY DEF Wipe, Establish

LEMMA AcknowledgeType ==
  ASSUME TypeOK, NEW h \in Handles, NEW a \in IDAddress
  PROVE  Acknowledge(h, a) \in [Handles -> Seq(Messages)]
  <1>1. a \in Address
    BY DEF Address
  <1>2. QED
    BY <1>1, WriteToType, EstablishType, MessageTypes DEF TypeOK, Acknowledge

-----------------------------------------------------------------------------
(* Type correctness.                                                       *)

LEMMA InitTypeOK == Init => TypeOK
  <1>1. \A S : <<>> \in Seq(S)
    BY EmptySeq
  <1>2. 0 \in 0 .. MaxSends
    BY MaxSendsAssumption
  <1>3. QED
    BY <1>1, <1>2 DEF Init, TypeOK

LEMMA NextTypeOK == TypeOK /\ [Next]_vars => TypeOK'
  <1> SUFFICES ASSUME TypeOK, [Next]_vars PROVE TypeOK'
    OBVIOUS
  <1> USE DEF peers, writer, staging
  <1>1. ASSUME NEW h \in Handles, Accept(h) PROVE TypeOK'
    BY <1>1 DEF Accept, TypeOK
  <1>2. ASSUME NEW h \in Handles, ConnectionLost(h) PROVE TypeOK'
    BY <1>2 DEF ConnectionLost, TypeOK
  <1>3. ASSUME NEW h \in Handles, HandlerEnds(h) PROVE TypeOK'
    BY <1>3, EstablishType DEF HandlerEnds, TypeOK
  <1>4. ASSUME NEW h \in Handles, ClientConnects(h) PROVE TypeOK'
    <2>1. Peer[h] \in IDAddress
      OBVIOUS
    <2>2. scheduledWrites' \in [Handles -> Seq(Messages)]
      <3> DEFINE resets(g) ==
                 IF \E s \in Shells : Establish(h, Client)[s] = g
                 THEN <<Reset(Client, CHOOSE s \in Shells : Establish(h, Client)[s] = g)>>
                 ELSE <<>>
      <3>1. \A g \in Handles : resets(g) \in Seq(Messages)
        <4>1. ASSUME NEW g \in Handles, \E s \in Shells : Establish(h, Client)[s] = g
              PROVE  Reset(Client, CHOOSE s \in Shells : Establish(h, Client)[s] = g) \in Messages
          <5>1. (CHOOSE s \in Shells : Establish(h, Client)[s] = g) \in Shells
            BY <4>1
          <5>2. QED
            BY <5>1, MessageTypes DEF Address, IDAddress
        <4>2. QED
          BY <4>1, EmptySeq
      <3>2. \A g \in Handles : Acknowledge(h, Client)[g] \in Seq(Messages)
        BY AcknowledgeType DEF IDAddress
      <3>3. \A g \in Handles : Acknowledge(h, Client)[g] \o resets(g) \in Seq(Messages)
        BY <3>1, <3>2, ConcatProperties
      <3>4. QED
        BY <1>4, <3>3 DEF ClientConnects
    <2>3. requestedShells' \in [Shells -> LinkMessages \union {None}]
      BY <1>4 DEF ClientConnects
    <2>4. QED
      BY <1>4, <2>1, <2>2, <2>3, EstablishType DEF ClientConnects, Connects, TypeOK
  <1>5. ASSUME NEW h \in Handles, ShellConnects(h) PROVE TypeOK'
    <2>1. Peer[h] \in Shells /\ Peer[h] \in IDAddress
      BY <1>5 DEF ShellConnects, IDAddress
    <2>2. scheduledWrites' \in [Handles -> Seq(Messages)]
      <3> DEFINE acked == Acknowledge(h, Peer[h])
                 request == requestedShells[Peer[h]]
      <3>1. acked \in [Handles -> Seq(Messages)]
        BY <2>1, AcknowledgeType
      <3>2. request # None => request \in Messages
        BY <2>1, MessageTypes DEF TypeOK
      <3>3. request # None => Write(acked, h, request) \in [Handles -> Seq(Messages)]
        <4> HIDE DEF acked, request
        <4> QED
          BY <3>1, <3>2, WriteType
      <3>4. QED
        BY <1>5, <3>1, <3>3 DEF ShellConnects
    <2>3. requestedShells' \in [Shells -> LinkMessages \union {None}]
      BY <1>5 DEF ShellConnects, TypeOK
    <2>4. QED
      BY <1>5, <2>1, <2>2, <2>3, EstablishType DEF ShellConnects, Connects, TypeOK
  <1>6. ASSUME NEW h \in Handles, Disconnects(h) PROVE TypeOK'
    BY <1>6, EstablishType DEF Disconnects, TypeOK
  <1>7. ASSUME NEW h \in Handles, NEW m \in Traffic, LinkMessage(h, m) PROVE TypeOK'
    <2>1. m \in LinkMessages /\ m.from \in Address /\ m.to \in Address
      BY MessageTypes
    <2>2. Receives(h, m) =>
            UNCHANGED <<socket, said, told, connections, turn, current>>
            /\ sent' \in [Handles -> 0 .. MaxSends]
      <3>1. ASSUME Receives(h, m) PROVE sent[h] + 1 \in 0 .. MaxSends
        <4>1. sent[h] \in 0 .. MaxSends /\ sent[h] < MaxSends
          BY <3>1 DEF Receives, TypeOK
        <4>2. QED
          BY <4>1, MaxSendsAssumption
      <3>2. Receives(h, m) => sent' = [sent EXCEPT ![h] = sent[h] + 1]
        BY DEF Receives
      <3>3. Receives(h, m) => sent' \in [Handles -> 0 .. MaxSends]
        <4>1. sent \in [Handles -> 0 .. MaxSends]
          BY DEF TypeOK
        <4>2. QED
          BY <3>1, <3>2, <4>1
      <3>4. QED
        BY <3>3 DEF Receives
    <2>3. WriteLink(m) \in [Handles -> Seq(Messages)]
      BY <2>1, WriteToType, MessageTypes DEF WriteLink, TypeOK
    <2>4. WriteLink(Reset(m.to, m.from)) \in [Handles -> Seq(Messages)]
      <3>1. Reset(m.to, m.from).to = m.from
        BY DEF Reset
      <3>2. QED
        BY <2>1, <3>1, WriteToType, MessageTypes DEF WriteLink, TypeOK
    <2>5. CASE DropIllegalPair(h, m) \/ DropReset(h, m)
               \/ DropRequestToClient(h, m) \/ DropDuplicate(h, m)
      BY <2>2, <2>5 DEF DropIllegalPair, DropReset, DropRequestToClient,
         DropDuplicate, ReceivesForUnknown, TypeOK
    <2>6. CASE Forward(h, m) \/ RejectRequestToDeadShell(h, m) \/ RejectToUnknown(h, m)
      BY <2>2, <2>3, <2>4, <2>6 DEF Forward, RejectRequestToDeadShell,
         RejectToUnknown, ReceivesForUnknown, TypeOK
    <2>7. CASE StageRequest(h, m)
      <3>1. m.to \in Shells
        BY <2>1, <2>7 DEF StageRequest, ClientSide, Address, IDAddress
      <3>2. timers' \in Seq([shell : Shells, request : LinkMessages])
        BY <2>1, <2>7, <3>1, AppendProperties DEF StageRequest, TypeOK
      <3>3. QED
        BY <2>1, <2>2, <2>7, <3>1, <3>2 DEF StageRequest, ReceivesForUnknown, TypeOK
    <2>8. QED
      BY <1>7, <2>5, <2>6, <2>7 DEF LinkMessage
  <1>8. CASE TimerExpires
    <2>1. timers' \in Seq([shell : Shells, request : LinkMessages])
      BY <1>8, HeadTailProperties DEF TimerExpires, TypeOK
    <2>2. QED
      BY <1>8, <2>1 DEF TimerExpires, TypeOK
  <1>9. CASE WriterStarts \/ WriterLeaves
    BY <1>9 DEF WriterStarts, WriterLeaves, TypeOK
  <1>10. ASSUME NEW h \in Handles, WriterSends(h) PROVE TypeOK'
    <2>1. scheduledWrites' \in [Handles -> Seq(Messages)]
      <3>1. scheduledWrites[h] \in Seq(Messages) /\ scheduledWrites[h] # <<>>
        BY <1>10 DEF WriterSends, TypeOK
      <3>2. Tail(scheduledWrites[h]) \in Seq(Messages)
        BY <3>1, HeadTailProperties
      <3>3. QED
        BY <1>10, <3>2 DEF WriterSends, TypeOK
    <2>2. told' \in [Handles -> {"nothing", "connect ACK", "disconnect"}]
      <3> DEFINE m == Head(scheduledWrites[h])
      <3>1. m \in {ConnectAck, Disconnect} => m.type \in {"connect ACK", "disconnect"}
        BY ControlTypes
      <3>2. m \in {ConnectAck, Disconnect} =>
              [told EXCEPT ![h] = m.type]
                \in [Handles -> {"nothing", "connect ACK", "disconnect"}]
        BY <3>1 DEF TypeOK
      <3>3. QED
        BY <1>10, <3>2 DEF WriterSends, TypeOK
    <2>3. QED
      BY <1>10, <2>1, <2>2 DEF WriterSends, TypeOK
  <1>11. CASE UNCHANGED vars
    BY <1>11 DEF vars, TypeOK
  <1>12. QED
    BY <1>1, <1>2, <1>3, <1>4, <1>5, <1>6, <1>7, <1>8, <1>9, <1>10, <1>11
       DEF Next, Writer, HandlerCloses, HandlerFails

\* The types of the relay's state, whatever the peers send.
THEOREM RelayTypeOK == Spec => []TypeOK
  BY InitTypeOK, NextTypeOK, PTL DEF Spec

-----------------------------------------------------------------------------
(* The inductive invariant.  It adds to the invariants of Relay            *)
(*   - that nothing is said or queued on a socket before its Connect, and  *)
(*     that a connected peer without its ack has it in its queue;          *)
(*   - that a staged request is addressed to the shell it is staged for.   *)

UnopenedIsSilent ==
    \A h \in Handles : socket[h] = "unused" => said[h] = "nothing"

\* A queue as AckFirst and OnlyOwnMail want it: sock, say and tell are the
\* socket's state and the last control messages, p the peer.
AckHeads(q, tell) ==
    \A i \in DOMAIN q : q[i] = ConnectAck <=> (i = 1 /\ tell = "nothing")
MailFor(q, p) ==
    \A i \in DOMAIN q : q[i] \in LinkMessages => NextHop(q[i].to) = p /\ LegalPair(q[i])
QueueOK(sock, say, tell, q, p) ==
    /\ say = "nothing" => q = <<>> /\ tell = "nothing"
    /\ sock = "open" /\ say # "nothing" /\ tell = "nothing" => q # <<>>
    /\ sock = "open" => AckHeads(q, tell)
    /\ MailFor(q, p)

QueuesOK ==
    \A h \in Handles :
        QueueOK(socket[h], said[h], told[h], scheduledWrites[h], Peer[h])

StagedIsAddressed ==
    \A s \in Shells : requestedShells[s] # None =>
        requestedShells[s].to = s /\ LegalPair(requestedShells[s])

Inv == /\ TypeOK
       /\ ConnectionsConsistent
       /\ UnopenedIsSilent
       /\ QueuesOK
       /\ NoForgottenPeer
       /\ StagedMeansAbsent
       /\ StagedIsTimed
       /\ StagedIsAddressed

LEMMA QueueAppend ==
  ASSUME NEW sock, NEW say, NEW tell, NEW p, NEW q \in Seq(Messages),
         QueueOK(sock, say, tell, q, p), say # "nothing",
         NEW m \in Messages, m # ConnectAck,
         m \in LinkMessages => NextHop(m.to) = p /\ LegalPair(m)
  PROVE  QueueOK(sock, say, tell, Append(q, m), p)
  <1>1. /\ DOMAIN Append(q, m) = 1 .. Len(q) + 1
        /\ DOMAIN q = 1 .. Len(q)
        /\ Len(q) \in Nat
        /\ Append(q, m)[Len(q) + 1] = m
        /\ \A i \in 1 .. Len(q) : Append(q, m)[i] = q[i]
        /\ Append(q, m) # <<>>
    BY AppendProperties, LenProperties
  <1>2. MailFor(Append(q, m), p)
    <2> SUFFICES ASSUME NEW i \in DOMAIN Append(q, m), Append(q, m)[i] \in LinkMessages
                 PROVE  NextHop(Append(q, m)[i].to) = p /\ LegalPair(Append(q, m)[i])
      BY DEF MailFor
    <2>1. CASE i = Len(q) + 1
      BY <1>1, <2>1
    <2>2. CASE i \in 1 .. Len(q)
      BY <1>1, <2>2 DEF QueueOK, MailFor
    <2>3. QED
      BY <1>1, <2>1, <2>2
  <1>3. ASSUME sock = "open" PROVE AckHeads(Append(q, m), tell)
    <2> SUFFICES ASSUME NEW i \in DOMAIN Append(q, m)
                 PROVE  Append(q, m)[i] = ConnectAck <=> (i = 1 /\ tell = "nothing")
      BY DEF AckHeads
    <2>1. CASE i = Len(q) + 1
      <3>1. tell = "nothing" => q # <<>>
        BY <1>3 DEF QueueOK
      <3>2. q # <<>> => Len(q) # 0
        BY EmptySeq, LenProperties
      <3>3. i = 1 => Len(q) = 0
        BY <1>1, <2>1
      <3>4. QED
        BY <1>1, <2>1, <3>1, <3>2, <3>3
    <2>2. CASE i \in 1 .. Len(q)
      BY <1>1, <1>3, <2>2 DEF QueueOK, AckHeads
    <2>3. QED
      BY <1>1, <2>1, <2>2
  <1>4. QED
    BY <1>1, <1>2, <1>3 DEF QueueOK

LEMMA QueueTail ==
  ASSUME NEW sock, NEW say, NEW tell, NEW p, NEW q \in Seq(Messages), q # <<>>,
         QueueOK(sock, say, tell, q, p), NEW tell2,
         tell2 = IF sock = "open" /\ Head(q) \in {ConnectAck, Disconnect}
                 THEN Head(q).type ELSE tell
  PROVE  QueueOK(sock, say, tell2, Tail(q), p)
  <1>1. /\ DOMAIN q = 1 .. Len(q)
        /\ Len(q) \in Nat \ {0}
        /\ Head(q) = q[1]
        /\ DOMAIN Tail(q) = 1 .. Len(q) - 1
        /\ \A i \in 1 .. Len(q) - 1 : Tail(q)[i] = q[i + 1]
    BY HeadTailProperties, LenProperties, EmptySeq
  <1>2. \A i \in DOMAIN Tail(q) : i + 1 \in DOMAIN q /\ i + 1 # 1 /\ Tail(q)[i] = q[i + 1]
    BY <1>1
  <1>3. MailFor(Tail(q), p)
    BY <1>2 DEF QueueOK, MailFor
  <1>4. say # "nothing"
    BY DEF QueueOK
  <1>5. ASSUME sock = "open" PROVE tell2 # "nothing"
    <2>1. 1 \in DOMAIN q
      BY <1>1
    <2>2. tell = "nothing" => Head(q) = ConnectAck
      BY <1>1, <1>5, <2>1 DEF QueueOK, AckHeads
    <2>3. Head(q) \in {ConnectAck, Disconnect} => tell2 # "nothing"
      BY <1>5, ControlTypes
    <2>4. QED
      BY <2>2, <2>3
  <1>6. ASSUME sock = "open" PROVE AckHeads(Tail(q), tell2)
    BY <1>2, <1>5, <1>6 DEF QueueOK, AckHeads
  <1>7. QED
    BY <1>3, <1>4, <1>5, <1>6 DEF QueueOK

-----------------------------------------------------------------------------
(* The connections.                                                        *)

\* ConnectionsConsistent of given functions, without a LET to prime.
Consistent(conns, sock, say) ==
    \A a \in IDAddress : conns[a] # None =>
        /\ sock[conns[a]] \in {"open", "closed"}
        /\ Peer[conns[a]] = a
        /\ say[conns[a]] = "connect"

LEMMA ConsistentDef ==
    /\ ConnectionsConsistent <=> Consistent(connections, socket, said)
    /\ ConnectionsConsistent' <=> Consistent(connections', socket', said')
  BY DEF ConnectionsConsistent, Consistent, Readable

LEMMA NextConnections ==
  ASSUME Inv, [Next]_vars
  PROVE  ConnectionsConsistent' /\ UnopenedIsSilent'
  <1> SUFFICES Consistent(connections', socket', said') /\ UnopenedIsSilent'
    BY ConsistentDef
  <1> DEFINE Goal == Consistent(connections', socket', said') /\ UnopenedIsSilent'
  <1>0. /\ Consistent(connections, socket, said) /\ UnopenedIsSilent
        /\ socket \in [Handles -> {"unused", "open", "closed", "gone"}]
        /\ said \in [Handles -> {"nothing", "connect", "disconnect"}]
        /\ connections \in [IDAddress -> Handles \union {None}]
    BY ConsistentDef DEF Inv, TypeOK
  <1>1. ASSUME NEW h \in Handles, Accept(h) PROVE Goal
    BY <1>0, <1>1 DEF Accept, Consistent, UnopenedIsSilent
  <1>2. ASSUME NEW h \in Handles, ConnectionLost(h) PROVE Goal
    BY <1>0, <1>2 DEF ConnectionLost, Consistent, UnopenedIsSilent
  <1>3. ASSUME NEW h \in Handles, HandlerEnds(h) PROVE Goal
    BY <1>0, <1>3 DEF HandlerEnds, Wipe, Consistent, UnopenedIsSilent
  <1>4. ASSUME NEW h \in Handles, Connects(h) PROVE Goal
    <2>1. /\ socket' = socket /\ socket[h] \in {"open", "closed"}
          /\ said' = [said EXCEPT ![h] = "connect"]
          /\ connections' = Establish(h, Peer[h])
          /\ Peer[h] \in IDAddress
      BY <1>4 DEF Connects, Readable
    <2>2. connections'[Peer[h]] = h
      BY <1>0, <2>1, EstablishType
    <2>3. \A a \in IDAddress : a # Peer[h] /\ connections'[a] # None =>
            connections'[a] = connections[a]
      BY <1>0, <2>1 DEF Establish, Wipe
    <2>4. UnopenedIsSilent'
      BY <1>0, <2>1 DEF UnopenedIsSilent
    <2>5. ASSUME NEW a \in IDAddress, connections'[a] # None
          PROVE  /\ socket'[connections'[a]] \in {"open", "closed"}
                 /\ Peer[connections'[a]] = a
                 /\ said'[connections'[a]] = "connect"
      <3>1. CASE a = Peer[h]
        BY <1>0, <2>1, <2>2, <3>1
      <3>2. CASE a # Peer[h]
        BY <1>0, <2>1, <2>3, <2>5, <3>2 DEF Consistent
      <3>3. QED
        BY <3>1, <3>2
    <2>6. QED
      BY <2>4, <2>5 DEF Consistent
  <1>5. ASSUME NEW h \in Handles, Disconnects(h) PROVE Goal
    <2>1. /\ socket' = socket /\ said' = [said EXCEPT ![h] = "disconnect"]
          /\ connections' = Wipe(connections, h)
          /\ socket[h] \in {"open", "closed"}
      BY <1>5 DEF Disconnects, Readable
    <2>2. QED
      BY <1>0, <2>1 DEF Wipe, Consistent, UnopenedIsSilent
  <1>6. CASE UNCHANGED <<socket, said, connections>>
    BY <1>0, <1>6 DEF Consistent, UnopenedIsSilent
  <1>7. ASSUME NEW h \in Handles, NEW m \in Traffic, LinkMessage(h, m)
        PROVE  UNCHANGED <<socket, said, connections>>
    BY <1>7 DEF LinkMessage, DropIllegalPair, Forward, DropReset, DropRequestToClient,
       DropDuplicate, RejectRequestToDeadShell, StageRequest, RejectToUnknown,
       ReceivesForUnknown, Receives
  <1>8. CASE TimerExpires \/ Writer
    BY <1>6, <1>8 DEF TimerExpires, Writer, WriterStarts, WriterLeaves, WriterSends, peers
  <1>9. QED
    BY <1>1, <1>2, <1>3, <1>4, <1>5, <1>6, <1>7, <1>8
       DEF Next, HandlerCloses, HandlerFails, ClientConnects, ShellConnects, vars, peers

-----------------------------------------------------------------------------
(* The queues.                                                             *)

\* The queue of a socket that has just been acknowledged.
Acked == Append(<<>>, ConnectAck)

LEMMA AckedType == Acked \in Seq(Messages)
  BY MessageTypes, EmptySeq, AppendProperties DEF Acked

\* What a Connect of h does to the queues: its own is started with the ack,
\* a superseded one is ended with a Disconnect.
LEMMA AcknowledgeQueues ==
  ASSUME Inv, NEW h \in Handles, said[h] = "nothing"
  PROVE  /\ Acknowledge(h, Peer[h])[h] = Acked
         /\ \A g \in Handles : g # h =>
              Acknowledge(h, Peer[h])[g] =
                IF connections[Peer[h]] = g THEN Append(scheduledWrites[g], Disconnect)
                ELSE scheduledWrites[g]
  <1> DEFINE a == Peer[h]
             old == connections[a]
             superseded == WriteTo(connections, scheduledWrites, a, Disconnect)
  <1>1. /\ a \in IDAddress /\ NextHop(a) = a
        /\ scheduledWrites \in [Handles -> Seq(Messages)]
        /\ connections \in [IDAddress -> Handles \union {None}]
        /\ old \in Handles \union {None}
    BY DEF Inv, TypeOK, NextHop, IDAddress
  <1>2. old # h
    BY <1>1 DEF Inv, ConnectionsConsistent
  <1>3. scheduledWrites[h] = <<>>
    BY DEF Inv, QueuesOK, QueueOK
  <1>4. /\ superseded \in [Handles -> Seq(Messages)]
        /\ \A g \in Handles : superseded[g] =
             IF old = g THEN Append(scheduledWrites[g], Disconnect) ELSE scheduledWrites[g]
    BY <1>1 DEF WriteTo, Write, Messages
  <1>5. Establish(h, a)[NextHop(a)] = h
    BY <1>1, EstablishType
  <1>6. Acknowledge(h, a) = Write(superseded, h, ConnectAck)
    <2> HIDE DEF superseded, a
    <2>1. Acknowledge(h, a) = WriteTo(Establish(h, a), superseded, a, ConnectAck)
      BY DEF Acknowledge, superseded
    <2>2. h # None
      OBVIOUS
    <2>3. QED
      BY <1>5, <2>1, <2>2 DEF WriteTo
  <1>7. QED
    <2> HIDE DEF superseded
    <2>1. superseded[h] = <<>>
      BY <1>2, <1>3, <1>4
    <2>2. Write(superseded, h, ConnectAck)[h] = Append(superseded[h], ConnectAck)
      BY <1>4, MessageTypes, WriteType
    <2>3. \A g \in Handles : g # h => Write(superseded, h, ConnectAck)[g] = superseded[g]
      BY <1>4, MessageTypes, WriteType
    <2>4. QED
      BY <1>4, <1>6, <2>1, <2>2, <2>3 DEF Acked

\* It is as it should be, whatever the socket.
LEMMA FreshQueue ==
  ASSUME NEW sock, NEW p
  PROVE  QueueOK(sock, "connect", "nothing", Acked, p)
  <1>1. Acked = <<ConnectAck>>
    BY DEF Acked
  <1>2. \A i \in DOMAIN <<ConnectAck>> : i = 1 /\ <<ConnectAck>>[i] = ConnectAck
    OBVIOUS
  <1>3. QED
    BY <1>1, <1>2, MessageTypes DEF QueueOK, AckHeads, MailFor

\* A link message that the relay writes belongs where it is written.
LEMMA WriteLinkQueues ==
  ASSUME Inv, NEW m \in LinkMessages, LegalPair(m), NEW h \in Handles
  PROVE  QueueOK(socket[h], said[h], told[h], WriteLink(m)[h], Peer[h])
  <1> DEFINE a == NextHop(m.to)
  <1>1. /\ a \in IDAddress /\ m \in Messages /\ m # ConnectAck
        /\ scheduledWrites \in [Handles -> Seq(Messages)]
        /\ connections[a] \in Handles \union {None}
        /\ QueueOK(socket[h], said[h], told[h], scheduledWrites[h], Peer[h])
    BY MessageTypes, NextHopType DEF Inv, TypeOK, QueuesOK
  <1>2. CASE connections[a] = h
    <2>1. WriteLink(m)[h] = Append(scheduledWrites[h], m)
      BY <1>1, <1>2, WriteType DEF WriteLink, WriteTo
    <2>2. Peer[h] = a /\ said[h] = "connect"
      BY <1>1, <1>2 DEF Inv, ConnectionsConsistent
    <2>3. QED
      BY <1>1, <2>1, <2>2, QueueAppend
  <1>3. CASE connections[a] # h
    <2>1. WriteLink(m)[h] = scheduledWrites[h]
      BY <1>1, <1>3, WriteType DEF WriteLink, WriteTo
    <2>2. QED
      BY <1>1, <2>1
  <1>4. QED
    BY <1>2, <1>3

\* What a link message does to the relay's state.
LEMMA LinkMessageEffect ==
  ASSUME Inv, NEW h \in Handles, NEW m \in Traffic, LinkMessage(h, m)
  PROVE  /\ UNCHANGED <<socket, said, told, connections>>
         /\ \/ UNCHANGED scheduledWrites
            \/ \E w \in LinkMessages : LegalPair(w) /\ scheduledWrites' = WriteLink(w)
         /\ UNCHANGED staging \/ StageRequest(h, m)
  <1>1. /\ m \in LinkMessages /\ Reset(m.to, m.from) \in LinkMessages
        /\ LegalPair(m) => LegalPair(Reset(m.to, m.from))
    BY MessageTypes DEF LegalPair, Reset
  <1>2. Receives(h, m) => UNCHANGED <<socket, said, told, connections>>
    BY DEF Receives
  <1>3. CASE DropIllegalPair(h, m) \/ DropReset(h, m)
             \/ DropRequestToClient(h, m) \/ DropDuplicate(h, m)
    BY <1>2, <1>3 DEF DropIllegalPair, DropReset, DropRequestToClient,
       DropDuplicate, ReceivesForUnknown
  <1>4. CASE Forward(h, m)
    BY <1>1, <1>2, <1>4 DEF Forward
  <1>5. CASE RejectRequestToDeadShell(h, m) \/ RejectToUnknown(h, m)
    BY <1>1, <1>2, <1>5 DEF RejectRequestToDeadShell, RejectToUnknown, ReceivesForUnknown
  <1>6. CASE StageRequest(h, m)
    BY <1>2, <1>6 DEF StageRequest, ReceivesForUnknown
  <1>7. QED
    BY <1>3, <1>4, <1>5, <1>6 DEF LinkMessage

LEMMA ClientConnectsQueues ==
  ASSUME Inv, NEW h \in Handles, ClientConnects(h), NEW g \in Handles
  PROVE  QueueOK(socket'[g], said'[g], told'[g], scheduledWrites'[g], Peer[g])
  <1> DEFINE conns == Establish(h, Client)
             shell == CHOOSE s \in Shells : conns[s] = g
             resets == IF \E s \in Shells : conns[s] = g
                       THEN <<Reset(Client, shell)>> ELSE <<>>
  <1>1. /\ said[h] = "nothing" /\ Peer[h] = Client
        /\ socket' = socket /\ told' = told /\ said' = [said EXCEPT ![h] = "connect"]
        /\ told[h] = "nothing"
        /\ said \in [Handles -> {"nothing", "connect", "disconnect"}]
        /\ scheduledWrites[g] \in Seq(Messages)
        /\ scheduledWrites'[g] = Acknowledge(h, Client)[g] \o resets
        /\ Acknowledge(h, Client) \in [Handles -> Seq(Messages)]
    BY AcknowledgeType DEF ClientConnects, Connects, Inv, TypeOK, QueuesOK, QueueOK, IDAddress
  <1>2. \A s \in Shells : conns[s] # h /\ (conns[s] # None => conns[s] = connections[s])
    BY DEF Establish, Wipe, IDAddress, Inv, TypeOK
  <1>3. CASE g = h
    <2>1. resets = <<>>
      BY <1>2, <1>3
    <2>2. Acknowledge(h, Client)[h] = Acked
      BY <1>1, AcknowledgeQueues
    <2> HIDE DEF resets
    <2>3. scheduledWrites'[g] = Acked
      BY <1>1, <1>3, <2>1, <2>2, ConcatEmptySeq
    <2>4. said'[g] = "connect" /\ told'[g] = "nothing"
      BY <1>1, <1>3
    <2>5. QED
      BY <2>3, <2>4, FreshQueue
  <1>4. CASE g # h
    <2>1. QueueOK(socket[g], said[g], told[g], scheduledWrites[g], Peer[g])
      BY DEF Inv, QueuesOK
    <2>2. /\ socket'[g] = socket[g] /\ said'[g] = said[g] /\ told'[g] = told[g]
          /\ Acknowledge(h, Client)[g] = IF connections[Client] = g
                                         THEN Append(scheduledWrites[g], Disconnect)
                                         ELSE scheduledWrites[g]
      BY <1>1, <1>4, AcknowledgeQueues
    <2>3. CASE \E s \in Shells : conns[s] = g
      <3>1. shell \in Shells /\ conns[shell] = g
        BY <2>3
      <3>2. connections[shell] = g /\ Peer[g] = shell /\ said[g] = "connect"
        BY <1>2, <3>1 DEF Inv, ConnectionsConsistent, IDAddress
      <3>3. connections[Client] # g
        <4>1. connections[Client] # None => Peer[connections[Client]] = Client
          BY DEF Inv, ConnectionsConsistent, IDAddress
        <4>2. Peer[g] \in Shells
          BY <3>1, <3>2
        <4>3. g # None /\ Client \notin Shells
          OBVIOUS
        <4>4. QED
          BY <4>1, <4>2, <4>3
      <3> HIDE DEF shell
      <3>4. /\ Reset(Client, shell) \in LinkMessages
            /\ Reset(Client, shell) \in Messages /\ Reset(Client, shell) # ConnectAck
            /\ NextHop(Reset(Client, shell).to) = Peer[g]
            /\ LegalPair(Reset(Client, shell))
        <4>1. Client \in Address /\ shell \in Address
          BY <3>1 DEF Address, IDAddress
        <4>2. Reset(Client, shell).to = shell /\ Reset(Client, shell).from = Client
          BY DEF Reset
        <4>3. NextHop(shell) = shell /\ ClientSide(Client) /\ ~ClientSide(shell)
          BY <3>1 DEF NextHop, ClientSide
        <4>4. QED
          BY <3>2, <4>1, <4>2, <4>3, MessageTypes DEF LegalPair
      <3>5. scheduledWrites'[g] = Append(scheduledWrites[g], Reset(Client, shell))
        <4>1. scheduledWrites'[g] = scheduledWrites[g] \o <<Reset(Client, shell)>>
          BY <1>1, <2>2, <2>3, <3>3
        <4>2. QED
          BY <1>1, <3>4, <4>1, AppendIsConcat
      <3>6. QueueOK(socket[g], said[g], told[g],
                    Append(scheduledWrites[g], Reset(Client, shell)), Peer[g])
        BY <1>1, <2>1, <3>2, <3>4, QueueAppend
      <3>7. QED
        BY <2>2, <3>5, <3>6
    <2>4. CASE ~ \E s \in Shells : conns[s] = g
      <3>1. scheduledWrites'[g] = Acknowledge(h, Client)[g]
        <4>1. resets = <<>>
          BY <2>4
        <4>2. Acknowledge(h, Client)[g] \in Seq(Messages)
          BY AcknowledgeType DEF Inv, IDAddress
        <4>3. QED
          BY <1>1, <4>1, <4>2, ConcatEmptySeq
      <3>2. CASE connections[Client] = g
        <4>1. said[g] = "connect"
          BY <3>2 DEF Inv, ConnectionsConsistent, IDAddress
        <4>2. QueueOK(socket[g], said[g], told[g],
                      Append(scheduledWrites[g], Disconnect), Peer[g])
          BY <1>1, <2>1, <4>1, QueueAppend, MessageTypes
        <4>3. QED
          BY <2>2, <3>1, <3>2, <4>2
      <3>3. CASE connections[Client] # g
        BY <2>1, <2>2, <3>1, <3>3
      <3>4. QED
        BY <3>2, <3>3
    <2>5. QED
      BY <2>3, <2>4
  <1>5. QED
    BY <1>3, <1>4

LEMMA ShellConnectsQueues ==
  ASSUME Inv, NEW h \in Handles, ShellConnects(h), NEW g \in Handles
  PROVE  QueueOK(socket'[g], said'[g], told'[g], scheduledWrites'[g], Peer[g])
  <1> DEFINE s == Peer[h]
             request == requestedShells[s]
  <1>1. /\ said[h] = "nothing" /\ s \in Shells /\ s \in IDAddress
        /\ socket' = socket /\ told' = told /\ said' = [said EXCEPT ![h] = "connect"]
        /\ told[h] = "nothing"
        /\ said \in [Handles -> {"nothing", "connect", "disconnect"}]
        /\ scheduledWrites[g] \in Seq(Messages)
        /\ scheduledWrites' = IF request = None THEN Acknowledge(h, s)
                              ELSE Write(Acknowledge(h, s), h, request)
    BY DEF ShellConnects, Connects, Inv, TypeOK, QueuesOK, QueueOK
  <1>2. /\ Acknowledge(h, s) \in [Handles -> Seq(Messages)]
        /\ request \in LinkMessages \union {None}
        /\ request # None => /\ request \in Messages /\ request # ConnectAck
                             /\ request.to = s /\ LegalPair(request)
    BY <1>1, AcknowledgeType, MessageTypes DEF Inv, TypeOK, StagedIsAddressed
  <1>3. /\ Acknowledge(h, s)[h] = Acked
        /\ g # h => Acknowledge(h, s)[g] =
                      IF connections[s] = g THEN Append(scheduledWrites[g], Disconnect)
                      ELSE scheduledWrites[g]
    BY <1>1, AcknowledgeQueues
  <1> HIDE DEF s, request
  <1>4. CASE g = h
    <2>1. Peer[g] = s /\ said'[g] = "connect" /\ told'[g] = "nothing"
      BY <1>1, <1>4 DEF s
    <2>2. QueueOK(socket'[g], said'[g], told'[g], Acked, s)
      BY <2>1, FreshQueue
    <2>3. CASE request = None
      BY <1>1, <1>3, <1>4, <2>1, <2>2, <2>3
    <2>4. CASE request # None
      <3>1. scheduledWrites'[h] = Append(Acked, request)
        <4>1. Write(Acknowledge(h, s), h, request)[h] = Append(Acknowledge(h, s)[h], request)
          BY <1>2, <2>4, WriteType
        <4>2. QED
          BY <1>1, <1>3, <2>4, <4>1
      <3>2. Acked \in Seq(Messages)
        BY AckedType
      <3>3. NextHop(request.to) = s
        BY <1>1, <1>2, <2>4 DEF NextHop
      <3>4. QueueOK(socket'[g], said'[g], told'[g],
                    Append(Acked, request), s)
        <4>1. "connect" # "nothing"
          OBVIOUS
        <4>2. QED
          BY <1>2, <2>1, <2>2, <2>4, <3>2, <3>3, <4>1, QueueAppend
      <3>5. QED
        BY <1>4, <2>1, <3>1, <3>4
    <2>5. QED
      BY <2>3, <2>4
  <1>5. CASE g # h
    <2>1. QueueOK(socket[g], said[g], told[g], scheduledWrites[g], Peer[g])
      BY DEF Inv, QueuesOK
    <2>2. socket'[g] = socket[g] /\ said'[g] = said[g] /\ told'[g] = told[g]
      BY <1>1, <1>5
    <2>3. scheduledWrites'[g] = Acknowledge(h, s)[g]
      <3>1. request # None =>
              Write(Acknowledge(h, s), h, request)[g] = Acknowledge(h, s)[g]
        BY <1>2, <1>5, WriteType
      <3>2. QED
        BY <1>1, <3>1
    <2>4. CASE connections[s] = g
      <3>1. said[g] = "connect"
        BY <1>1, <2>4 DEF Inv, ConnectionsConsistent
      <3>2. QueueOK(socket[g], said[g], told[g],
                    Append(scheduledWrites[g], Disconnect), Peer[g])
        BY <1>1, <2>1, <3>1, QueueAppend, MessageTypes
      <3>3. QED
        BY <1>3, <1>5, <2>2, <2>3, <2>4, <3>2
    <2>5. CASE connections[s] # g
      BY <1>3, <1>5, <2>1, <2>2, <2>3, <2>5
    <2>6. QED
      BY <2>4, <2>5
  <1>6. QED
    BY <1>4, <1>5

LEMMA WriterSendsQueues ==
  ASSUME Inv, NEW h \in Handles, WriterSends(h), NEW g \in Handles
  PROVE  QueueOK(socket'[g], said'[g], told'[g], scheduledWrites'[g], Peer[g])
  <1>1. /\ socket' = socket /\ said' = said
        /\ scheduledWrites[h] \in Seq(Messages) /\ scheduledWrites[h] # <<>>
        /\ scheduledWrites' = [scheduledWrites EXCEPT ![h] = Tail(@)]
        /\ told' = IF socket[h] = "open" /\ Head(scheduledWrites[h]) \in {ConnectAck, Disconnect}
                   THEN [told EXCEPT ![h] = Head(scheduledWrites[h]).type]
                   ELSE told
        /\ scheduledWrites \in [Handles -> Seq(Messages)]
        /\ told \in [Handles -> {"nothing", "connect ACK", "disconnect"}]
    BY DEF WriterSends, Inv, TypeOK
  <1>2. QueueOK(socket[g], said[g], told[g], scheduledWrites[g], Peer[g])
    BY DEF Inv, QueuesOK
  <1>3. CASE g = h
    <2>1. scheduledWrites'[h] = Tail(scheduledWrites[h])
      BY <1>1
    <2>2. told'[h] = IF socket[h] = "open" /\ Head(scheduledWrites[h]) \in {ConnectAck, Disconnect}
                     THEN Head(scheduledWrites[h]).type ELSE told[h]
      BY <1>1
    <2>3. QueueOK(socket[h], said[h], told'[h], Tail(scheduledWrites[h]), Peer[h])
      BY <1>1, <1>2, <1>3, <2>2, QueueTail
    <2>4. QED
      BY <1>1, <1>3, <2>1, <2>3
  <1>4. CASE g # h
    BY <1>1, <1>2, <1>4
  <1>5. QED
    BY <1>3, <1>4

LEMMA NextQueues == ASSUME Inv, [Next]_vars PROVE QueuesOK'
  <1> DEFINE Goal(g) ==
               QueueOK(socket'[g], said'[g], told'[g], scheduledWrites'[g], Peer[g])
  <1> SUFFICES ASSUME NEW g \in Handles PROVE Goal(g)
    BY DEF QueuesOK
  <1>0. /\ QueueOK(socket[g], said[g], told[g], scheduledWrites[g], Peer[g])
        /\ socket \in [Handles -> {"unused", "open", "closed", "gone"}]
        /\ said \in [Handles -> {"nothing", "connect", "disconnect"}]
        /\ \A h \in Handles : socket[h] = "unused" => said[h] = "nothing"
    BY DEF Inv, QueuesOK, TypeOK, UnopenedIsSilent
  <1>1. ASSUME NEW h \in Handles, Accept(h) PROVE Goal(g)
    BY <1>0, <1>1 DEF Accept, QueueOK, AckHeads
  <1>2. ASSUME NEW h \in Handles, ConnectionLost(h) \/ HandlerEnds(h) PROVE Goal(g)
    BY <1>0, <1>2 DEF ConnectionLost, HandlerEnds, QueueOK
  <1>3. ASSUME NEW h \in Handles, ClientConnects(h) PROVE Goal(g)
    BY <1>3, ClientConnectsQueues
  <1>4. ASSUME NEW h \in Handles, ShellConnects(h) PROVE Goal(g)
    BY <1>4, ShellConnectsQueues
  <1>5. ASSUME NEW h \in Handles, Disconnects(h) PROVE Goal(g)
    BY <1>0, <1>5 DEF Disconnects, QueueOK
  <1>6. ASSUME NEW h \in Handles, NEW m \in Traffic, LinkMessage(h, m) PROVE Goal(g)
    <2>1. UNCHANGED <<socket, said, told>>
      BY <1>6, LinkMessageEffect
    <2>2. CASE UNCHANGED scheduledWrites
      BY <1>0, <2>1, <2>2
    <2>3. ASSUME NEW w \in LinkMessages, LegalPair(w), scheduledWrites' = WriteLink(w)
          PROVE  Goal(g)
      BY <2>1, <2>3, WriteLinkQueues
    <2>4. QED
      BY <1>6, <2>2, <2>3, LinkMessageEffect
  <1>7. CASE TimerExpires \/ WriterStarts \/ WriterLeaves \/ UNCHANGED vars
    BY <1>0, <1>7 DEF TimerExpires, WriterStarts, WriterLeaves, peers, vars
  <1>8. ASSUME NEW h \in Handles, WriterSends(h) PROVE Goal(g)
    BY <1>8, WriterSendsQueues
  <1>9. QED
    BY <1>1, <1>2, <1>3, <1>4, <1>5, <1>6, <1>7, <1>8
       DEF Next, Writer, HandlerCloses, HandlerFails

-----------------------------------------------------------------------------
(* Staged requests.                                                        *)

Staging == StagedMeansAbsent /\ StagedIsTimed /\ StagedIsAddressed

LEMMA NextStaging == ASSUME Inv, [Next]_vars PROVE Staging'
  <1>0. /\ StagedMeansAbsent /\ StagedIsTimed /\ StagedIsAddressed
        /\ connections \in [IDAddress -> Handles \union {None}]
        /\ requestedShells \in [Shells -> LinkMessages \union {None}]
        /\ timers \in Seq([shell : Shells, request : LinkMessages])
    BY DEF Inv, TypeOK
  <1>1. CASE UNCHANGED <<connections, requestedShells, timers>>
    BY <1>0, <1>1 DEF Staging, StagedMeansAbsent, StagedIsTimed, StagedIsAddressed, IsEstablished
  <1>2. ASSUME NEW h \in Handles, connections' = Wipe(connections, h), UNCHANGED staging
        PROVE  Staging'
    BY <1>0, <1>2 DEF Staging, StagedMeansAbsent, StagedIsTimed, StagedIsAddressed,
       IsEstablished, Wipe, IDAddress, staging
  <1>3. ASSUME NEW h \in Handles, ClientConnects(h) PROVE Staging'
    BY <1>3 DEF ClientConnects, Staging, StagedMeansAbsent, StagedIsTimed, StagedIsAddressed
  <1>4. ASSUME NEW h \in Handles, ShellConnects(h) PROVE Staging'
    <2>1. /\ Peer[h] \in Shells
          /\ connections' = Establish(h, Peer[h])
          /\ requestedShells' = [requestedShells EXCEPT ![Peer[h]] = None]
          /\ timers' = timers
      BY <1>4 DEF ShellConnects, Connects
    <2>2. \A s \in Shells : requestedShells'[s] # None =>
            requestedShells'[s] = requestedShells[s] /\ s # Peer[h]
      BY <1>0, <2>1
    <2>3. \A s \in Shells : s # Peer[h] /\ connections[s] = None => connections'[s] = None
      BY <1>0, <2>1 DEF Establish, Wipe, IDAddress
    <2>4. QED
      BY <1>0, <2>1, <2>2, <2>3
         DEF Staging, StagedMeansAbsent, StagedIsTimed, StagedIsAddressed, IsEstablished
  <1>5. ASSUME NEW h \in Handles, NEW m \in Traffic, StageRequest(h, m) PROVE Staging'
    <2>1. /\ m \in LinkMessages /\ m.to \in Shells /\ NextHop(m.to) = m.to
          /\ LegalPair(m) /\ ~IsEstablished(m.to)
      <3>1. m \in LinkMessages /\ m.to \in Address
        BY MessageTypes
      <3>2. ~ClientSide(m.to) /\ LegalPair(m) /\ ~IsEstablished(NextHop(m.to))
        BY <1>5 DEF StageRequest, ReceivesForUnknown, ReceiverEstablished
      <3>3. m.to \in Shells /\ NextHop(m.to) = m.to
        BY <3>1, <3>2 DEF ClientSide, NextHop, Address, IDAddress
      <3>4. QED
        BY <3>1, <3>2, <3>3
    <2>2. /\ requestedShells' = [requestedShells EXCEPT ![m.to] = m]
          /\ timers' = Append(timers, [shell |-> m.to, request |-> m])
          /\ connections' = connections
      BY <1>5 DEF StageRequest, ReceivesForUnknown, Receives
    <2>3. /\ DOMAIN timers = 1 .. Len(timers) /\ DOMAIN timers' = 1 .. Len(timers) + 1
          /\ Len(timers) \in Nat
          /\ timers'[Len(timers) + 1] = [shell |-> m.to, request |-> m]
          /\ \A i \in DOMAIN timers : timers'[i] = timers[i]
      BY <1>0, <2>1, <2>2, AppendProperties, LenProperties
    <2>4. StagedIsTimed'
      <3>1. ASSUME NEW s \in Shells, requestedShells'[s] # None
            PROVE  \E i \in DOMAIN timers' : timers'[i].shell = s
        <4>1. CASE s = m.to
          BY <2>3, <4>1
        <4>2. CASE s # m.to
          BY <1>0, <2>2, <2>3, <3>1, <4>2 DEF StagedIsTimed
        <4>3. QED
          BY <4>1, <4>2
      <3>2. QED
        BY <3>1 DEF StagedIsTimed
    <2>5. StagedMeansAbsent' /\ StagedIsAddressed'
      BY <1>0, <2>1, <2>2 DEF StagedMeansAbsent, StagedIsAddressed, IsEstablished
    <2>6. QED
      BY <2>4, <2>5 DEF Staging
  <1>6. CASE TimerExpires
    <2>1. /\ timers # <<>> /\ timers' = Tail(timers) /\ connections' = connections
          /\ requestedShells' = [requestedShells EXCEPT ![Head(timers).shell] = None]
      BY <1>6 DEF TimerExpires
    <2>2. /\ DOMAIN timers = 1 .. Len(timers) /\ DOMAIN timers' = 1 .. Len(timers) - 1
          /\ Len(timers) \in Nat \ {0}
          /\ Head(timers) = timers[1]
          /\ \A i \in 1 .. Len(timers) - 1 : timers'[i] = timers[i + 1]
      BY <1>0, <2>1, HeadTailProperties, LenProperties, EmptySeq
    <2>3. ASSUME NEW s \in Shells, requestedShells'[s] # None
          PROVE  \E i \in DOMAIN timers' : timers'[i].shell = s
      <3>1. requestedShells[s] # None /\ s # Head(timers).shell
        BY <1>0, <2>1, <2>3
      <3>2. PICK i \in DOMAIN timers : timers[i].shell = s
        BY <1>0, <3>1 DEF StagedIsTimed
      <3>3. i # 1
        BY <2>2, <3>1, <3>2
      <3>4. i - 1 \in DOMAIN timers' /\ timers'[i - 1] = timers[i]
        BY <2>2, <3>2, <3>3
      <3>5. QED
        BY <3>2, <3>4
    <2>4. StagedMeansAbsent' /\ StagedIsAddressed'
      BY <1>0, <2>1 DEF StagedMeansAbsent, StagedIsAddressed, IsEstablished
    <2>5. QED
      BY <2>3, <2>4 DEF Staging, StagedIsTimed
  <1>7. ASSUME NEW h \in Handles, NEW m \in Traffic, LinkMessage(h, m) PROVE Staging'
    BY <1>1, <1>5, <1>7, LinkMessageEffect DEF staging
  <1>8. QED
    BY <1>1, <1>2, <1>3, <1>4, <1>6, <1>7 DEF Next, Writer, Accept, ConnectionLost,
       HandlerCloses, HandlerFails, HandlerEnds, Disconnects, WriterStarts,
       WriterSends, WriterLeaves, vars, staging

-----------------------------------------------------------------------------
(* Superseded peers are told.                                              *)

Warned(q) == \E i \in DOMAIN q : q[i] = Disconnect

LEMMA WarnedAppend ==
  ASSUME NEW q \in Seq(Messages), NEW m \in Messages, Warned(q) \/ m = Disconnect
  PROVE  Warned(Append(q, m))
  <1>1. /\ DOMAIN Append(q, m) = 1 .. Len(q) + 1 /\ DOMAIN q = 1 .. Len(q)
        /\ Len(q) \in Nat
        /\ Append(q, m)[Len(q) + 1] = m
        /\ \A i \in 1 .. Len(q) : Append(q, m)[i] = q[i]
    BY AppendProperties, LenProperties
  <1>2. QED
    BY <1>1 DEF Warned

LEMMA WarnedConcat ==
  ASSUME NEW q \in Seq(Messages), NEW r \in Seq(Messages), Warned(q)
  PROVE  Warned(q \o r)
  <1>1. /\ DOMAIN (q \o r) = 1 .. Len(q) + Len(r) /\ DOMAIN q = 1 .. Len(q)
        /\ Len(q) \in Nat /\ Len(r) \in Nat
        /\ \A i \in 1 .. Len(q) : (q \o r)[i] = q[i]
    BY ConcatProperties, LenProperties
  <1>2. QED
    BY <1>1 DEF Warned

LEMMA WarnedTail ==
  ASSUME NEW q \in Seq(Messages), q # <<>>, Warned(q), Head(q) # Disconnect
  PROVE  Warned(Tail(q))
  <1>1. /\ DOMAIN q = 1 .. Len(q)
        /\ Len(q) \in Nat \ {0}
        /\ Head(q) = q[1]
        /\ DOMAIN Tail(q) = 1 .. Len(q) - 1
        /\ \A i \in 1 .. Len(q) - 1 : Tail(q)[i] = q[i + 1]
    BY HeadTailProperties, LenProperties, EmptySeq
  <1>2. PICK i \in DOMAIN q : q[i] = Disconnect
    BY DEF Warned
  <1>3. i # 1
    BY <1>1, <1>2
  <1>4. i - 1 \in DOMAIN Tail(q) /\ Tail(q)[i - 1] = Disconnect
    BY <1>1, <1>2, <1>3
  <1>5. QED
    BY <1>4 DEF Warned

LEMMA NoForgottenPeerDef ==
  NoForgottenPeer <=>
    \A h \in Handles : socket[h] = "open" /\ said[h] = "connect" =>
        connections[Peer[h]] = h \/ told[h] = "disconnect" \/ Warned(scheduledWrites[h])
  BY DEF NoForgottenPeer, Warned

\* A Connect leaves every other socket established or warned, as it was, and
\* the socket it supersedes warned.
LEMMA ConnectsWarns ==
  ASSUME Inv, NEW h \in Handles, ClientConnects(h) \/ ShellConnects(h),
         NEW g \in Handles, g # h,
         \/ Warned(scheduledWrites[g])
         \/ connections[Peer[g]] = g
  PROVE  connections'[Peer[g]] = g \/ Warned(scheduledWrites'[g])
  <1> DEFINE acked == Acknowledge(h, Peer[h])
  <1>1. /\ Connects(h) /\ said[h] = "nothing"
        /\ Peer[h] \in IDAddress /\ Peer[g] \in IDAddress
        /\ connections' = Establish(h, Peer[h])
        /\ connections \in [IDAddress -> Handles \union {None}]
        /\ scheduledWrites[g] \in Seq(Messages)
        /\ acked \in [Handles -> Seq(Messages)]
    BY AcknowledgeType DEF ClientConnects, ShellConnects, Connects, Inv, TypeOK
  <1>2. Warned(acked[g]) => Warned(scheduledWrites'[g])
    <2>1. CASE ShellConnects(h)
      <3> DEFINE request == requestedShells[Peer[h]]
      <3>1. request # None => request \in Messages
        BY <2>1, MessageTypes DEF ShellConnects, Inv, TypeOK
      <3>2. scheduledWrites' = IF request = None THEN acked ELSE Write(acked, h, request)
        BY <2>1 DEF ShellConnects
      <3> HIDE DEF acked, request
      <3>3. Write(acked, h, request)[g] = acked[g]
        BY <1>1 DEF Write
      <3>4. QED
        BY <3>2, <3>3
    <2>2. CASE ClientConnects(h)
      <3> DEFINE conns == Establish(h, Client)
                 shell == CHOOSE s \in Shells : conns[s] = g
                 resets == IF \E s \in Shells : conns[s] = g
                           THEN <<Reset(Client, shell)>> ELSE <<>>
      <3>1. scheduledWrites'[g] = acked[g] \o resets
        BY <2>2 DEF ClientConnects
      <3>2. resets \in Seq(Messages)
        <4>1. ASSUME \E s \in Shells : conns[s] = g
              PROVE  Reset(Client, shell) \in Messages
          <5>1. shell \in Shells
            BY <4>1
          <5>2. QED
            BY <5>1, MessageTypes DEF Address, IDAddress
        <4>2. QED
          BY <4>1, EmptySeq
      <3> HIDE DEF acked, resets
      <3>3. QED
        BY <1>1, <3>1, <3>2, WarnedConcat
    <2>3. QED
      BY <2>1, <2>2
  <1>3. acked[g] = IF connections[Peer[h]] = g THEN Append(scheduledWrites[g], Disconnect)
                   ELSE scheduledWrites[g]
    BY <1>1, AcknowledgeQueues
  <1>4. CASE connections[Peer[h]] = g
    <2>1. Warned(Append(scheduledWrites[g], Disconnect))
      BY <1>1, MessageTypes, WarnedAppend
    <2>2. QED
      BY <1>2, <1>3, <1>4, <2>1
  <1>5. CASE connections[Peer[h]] # g
    <2>1. connections[Peer[g]] = g => connections'[Peer[g]] = g
      BY <1>1, <1>5 DEF Establish, Wipe
    <2>2. QED
      BY <1>2, <1>3, <1>5, <2>1
  <1>6. QED
    BY <1>4, <1>5

LEMMA NextForgetsNobody == ASSUME Inv, [Next]_vars PROVE NoForgottenPeer'
  <1> DEFINE Known(g) == \/ connections'[Peer[g]] = g
                         \/ told'[g] = "disconnect"
                         \/ Warned(scheduledWrites'[g])
  <1> SUFFICES ASSUME NEW g \in Handles, socket'[g] = "open", said'[g] = "connect"
               PROVE  Known(g)
    BY DEF NoForgottenPeer, Warned
  <1>0. /\ socket \in [Handles -> {"unused", "open", "closed", "gone"}]
        /\ said \in [Handles -> {"nothing", "connect", "disconnect"}]
        /\ told \in [Handles -> {"nothing", "connect ACK", "disconnect"}]
        /\ connections \in [IDAddress -> Handles \union {None}]
        /\ scheduledWrites \in [Handles -> Seq(Messages)]
        /\ Peer[g] \in IDAddress
        /\ \A h \in Handles : socket[h] = "unused" => said[h] = "nothing"
        /\ socket[g] = "open" /\ said[g] = "connect" =>
             connections[Peer[g]] = g \/ told[g] = "disconnect" \/ Warned(scheduledWrites[g])
    BY NoForgottenPeerDef DEF Inv, TypeOK, UnopenedIsSilent
  <1>1. ASSUME NEW h \in Handles, Accept(h) PROVE Known(g)
    BY <1>0, <1>1 DEF Accept
  <1>2. ASSUME NEW h \in Handles, ConnectionLost(h) PROVE Known(g)
    BY <1>0, <1>2 DEF ConnectionLost
  <1>3. ASSUME NEW h \in Handles, HandlerEnds(h) PROVE Known(g)
    BY <1>0, <1>3 DEF HandlerEnds, Wipe
  <1>4. ASSUME NEW h \in Handles, ClientConnects(h) \/ ShellConnects(h) PROVE Known(g)
    <2>1. /\ socket' = socket /\ told' = told
          /\ said' = [said EXCEPT ![h] = "connect"]
          /\ connections' = Establish(h, Peer[h])
      BY <1>4 DEF ClientConnects, ShellConnects, Connects
    <2>2. CASE g = h
      BY <1>0, <2>1, <2>2, EstablishType
    <2>3. CASE g # h
      <3>1. socket[g] = "open" /\ said[g] = "connect"
        BY <1>0, <2>1, <2>3
      <3>2. QED
        BY <1>0, <1>4, <2>1, <2>3, <3>1, ConnectsWarns
    <2>4. QED
      BY <2>2, <2>3
  <1>5. ASSUME NEW h \in Handles, Disconnects(h) PROVE Known(g)
    BY <1>0, <1>5 DEF Disconnects, Wipe
  <1>6. ASSUME NEW h \in Handles, NEW m \in Traffic, LinkMessage(h, m) PROVE Known(g)
    <2>1. UNCHANGED <<socket, said, told, connections>>
      BY <1>6, LinkMessageEffect
    <2>2. Warned(scheduledWrites[g]) => Warned(scheduledWrites'[g])
      <3>1. ASSUME NEW w \in LinkMessages, scheduledWrites' = WriteLink(w)
            PROVE  \/ scheduledWrites'[g] = scheduledWrites[g]
                   \/ w \in Messages /\ scheduledWrites'[g] = Append(scheduledWrites[g], w)
        <4>1. w \in Messages /\ connections[NextHop(w.to)] \in Handles \union {None}
          BY <1>0, MessageTypes, NextHopType
        <4>2. QED
          BY <1>0, <3>1, <4>1 DEF WriteLink, WriteTo, Write
      <3>2. scheduledWrites[g] \in Seq(Messages)
        BY <1>0
      <3>3. ASSUME NEW w \in LinkMessages, scheduledWrites' = WriteLink(w),
                   Warned(scheduledWrites[g])
            PROVE  Warned(scheduledWrites'[g])
        BY <3>1, <3>2, <3>3, WarnedAppend
      <3>4. QED
        BY <1>6, <3>3, LinkMessageEffect
    <2>3. QED
      BY <1>0, <2>1, <2>2
  <1>7. CASE TimerExpires \/ WriterStarts \/ WriterLeaves \/ UNCHANGED vars
    BY <1>0, <1>7 DEF TimerExpires, WriterStarts, WriterLeaves, peers, vars
  <1>8. ASSUME NEW h \in Handles, WriterSends(h) PROVE Known(g)
    <2>1. /\ socket' = socket /\ said' = said /\ connections' = connections
          /\ scheduledWrites[h] # <<>>
          /\ scheduledWrites' = [scheduledWrites EXCEPT ![h] = Tail(@)]
          /\ told' = IF socket[h] = "open" /\ Head(scheduledWrites[h]) \in {ConnectAck, Disconnect}
                     THEN [told EXCEPT ![h] = Head(scheduledWrites[h]).type]
                     ELSE told
      BY <1>8 DEF WriterSends
    <2>2. CASE g # h
      BY <1>0, <2>1, <2>2
    <2>3. CASE g = h /\ Head(scheduledWrites[h]) = Disconnect
      <3>1. Disconnect.type = "disconnect"
        BY DEF Disconnect
      <3>2. QED
        BY <1>0, <2>1, <2>3, <3>1
    <2>4. CASE g = h /\ Head(scheduledWrites[h]) # Disconnect
      <3>1. Warned(scheduledWrites[h]) => Warned(scheduledWrites'[h])
        BY <1>0, <2>1, <2>4, WarnedTail
      <3>2. told[h] = "disconnect" => told'[h] = "disconnect"
        <4>1. ASSUME told[h] = "disconnect" PROVE Head(scheduledWrites[h]) # ConnectAck
          <5>1. AckHeads(scheduledWrites[h], told[h])
            BY <1>0, <2>1, <2>4 DEF Inv, QueuesOK, QueueOK
          <5>2. 1 \in DOMAIN scheduledWrites[h] /\ Head(scheduledWrites[h]) = scheduledWrites[h][1]
            <6> DEFINE q == scheduledWrites[h]
            <6>1. q \in Seq(Messages) /\ q # <<>>
              BY <1>0, <2>1
            <6> HIDE DEF q
            <6>2. Head(q) = q[1] /\ Len(q) \in Nat \ {0} /\ DOMAIN q = 1 .. Len(q)
              BY <6>1, HeadTailProperties, LenProperties, EmptySeq
            <6>3. 1 \in DOMAIN q
              BY <6>2
            <6>4. QED
              BY <6>2, <6>3 DEF q
          <5>3. QED
            BY <4>1, <5>1, <5>2 DEF AckHeads
        <4>2. QED
          BY <2>1, <2>4, <4>1
      <3>3. QED
        BY <1>0, <2>1, <2>4, <3>1, <3>2
    <2>5. QED
      BY <2>2, <2>3, <2>4
  <1>9. QED
    BY <1>1, <1>2, <1>3, <1>4, <1>5, <1>6, <1>7, <1>8
       DEF Next, Writer, HandlerCloses, HandlerFails

-----------------------------------------------------------------------------
(* The theorems.                                                           *)

LEMMA InitInv == Init => Inv
  <1> SUFFICES ASSUME Init PROVE Inv
    OBVIOUS
  <1>1. TypeOK
    BY InitTypeOK
  <1>2. ConnectionsConsistent /\ UnopenedIsSilent /\ NoForgottenPeer
    BY DEF Init, ConnectionsConsistent, UnopenedIsSilent, NoForgottenPeer
  <1>3. QueuesOK
    BY DEF Init, QueuesOK, QueueOK, AckHeads, MailFor
  <1>4. StagedMeansAbsent /\ StagedIsTimed /\ StagedIsAddressed
    BY DEF Init, StagedMeansAbsent, StagedIsTimed, StagedIsAddressed
  <1>5. QED
    BY <1>1, <1>2, <1>3, <1>4 DEF Inv

LEMMA NextInv == Inv /\ [Next]_vars => Inv'
  <1> SUFFICES ASSUME Inv, [Next]_vars PROVE Inv'
    OBVIOUS
  <1>1. TypeOK'
    BY NextTypeOK DEF Inv
  <1>2. QED
    BY <1>1, NextConnections, NextQueues, NextStaging, NextForgetsNobody DEF Inv, Staging

THEOREM RelayInv == Spec => []Inv
  BY InitInv, NextInv, PTL DEF Spec

LEMMA QueuesImply == QueuesOK => AckFirst /\ OnlyOwnMail
  <1> SUFFICES ASSUME QueuesOK, NEW h \in Handles
               PROVE  /\ socket[h] = "open" => AckHeads(scheduledWrites[h], told[h])
                      /\ MailFor(scheduledWrites[h], Peer[h])
    BY DEF AckFirst, OnlyOwnMail, AckHeads, MailFor
  <1> QED
    BY DEF QueuesOK, QueueOK

\* However sockets are taken over, fail and close, an address is established
\* only through a live socket of its own peer.
THEOREM ConnectionsAreConsistent == Spec => []ConnectionsConsistent
  <1>1. Inv => ConnectionsConsistent
    BY DEF Inv
  <1>2. QED
    BY RelayInv, <1>1, PTL

\* The relay loses track of no live peer without a Disconnect on its way.
THEOREM NobodyIsForgotten == Spec => []NoForgottenPeer
  <1>1. Inv => NoForgottenPeer
    BY DEF Inv
  <1>2. QED
    BY RelayInv, <1>1, PTL

\* A peer's ConnectAck is the first thing it is sent, and it is sent once.
THEOREM AckComesFirst == Spec => []AckFirst
  <1>1. Inv => AckFirst
    BY QueuesImply DEF Inv
  <1>2. QED
    BY RelayInv, <1>1, PTL

\* Nothing is queued for a peer it is not addressed to, nor from its own side.
THEOREM MailIsOwn == Spec => []OnlyOwnMail
  <1>1. Inv => OnlyOwnMail
    BY QueuesImply DEF Inv
  <1>2. QED
    BY RelayInv, <1>1, PTL

\* Staging and registration cannot miss each other: what is staged waits for
\* a shell that is not connected.
THEOREM StagedWaitForAbsentShells == Spec => []StagedMeansAbsent
  <1>1. Inv => StagedMeansAbsent
    BY DEF Inv
  <1>2. QED
    BY RelayInv, <1>1, PTL

\* No staged request is without a timer of its shell, whichever timers other
\* requests have used up.
THEOREM StagedRequestsAreTimed == Spec => []StagedIsTimed
  <1>1. Inv => StagedIsTimed
    BY DEF Inv
  <1>2. QED
    BY RelayInv, <1>1, PTL
=============================================================================
