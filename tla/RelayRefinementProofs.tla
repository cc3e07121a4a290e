------------------------ MODULE RelayRefinementProofs ------------------------
(***************************************************************************)
(* Relay implements Switchboard, for any shells, devices, sockets and      *)
(* traffic: with the invariant of RelayProofs every step of Relay is one   *)
(* of Switchboard or changes nothing that Switchboard shows.               *)
(***************************************************************************)
EXTENDS RelayRefinement, RelayProofs

USE AddressAssumption, NoneAssumption, PeerAssumption, TrafficAssumption

phases == [h \in Handles |-> Phase(h)]
shown == <<phases, connections, requestedShells, scheduledWrites>>

\* Appending is concatenation, in the forms in which the relay writes.
LEMMA Concatenations ==
    ASSUME NEW q \in Seq(Messages), NEW m \in Messages
    PROVE  /\ q \o <<m>> = Append(q, m) /\ q \o <<>> = q
           /\ <<>> \o <<m>> = Append(<<>>, m)
  BY AppendIsConcat, ConcatEmptySeq

LEMMA TwoLetters ==
    ASSUME NEW x \in Messages, NEW y \in Messages
    PROVE  Append(<<x>>, y) = <<x, y>>
  <1>1. <<x>> \in Seq(Messages) /\ <<x, y>> \in Seq(Messages)
    OBVIOUS
  <1>2. /\ Append(<<x>>, y) \in Seq(Messages)
        /\ Len(Append(<<x>>, y)) = 2 /\ Len(<<x, y>>) = 2
        /\ \A i \in 1 .. 2 : Append(<<x>>, y)[i] = <<x, y>>[i]
    BY <1>1
  <1>3. QED
    BY <1>1, <1>2, SeqEqual

LEMMA InitImplements == Init => Board!Init
  BY DEF Init, Board!Init, Phase, IDAddress

\* A socket that has not called in is on no line.
LEMMA Fresh ==
    ASSUME Inv, NEW h \in Handles, said[h] # "connect"
    PROVE  Wipe(connections, h) = connections
  <1>1. \A a \in IDAddress : connections[a] # h
    BY DEF Inv, ConnectionsConsistent
  <1>2. connections = [a \in IDAddress |-> connections[a]]
    BY DEF Inv, TypeOK
  <1>3. QED
    BY <1>1, <1>2 DEF Wipe

\* Sockets that come and go.
LEMMA SocketSteps ==
    ASSUME Inv, NEW h \in Handles,
           Accept(h) \/ ConnectionLost(h)
    PROVE  UNCHANGED shown
  <1>1. phases' = phases
    BY DEF Accept, ConnectionLost, phases, Phase, Inv, TypeOK
  <1>2. QED
    BY <1>1 DEF shown, Accept, ConnectionLost, staging

LEMMA HangsUpSteps ==
    ASSUME Inv, NEW h \in Handles,
           HandlerCloses(h) \/ HandlerFails(h) \/ Disconnects(h)
    PROVE  Board!HangsUp(h) \/ UNCHANGED shown
  <1>1. /\ connections' = Wipe(connections, h)
        /\ UNCHANGED <<requestedShells, scheduledWrites>>
    BY DEF HandlerCloses, HandlerFails, HandlerEnds, Disconnects, staging
  <1>2. phases' = [phases EXCEPT ![h] = "off"]
    <2>1. CASE HandlerCloses(h) \/ HandlerFails(h)
      BY <2>1 DEF HandlerCloses, HandlerFails, HandlerEnds, phases, Phase, Inv, TypeOK
    <2>2. CASE Disconnects(h)
      BY <2>2 DEF Disconnects, phases, Phase, Inv, TypeOK
    <2>3. QED
      BY <2>1, <2>2
  <1>3. CASE phases[h] = "off"
    <2>1. said[h] # "connect"
      BY <1>3 DEF phases, Phase, HandlerCloses, HandlerFails, Disconnects, Readable
    <2>2. connections' = connections
      BY <1>1, <2>1, Fresh
    <2>3. phases' = phases
      BY <1>2, <1>3 DEF phases
    <2>4. QED
      BY <1>1, <2>2, <2>3 DEF shown
  <1>4. CASE phases[h] # "off"
    BY <1>1, <1>2, <1>4 DEF Board!HangsUp, phases, Wipe, IDAddress
  <1>5. QED
    BY <1>3, <1>4

-----------------------------------------------------------------------------
(* Calling in. *)

LEMMA ConnectsRegisters ==
    ASSUME Inv, NEW h \in Handles, Connects(h)
    PROVE  /\ phases[h] = "fresh" /\ said[h] = "nothing"
           /\ phases' = [phases EXCEPT ![h] = "on"]
           /\ connections' = [connections EXCEPT ![Peer[h]] = h]
  <1>1. said[h] = "nothing" /\ Readable(h)
    BY DEF Connects
  <1>2. connections' = [connections EXCEPT ![Peer[h]] = h]
    BY <1>1, Fresh DEF Connects, Establish
  <1>3. phases[h] = "fresh"
    BY <1>1 DEF phases, Phase, Readable
  <1>4. phases' = [phases EXCEPT ![h] = "on"]
    BY <1>1 DEF Connects, phases, Phase, Readable, Inv, TypeOK
  <1>5. QED
    BY <1>1, <1>2, <1>3, <1>4

\* The mailboxes after the acknowledgement.
LEMMA AcknowledgeNotices ==
    ASSUME Inv, NEW h \in Handles, said[h] = "nothing"
    PROVE  /\ Acknowledge(h, Peer[h])[h] = scheduledWrites[h] \o <<ConnectAck>>
           /\ \A g \in Handles : g # h =>
                Acknowledge(h, Peer[h])[g] =
                  scheduledWrites[g] \o IF g = connections[Peer[h]]
                                          THEN <<Disconnect>> ELSE <<>>
  <1>1. scheduledWrites[h] = <<>>
    BY DEF Inv, QueuesOK, QueueOK
  <1>2. \A g \in Handles : scheduledWrites[g] \in Seq(Messages)
    BY DEF Inv, TypeOK
  <1>3. ConnectAck \in Messages /\ Disconnect \in Messages
    BY MessageTypes
  <1>4. Acknowledge(h, Peer[h])[h] = scheduledWrites[h] \o <<ConnectAck>>
    BY <1>1, <1>2, <1>3, AcknowledgeQueues, Concatenations DEF Acked
  <1>5. ASSUME NEW g \in Handles, g # h
        PROVE  Acknowledge(h, Peer[h])[g] =
                 scheduledWrites[g] \o IF g = connections[Peer[h]]
                                         THEN <<Disconnect>> ELSE <<>>
    <2>1. Acknowledge(h, Peer[h])[g] =
            IF connections[Peer[h]] = g THEN Append(scheduledWrites[g], Disconnect)
            ELSE scheduledWrites[g]
      BY <1>5, AcknowledgeQueues
    <2>2. /\ scheduledWrites[g] \o <<Disconnect>> = Append(scheduledWrites[g], Disconnect)
          /\ scheduledWrites[g] \o <<>> = scheduledWrites[g]
      BY <1>2, <1>3, Concatenations
    <2>3. QED
      BY <2>1, <2>2
  <1>6. QED
    BY <1>4, <1>5

LEMMA ShellCallsIn ==
    ASSUME Inv, NEW h \in Handles, ShellConnects(h)
    PROVE  Board!CallsIn(h)
  <1> DEFINE s == Peer[h]
             request == requestedShells[s]
             acked == Acknowledge(h, s)
  <1>1. /\ Connects(h) /\ s \in Shells /\ s # Client
        /\ requestedShells' = [requestedShells EXCEPT ![s] = None]
        /\ scheduledWrites' = IF request = None THEN acked
                              ELSE Write(acked, h, request)
    BY DEF ShellConnects
  <1>2. acked \in [Handles -> Seq(Messages)]
    BY <1>1, AcknowledgeType DEF IDAddress, Inv
  <1>3. request # None => request \in Messages
    BY <1>1, MessageTypes DEF Inv, TypeOK
  <1>4. /\ acked[h] = scheduledWrites[h] \o <<ConnectAck>>
        /\ \A g \in Handles : g # h =>
             acked[g] = scheduledWrites[g] \o IF g = connections[s]
                                                THEN <<Disconnect>> ELSE <<>>
    BY <1>1, ConnectsRegisters, AcknowledgeNotices
  <1>5. requestedShells' = [t \in Shells |-> IF s \in {t, Client} THEN None
                                                       ELSE requestedShells[t]]
    BY <1>1 DEF Inv, TypeOK
  <1>6. ASSUME NEW g \in Handles
        PROVE  scheduledWrites'[g] = scheduledWrites[g] \o Board!Notices(h, g)
    <2> HIDE DEF acked, request
    <2>1. CASE g = h
      <3>1. CASE request = None
        BY <1>1, <1>4, <2>1, <3>1 DEF Board!Notices, request
      <3>2. CASE request # None
        <4>1. scheduledWrites'[h] = Append(acked[h], request)
          BY <1>1, <1>2, <1>3, <3>2, WriteType
        <4>2. scheduledWrites[h] = <<>>
          BY <1>1, ConnectsRegisters DEF Inv, QueuesOK, QueueOK
        <4>3. acked[h] = <<ConnectAck>>
          BY <1>3, <1>4, <3>2, <4>2, Concatenations, MessageTypes
        <4>4. scheduledWrites'[h] = <<ConnectAck, request>>
          BY <1>3, <3>2, <4>1, <4>3, TwoLetters, MessageTypes
        <4>5. Board!Notices(h, h) = <<ConnectAck, request>>
          BY <1>1, <3>2 DEF Board!Notices, request
        <4>6. <<>> \o <<ConnectAck, request>> = <<ConnectAck, request>>
          OBVIOUS
        <4>7. QED
          BY <2>1, <4>2, <4>4, <4>5, <4>6
      <3>3. QED
        BY <3>1, <3>2
    <2>2. CASE g # h
      <3>1. scheduledWrites'[g] = acked[g]
        BY <1>1, <1>2, <1>3, <2>2, WriteType
      <3>2. Board!Notices(h, g) = IF g = connections[s] THEN <<Disconnect>> ELSE <<>>
        BY <1>1, <2>2 DEF Board!Notices
      <3>3. QED
        BY <1>4, <2>2, <3>1, <3>2
    <2>3. QED
      BY <2>1, <2>2
  <1>7. scheduledWrites' \in [Handles -> Seq(Messages)]
    BY <1>1, <1>2, <1>3, WriteType
  <1>8. scheduledWrites' = [g \in Handles |->
                               scheduledWrites[g] \o Board!Notices(h, g)]
    BY <1>6, <1>7
  <1>9. QED
    BY <1>1, <1>5, <1>8, ConnectsRegisters DEF Board!CallsIn, phases

\* The sockets that a new browser tab reaches are those of the shells.
LEMMA ShellLines ==
    ASSUME Inv, NEW h \in Handles, Peer[h] = Client, said[h] = "nothing",
           NEW g \in Handles
    PROVE  /\ \A s \in Shells : Establish(h, Client)[s] = g <=> connections[s] = g
           /\ \A s \in Shells : connections[s] = g =>
                Peer[g] = s /\ g # h /\ connections[Client] # g
  <1>1. Wipe(connections, h) = connections
    BY Fresh
  <1>2. \A s \in Shells : Establish(h, Client)[s] = connections[s]
    BY <1>1 DEF Establish, IDAddress, Inv, TypeOK
  <1>3. ASSUME NEW s \in Shells, connections[s] = g
        PROVE  Peer[g] = s /\ g # h /\ connections[Client] # g
    <2>1. Peer[g] = s
      BY <1>3 DEF Inv, ConnectionsConsistent, IDAddress
    <2>2. connections[Client] = g => Peer[g] = Client
      BY DEF Inv, ConnectionsConsistent, IDAddress
    <2>3. QED
      BY <2>1, <2>2
  <1>4. QED
    BY <1>2, <1>3

LEMMA ClientCallsIn ==
    ASSUME Inv, NEW h \in Handles, ClientConnects(h)
    PROVE  Board!CallsIn(h)
  <1> DEFINE acked == Acknowledge(h, Client)
             onLine(g) == \E s \in Shells : Establish(h, Client)[s] = g
             resets(g) == IF onLine(g)
                          THEN <<Reset(Client, CHOOSE s \in Shells :
                                                  Establish(h, Client)[s] = g)>>
                          ELSE <<>>
  <1>1. /\ Connects(h) /\ Peer[h] = Client /\ said[h] = "nothing"
        /\ requestedShells' = [s \in Shells |-> None]
        /\ scheduledWrites' = [g \in Handles |-> acked[g] \o resets(g)]
    BY DEF ClientConnects, Connects
  <1>2. /\ acked[h] = scheduledWrites[h] \o <<ConnectAck>>
        /\ \A g \in Handles : g # h =>
             acked[g] = scheduledWrites[g] \o IF g = connections[Client]
                                                THEN <<Disconnect>> ELSE <<>>
    BY <1>1, AcknowledgeNotices
  <1>3. acked \in [Handles -> Seq(Messages)]
    BY AcknowledgeType DEF IDAddress, Inv
  <1>4. requestedShells' = [s \in Shells |-> IF Client \in {s, Client} THEN None
                                                       ELSE requestedShells[s]]
    BY <1>1
  <1>5. ASSUME NEW g \in Handles
        PROVE  acked[g] \o resets(g) = scheduledWrites[g] \o Board!Notices(h, g)
    <2> HIDE DEF acked
    <2>1. scheduledWrites[g] \in Seq(Messages)
      BY DEF Inv, TypeOK
    <2>2. CASE \E s \in Shells : connections[s] = g
      <3>1. PICK s \in Shells : connections[s] = g
        BY <2>2
      <3>2. /\ onLine(g) /\ Peer[g] = s /\ g # h /\ connections[Client] # g
            /\ \A t \in Shells : Establish(h, Client)[t] = g <=> t = s
        BY <1>1, <3>1, ShellLines
      <3>3. (CHOOSE t \in Shells : Establish(h, Client)[t] = g) = s
        BY <3>2
      <3>4. resets(g) = <<Reset(Client, s)>>
        BY <3>2, <3>3
      <3>5. acked[g] = scheduledWrites[g]
        BY <1>2, <2>1, <3>2, ConcatEmptySeq
      <3>6. Board!Notices(h, g) = <<Reset(Client, s)>>
        BY <1>1, <3>1, <3>2 DEF Board!Notices, ShellReset
      <3>7. QED
        BY <3>4, <3>5, <3>6
    <2>3. CASE ~ \E s \in Shells : connections[s] = g
      <3>1. ~onLine(g)
        BY <1>1, <2>3, ShellLines
      <3>2. acked[g] \o resets(g) = acked[g]
        BY <1>3, <3>1, ConcatEmptySeq
      <3>3. CASE g = h
        BY <1>1, <1>2, <3>2, <3>3 DEF Board!Notices
      <3>4. CASE g # h
        <4>1. Board!Notices(h, g) = IF g = connections[Client]
                                      THEN <<Disconnect>> ELSE <<>>
          <5>1. Peer[g] \in Shells => connections[Peer[g]] # g
            BY <2>3
          <5>2. Peer[g] \notin Shells => Peer[g] = Client
            BY DEF IDAddress
          <5>3. QED
            BY <1>1, <3>4, <5>1, <5>2 DEF Board!Notices
        <4>2. QED
          BY <1>2, <3>2, <3>4, <4>1
      <3>5. QED
        BY <3>3, <3>4
    <2>4. QED
      BY <2>2, <2>3
  <1>6. scheduledWrites' = [g \in Handles |->
                               scheduledWrites[g] \o Board!Notices(h, g)]
    <2> HIDE DEF acked, resets
    <2> QED
      BY <1>1, <1>5
  <1>7. QED
    BY <1>1, <1>4, <1>6, ConnectsRegisters DEF Board!CallsIn, phases

-----------------------------------------------------------------------------
(* Link messages, timers and the writer. *)

\* A message whose receiver has a line is posted to it, and otherwise lost.
LEMMA Posting ==
    ASSUME NEW m \in Mail, UNCHANGED <<phases, connections, requestedShells>>,
           scheduledWrites' = WriteLink(m)
    PROVE  Board!Posts(m) \/ UNCHANGED shown
  <1>1. CASE connections[NextHop(m.to)] = None
    BY <1>1 DEF WriteLink, WriteTo, shown
  <1>2. CASE connections[NextHop(m.to)] # None
    BY <1>2 DEF WriteLink, WriteTo, Write, Board!Posts, Recipient, phases
  <1>3. QED
    BY <1>1, <1>2

LEMMA LinkMessageSteps ==
    ASSUME Inv, NEW h \in Handles, NEW m \in Traffic, LinkMessage(h, m)
    PROVE  \/ \E letter \in Mail : Board!Posts(letter) \/ Board!Waits(letter)
           \/ UNCHANGED shown
  <1>1. Receives(h, m)
    BY DEF LinkMessage, DropIllegalPair, Forward, DropReset, DropRequestToClient,
           DropDuplicate, RejectRequestToDeadShell, StageRequest, RejectToUnknown,
           ReceivesForUnknown
  <1>2. phases' = phases /\ connections' = connections
    BY <1>1 DEF Receives, phases, Phase
  <1>3. LegalPair(m) => m \in Mail /\ Reset(m.to, m.from) \in Mail
    BY DEF Mail
  <1>4. CASE DropIllegalPair(h, m) \/ DropReset(h, m)
             \/ DropRequestToClient(h, m) \/ DropDuplicate(h, m)
    BY <1>2, <1>4 DEF DropIllegalPair, DropReset, DropRequestToClient,
                      DropDuplicate, shown, staging
  <1>5. CASE Forward(h, m)
    <2>1. /\ m \in Mail /\ scheduledWrites' = WriteLink(m)
          /\ requestedShells' = requestedShells
      BY <1>3, <1>5 DEF Forward, staging
    <2>2. QED
      BY <1>2, <2>1, Posting
  <1>6. CASE RejectRequestToDeadShell(h, m) \/ RejectToUnknown(h, m)
    <2>1. /\ Reset(m.to, m.from) \in Mail
          /\ scheduledWrites' = WriteLink(Reset(m.to, m.from))
          /\ requestedShells' = requestedShells
      BY <1>3, <1>6 DEF RejectRequestToDeadShell, RejectToUnknown,
                        ReceivesForUnknown, staging
    <2>2. QED
      BY <1>2, <2>1, Posting
  <1>7. CASE StageRequest(h, m)
    <2>1. /\ m \in Mail /\ ~ClientSide(m.to) /\ connections[NextHop(m.to)] = None
          /\ \A t \in Shells : requestedShells[t] # m
          /\ requestedShells' = [requestedShells EXCEPT ![m.to] = m]
          /\ scheduledWrites' = scheduledWrites
      BY <1>3, <1>7 DEF StageRequest, ReceivesForUnknown, ReceiverEstablished,
                        IsEstablished, IsDuplicate
    <2>2. m.to \in Shells /\ NextHop(m.to) = m.to
      BY <2>1, MessageTypes DEF ClientSide, NextHop, Address, IDAddress
    <2>3. Board!Waits(m)
      BY <1>2, <2>1, <2>2 DEF Board!Waits, Recipient, phases
    <2>4. QED
      BY <2>1, <2>3
  <1>8. QED
    BY <1>4, <1>5, <1>6, <1>7 DEF LinkMessage

LEMMA TimerSteps ==
    ASSUME Inv, TimerExpires
    PROVE  (\E s \in Shells : Board!GivesUp(s)) \/ UNCHANGED shown
  <1> DEFINE s == Head(timers).shell
  <1>1. s \in Shells
    <2>1. Head(timers) \in [shell : Shells, request : LinkMessages]
      BY HeadTailProperties DEF TimerExpires, Inv, TypeOK
    <2>2. QED
      BY <2>1
  <1>2. /\ phases' = phases /\ connections' = connections
        /\ scheduledWrites' = scheduledWrites
        /\ requestedShells' = [requestedShells EXCEPT ![s] = None]
    BY DEF TimerExpires, peers, phases, Phase
  <1> HIDE DEF s
  <1>3. CASE requestedShells[s] = None
    BY <1>1, <1>2, <1>3 DEF shown, Inv, TypeOK
  <1>4. CASE requestedShells[s] # None
    BY <1>1, <1>2, <1>4 DEF Board!GivesUp, phases
  <1>5. QED
    BY <1>3, <1>4

LEMMA WriterSteps ==
    ASSUME Inv, Writer
    PROVE  (\E h \in Handles : Board!Collects(h)) \/ UNCHANGED shown
  <1>1. CASE WriterStarts \/ WriterLeaves
    BY <1>1 DEF WriterStarts, WriterLeaves, peers, staging, shown, phases, Phase
  <1>2. ASSUME NEW h \in Handles, WriterSends(h)
        PROVE  Board!Collects(h)
    BY <1>2 DEF WriterSends, Board!Collects, staging, phases, Phase
  <1>3. QED
    BY <1>1, <1>2 DEF Writer

-----------------------------------------------------------------------------
(* The refinement. *)

LEMMA NextImplements ==
    Inv /\ [Next]_vars => [Board!Next]_shown
  <1> SUFFICES ASSUME Inv, [Next]_vars
               PROVE  Board!Next \/ UNCHANGED shown
    OBVIOUS
  <1>1. ASSUME NEW h \in Handles,
               \/ Accept(h)
               \/ ConnectionLost(h)
               \/ HandlerCloses(h)
               \/ HandlerFails(h)
               \/ ClientConnects(h)
               \/ ShellConnects(h)
               \/ Disconnects(h)
        PROVE  Board!Next \/ UNCHANGED shown
    BY <1>1, SocketSteps, HangsUpSteps, ClientCallsIn, ShellCallsIn DEF Board!Next
  <1>2. ASSUME NEW h \in Handles, NEW m \in Traffic, LinkMessage(h, m)
        PROVE  Board!Next \/ UNCHANGED shown
    BY <1>2, LinkMessageSteps DEF Board!Next
  <1>3. CASE TimerExpires
    BY <1>3, TimerSteps DEF Board!Next
  <1>4. CASE Writer
    BY <1>4, WriterSteps DEF Board!Next
  <1>5. CASE UNCHANGED vars
    BY <1>5 DEF vars, peers, staging, shown, phases, Phase
  <1>6. QED
    BY <1>1, <1>2, <1>3, <1>4, <1>5 DEF Next

\* Whatever sockets, handlers, timers and the writer do to each other, peers
\* see the switchboard, for every set of shells, devices and sockets.
THEOREM RelayImplementsSwitchboard == Spec => ImplementsSwitchboard
  <1>1. Init => Board!Init
    BY InitImplements
  <1>2. Inv /\ [Next]_vars =>
          [Board!Next]_<<[h \in Handles |-> Phase(h)], connections,
                         requestedShells, scheduledWrites>>
    BY NextImplements DEF shown, phases
  <1>3. QED
    BY RelayInv, <1>1, <1>2, PTL DEF Spec, ImplementsSwitchboard, Board!Spec
=============================================================================
