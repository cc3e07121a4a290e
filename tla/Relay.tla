------------------------------- MODULE Relay -------------------------------
(***************************************************************************)
(* The relay process of RIOT-WebEditor: one asyncio event loop that keeps  *)
(* one protocol connection to the browser (the Client) and one to every    *)
(* RIOT shell, and forwards link messages between the two sides.  The      *)
(* module models, top to bottom,                                           *)
(*   relay.py                           routing, staged requests, timeouts *)
(*   protocol/transport/remote_socket_server.py   connect / disconnect     *)
(*   rsocket/remote_socket_server.py    handler and writer tasks           *)
(* (under src/riot-web-tools/src/riot_web_tools).  Every action is a run   *)
(* of Python code between two awaits.                                      *)
(*                                                                         *)
(* The peers (shells, browser tabs) are the environment: they open a       *)
(* socket, say Connect on it, send at most MaxSends link messages taken    *)
(* from Traffic, may say Disconnect, and may vanish at any time.  Sending  *)
(* a message and the relay receiving it are one step, so a message that a  *)
(* peer sent before it read a Disconnect is one it sends after it.         *)
(***************************************************************************)
EXTENDS Naturals, Sequences

CONSTANTS
    Shells,      \* shell ids (ShellAddress.id)
    Devices,     \* device names (DeviceAddress.device_name)
    Client,      \* the one ClientAddress
    Handles,     \* SocketHandles: uuids, never reused
    Peer,        \* Peer[h]: the browser tab or shell that opens socket h
    None,
    Traffic,     \* the link messages peers send
    MaxSends     \* bound: link messages per socket

IDAddress == Shells \union {Client}
Address == IDAddress \union Devices
ClientSide(a) == a \in Devices \union {Client}

\* The peer whose socket carries messages for address a.
NextHop(a) == IF a \in Devices THEN Client ELSE a

Requests == {"flash", "term"}

\* CMD, ACK, LOG and IO are treated alike by the relay: all are "IO" here.
LinkMessages == [type    : {"REQ", "RST", "IO"},
                 from    : Address,
                 to      : Address,
                 spawned : BOOLEAN,
                 request : Requests \union {None}]

Reset(sender, receiver) == [type |-> "RST", from |-> sender, to |-> receiver,
                            spawned |-> FALSE, request |-> None]

ConnectAck == [type |-> "connect ACK"]
Disconnect == [type |-> "disconnect"]
Messages == LinkMessages \union {ConnectAck, Disconnect}

ASSUME AddressAssumption ==
    /\ Client \notin Shells \union Devices
    /\ Shells \intersect Devices = {}
ASSUME NoneAssumption == None \notin Shells \union Devices \union {Client}
                                      \union Handles \union Requests
                                      \union LinkMessages
ASSUME PeerAssumption == Peer \in [Handles -> IDAddress]
ASSUME TrafficAssumption == Traffic \subseteq LinkMessages
ASSUME MaxSendsAssumption == MaxSends \in Nat

VARIABLES
    (* the sockets, as the relay and as the peer at the other end see them *)
    socket,      \* "unused", "open", "closed" (handler still runs), "gone"
    said,        \* the last control message of the peer
    told,        \* the last control message the peer received
    sent,        \* how many link messages the peer sent
    (* ProtocolAsyncRemoteSocketServer *)
    connections,        \* _connections
    (* Relay *)
    requestedShells,    \* requested_shells
    timers,             \* the sleeping timeout_workers, in the order they wake
    (* AsyncRemoteSocketServer *)
    scheduledWrites,    \* _scheduled_writes; an empty queue has no entry
    turn,               \* handles the writer's pass still has to visit
    current             \* the handle whose queue it is draining

peers == <<socket, said, told, sent>>
writer == <<turn, current>>
staging == <<requestedShells, timers>>
vars == <<peers, connections, staging, scheduledWrites, writer>>

Init ==
    /\ socket = [h \in Handles |-> "unused"]
    /\ said = [h \in Handles |-> "nothing"]
    /\ told = [h \in Handles |-> "nothing"]
    /\ sent = [h \in Handles |-> 0]
    /\ connections = [a \in IDAddress |-> None]
    /\ requestedShells = [s \in Shells |-> None]
    /\ timers = <<>>
    /\ scheduledWrites = [h \in Handles |-> <<>>]
    /\ turn = {}
    /\ current = None

-----------------------------------------------------------------------------
(* Operations of the two socket-server classes.                            *)

IsEstablished(a) == connections[a] # None

\* AsyncRemoteSocketServer.write
Write(queues, h, m) == [queues EXCEPT ![h] = Append(@, m)]

\* write_to: a message for an address without a connection is dropped.
WriteTo(conns, queues, a, m) ==
    IF conns[NextHop(a)] = None THEN queues
    ELSE Write(queues, conns[NextHop(a)], m)

WriteLink(m) == WriteTo(connections, scheduledWrites, m.to, m)

\* __wipe_connection__: by handle, whoever is established through it
Wipe(conns, h) == [a \in IDAddress |-> IF conns[a] = h THEN None ELSE conns[a]]

Establish(h, a) == [Wipe(connections, h) EXCEPT ![a] = h]

\* The answer to a Connect: Disconnect to a superseded socket, then the ack.
Acknowledge(h, a) ==
    LET superseded == WriteTo(connections, scheduledWrites, a, Disconnect)
    IN  WriteTo(Establish(h, a), superseded, a, ConnectAck)

-----------------------------------------------------------------------------
(* Sockets come and go.                                                    *)

\* A browser may have several tabs; a shell process opens one socket.
Accept(h) ==
    /\ socket[h] = "unused"
    /\ Peer[h] \in Shells => \A g \in Handles : Peer[g] = Peer[h] => socket[g] # "open"
    /\ socket' = [socket EXCEPT ![h] = "open"]
    /\ UNCHANGED <<said, told, sent, connections, staging, scheduledWrites, writer>>

\* The peer closes, dies, or stops answering pings.
ConnectionLost(h) ==
    /\ socket[h] = "open"
    /\ socket' = [socket EXCEPT ![h] = "closed"]
    /\ UNCHANGED <<said, told, sent, connections, staging, scheduledWrites, writer>>

\* Mutant: the closed callback is not called.
HandlerEnds_Keeps(h) ==
    /\ socket' = [socket EXCEPT ![h] = "gone"]
    /\ UNCHANGED <<said, told, sent, connections, staging, scheduledWrites, writer>>

\* Mutant: the close removes the peer's address instead of the handle.
HandlerEnds_ByAddress(h) ==
    /\ socket' = [socket EXCEPT ![h] = "gone"]
    /\ connections' = [connections EXCEPT ![Peer[h]] = None]
    /\ UNCHANGED <<said, told, sent, staging, scheduledWrites, writer>>

HandlerEnds(h) ==
    /\ socket' = [socket EXCEPT ![h] = "gone"]
    /\ connections' = Wipe(connections, h)
    /\ UNCHANGED <<said, told, sent, staging, scheduledWrites, writer>>

\* The handler runs out of buffered messages on a closed socket.
HandlerCloses(h) == socket[h] = "closed" /\ HandlerEnds(h)

\* A message that cannot be decoded ends the handler of a live socket.
HandlerFails(h) == socket[h] = "open" /\ HandlerEnds(h)

-----------------------------------------------------------------------------
(* Control messages.                                                       *)

\* Messages buffered before the close are still delivered to the handler.
Readable(h) == socket[h] \in {"open", "closed"}

Connects(h) ==
    /\ Readable(h)
    /\ said[h] = "nothing"
    /\ said' = [said EXCEPT ![h] = "connect"]
    /\ connections' = Establish(h, Peer[h])
    /\ UNCHANGED <<socket, told, sent, writer>>

\* Every established shell is reset, and staged requests are forgotten.
ClientConnects(h) ==
    /\ Peer[h] = Client
    /\ Connects(h)
    /\ scheduledWrites' =
         [g \in Handles |->
            Acknowledge(h, Client)[g] \o
              IF \E s \in Shells : Establish(h, Client)[s] = g
              THEN <<Reset(Client, CHOOSE s \in Shells : Establish(h, Client)[s] = g)>>
              ELSE <<>>]
    /\ requestedShells' = [s \in Shells |-> None]
    /\ UNCHANGED timers

\* Mutant: the request is relayed before the connection is acknowledged.
ShellConnects_RequestFirst(h) ==
    /\ Peer[h] \in Shells
    /\ Connects(h)
    /\ scheduledWrites' =
         IF requestedShells[Peer[h]] = None THEN Acknowledge(h, Peer[h])
         ELSE Write(Write(scheduledWrites, h, requestedShells[Peer[h]]), h, ConnectAck)
    /\ requestedShells' = [requestedShells EXCEPT ![Peer[h]] = None]
    /\ UNCHANGED timers

\* Mutant: the relayed request is not deleted.
ShellConnects_KeepsRequest(h) ==
    /\ Peer[h] \in Shells
    /\ Connects(h)
    /\ scheduledWrites' =
         LET acked == Acknowledge(h, Peer[h])
         IN  IF requestedShells[Peer[h]] = None THEN acked
             ELSE Write(acked, h, requestedShells[Peer[h]])
    /\ UNCHANGED staging

\* Mutant: the staged request is written to the address it came from.
ShellConnects_Returns(h) ==
    /\ Peer[h] \in Shells
    /\ Connects(h)
    /\ scheduledWrites' =
         LET acked == Acknowledge(h, Peer[h])
             back == connections[Client]
         IN  IF requestedShells[Peer[h]] = None \/ back = None THEN acked
             ELSE Write(acked, back, requestedShells[Peer[h]])
    /\ requestedShells' = [requestedShells EXCEPT ![Peer[h]] = None]
    /\ UNCHANGED timers

\* A request staged for the shell follows the ack.
ShellConnects(h) ==
    /\ Peer[h] \in Shells
    /\ Connects(h)
    /\ scheduledWrites' =
         LET acked == Acknowledge(h, Peer[h])
         IN  IF requestedShells[Peer[h]] = None THEN acked
             ELSE Write(acked, h, requestedShells[Peer[h]])
    /\ requestedShells' = [requestedShells EXCEPT ![Peer[h]] = None]
    /\ UNCHANGED timers

Disconnects(h) ==
    /\ Readable(h)
    /\ said[h] = "connect"
    /\ said' = [said EXCEPT ![h] = "disconnect"]
    /\ connections' = Wipe(connections, h)
    /\ UNCHANGED <<socket, told, sent, staging, scheduledWrites, writer>>

-----------------------------------------------------------------------------
(* Link messages: the branches of Relay.__on_protocol_link_message__.      *)

\* A peer sends once it has its ack.  The relay does not ask whether the
\* socket is (still) the established one.
Receives(h, m) ==
    /\ Readable(h)
    /\ said[h] = "connect"
    /\ told[h] # "nothing"
    /\ NextHop(m.from) = Peer[h]
    /\ sent[h] < MaxSends
    /\ sent' = [sent EXCEPT ![h] = @ + 1]
    /\ UNCHANGED <<socket, said, told, connections, writer>>

LegalPair(m) == ClientSide(m.from) # ClientSide(m.to)
ReceiverEstablished(m) == IsEstablished(NextHop(m.to))

DropIllegalPair(h, m) ==
    /\ ~LegalPair(m)
    /\ Receives(h, m)
    /\ UNCHANGED <<staging, scheduledWrites>>

\* Mutant: who may talk to whom is not checked.
Forward_AnyPair(h, m) ==
    /\ ReceiverEstablished(m)
    /\ Receives(h, m)
    /\ scheduledWrites' = WriteLink(m)
    /\ UNCHANGED staging

Forward(h, m) ==
    /\ LegalPair(m)
    /\ ReceiverEstablished(m)
    /\ Receives(h, m)
    /\ scheduledWrites' = WriteLink(m)
    /\ UNCHANGED staging

\* The branches for a receiver the relay does not know.
ReceivesForUnknown(h, m) ==
    /\ LegalPair(m)
    /\ ~ReceiverEstablished(m)
    /\ Receives(h, m)

IsDuplicate(m) == \E s \in Shells : requestedShells[s] = m

DropReset(h, m) ==
    /\ m.type = "RST"
    /\ ReceivesForUnknown(h, m)
    /\ UNCHANGED <<staging, scheduledWrites>>

DropRequestToClient(h, m) ==
    /\ m.type = "REQ" /\ ClientSide(m.to)
    /\ ReceivesForUnknown(h, m)
    /\ UNCHANGED <<staging, scheduledWrites>>

DropDuplicate(h, m) ==
    /\ m.type = "REQ" /\ ~ClientSide(m.to) /\ IsDuplicate(m)
    /\ ReceivesForUnknown(h, m)
    /\ UNCHANGED <<staging, scheduledWrites>>

\* The device used a cached shell that no longer exists.
RejectRequestToDeadShell(h, m) ==
    /\ m.type = "REQ" /\ ~ClientSide(m.to) /\ ~IsDuplicate(m)
    /\ ~m.spawned
    /\ ReceivesForUnknown(h, m)
    /\ scheduledWrites' = WriteLink(Reset(m.to, m.from))
    /\ UNCHANGED staging

\* Mutant: requests to the Client are not dropped first.
StageRequest_AnyReceiver(h, m) ==
    /\ m.type = "REQ" /\ m.spawned /\ ~IsDuplicate(m)
    /\ ReceivesForUnknown(h, m)
    /\ requestedShells' = [requestedShells EXCEPT ![m.to] = m]
    /\ timers' = Append(timers, [shell |-> m.to, request |-> m])
    /\ UNCHANGED scheduledWrites

\* Mutant: the timeout_worker is defined and never started.
StageRequest_NoTimer(h, m) ==
    /\ m.type = "REQ" /\ m.spawned /\ ~ClientSide(m.to) /\ ~IsDuplicate(m)
    /\ ReceivesForUnknown(h, m)
    /\ requestedShells' = [requestedShells EXCEPT ![m.to] = m]
    /\ UNCHANGED <<timers, scheduledWrites>>

\* The device has just spawned the shell; an earlier request is overwritten.
StageRequest(h, m) ==
    /\ m.type = "REQ" /\ ~ClientSide(m.to) /\ ~IsDuplicate(m)
    /\ m.spawned
    /\ ReceivesForUnknown(h, m)
    /\ requestedShells' = [requestedShells EXCEPT ![m.to] = m]
    /\ timers' = Append(timers, [shell |-> m.to, request |-> m])
    /\ UNCHANGED scheduledWrites

RejectToUnknown(h, m) ==
    /\ m.type = "IO"
    /\ ReceivesForUnknown(h, m)
    /\ scheduledWrites' = WriteLink(Reset(m.to, m.from))
    /\ UNCHANGED staging

LinkMessage(h, m) ==
    \/ DropIllegalPair(h, m)
    \/ Forward(h, m)
    \/ DropReset(h, m)
    \/ DropRequestToClient(h, m)
    \/ DropDuplicate(h, m)
    \/ RejectRequestToDeadShell(h, m)
    \/ StageRequest(h, m)
    \/ RejectToUnknown(h, m)

\* timeout_worker: all sleep three seconds, so they wake in the order they
\* were created.  The one that wakes deletes whatever is staged for its shell.
TimerExpires ==
    /\ timers # <<>>
    /\ timers' = Tail(timers)
    /\ requestedShells' = [requestedShells EXCEPT ![Head(timers).shell] = None]
    /\ UNCHANGED <<peers, connections, scheduledWrites, writer>>

-----------------------------------------------------------------------------
(* The writer task: passes over a snapshot of the non-empty queues.  Other  *)
(* tasks run while it awaits a send or sleeps between passes.               *)

WriterStarts ==
    /\ turn = {} /\ current = None
    /\ turn' = {h \in Handles : scheduledWrites[h] # <<>>}
    /\ turn' # {}
    /\ UNCHANGED <<peers, connections, staging, scheduledWrites, current>>

\* Mutant: an unknown handle raises and the writer task is over.
WriterSends_Raises(h) ==
    /\ h = current \/ (current = None /\ h \in turn)
    /\ scheduledWrites[h] # <<>>
    /\ socket[h] # "gone"
    /\ scheduledWrites' = [scheduledWrites EXCEPT ![h] = Tail(@)]
    /\ turn' = turn \ {h}
    /\ current' = IF socket[h] = "closed" THEN None ELSE h
    /\ told' = IF socket[h] = "open" /\ Head(scheduledWrites[h]) \in {ConnectAck, Disconnect}
               THEN [told EXCEPT ![h] = Head(scheduledWrites[h]).type]
               ELSE told
    /\ UNCHANGED <<socket, said, sent, connections, staging>>

\* The oldest message of h is taken off its queue, and its fate depends on
\* the socket: sent; lost when the socket is closed, which ends the visit of
\* h; dropped with a log line when the handler has deregistered it.
WriterSends(h) ==
    /\ h = current \/ (current = None /\ h \in turn)
    /\ scheduledWrites[h] # <<>>
    /\ scheduledWrites' = [scheduledWrites EXCEPT ![h] = Tail(@)]
    /\ turn' = turn \ {h}
    /\ current' = IF socket[h] = "closed" THEN None ELSE h
    /\ told' = IF socket[h] = "open" /\ Head(scheduledWrites[h]) \in {ConnectAck, Disconnect}
               THEN [told EXCEPT ![h] = Head(scheduledWrites[h]).type]
               ELSE told
    /\ UNCHANGED <<socket, said, sent, connections, staging>>

WriterLeaves ==
    /\ current # None
    /\ scheduledWrites[current] = <<>>
    /\ current' = None
    /\ UNCHANGED <<peers, connections, staging, scheduledWrites, turn>>

Writer == WriterStarts \/ WriterLeaves \/ \E h \in Handles : WriterSends(h)

-----------------------------------------------------------------------------
Next ==
    \/ \E h \in Handles :
         \/ Accept(h)
         \/ ConnectionLost(h)
         \/ HandlerCloses(h)
         \/ HandlerFails(h)
         \/ ClientConnects(h)
         \/ ShellConnects(h)
         \/ Disconnects(h)
         \/ \E m \in Traffic : LinkMessage(h, m)
    \/ TimerExpires
    \/ Writer

Spec == Init /\ [][Next]_vars

\* The event loop runs every task that is ready: the writer, a sleeper whose
\* time has come, a handler whose socket is closed.  Peers owe nothing.
Fairness ==
    /\ WF_vars(Writer)
    /\ WF_vars(TimerExpires)
    /\ \A h \in Handles : WF_vars(HandlerCloses(h))

FairSpec == Spec /\ Fairness

-----------------------------------------------------------------------------
(* What must hold of every reachable state.                                *)

TypeOK ==
    /\ socket \in [Handles -> {"unused", "open", "closed", "gone"}]
    /\ said \in [Handles -> {"nothing", "connect", "disconnect"}]
    /\ told \in [Handles -> {"nothing", "connect ACK", "disconnect"}]
    /\ sent \in [Handles -> 0 .. MaxSends]
    /\ connections \in [IDAddress -> Handles \union {None}]
    /\ requestedShells \in [Shells -> LinkMessages \union {None}]
    /\ timers \in Seq([shell : Shells, request : LinkMessages])
    /\ scheduledWrites \in [Handles -> Seq(Messages)]
    /\ turn \subseteq Handles
    /\ current \in Handles \union {None}

\* An address is established only through a socket that its own peer opened,
\* that said Connect and not Disconnect, and whose handler still runs: the
\* late close of a superseded socket takes nothing else away.
ConnectionsConsistent ==
    \A a \in IDAddress : connections[a] # None =>
        LET h == connections[a]
        IN  Readable(h) /\ Peer[h] = a /\ said[h] = "connect"

\* A peer that believes itself connected is: it is the established one for
\* its id, or a Disconnect has reached it or waits for it.  Takeovers, closes
\* of older sockets and failing handlers leave no tab or shell that the relay
\* has forgotten without telling it.
NoForgottenPeer ==
    \A h \in Handles : socket[h] = "open" /\ said[h] = "connect" =>
        \/ connections[Peer[h]] = h
        \/ told[h] = "disconnect"
        \/ \E i \in DOMAIN scheduledWrites[h] : scheduledWrites[h][i] = Disconnect

\* A live peer gets its ConnectAck before anything else and only once, so a
\* shell is never handed a staged request, a reset or a Disconnect early.
AckFirst ==
    \A h \in Handles : socket[h] = "open" =>
        \A i \in DOMAIN scheduledWrites[h] :
            scheduledWrites[h][i] = ConnectAck <=> (i = 1 /\ told[h] = "nothing")

\* What is queued on a socket is addressed to the peer that opened it and
\* comes from the other side, through takeovers and staging alike.
OnlyOwnMail ==
    \A h \in Handles : \A i \in DOMAIN scheduledWrites[h] :
        LET m == scheduledWrites[h][i]
        IN  m \in LinkMessages => NextHop(m.to) = Peer[h] /\ LegalPair(m)

\* A request is staged only while its shell is not connected: registration
\* and staging cannot miss each other and leave it waiting for the timeout.
StagedMeansAbsent ==
    \A s \in Shells : requestedShells[s] # None => ~IsEstablished(s)

\* Every staged request is watched by a timer of its shell.
StagedIsTimed ==
    \A s \in Shells : requestedShells[s] # None =>
        \E i \in DOMAIN timers : timers[i].shell = s

-----------------------------------------------------------------------------
(* What must happen, and what a step may never do.                         *)

\* A staged request does not stay: it is forwarded, purged or timed out.
StagedIsResolved == \A s \in Shells :
    requestedShells[s] # None ~> requestedShells[s] = None

\* A socket that closes or fails under the writer delays no other peer:
\* every queue is worked off.
WritesDrain == \A h \in Handles :
    scheduledWrites[h] # <<>> ~> scheduledWrites[h] = <<>>

\* timeout_worker's warning names the request it was started for, "was not
\* send! Shell did not register!" (relay.py:78), and then deletes that one.
TimerReportsOwnRequest ==
    [][timers # <<>> /\ timers' = Tail(timers) =>
         LET t == Head(timers)
         IN  requestedShells[t.shell] \in {None, t.request}]_vars

\* relay.py "keeps extactly ONE connection to the frontend", is "connection
\* stateful" and "resets (LTM) unknown peers" (docs/project-log/LOG.md:182):
\* what comes from a socket that is not the established one of its peer is
\* neither staged nor sent to anybody else.  It is: no branch asks for the
\* sender's connection (remote_socket_server.py:55).
OnlyEstablishedAreRouted ==
    [][\A h \in Handles : sent'[h] # sent[h] /\ connections[Peer[h]] # h =>
         /\ UNCHANGED requestedShells
         /\ \A g \in Handles \ {h} : scheduledWrites'[g] = scheduledWrites[g]]_vars
=============================================================================
