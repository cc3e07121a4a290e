------------------------- MODULE RemoteSocketClient -------------------------
(***************************************************************************)
(* The shell's end of its connection to the relay:                         *)
(* rsocket/remote_socket_client.py (AsyncRemoteSocketClient and its        *)
(* websocket implementation) and protocol/transport/remote_socket_client.py*)
(* (ProtocolAsyncRemoteSocketClient).                                      *)
(*                                                                         *)
(* Three kinds of tasks share the object: the one that connects, the       *)
(* reader and the writer of a connection, and the one that closes it.  An  *)
(* action is what runs between two awaits.  The websockets library is      *)
(* external: a connection that is closing is not closed yet; recv returns  *)
(* what has arrived and raises when it is over, send waits for the end of  *)
(* a closing connection and raises then.                                   *)
(*                                                                         *)
(* The module has no Next of its own: ShellSession composes its actions    *)
(* with the program that owns the client.                                  *)
(***************************************************************************)
EXTENDS Naturals, Sequences

VARIABLES
    websocket,    \* _websocket: "none", or the state of its connection
    connector,    \* the task __connect_and_run__; _is_connecting unless "idle"
    closer,       \* the task __stop_and_disconnect__; _is_disconnecting
    reader,       \* the task __reader__
    writer,       \* the task __writer__
    established,  \* _connection_established
    queue,        \* _write_queue
    inbox,        \* messages that arrived and were not read yet
    written,      \* history: everything that was put into the queue
    sent,         \* history: what went into the connection
    lost          \* history: what a failing send had taken from the queue

tasks == <<connector, closer, reader, writer>>
history == <<written, sent, lost>>
clientVars == <<websocket, tasks, established, queue, inbox, history>>

Connect == [kind |-> "Connect", id |-> 0]
ConnectAck == [kind |-> "ConnectAck", id |-> 0]
Disconnect == [kind |-> "Disconnect", id |-> 0]
Link(n) == [kind |-> "Link", id |-> n]

Messages == [kind : {"Connect", "ConnectAck", "Disconnect", "Link"}, id : Nat]

ClientInit ==
    /\ websocket = "none"
    /\ connector = "idle" /\ closer = "idle"
    /\ reader = "none" /\ writer = "none"
    /\ established = FALSE
    /\ queue = <<>> /\ inbox = <<>>
    /\ written = <<>> /\ sent = <<>> /\ lost = <<>>

ClientTypeOK ==
    /\ websocket \in {"none", "open", "closing", "closed"}
    /\ connector \in {"idle", "connect", "delay"}
    /\ closer \in {"idle", "close", "wait"}
    /\ reader \in {"none", "recv", "ended", "dead"}
    /\ writer \in {"none", "poll", "drain", "fail", "ended"}
    /\ established \in BOOLEAN
    /\ queue \in Seq(Messages) /\ inbox \in Seq(Messages)
    /\ written \in Seq(Messages)
    /\ sent \in Seq(Messages) /\ lost \in Seq(Messages)

-----------------------------------------------------------------------------
(* What the owner of the client calls. *)

\* A connection that is closing is still connected.
IsConnected == websocket \in {"open", "closing"}
IsEstablished == IsConnected /\ established

WriteAll(messages) ==
    /\ queue' = queue \o messages
    /\ written' = written \o messages

StartConnecting ==
    /\ connector' = IF IsConnected \/ connector # "idle" THEN connector
                                                         ELSE "connect"
    /\ UNCHANGED <<websocket, closer, reader, writer, established, queue,
                   inbox, history>>

\* disconnect(): the Disconnect is queued in any case, closing is left to a
\* task.
StartDisconnecting ==
    /\ WriteAll(<<Disconnect>>)
    /\ closer' = IF IsConnected /\ closer = "idle" THEN "close" ELSE closer

-----------------------------------------------------------------------------
(* __connect_and_run__ *)

ConnectFails ==
    /\ connector = "connect"
    /\ connector' = "delay"
    /\ websocket' = "none"
    /\ UNCHANGED <<closer, reader, writer, established, queue, inbox, history>>

\* Mutant: one failed attempt ends the task.
DelayEnds_GivesUp ==
    /\ connector = "delay"
    /\ connector' = "idle"
    /\ UNCHANGED <<websocket, closer, reader, writer, established, queue,
                   inbox, history>>

DelayEnds ==
    /\ connector = "delay"
    /\ connector' = "connect"
    /\ UNCHANGED <<websocket, closer, reader, writer, established, queue,
                   inbox, history>>

\* The loop ends, the two tasks are created and __on_open__ queues Connect.
ConnectSucceeds ==
    /\ connector = "connect"
    /\ connector' = "idle"
    /\ websocket' = "open"
    /\ reader' = "recv" /\ writer' = "poll"
    /\ WriteAll(<<Connect>>)
    /\ UNCHANGED <<closer, established, inbox, sent, lost>>

-----------------------------------------------------------------------------
(* __reader__ *)

\* A message is read, and handled by __on_message__; `replies` is what the
\* callback for link messages writes.  After it a connection that is closed ends
\* the task, whose last act is __on_close__.
ReaderReceives(replies) ==
    LET m == Head(inbox) IN
    /\ reader = "recv" /\ inbox # <<>>
    /\ inbox' = Tail(inbox)
    /\ CASE m.kind = "Link" -> WriteAll(replies) /\ UNCHANGED closer
         [] m.kind = "Disconnect" -> replies = <<>> /\ StartDisconnecting
         [] OTHER -> replies = <<>> /\ UNCHANGED <<queue, written, closer>>
    /\ reader' = IF IsConnected THEN "recv" ELSE "ended"
    /\ established' = (IsConnected /\ (established \/ m.kind = "ConnectAck"))
    /\ UNCHANGED <<websocket, connector, writer, sent, lost>>

\* recv raises.
ReaderEnds ==
    /\ reader = "recv" /\ inbox = <<>> /\ websocket = "closed"
    /\ reader' = "ended"
    /\ established' = FALSE
    /\ UNCHANGED <<websocket, connector, closer, writer, queue, inbox, history>>

\* The callback raises: nothing catches it, the task is gone and __on_close__
\* has not been called.
ReaderDies(replies) ==
    /\ reader = "recv" /\ inbox # <<>>
    /\ Head(inbox).kind = "Link"
    /\ inbox' = Tail(inbox)
    /\ WriteAll(replies)
    /\ reader' = "dead"
    /\ UNCHANGED <<websocket, connector, closer, writer, established, sent,
                   lost>>

-----------------------------------------------------------------------------
(* __writer__ *)

\* send hands the message to the transport, and waits if that is full.
WriterSends ==
    /\ writer = "poll" /\ queue # <<>> /\ websocket = "open"
    /\ sent' = Append(sent, Head(queue))
    /\ queue' = Tail(queue)
    /\ writer' \in {"poll", "drain"}
    /\ UNCHANGED <<websocket, connector, closer, reader, established, inbox,
                   written, lost>>

WriterDrained ==
    /\ writer = "drain" /\ IsConnected
    /\ writer' = "poll"
    /\ UNCHANGED <<websocket, connector, closer, reader, established, queue,
                   inbox, history>>

\* Mutant: the message is put back, behind what was written meanwhile.
WriterFails_Requeues ==
    /\ writer = "poll" /\ queue # <<>> /\ websocket = "closing"
    /\ queue' = Append(Tail(queue), Head(queue))
    /\ writer' = "fail"
    /\ UNCHANGED <<websocket, connector, closer, reader, established, inbox,
                   history>>

\* The connection is closing: send waits with a message that it will not send.
WriterFails ==
    /\ writer = "poll" /\ queue # <<>> /\ websocket = "closing"
    /\ lost' = Append(lost, Head(queue))
    /\ queue' = Tail(queue)
    /\ writer' = "fail"
    /\ UNCHANGED <<websocket, connector, closer, reader, established, inbox,
                   written, sent>>

\* Mutant: __on_close__ is left to the reader.
WriterEnds_Silently ==
    /\ writer \in {"poll", "drain", "fail"} /\ websocket = "closed"
    /\ writer' = "ended"
    /\ UNCHANGED <<websocket, connector, closer, reader, established, queue,
                   inbox, history>>

\* send raises, or the loop's condition fails; the last act is __on_close__.
WriterEnds ==
    /\ writer \in {"poll", "drain", "fail"} /\ websocket = "closed"
    /\ writer' = "ended"
    /\ established' = FALSE
    /\ UNCHANGED <<websocket, connector, closer, reader, queue, inbox, history>>

-----------------------------------------------------------------------------
(* __stop_and_disconnect__ *)

CloserStarts ==
    /\ closer = "close"
    /\ closer' = "wait"
    /\ websocket' = IF websocket = "open" THEN "closing" ELSE websocket
    /\ UNCHANGED <<connector, reader, writer, established, queue, inbox,
                   history>>

CloserEnds ==
    /\ closer = "wait" /\ websocket = "closed"
    /\ closer' = "idle"
    /\ UNCHANGED <<websocket, connector, reader, writer, established, queue,
                   inbox, history>>

-----------------------------------------------------------------------------
(* The connection and the relay at its other end. *)

\* The peer closes, or the keepalive fails: "closing".  The transport breaks,
\* or the closing handshake is over: "closed".
ConnectionLost ==
    /\ \/ websocket = "open" /\ websocket' \in {"closing", "closed"}
       \/ websocket = "closing" /\ websocket' = "closed"
    /\ UNCHANGED <<tasks, established, queue, inbox, history>>

\* A message of the relay arrives.
Arrives(m) ==
    /\ websocket = "open"
    /\ inbox' = Append(inbox, m)
    /\ UNCHANGED <<websocket, tasks, established, queue, history>>
=============================================================================
