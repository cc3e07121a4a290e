------------------------- MODULE ShellSessionProofs -------------------------
(***************************************************************************)
(* Theorems about ShellSession, for any numbers of messages and any grace  *)
(* period: the shell's end of a connection keeps the order of what it      *)
(* writes and begins with a Connect, its flag does not outlive its tasks,  *)
(* and the shutdown signals nothing but its child and leaves nothing       *)
(* behind.                                                                 *)
(***************************************************************************)
EXTENDS ShellSession, SequenceTheorems, FiniteSetTheorems, TLAPS

USE SessionAssumption

-----------------------------------------------------------------------------
(* Messages. *)

LEMMA MessageTypes ==
    /\ Connect \in Messages /\ ConnectAck \in Messages /\ Disconnect \in Messages
    /\ \A n \in Nat : Link(n) \in Messages /\ Link(n) # Connect
    /\ Disconnect # Connect
  BY DEF Messages, Connect, ConnectAck, Disconnect, Link

\* What may follow the Connect: sequences without another one.
Behind == {q \in Seq(Messages) : \A i \in DOMAIN q : q[i] # Connect}

LEMMA Written ==
    ASSUME TypeOK
    PROVE  LinksWritten \in Nat
  <1>1. written \in Seq(Messages)
    BY DEF TypeOK, ClientTypeOK
  <1>2. DOMAIN written = 1 .. Len(written) /\ Len(written) \in Nat
    BY <1>1, LenProperties
  <1>3. IsFiniteSet(DOMAIN written)
    BY <1>2, FS_Interval
  <1>4. {i \in DOMAIN written : written[i].kind = "Link"} \in SUBSET (DOMAIN written)
    OBVIOUS
  <1>5. QED
    BY <1>3, <1>4, FS_Subset, FS_CardinalityType DEF LinksWritten

LEMMA SmallReplies ==
    ASSUME NEW m \in Messages, m # Connect
    PROVE  <<>> \in Behind /\ <<m>> \in Behind
  <1>1. <<>> \in Seq(Messages) /\ <<m>> \in Seq(Messages)
    OBVIOUS
  <1>2. \A i \in DOMAIN <<m>> : <<m>>[i] # Connect
    OBVIOUS
  <1>3. \A i \in DOMAIN <<>> : <<>>[i] # Connect
    OBVIOUS
  <1>4. QED
    BY <1>1, <1>2, <1>3 DEF Behind

LEMMA RepliesType ==
    ASSUME TypeOK
    PROVE  /\ Replies \subseteq Behind /\ <<NextLink>> \in Behind
           /\ <<>> \in Behind /\ <<Disconnect>> \in Behind
  <1>1. NextLink \in Messages /\ NextLink # Connect
    BY Written, MessageTypes DEF NextLink
  <1>2. QED
    BY <1>1, SmallReplies, MessageTypes DEF Replies

-----------------------------------------------------------------------------
(* Type correctness. *)

LEMMA WriteAllType ==
    ASSUME TypeOK, NEW q \in Seq(Messages), WriteAll(q)
    PROVE  queue' \in Seq(Messages) /\ written' \in Seq(Messages)
  BY ConcatProperties DEF WriteAll, TypeOK, ClientTypeOK

LEMMA InitTypeOK == Init => TypeOK
  <1> SUFFICES ASSUME Init PROVE TypeOK
    OBVIOUS
  <1>1. established \in BOOLEAN /\ pty \in {"open", "ended", "cut"}
    BY Zenon DEF Init, ClientInit
  <1>2. \A q \in {queue, inbox, written, sent, lost} : q \in Seq(Messages)
    BY EmptySeq DEF Init, ClientInit
  <1>3. rounds \in 0 .. KillTimeout /\ forwarded \in 0 .. MaxForwards /\ handled \in Nat
    BY DEF Init
  <1>4. QED
    BY <1>1, <1>2, <1>3 DEF Init, ClientInit, TypeOK, ClientTypeOK

\* What a callback of the link messages and the close of the client write.
LEMMA HandlesMessageWrites ==
    ASSUME TypeOK, NEW replies \in Replies, ReaderReceives(replies)
    PROVE  /\ \E q \in Behind : WriteAll(q)
           /\ closer' \in {"idle", "close", "wait"}
  <1>1. CASE Head(inbox).kind = "Link"
    BY <1>1, RepliesType DEF ReaderReceives, TypeOK, ClientTypeOK
  <1>2. CASE Head(inbox).kind = "Disconnect"
    BY <1>2, RepliesType DEF ReaderReceives, StartDisconnecting, TypeOK, ClientTypeOK
  <1>3. CASE Head(inbox).kind \notin {"Link", "Disconnect"}
    <2>1. /\ queue' = queue /\ written' = written /\ closer' = closer
      BY <1>3 DEF ReaderReceives
    <2>2. WriteAll(<<>>)
      BY <2>1, ConcatEmptySeq DEF WriteAll, TypeOK, ClientTypeOK
    <2>3. QED
      BY <2>1, <2>2, RepliesType DEF TypeOK, ClientTypeOK
  <1>4. QED
    BY <1>1, <1>2, <1>3

LEMMA InboxTail ==
    ASSUME TypeOK, inbox # <<>>
    PROVE  Tail(inbox) \in Seq(Messages) /\ Head(inbox) \in Messages
  BY HeadTailProperties DEF TypeOK, ClientTypeOK

LEMMA QueueTail ==
    ASSUME TypeOK, queue # <<>>
    PROVE  /\ Tail(queue) \in Seq(Messages) /\ Head(queue) \in Messages
           /\ Append(sent, Head(queue)) \in Seq(Messages)
           /\ Append(lost, Head(queue)) \in Seq(Messages)
  BY HeadTailProperties, AppendProperties DEF TypeOK, ClientTypeOK

LEMMA ClientStepTypeOK == ASSUME TypeOK, ClientStep PROVE TypeOK'
  <1> USE DEF tasks, history, process
  <1>1. CASE ConnectFails \/ DelayEnds
    BY <1>1 DEF ClientStep, InLoop, ConnectFails, DelayEnds, TypeOK, ClientTypeOK
  <1>2. CASE ConnectSucceeds
    <2>1. queue' \in Seq(Messages) /\ written' \in Seq(Messages)
      <3>1. <<Connect>> \in Seq(Messages)
        BY MessageTypes
      <3>2. QED
        BY <1>2, <3>1, WriteAllType DEF ConnectSucceeds
    <2>2. QED
      BY <1>2, <2>1 DEF ClientStep, InLoop, ConnectSucceeds, TypeOK, ClientTypeOK
  <1>3. CASE ReaderEnds \/ WriterDrained \/ WriterEnds
    <2>1. established' \in BOOLEAN
      BY <1>3, Zenon DEF ReaderEnds, WriterDrained, WriterEnds, TypeOK, ClientTypeOK
    <2>2. QED
      BY <1>3, <2>1 DEF ClientStep, InLoop, ReaderEnds, WriterDrained, WriterEnds,
                        TypeOK, ClientTypeOK
  <1>4. CASE WriterSends
    BY <1>4, QueueTail DEF ClientStep, InLoop, WriterSends, TypeOK, ClientTypeOK
  <1>5. CASE WriterFails
    BY <1>5, QueueTail DEF ClientStep, InLoop, WriterFails, TypeOK, ClientTypeOK
  <1>6. CASE CloserStarts \/ CloserEnds \/ ConnectionLost
    BY <1>6 DEF ClientStep, InLoop, CloserStarts, CloserEnds, ConnectionLost,
                TypeOK, ClientTypeOK
  <1>7. QED
    BY <1>1, <1>2, <1>3, <1>4, <1>5, <1>6 DEF ClientStep, InLoop, ClientSteps

LEMMA CallbacksTypeOK == ASSUME TypeOK, Callbacks PROVE TypeOK'
  <1> USE DEF tasks, history, process
  <1>1. ASSUME NEW q \in Behind, WriteAll(q)
        PROVE  queue' \in Seq(Messages) /\ written' \in Seq(Messages)
    BY <1>1, WriteAllType DEF Behind
  <1>2. CASE HandlesMessage
    <2>1. PICK replies \in Replies : ReaderReceives(replies)
      BY <1>2 DEF HandlesMessage
    <2>2. /\ queue' \in Seq(Messages) /\ written' \in Seq(Messages)
          /\ closer' \in {"idle", "close", "wait"}
      BY <1>1, <2>1, HandlesMessageWrites
    <2>3. inbox' \in Seq(Messages)
      BY <2>1, InboxTail DEF ReaderReceives
    <2>4. QED
      BY <1>2, <2>1, <2>2, <2>3 DEF HandlesMessage, ReaderReceives, TypeOK, ClientTypeOK
  <1>3. CASE HandlerRaises
    <2>1. PICK replies \in Replies : ReaderDies(replies)
      BY <1>3 DEF HandlerRaises
    <2>2. queue' \in Seq(Messages) /\ written' \in Seq(Messages)
      BY <1>1, <2>1, RepliesType DEF ReaderDies
    <2>3. inbox' \in Seq(Messages)
      BY <2>1, InboxTail DEF ReaderDies
    <2>4. QED
      BY <1>3, <2>1, <2>2, <2>3 DEF HandlerRaises, ReaderDies, TypeOK, ClientTypeOK
  <1>4. CASE ForwardsStub \/ ResetsDevice
    <2>1. queue' \in Seq(Messages) /\ written' \in Seq(Messages)
      BY <1>1, <1>4, RepliesType DEF ForwardsStub, ResetsDevice
    <2>2. QED
      BY <1>4, <2>1 DEF ForwardsStub, ResetsDevice, TypeOK, ClientTypeOK
  <1>5. CASE ShellCloses
    <2>1. queue' \in Seq(Messages) /\ written' \in Seq(Messages)
      BY <1>1, <1>5, RepliesType DEF ShellCloses
    <2>2. QED
      BY <1>5, <2>1 DEF ShellCloses, TypeOK, ClientTypeOK
  <1>6. QED
    BY <1>2, <1>3, <1>4, <1>5 DEF Callbacks

LEMMA ShutdownTypeOK == ASSUME TypeOK, Shutdown PROVE TypeOK'
  <1> USE DEF tasks, history, shutdownVars, clientVars, At, Goto
  <1>1. CASE ShutsSocket
    <2>1. /\ queue' \in Seq(Messages) /\ written' \in Seq(Messages)
          /\ closer' \in {"idle", "close", "wait"}
      <3>1. CASE IsConnected
        <4>1. <<Disconnect>> \in Seq(Messages)
          BY MessageTypes
        <4>2. QED
          BY <1>1, <3>1, <4>1, WriteAllType
             DEF ShutsSocket, StartDisconnecting, TypeOK, ClientTypeOK
      <3>2. CASE ~IsConnected
        BY <1>1, <3>2 DEF ShutsSocket, TypeOK, ClientTypeOK
      <3>3. QED
        BY <3>1, <3>2
    <2>2. QED
      BY <1>1, <2>1 DEF ShutsSocket, TypeOK, ClientTypeOK
  <1>2. CASE AsksProcess \/ Terminates
    BY <1>2 DEF AsksProcess, Terminates, TypeOK, ClientTypeOK
  <1>3. CASE Waits
    BY <1>3 DEF Waits, TypeOK, ClientTypeOK
  <1>4. CASE Kills \/ Reaps \/ RestoresTTY
    BY <1>4 DEF Kills, Reaps, RestoresTTY, TypeOK, ClientTypeOK
  <1>5. CASE Exits
    BY <1>5 DEF Exits, TypeOK, ClientTypeOK
  <1>6. QED
    BY <1>1, <1>2, <1>3, <1>4, <1>5 DEF Shutdown

LEMMA EnvironmentTypeOK == ASSUME TypeOK, Environment PROVE TypeOK'
  <1> USE DEF tasks, history, process
  <1>1. CASE ChildLeaves \/ ChildEnds \/ LastJobEnds
    BY <1>1 DEF ChildLeaves, ChildEnds, LastJobEnds, clientVars, TypeOK, ClientTypeOK
  <1>2. ASSUME NEW m \in Messages, Arrives(m)
        PROVE  inbox' \in Seq(Messages)
    BY <1>2, AppendProperties DEF Arrives, TypeOK, ClientTypeOK
  <1>3. CASE RelayAcknowledges \/ RelaySupersedes
    <2>1. inbox' \in Seq(Messages)
      BY <1>2, <1>3, MessageTypes DEF RelayAcknowledges, RelaySupersedes
    <2>2. QED
      BY <1>3, <2>1 DEF RelayAcknowledges, RelaySupersedes, Arrives, TypeOK, ClientTypeOK
  <1>4. CASE RelayForwards
    <2>1. Link(forwarded + 1) \in Messages
      BY MessageTypes DEF TypeOK
    <2>2. inbox' \in Seq(Messages)
      BY <1>2, <1>4, <2>1 DEF RelayForwards
    <2>3. QED
      BY <1>4, <2>2 DEF RelayForwards, Arrives, TypeOK, ClientTypeOK
  <1>5. QED
    BY <1>1, <1>3, <1>4 DEF Environment

LEMMA NextTypeOK == ASSUME TypeOK, [Next]_vars PROVE TypeOK'
  <1> USE DEF tasks, history, process, clientVars
  <1>1. CASE Run
    BY <1>1 DEF Run, StartConnecting, TypeOK, ClientTypeOK
  <1>2. CASE LoopStops
    BY <1>2 DEF LoopStops, TypeOK, ClientTypeOK
  <1>3. CASE UNCHANGED vars
    BY <1>3 DEF vars, TypeOK, ClientTypeOK
  <1>4. QED
    BY <1>1, <1>2, <1>3, ClientStepTypeOK, CallbacksTypeOK, ShutdownTypeOK,
       EnvironmentTypeOK DEF Next

\* The types of the proxy's state, for any bounds.
THEOREM SessionTypeOK == Spec => []TypeOK
  BY InitTypeOK, NextTypeOK, PTL DEF Spec

-----------------------------------------------------------------------------
(* The inductive invariant.  Beyond the properties it says                 *)
(*   - that nothing is written, read or received before the only           *)
(*     connection is made, and that connecting ends with it;               *)
(*   - that the writer loses a message only on a connection that is        *)
(*     closing, and ends only on one that is closed, after which           *)
(*     nobody can set the flag again;                                      *)
(*   - that Connect is at the front of everything ever written, and only   *)
(*     there;                                                              *)
(*   - where in the shutdown the child is still to be reaped.              *)

Unconnected ==
    /\ written = <<>> /\ sent = <<>> /\ lost = <<>> /\ queue = <<>>
    /\ inbox = <<>> /\ handled = 0
    /\ reader = "none" /\ writer = "none" /\ closer = "idle"
    /\ established = FALSE

Connection ==
    /\ main = "run" => websocket = "none" /\ connector = "idle" /\ loop = "created"
    /\ loop = "created" => main = "run"
    /\ connector # "idle" => websocket = "none"
    /\ websocket = "none" => Unconnected
    /\ websocket # "none" => writer # "none"

Keepers ==
    /\ writer = "fail" => websocket \in {"closing", "closed"}
    /\ writer = "ended" => websocket = "closed" /\ established = FALSE
    /\ lost # <<>> => writer \in {"fail", "ended"}

ConnectLeads ==
    websocket # "none" =>
        /\ written # <<>>
        /\ \A i \in DOMAIN written : (written[i] = Connect) <=> (i = 1)

Shutting ==
    /\ main \in {"loop", "run"} <=> loop # "stopped"
    /\ main \in {"run", "loop", "socket", "process", "term", "wait", "reap"}
         => child # "reaped"
    /\ main \in {"tty", "exit", "exited"} => child = "reaped"
    /\ main \in {"exit", "exited"} => tty = "restored"

Inv == /\ TypeOK
       /\ Connection
       /\ Keepers
       /\ WritesKeepOrder
       /\ ConnectLeads
       /\ Shutting

LEMMA InitInv == Init => Inv
  <1> SUFFICES ASSUME Init PROVE Inv
    OBVIOUS
  <1>1. TypeOK
    BY InitTypeOK
  <1>2. Connection /\ Keepers /\ ConnectLeads /\ Shutting
    BY DEF Init, ClientInit, Connection, Unconnected, Keepers, ConnectLeads, Shutting
  <1>3. WritesKeepOrder
    <2>1. <<>> \o <<>> \o <<>> = <<>> /\ Len(<<>>) = 0
      OBVIOUS
    <2>2. QED
      BY <2>1 DEF Init, ClientInit, WritesKeepOrder
  <1>4. QED
    BY <1>1, <1>2, <1>3 DEF Inv

-----------------------------------------------------------------------------
(* The shutdown. *)

LEMMA NextShutting == ASSUME Inv, [Next]_vars PROVE Shutting'
  <1> USE DEF At, Goto, process
  <1>1. CASE Run \/ LoopStops
    BY <1>1 DEF Run, LoopStops, Inv, Connection, Shutting
  <1>2. CASE ClientStep \/ HandlesMessage \/ HandlerRaises \/ ForwardsStub
             \/ ResetsDevice \/ RelayAcknowledges \/ RelayForwards \/ RelaySupersedes
    BY <1>2 DEF ClientStep, InLoop, HandlesMessage, HandlerRaises, ForwardsStub,
       ResetsDevice, RelayAcknowledges, RelayForwards, RelaySupersedes, Inv, Shutting
  <1>3. CASE ShellCloses
    BY <1>3 DEF ShellCloses, Inv, Shutting
  <1>4. CASE Shutdown
    BY <1>4 DEF Shutdown, ShutsSocket, AsksProcess, Terminates, Waits, Kills,
       Reaps, RestoresTTY, Exits, shutdownVars, Inv, Shutting
  <1>5. CASE ChildLeaves \/ ChildEnds \/ LastJobEnds
    BY <1>5 DEF ChildLeaves, ChildEnds, LastJobEnds, Inv, Shutting
  <1>6. CASE UNCHANGED vars
    BY <1>6 DEF vars, Inv, Shutting
  <1>7. QED
    BY <1>1, <1>2, <1>3, <1>4, <1>5, <1>6 DEF Next, Callbacks, Environment

-----------------------------------------------------------------------------
(* What a step does to the messages of the client. *)

Silent == UNCHANGED <<written, sent, lost, queue>>
Writes == /\ websocket # "none" /\ websocket' = websocket
          /\ \E q \in Behind : WriteAll(q)
          /\ UNCHANGED <<sent, lost>>

LEMMA StepWrites ==
    ASSUME Inv, [Next]_vars
    PROVE  \/ Silent /\ (websocket' = "none" <=> websocket = "none")
           \/ Writes
           \/ ConnectSucceeds
           \/ WriterSends
           \/ WriterFails
  <1> USE DEF tasks, history, process
  <1>1. CASE Run \/ LoopStops
    BY <1>1 DEF Run, StartConnecting, LoopStops, clientVars, Silent
  <1>2. CASE ClientStep
    <2>1. CASE ConnectFails \/ DelayEnds \/ ReaderEnds \/ WriterDrained
               \/ WriterEnds \/ CloserStarts \/ CloserEnds \/ ConnectionLost
      BY <2>1 DEF ConnectFails, DelayEnds, ReaderEnds, WriterDrained, WriterEnds,
         CloserStarts, CloserEnds, ConnectionLost, Silent, Inv, Connection
    <2>2. QED
      BY <1>2, <2>1 DEF ClientStep, InLoop, ClientSteps
  <1>3. CASE HandlesMessage
    <2>1. PICK replies \in Replies : ReaderReceives(replies)
      BY <1>3 DEF HandlesMessage
    <2>2. websocket # "none"
      BY <2>1 DEF ReaderReceives, Inv, Connection, Unconnected
    <2>3. \E q \in Behind : WriteAll(q)
      BY <2>1, HandlesMessageWrites DEF Inv
    <2>4. QED
      BY <2>1, <2>2, <2>3 DEF Writes, ReaderReceives
  <1>4. CASE HandlerRaises
    <2>1. PICK replies \in Replies : ReaderDies(replies)
      BY <1>4 DEF HandlerRaises
    <2>2. websocket # "none"
      BY <2>1 DEF ReaderDies, Inv, Connection, Unconnected
    <2>3. replies \in Behind
      BY RepliesType DEF Inv
    <2>4. QED
      BY <2>1, <2>2, <2>3 DEF Writes, ReaderDies
  <1>5. CASE ForwardsStub
    BY <1>5, RepliesType DEF ForwardsStub, IsEstablished, IsConnected, Writes, Inv
  <1>6. CASE ResetsDevice
    <2>1. websocket # "none"
      BY <1>6 DEF ResetsDevice, Inv, Connection, Unconnected
    <2>2. QED
      BY <1>6, <2>1, RepliesType DEF ResetsDevice, Writes, Inv
  <1>7. CASE ShellCloses
    <2>1. PICK replies \in Replies : /\ replies = <<>> \/ handled > 0
                                     /\ WriteAll(replies)
      BY <1>7 DEF ShellCloses
    <2>2. CASE websocket = "none"
      <3>1. replies = <<>>
        BY <2>1, <2>2 DEF Inv, Connection, Unconnected
      <3>2. queue' = queue /\ written' = written
        BY <2>1, <3>1, ConcatEmptySeq DEF WriteAll, Inv, TypeOK, ClientTypeOK
      <3>3. QED
        BY <1>7, <3>2 DEF ShellCloses, Silent
    <2>3. CASE websocket # "none"
      BY <1>7, <2>1, <2>3, RepliesType DEF ShellCloses, Writes, Inv
    <2>4. QED
      BY <2>2, <2>3
  <1>8. CASE Shutdown
    <2>1. CASE ShutsSocket
      <3>1. CASE IsConnected
        BY <2>1, <3>1, RepliesType
           DEF ShutsSocket, IsConnected, StartDisconnecting, Writes, Inv
      <3>2. CASE ~IsConnected
        BY <2>1, <3>2 DEF ShutsSocket, Silent
      <3>3. QED
        BY <3>1, <3>2
    <2>2. CASE Shutdown /\ ~ShutsSocket
      BY <2>2 DEF Shutdown, AsksProcess, Terminates, Waits, Kills, Reaps,
         RestoresTTY, Exits, shutdownVars, clientVars, Silent
    <2>3. QED
      BY <1>8, <2>1, <2>2
  <1>9. CASE Environment
    BY <1>9 DEF Environment, ChildLeaves, ChildEnds, LastJobEnds, RelayAcknowledges, RelayForwards,
       RelaySupersedes, Arrives, clientVars, Silent
  <1>10. CASE UNCHANGED vars
    BY <1>10 DEF vars, clientVars, Silent
  <1>11. QED
    BY <1>1, <1>2, <1>3, <1>4, <1>5, <1>6, <1>7, <1>8, <1>9, <1>10 DEF Next, Callbacks

\* Writing adds to the history what it adds to the queue.
LEMMA OrderKept ==
    ASSUME TypeOK, WritesKeepOrder, NEW q \in Seq(Messages), WriteAll(q),
           UNCHANGED <<sent, lost>>
    PROVE  WritesKeepOrder'
  <1>1. /\ sent \in Seq(Messages) /\ lost \in Seq(Messages)
        /\ queue \in Seq(Messages) /\ sent \o lost \in Seq(Messages)
    BY ConcatProperties DEF TypeOK, ClientTypeOK
  <1>2. ((sent \o lost) \o queue) \o q = (sent \o lost) \o (queue \o q)
    BY <1>1, ConcatAssociative
  <1>3. QED
    BY <1>2 DEF WritesKeepOrder, WriteAll

\* The first message of the queue goes to the end of what left it.
LEMMA HeadMoves ==
    ASSUME NEW s \in Seq(Messages), NEW q \in Seq(Messages), q # <<>>
    PROVE  s \o q = Append(s, Head(q)) \o Tail(q)
  <1>1. Head(q) \in Messages /\ Tail(q) \in Seq(Messages)
    BY HeadTailProperties
  <1>2. <<Head(q)>> \in Seq(Messages)
    BY <1>1
  <1>3. q = <<Head(q)>> \o Tail(q)
    OBVIOUS
  <1>4. Append(s, Head(q)) = s \o <<Head(q)>>
    BY <1>1, AppendIsConcat
  <1>5. (s \o <<Head(q)>>) \o Tail(q) = s \o (<<Head(q)>> \o Tail(q))
    BY <1>1, <1>2, ConcatAssociative
  <1>6. QED
    BY <1>3, <1>4, <1>5

LEMMA NextOrder == ASSUME Inv, [Next]_vars PROVE WritesKeepOrder'
  <1>1. /\ TypeOK /\ WritesKeepOrder
        /\ sent \in Seq(Messages) /\ lost \in Seq(Messages)
        /\ queue \in Seq(Messages)
    BY DEF Inv, TypeOK, ClientTypeOK
  <1>2. CASE Silent
    BY <1>1, <1>2 DEF Silent, WritesKeepOrder
  <1>3. CASE Writes
    BY <1>1, <1>3, OrderKept DEF Writes, Behind
  <1>4. CASE ConnectSucceeds
    <2>1. <<Connect>> \in Seq(Messages)
      BY MessageTypes
    <2>2. QED
      BY <1>1, <1>4, <2>1, OrderKept DEF ConnectSucceeds
  <1>5. CASE WriterSends
    <2>1. lost = <<>>
      BY <1>5 DEF WriterSends, Inv, Keepers
    <2>2. sent \o lost = sent /\ sent' \o lost' = sent'
      <3>1. sent' \in Seq(Messages) /\ lost' = lost
        BY <1>1, <1>5, QueueTail DEF WriterSends
      <3>2. QED
        BY <1>1, <2>1, <3>1, ConcatEmptySeq
    <2>3. sent \o queue = Append(sent, Head(queue)) \o Tail(queue)
      BY <1>1, <1>5, HeadMoves DEF WriterSends
    <2>4. /\ written' = written /\ lost' = lost
          /\ sent' = Append(sent, Head(queue)) /\ queue' = Tail(queue)
      BY <1>5 DEF WriterSends
    <2>5. QED
      BY <1>1, <2>2, <2>3, <2>4 DEF WritesKeepOrder
  <1>6. CASE WriterFails
    <2>1. lost = <<>>
      BY <1>6 DEF WriterFails, Inv, Keepers
    <2>2. /\ written' = written /\ sent' = sent
          /\ lost' = Append(lost, Head(queue)) /\ queue' = Tail(queue)
          /\ queue # <<>>
      BY <1>6 DEF WriterFails
    <2>3. Head(queue) \in Messages /\ Tail(queue) \in Seq(Messages)
      BY <1>1, <2>2, HeadTailProperties
    <2>4. lost' = <<Head(queue)>> /\ Len(lost') = 1
      BY <2>1, <2>2
    <2>5. sent \o queue = Append(sent, Head(queue)) \o Tail(queue)
      BY <1>1, <2>2, HeadMoves
    <2>6. sent \o <<Head(queue)>> = Append(sent, Head(queue))
      BY <1>1, <2>3, AppendIsConcat
    <2>7. sent \o lost = sent
      BY <1>1, <2>1, ConcatEmptySeq
    <2>8. written = sent \o queue
      BY <1>1, <2>7 DEF WritesKeepOrder
    <2>9. sent' \o lost' = Append(sent, Head(queue))
      BY <2>2, <2>4, <2>6
    <2>10. written' = (sent' \o lost') \o queue'
      BY <2>2, <2>5, <2>8, <2>9
    <2>11. QED
      BY <2>4, <2>10 DEF WritesKeepOrder
  <1>7. QED
    BY <1>2, <1>3, <1>4, <1>5, <1>6, StepWrites

-----------------------------------------------------------------------------
(* The connection, the tasks that watch it, and the Connect. *)

LEMMA NextLeads == ASSUME Inv, [Next]_vars PROVE ConnectLeads'
  <1>1. written \in Seq(Messages)
    BY DEF Inv, TypeOK, ClientTypeOK
  <1>2. CASE Silent /\ (websocket' = "none" <=> websocket = "none")
    BY <1>2 DEF Silent, ConnectLeads, Inv
  <1>3. CASE Writes
    <2>1. PICK q \in Behind : WriteAll(q)
      BY <1>3 DEF Writes
    <2>2. /\ q \in Seq(Messages) /\ written' = written \o q
          /\ \A i \in 1 .. Len(q) : q[i] # Connect
          /\ Len(q) \in Nat /\ Len(written) \in Nat \ {0}
          /\ \A i \in 1 .. Len(written) : (written[i] = Connect) <=> (i = 1)
      BY <1>1, <1>3, <2>1, LenProperties, EmptySeq
         DEF Writes, Behind, WriteAll, ConnectLeads, Inv
    <2>3. /\ written' \in Seq(Messages)
          /\ Len(written') = Len(written) + Len(q)
          /\ \A i \in 1 .. Len(written) + Len(q) :
               written'[i] = IF i <= Len(written) THEN written[i]
                             ELSE q[i - Len(written)]
      BY <1>1, <2>2, ConcatProperties
    <2>4. DOMAIN written' = 1 .. Len(written) + Len(q) /\ written' # <<>>
      BY <2>2, <2>3, LenProperties, EmptySeq
    <2>5. ASSUME NEW i \in 1 .. Len(written) + Len(q)
          PROVE  (written'[i] = Connect) <=> (i = 1)
      <3>1. CASE i <= Len(written)
        <4>1. i \in 1 .. Len(written)
          BY <2>2, <3>1
        <4>2. QED
          BY <2>2, <2>3, <3>1, <4>1
      <3>2. CASE ~(i <= Len(written))
        <4>1. i - Len(written) \in 1 .. Len(q) /\ i # 1
          BY <2>2, <3>2
        <4>2. QED
          BY <2>2, <2>3, <3>2, <4>1
      <3>3. QED
        BY <3>1, <3>2
    <2>6. QED
      BY <2>4, <2>5 DEF ConnectLeads
  <1>4. CASE ConnectSucceeds
    <2>1. websocket = "none"
      BY <1>4 DEF ConnectSucceeds, Inv, Connection
    <2>2. written' = <<>> \o <<Connect>>
      BY <1>4, <2>1 DEF ConnectSucceeds, WriteAll, Inv, Connection, Unconnected
    <2>3. written' = <<Connect>>
      BY <2>2
    <2>4. QED
      BY <2>3 DEF ConnectLeads
  <1>5. CASE WriterSends \/ WriterFails
    BY <1>5 DEF WriterSends, WriterFails, Inv, ConnectLeads
  <1>6. QED
    BY <1>2, <1>3, <1>4, <1>5, StepWrites

LEMMA NextConnection == ASSUME Inv, [Next]_vars PROVE Connection'
  <1> USE DEF tasks, history, process
  <1>1. CASE Run
    BY <1>1 DEF Run, StartConnecting, Inv, Connection, Unconnected
  <1>2. CASE LoopStops
    BY <1>2 DEF LoopStops, clientVars, Inv, Connection, Unconnected
  <1>3. CASE ClientStep
    <2>1. LoopRuns /\ UNCHANGED <<process, handled>>
      BY <1>3 DEF ClientStep, InLoop
    <2>2. main # "run"
      BY <2>1 DEF LoopRuns, Inv, Connection
    <2>3. CASE ConnectFails \/ DelayEnds
      BY <2>1, <2>2, <2>3 DEF ConnectFails, DelayEnds, LoopRuns, Inv, Connection, Unconnected
    <2>4. CASE ConnectSucceeds
      BY <2>1, <2>2, <2>4 DEF ConnectSucceeds, LoopRuns, Inv, Connection
    <2>5. CASE \/ ReaderEnds \/ WriterSends \/ WriterDrained \/ WriterFails
               \/ WriterEnds \/ CloserStarts \/ CloserEnds \/ ConnectionLost
      <3>1. websocket # "none" /\ websocket' # "none"
        BY <2>5 DEF ReaderEnds, WriterSends, WriterDrained, WriterFails, WriterEnds,
           CloserStarts, CloserEnds, ConnectionLost, Inv, Connection, Unconnected
      <3>2. writer' # "none" /\ connector' = connector
        BY <2>5, <3>1 DEF ReaderEnds, WriterSends, WriterDrained, WriterFails, WriterEnds,
           CloserStarts, CloserEnds, ConnectionLost, Inv, Connection
      <3>3. QED
        BY <2>1, <2>2, <3>1, <3>2 DEF LoopRuns, Inv, Connection
    <2>6. QED
      BY <1>3, <2>3, <2>4, <2>5 DEF ClientStep, InLoop, ClientSteps
  <1>4. CASE Callbacks
    <2>1. /\ main' = main /\ (loop' = "created" <=> loop = "created")
          /\ websocket' = websocket /\ connector' = connector /\ writer' = writer
      BY <1>4 DEF Callbacks, HandlesMessage, HandlerRaises, ForwardsStub, ResetsDevice,
         ShellCloses, ReaderReceives, ReaderDies, LoopRuns, Inv, Connection
    <2>2. CASE websocket # "none"
      BY <2>1, <2>2 DEF Inv, Connection
    <2>3. CASE websocket = "none"
      <3>1. UNCHANGED <<written, sent, lost, queue>>
        BY <2>1, <2>3, StepWrites, <1>4 DEF Silent, Writes, ConnectSucceeds,
           WriterSends, WriterFails, Next, Inv, Connection
      <3>2. UNCHANGED <<inbox, handled, reader, closer, established>>
        BY <1>4, <2>3 DEF Callbacks, HandlesMessage, HandlerRaises, ForwardsStub,
           ResetsDevice, ShellCloses, ReaderReceives, ReaderDies, Inv, Connection,
           Unconnected
      <3>3. Unconnected'
        BY <2>1, <2>3, <3>1, <3>2 DEF Inv, Connection, Unconnected
      <3>4. QED
        BY <2>1, <2>3, <3>3 DEF Inv, Connection
    <2>4. QED
      BY <2>2, <2>3
  <1>5. CASE Shutdown
    <2>1. /\ connector' = connector /\ writer' = writer /\ handled' = handled
          /\ loop' = loop /\ main # "run" /\ main' # "run"
          /\ inbox' = inbox /\ reader' = reader /\ established' = established
          /\ (websocket' = "none" <=> websocket = "none")
      BY <1>5 DEF Shutdown, ShutsSocket, AsksProcess, Terminates, Waits, Kills, Reaps,
         RestoresTTY, Exits, shutdownVars, clientVars, At, Goto
    <2>2. loop # "created"
      BY <2>1 DEF Inv, Connection
    <2>3. CASE websocket # "none"
      BY <2>1, <2>2, <2>3 DEF Inv, Connection
    <2>4. CASE websocket = "none"
      <3>1. UNCHANGED <<written, sent, lost, queue, closer>>
        BY <1>5, <2>4 DEF Shutdown, ShutsSocket, IsConnected, AsksProcess, Terminates,
           Waits, Kills, Reaps, RestoresTTY, Exits, shutdownVars, clientVars
      <3>2. Unconnected'
        BY <2>1, <2>4, <3>1 DEF Inv, Connection, Unconnected
      <3>3. QED
        BY <2>1, <2>2, <2>4, <3>2 DEF Inv, Connection
    <2>5. QED
      BY <2>3, <2>4
  <1>6. CASE ChildLeaves \/ ChildEnds \/ LastJobEnds
    BY <1>6 DEF ChildLeaves, ChildEnds, LastJobEnds, clientVars, Inv, Connection, Unconnected
  <1>7. CASE RelayAcknowledges \/ RelayForwards \/ RelaySupersedes
    BY <1>7 DEF RelayAcknowledges, RelayForwards, RelaySupersedes, Arrives, Inv, Connection
  <1>8. CASE UNCHANGED vars
    BY <1>8 DEF vars, clientVars, Inv, Connection, Unconnected
  <1>9. QED
    BY <1>1, <1>2, <1>3, <1>4, <1>5, <1>6, <1>7, <1>8 DEF Next, Environment

LEMMA NextKeepers == ASSUME Inv, [Next]_vars PROVE Keepers'
  <1> USE DEF tasks, history, process
  <1>1. CASE Run \/ LoopStops
    BY <1>1 DEF Run, LoopStops, StartConnecting, clientVars, Inv, Keepers
  <1>2. CASE ClientStep
    <2>1. CASE ConnectFails \/ DelayEnds \/ ConnectSucceeds
      <3>1. websocket = "none" /\ writer = "none" /\ lost = <<>>
        BY <2>1 DEF ConnectFails, DelayEnds, ConnectSucceeds, Inv, Connection, Unconnected
      <3>2. writer' \notin {"fail", "ended"} /\ lost' = <<>>
        BY <2>1, <3>1 DEF ConnectFails, DelayEnds, ConnectSucceeds
      <3>3. QED
        BY <3>2 DEF Keepers
    <2>2. CASE ReaderEnds
      BY <2>2 DEF ReaderEnds, Inv, Keepers
    <2>3. CASE WriterSends
      BY <2>3 DEF WriterSends, Inv, Keepers
    <2>4. CASE WriterDrained
      BY <2>4 DEF WriterDrained, Inv, Keepers
    <2>5. CASE WriterFails
      BY <2>5 DEF WriterFails, Keepers
    <2>6. CASE WriterEnds
      BY <2>6 DEF WriterEnds, Keepers
    <2>7. CASE CloserStarts \/ CloserEnds \/ ConnectionLost
      BY <2>7 DEF CloserStarts, CloserEnds, ConnectionLost, Inv, Keepers
    <2>8. QED
      BY <1>2, <2>1, <2>2, <2>3, <2>4, <2>5, <2>6, <2>7 DEF ClientStep, InLoop, ClientSteps
  <1>3. CASE HandlesMessage
    <2>1. PICK replies \in Replies : ReaderReceives(replies)
      BY <1>3 DEF HandlesMessage
    <2>2. /\ writer' = writer /\ websocket' = websocket /\ lost' = lost
          /\ websocket = "closed" => established' = FALSE
      <3>1. /\ writer' = writer /\ websocket' = websocket /\ lost' = lost
            /\ established' \in BOOLEAN /\ (established' => IsConnected)
        BY <2>1, Zenon DEF ReaderReceives
      <3>2. QED
        BY <3>1 DEF IsConnected
    <2>3. QED
      BY <2>2 DEF Inv, Keepers
  <1>4. CASE \/ HandlerRaises \/ ForwardsStub \/ ResetsDevice \/ ShellCloses
    BY <1>4 DEF HandlerRaises, ReaderDies, ForwardsStub, ResetsDevice, ShellCloses,
       Inv, Keepers
  <1>5. CASE Shutdown
    <2>1. /\ UNCHANGED <<writer, established, lost>>
          /\ websocket' \in {websocket, "closed"}
      BY <1>5 DEF Shutdown, ShutsSocket, AsksProcess, Terminates, Waits, Kills, Reaps,
         RestoresTTY, Exits, shutdownVars, clientVars
    <2>2. QED
      BY <2>1 DEF Inv, Keepers
  <1>6. CASE Environment
    BY <1>6 DEF Environment, ChildLeaves, ChildEnds, LastJobEnds, RelayAcknowledges, RelayForwards,
       RelaySupersedes, Arrives, clientVars, Inv, Keepers
  <1>7. CASE UNCHANGED vars
    BY <1>7 DEF vars, clientVars, Inv, Keepers
  <1>8. QED
    BY <1>1, <1>2, <1>3, <1>4, <1>5, <1>6, <1>7 DEF Next, Callbacks

-----------------------------------------------------------------------------
(* The theorems. *)

LEMMA NextInv == Inv /\ [Next]_vars => Inv'
  <1> SUFFICES ASSUME Inv, [Next]_vars PROVE Inv'
    OBVIOUS
  <1>1. TypeOK'
    BY NextTypeOK DEF Inv
  <1>2. QED
    BY <1>1, NextConnection, NextKeepers, NextOrder, NextLeads, NextShutting DEF Inv

LEMMA AlwaysInv == Spec => []Inv
  BY InitInv, NextInv, PTL DEF Spec

\* Nothing the proxy writes is reordered, repeated or lost, but for one
\* message that a failing send held.
THEOREM WritesAreOrdered == Spec => []WritesKeepOrder
  <1>1. Inv => WritesKeepOrder
    BY DEF Inv
  <1>2. QED
    BY AlwaysInv, <1>1, PTL

\* What went out is the front of what was written, which a Connect leads.
LEMMA LedByConnect == Inv => ConnectComesFirst
  <1> SUFFICES ASSUME Inv, NEW i \in DOMAIN sent
               PROVE  (sent[i] = Connect) <=> (i = 1)
    BY DEF ConnectComesFirst
  <1>1. /\ sent \in Seq(Messages) /\ lost \in Seq(Messages)
        /\ queue \in Seq(Messages) /\ sent \o lost \in Seq(Messages)
    BY ConcatProperties DEF Inv, TypeOK, ClientTypeOK
  <1>2. websocket # "none"
    BY DEF Inv, Connection, Unconnected
  <1>3. /\ i \in 1 .. Len(sent) /\ Len(sent) \in Nat
        /\ Len(lost) \in Nat /\ Len(queue) \in Nat
    BY <1>1, LenProperties
  <1>4. /\ Len(sent \o lost) = Len(sent) + Len(lost)
        /\ (sent \o lost)[i] = sent[i]
    BY <1>1, <1>3, ConcatProperties
  <1>5. /\ Len(written) = Len(sent \o lost) + Len(queue)
        /\ written[i] = (sent \o lost)[i]
    BY <1>1, <1>3, <1>4, ConcatProperties DEF Inv, WritesKeepOrder
  <1>6. i \in DOMAIN written
    <2>1. DOMAIN written = 1 .. Len(written)
      BY LenProperties DEF Inv, TypeOK, ClientTypeOK
    <2>2. QED
      BY <1>3, <1>4, <1>5, <2>1
  <1>7. QED
    BY <1>2, <1>4, <1>5, <1>6 DEF Inv, ConnectLeads

\* A connection begins with Connect, whichever callbacks write when.
THEOREM ConnectionsBeginWithConnect == Spec => []ConnectComesFirst
  BY AlwaysInv, LedByConnect, PTL

\* The flag of an established connection is watched by a task that will clear
\* it, even after the reader has been killed by an exception.
THEOREM FlagIsKept == Spec => []FlagHasKeeper
  <1>1. Inv => FlagHasKeeper
    BY DEF Inv, TypeOK, ClientTypeOK, Connection, Unconnected, Keepers, FlagHasKeeper
  <1>2. QED
    BY AlwaysInv, <1>1, PTL

\* However bash ends and however long the grace period is, the proxy exits
\* with its child reaped and its terminal restored.
THEOREM NothingStays == Spec => []NothingIsLeftBehind
  <1>1. Inv => NothingIsLeftBehind
    BY DEF Inv, Shutting, NothingIsLeftBehind, At
  <1>2. QED
    BY AlwaysInv, <1>1, PTL

\* No signal is sent to a process id that has been given back.
THEOREM SignalsAreSafe == Spec => []SignalsHitTheChild
  <1>1. Inv => SignalsHitTheChild
    BY DEF Inv, Shutting, SignalsHitTheChild, At
  <1>2. QED
    BY AlwaysInv, <1>1, PTL
=============================================================================
