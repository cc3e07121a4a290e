---------------------------- MODULE ShellSession ----------------------------
(***************************************************************************)
(* The life of one shell proxy: RiotWebShellProxy.run, stop and            *)
(* __shutdown__ (shell.py), the bash it forked (ShellProcess in            *)
(* shell/shell_process.py), the raw terminal (TTYRawIO in                  *)
(* shell/tty_io.py), and its connection to the relay                       *)
(* (RemoteSocketClient).  What the callbacks do with a device is           *)
(* ShellProxy's subject; here they only write link messages.               *)
(*                                                                         *)
(* While the event loop runs, its tasks and callbacks interleave.  Once it *)
(* has stopped only the main program goes on, and the client's view of its *)
(* connection is frozen; bash lives or ends by itself.                     *)
(***************************************************************************)
EXTENDS RemoteSocketClient, FiniteSets

CONSTANTS
    MaxWrites,    \* bound: link messages the proxy writes
    MaxForwards,  \* bound: link messages the relay forwards to the shell
    KillTimeout   \* _kill_timeout: rounds that stop waits for the child

ASSUME SessionAssumption == /\ MaxWrites \in Nat
                            /\ MaxForwards \in Nat
                            /\ KillTimeout \in Nat

VARIABLES
    child,      \* the forked process; "detached": alive, but off its terminal
    pty,        \* "open" as long as somebody holds its slave side; then its
                \* stream has "ended", or is "cut": inside a frame (MuxFDIO)
    loop,       \* the event loop
    main,       \* where run() and __shutdown__ are
    rounds,     \* rounds of stop's loop
    tty,        \* the proxy's terminal
    forwarded,  \* history: link messages of the relay
    handled     \* history: link messages that reached the proxy's callback

process == <<child, pty, loop, main, rounds, tty>>
vars == <<clientVars, process, forwarded, handled>>

Init ==
    /\ ClientInit
    /\ child = "running" /\ pty = "open"
    /\ loop = "created" /\ main = "run"
    /\ rounds = 0
    /\ tty = "raw"
    /\ forwarded = 0 /\ handled = 0

TypeOK ==
    /\ ClientTypeOK
    /\ child \in {"running", "detached", "zombie", "reaped"}
    /\ pty \in {"open", "ended", "cut"}
    /\ loop \in {"created", "running", "stopping", "stopped"}
    /\ main \in {"run", "loop", "socket", "process", "term", "wait", "reap",
                 "tty", "exit", "exited"}
    /\ rounds \in 0 .. KillTimeout
    /\ tty \in {"raw", "restored"}
    /\ forwarded \in 0 .. MaxForwards /\ handled \in Nat

\* stop() lets the current round of the event loop finish.
LoopRuns == loop \in {"running", "stopping"}

LinksWritten == Cardinality({i \in DOMAIN written : written[i].kind = "Link"})
NextLink == Link(LinksWritten + 1)

\* What a callback that may write one link message writes.
Replies == {<<>>} \union (IF LinksWritten < MaxWrites THEN {<<NextLink>>}
                                                      ELSE {})

-----------------------------------------------------------------------------
(* Callbacks of the event loop. *)

\* run(): connect() and run_forever().
Run ==
    /\ main = "run"
    /\ main' = "loop"
    /\ loop' = "running"
    /\ StartConnecting
    /\ UNCHANGED <<child, pty, rounds, tty, forwarded, handled>>

\* A step of the client and its connection, seen by a running loop.
InLoop(step) == LoopRuns /\ step /\ UNCHANGED <<process, forwarded, handled>>

ClientSteps ==
    \/ ConnectFails \/ DelayEnds \/ ConnectSucceeds
    \/ ReaderEnds
    \/ WriterSends \/ WriterDrained \/ WriterFails \/ WriterEnds
    \/ CloserStarts \/ CloserEnds
    \/ ConnectionLost

ClientStep == InLoop(ClientSteps)

HandlesMessage ==
    /\ LoopRuns
    /\ \E replies \in Replies : ReaderReceives(replies)
    /\ handled' = handled + (IF Head(inbox).kind = "Link" THEN 1 ELSE 0)
    /\ UNCHANGED <<process, forwarded>>

\* An assertion of run_cmd or write_protocol fails, bash or the stub having
\* gone on since the check, and the debugger that err_assert opens is quit.
HandlerRaises ==
    /\ LoopRuns
    /\ \E replies \in Replies : ReaderDies(replies)
    /\ handled' = handled + 1
    /\ UNCHANGED <<process, forwarded>>

\* Mutant: the stub's messages are forwarded whatever the connection's state.
ForwardsStub_Always ==
    /\ loop = "running"
    /\ LinksWritten < MaxWrites
    /\ WriteAll(<<NextLink>>)
    /\ UNCHANGED <<websocket, tasks, established, inbox, sent, lost,
                   process, forwarded, handled>>

\* __on_protocol_shell_output__: a message of the stub, which may have ended
\* since.
ForwardsStub ==
    /\ loop = "running"
    /\ IsEstablished
    /\ LinksWritten < MaxWrites
    /\ WriteAll(<<NextLink>>)
    /\ UNCHANGED <<websocket, tasks, established, inbox, sent, lost,
                   process, forwarded, handled>>

\* __on_tty_raw_stdin__, __on_raw_shell_output__: locked_device is freed.  It
\* has been set by a message, but the connection is not asked for.
ResetsDevice ==
    /\ LoopRuns
    /\ handled > 0
    /\ LinksWritten < MaxWrites
    /\ WriteAll(<<NextLink>>)
    /\ UNCHANGED <<websocket, tasks, established, inbox, sent, lost,
                   process, forwarded, handled>>

\* The reader of the pty reports its end, once nobody holds the slave side any
\* more: __on_shell_closed__ stops the loop, then __on_raw_shell_output__(b"")
\* may still free a device.
ShellCloses ==
    /\ loop = "running"
    /\ pty = "ended"
    /\ loop' = "stopping"
    /\ \E replies \in Replies : /\ replies = <<>> \/ handled > 0
                                /\ WriteAll(replies)
    /\ UNCHANGED <<websocket, tasks, established, inbox, sent, lost, child,
                   pty, main, rounds, tty, forwarded, handled>>

LoopStops ==
    /\ loop = "stopping"
    /\ loop' = "stopped"
    /\ main' = "socket"
    /\ UNCHANGED <<clientVars, child, pty, rounds, tty, forwarded, handled>>

-----------------------------------------------------------------------------
(* __shutdown__, after run_forever has returned. *)

At(here) == main = here
Goto(there) == main' = there

\* The task that would close the connection is created and never run.
ShutsSocket ==
    /\ At("socket") /\ Goto("process")
    /\ IF IsConnected THEN StartDisconnecting
                      ELSE UNCHANGED <<queue, written, closer>>
    /\ UNCHANGED <<websocket, connector, reader, writer, established, inbox,
                   sent, lost, child, pty, loop, rounds, tty, forwarded,
                   handled>>

shutdownVars == <<clientVars, pty, loop, forwarded, handled>>

\* Mutant: a child that was reaped is taken for a living one.
AsksProcess_Inverted ==
    /\ At("process")
    /\ IF child = "zombie" THEN child' = "reaped" ELSE UNCHANGED child
    /\ Goto("term")
    /\ UNCHANGED <<shutdownVars, rounds, tty>>

\* is_alive: asking reaps the child if it has ended.
AsksProcess ==
    /\ At("process")
    /\ IF child = "zombie" THEN child' = "reaped" /\ Goto("tty")
                           ELSE Goto("term") /\ UNCHANGED child
    /\ UNCHANGED <<shutdownVars, rounds, tty>>

\* stop: SIGTERM, which an interactive bash ignores.
Terminates ==
    /\ At("term") /\ Goto("wait")
    /\ UNCHANGED <<shutdownVars, child, rounds, tty>>

\* Mutant: one round too many.
Waits_OneMore ==
    /\ At("wait")
    /\ \/ /\ rounds <= KillTimeout
          /\ child = "zombie"
          /\ child' = "reaped" /\ Goto("tty")
          /\ UNCHANGED rounds
       \/ /\ rounds <= KillTimeout
          /\ child # "zombie"
          /\ rounds' = rounds + 1
          /\ UNCHANGED <<child, main>>
    /\ UNCHANGED <<shutdownVars, tty>>

\* A round of stop's loop: waitpid, then a pause.
Waits ==
    /\ At("wait")
    /\ \/ /\ rounds < KillTimeout
          /\ child = "zombie"
          /\ child' = "reaped" /\ Goto("tty")
          /\ UNCHANGED rounds
       \/ /\ rounds < KillTimeout
          /\ child # "zombie"
          /\ rounds' = rounds + 1
          /\ UNCHANGED <<child, main>>
    /\ UNCHANGED <<shutdownVars, tty>>

\* Mutant: after the grace period the child is only left alone.
Kills_Not ==
    /\ At("wait") /\ rounds = KillTimeout
    /\ Goto("tty")
    /\ UNCHANGED <<shutdownVars, child, rounds, tty>>

\* Mutant: the last waitpid comes without SIGKILL.
Kills_OnlyWaits ==
    /\ At("wait") /\ rounds = KillTimeout
    /\ Goto("reap")
    /\ UNCHANGED <<shutdownVars, child, rounds, tty>>

\* SIGKILL; a child that has ended meanwhile stays a zombie.
Kills ==
    /\ At("wait") /\ rounds = KillTimeout
    /\ Goto("reap")
    /\ child' = "zombie"
    /\ UNCHANGED <<shutdownVars, rounds, tty>>

\* The blocking waitpid.
Reaps ==
    /\ At("reap") /\ child = "zombie"
    /\ child' = "reaped" /\ Goto("tty")
    /\ UNCHANGED <<shutdownVars, rounds, tty>>

\* TTYRawIO.close.
RestoresTTY ==
    /\ At("tty") /\ Goto("exit")
    /\ tty' = "restored"
    /\ UNCHANGED <<shutdownVars, child, rounds>>

\* os._exit: whatever is queued is gone, the kernel closes the connection.
Exits ==
    /\ At("exit") /\ Goto("exited")
    /\ websocket' = IF websocket = "none" THEN "none" ELSE "closed"
    /\ UNCHANGED <<tasks, established, queue, inbox, history, child, pty,
                   loop, rounds, tty, forwarded, handled>>

Shutdown == \/ ShutsSocket \/ AsksProcess \/ Terminates \/ Waits \/ Kills
            \/ Reaps \/ RestoresTTY \/ Exits

-----------------------------------------------------------------------------
(* The environment: bash, and the relay. *)

\* bash closes its terminal, or ends: the last one to hold the slave side, which
\* is killed inside a frame perhaps, or survived by a job in the background.
ChildLeaves ==
    /\ child = "running"
    /\ child' \in {"detached", "zombie"}
    /\ pty' \in {"open", "ended", "cut"}
    /\ UNCHANGED <<clientVars, loop, main, rounds, tty, forwarded, handled>>

ChildEnds ==
    /\ child = "detached"
    /\ child' = "zombie"
    /\ UNCHANGED <<clientVars, pty, loop, main, rounds, tty, forwarded,
                   handled>>

\* The last of the background jobs that bash has left behind ends.
LastJobEnds ==
    /\ child # "running" /\ pty = "open"
    /\ pty' \in {"ended", "cut"}
    /\ UNCHANGED <<clientVars, child, loop, main, rounds, tty, forwarded,
                   handled>>

Told(kind) == \E i \in DOMAIN inbox : inbox[i].kind = kind

\* The relay acknowledges a Connect, forwards link messages after that, and
\* says Disconnect when another socket takes the address over (see Relay).
RelayAcknowledges ==
    /\ LoopRuns
    /\ sent # <<>> /\ ~established /\ forwarded = 0 /\ ~Told("ConnectAck")
    /\ Arrives(ConnectAck)
    /\ UNCHANGED <<process, forwarded, handled>>

RelayForwards ==
    /\ LoopRuns
    /\ established \/ Told("ConnectAck")
    /\ ~Told("Disconnect")
    /\ forwarded < MaxForwards
    /\ Arrives(Link(forwarded + 1))
    /\ forwarded' = forwarded + 1
    /\ UNCHANGED <<process, handled>>

RelaySupersedes ==
    /\ LoopRuns
    /\ established \/ Told("ConnectAck")
    /\ ~Told("Disconnect") /\ closer = "idle"
    /\ Arrives(Disconnect)
    /\ UNCHANGED <<process, forwarded, handled>>

Environment == \/ ChildLeaves \/ ChildEnds \/ LastJobEnds
               \/ RelayAcknowledges \/ RelayForwards \/ RelaySupersedes

-----------------------------------------------------------------------------
Callbacks == \/ HandlesMessage \/ HandlerRaises \/ ForwardsStub \/ ResetsDevice
             \/ ShellCloses

Next == \/ Run \/ ClientStep \/ Callbacks \/ LoopStops \/ Shutdown
        \/ Environment

Spec == Init /\ [][Next]_vars

\* The event loop runs its tasks and the reader of the pty, the main program
\* goes on, SIGKILL kills, and a closing handshake ends (websockets enforces
\* a timeout).  The relay can be reached time and again.
Fairness ==
    /\ WF_vars(Run) /\ WF_vars(LoopStops) /\ WF_vars(Shutdown)
    /\ WF_vars(ShellCloses)
    /\ WF_vars(InLoop(DelayEnds))
    /\ WF_vars(InLoop(ConnectFails \/ ConnectSucceeds))
    /\ SF_vars(InLoop(ConnectSucceeds))
    /\ WF_vars(HandlesMessage \/ InLoop(ReaderEnds))
    /\ WF_vars(InLoop(WriterSends \/ WriterDrained \/ WriterFails \/ WriterEnds))
    /\ WF_vars(InLoop(CloserStarts \/ CloserEnds))
    /\ WF_vars(InLoop(websocket = "closing" /\ ConnectionLost))

FairSpec == Spec /\ Fairness

-----------------------------------------------------------------------------
(* Properties. *)

\* The relay refuses whatever comes before a Connect, so Connect must be the
\* first message of a connection, and said once.  __on_open__ appends it
\* behind everything queued earlier (remote_socket_client.py:45): that nothing
\* is queued earlier is up to the proxy's callbacks.
ConnectComesFirst == \A i \in DOMAIN sent : (sent[i] = Connect) <=> (i = 1)

\* The writer neither reorders nor repeats what it is given, and loses at most
\* one message, its last: the one it held when send failed.
WritesKeepOrder == /\ written = sent \o lost \o queue
                   /\ Len(lost) <= 1

\* _connection_established never outlives both tasks of its connection: each
\* clears it as its last act, but a reader killed by an exception does not get
\* there (remote_socket_client.py:116), and is then made up for by the writer.
FlagHasKeeper == established => \/ reader = "recv"
                                \/ writer \in {"poll", "drain", "fail"}

\* The proxy never exits with its bash still there, nor with its terminal
\* raw, whether bash ended, ended during the shutdown, or only closed the pty.
NothingIsLeftBehind == At("exited") => child = "reaped" /\ tty = "restored"

\* Signals go to a process id that still belongs to the child: it has not been
\* reaped (by is_alive or by a round of stop), after which the id may be
\* reused.
SignalsHitTheChild ==
    At("term") \/ (At("wait") /\ rounds = KillTimeout) => child # "reaped"

\* A relay that can be reached is reached, however often it could not before.
FinallyConnects ==
    At("loop") ~> websocket # "none" \/ ~LoopRuns

\* A lost connection is noticed by both tasks and by is_established.
LossIsNoticed ==
    websocket = "closed" ~> \/ /\ reader # "recv" /\ writer = "ended"
                               /\ ~established
                            \/ ~LoopRuns

\* When the pty's output has ended, and not inside a frame, the proxy exits with
\* its terminal restored, whatever its connection does and wherever bash is:
\* dead, reaped by is_alive, or alive and to be killed (shell.py:55-81, 136).
\* A background job that holds the slave side keeps the proxy up, however long
\* bash has been gone; no job has to end, so this says nothing about bash.
ShellEnds == pty = "ended" ~> At("exited") /\ tty = "restored"
=============================================================================
