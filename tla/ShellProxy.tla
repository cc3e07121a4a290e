----------------------------- MODULE ShellProxy -----------------------------
(***************************************************************************)
(* A RIOT shell: the proxy process between the user's terminal, the pty of *)
(* a bash and the protocol connection to the relay.                        *)
(*   shell.py                 RiotWebShellProxy, the callbacks             *)
(*   shell/shell_process.py   RiotWebShellProcess: is_busy, run_cmd,       *)
(*                            write_protocol, the stub's readiness         *)
(*   stub.py                  the flash and term stub that make runs       *)
(* (under src/riot-web-tools/src/riot_web_tools).  The callbacks of the    *)
(* proxy run one after the other; bash, make and the stub are processes of *)
(* their own, so everything the proxy learns from is_busy may be stale at  *)
(* its next use: a callback that asks twice is two steps here.             *)
(*                                                                         *)
(* External: the user, bash, make, the tty's line discipline, and at the   *)
(* other end of the connection the devices of the one browser, which lock  *)
(* themselves while they wait for a shell.  The connection is up           *)
(* throughout and delivers in order (Relay models it).                     *)
(***************************************************************************)
EXTENDS Naturals, Sequences

CONSTANTS
    Devices,     \* DeviceAddress
    Client,      \* ClientAddress
    None,
    Keys,        \* what the user types: "user", "flash", "term", "cancel"
    MaxKeys,     \* bound: keystrokes
    MaxRequests, \* bound: requests of the devices
    MaxOutput,   \* bound: output of make that waits in the pty
    MaxResets,   \* bound: page reloads
    MaxIO,       \* bound: log and serial output of the devices
    MaxKills     \* bound: stubs that are killed

Commands == {"flash", "term"}
Address == Devices \union {Client}

ASSUME AddressAssumption == Client \notin Devices /\ None \notin Devices
                                                  \union {Client}
ASSUME KeysAssumption == Keys \subseteq {"user", "flash", "term", "cancel"}
ASSUME BoundAssumption == /\ MaxKeys \in Nat /\ MaxRequests \in Nat
                          /\ MaxOutput \in Nat /\ MaxResets \in Nat
                          /\ MaxIO \in Nat /\ MaxKills \in Nat

VARIABLES
    (* RiotWebShellProxy *)
    user_mode,
    locked_device,
    working_on_locked_device,
    callback,            \* the callback that is half done, or Idle
    (* RiotWebShellProcess *)
    stub_protocol_ready,
    (* the pty and the processes on its slave side *)
    typed, output,
    phase,               \* "bash" is in front, or "make", a "stub", "ending"
    run, target,         \* what make was called for
    (* the protocol connection and the devices *)
    inbox, outbox, device,
    (* bounds: how often the environment acted *)
    keys, requests, resets, logs, kills

proxy == <<user_mode, locked_device, working_on_locked_device, callback,
           stub_protocol_ready>>
job == <<phase, run, target>>
pty == <<typed, output, job>>
net == <<inbox, outbox, device>>
bounds == <<keys, requests, resets, logs, kills>>
vars == <<proxy, pty, net, bounds>>

\* Link messages; peer is the other end: the sender of a message to the
\* shell, the receiver of one from it.
Message(type, peer, command) ==
    [type |-> type, peer |-> peer, command |-> command]
Messages == [type    : {"REQ", "ACK", "RST", "CMD", "IO"},
             peer    : Address,
             command : Commands \union {None}]
Reset(peer) == Message("RST", peer, None)

\* What is written to the pty: a command line, a frame, or a single key.
Line(r, d) == [kind |-> "line", run |-> r, target |-> d]
FrameOf(m) == [kind |-> "frame", message |-> m]
Cd == [kind |-> "cd"]
Cancel == [kind |-> "cancel"]
Text == [kind |-> "text"]

Idle == [at |-> "idle"]

Init ==
    /\ user_mode = FALSE /\ locked_device = None
    /\ working_on_locked_device = FALSE /\ callback = Idle
    /\ stub_protocol_ready = FALSE
    /\ typed = <<>> /\ output = <<>>
    /\ phase = "bash" /\ run = "user" /\ target = None
    /\ inbox = <<>> /\ outbox = <<>>
    /\ device = [d \in Devices |-> "free"]
    /\ keys = 0 /\ requests = 0 /\ resets = 0 /\ logs = 0
    /\ kills = 0

\* A foreground job owns the terminal.
IsBusy == phase # "bash"
IsStubProtocolReady == IsBusy /\ stub_protocol_ready

Send(m) == outbox' = Append(outbox, m)

-----------------------------------------------------------------------------
(* Writing to the pty master.  A stub has made the tty raw; otherwise       *)
(* Ctrl-C is a signal that flushes the input and ends the foreground job.   *)

PtyWrite(token) ==
    /\ typed' = IF token = Cancel /\ phase # "stub"
                  THEN <<>> ELSE Append(typed, token)
    /\ phase' = IF token = Cancel /\ phase = "make" THEN "ending" ELSE phase
    /\ UNCHANGED <<output, run, target>>

-----------------------------------------------------------------------------
(* Front: the terminal of the user. *)

TypesLine(r, d) ==
    /\ callback = Idle
    /\ r \in Keys /\ keys < MaxKeys /\ keys' = keys + 1
    /\ user_mode' = (user_mode \/ ~IsBusy)
    /\ PtyWrite(Line(r, d))
    /\ UNCHANGED <<locked_device, working_on_locked_device, callback,
                   stub_protocol_ready, net, requests, resets, logs, kills>>

\* Mutant: the device is not told.
TypesCancel_Silent ==
    /\ callback = Idle
    /\ "cancel" \in Keys /\ keys < MaxKeys /\ keys' = keys + 1
    /\ IF locked_device # None /\ ~IsStubProtocolReady
         THEN locked_device' = None
         ELSE UNCHANGED locked_device
    /\ PtyWrite(Cancel)
    /\ UNCHANGED <<user_mode, working_on_locked_device, callback, outbox,
                   stub_protocol_ready, inbox, device, requests, resets, logs,
                   kills>>

TypesCancel ==
    /\ callback = Idle
    /\ "cancel" \in Keys /\ keys < MaxKeys /\ keys' = keys + 1
    /\ IF locked_device # None /\ ~IsStubProtocolReady
         THEN Send(Reset(locked_device)) /\ locked_device' = None
         ELSE UNCHANGED <<outbox, locked_device>>
    /\ PtyWrite(Cancel)
    /\ UNCHANGED <<user_mode, working_on_locked_device, callback,
                   stub_protocol_ready, inbox, device, requests, resets, logs,
                   kills>>

-----------------------------------------------------------------------------
(* Back: the output of the shell. *)

NextOutput == callback = Idle /\ output # <<>> /\ output' = Tail(output)

\* Raw output: a job works on the locked device (shell.py:112).
ShellText ==
    LET working == working_on_locked_device
                   \/ (locked_device # None /\ IsBusy) IN
    /\ NextOutput /\ Head(output) = Text
    /\ working_on_locked_device' = working
    /\ callback' = IF working THEN [at |-> "raw_output"] ELSE Idle
    /\ UNCHANGED <<user_mode, locked_device, stub_protocol_ready, typed, job,
                   net, bounds>>

\* Mutant: the device is kept for the next job.
TaskStopped_Keep ==
    /\ callback.at = "raw_output"
    /\ working_on_locked_device' = IsBusy
    /\ callback' = Idle
    /\ UNCHANGED <<user_mode, locked_device, stub_protocol_ready, pty, net,
                   bounds>>

\* The second question: the job is over, and its device is freed.
TaskStopped ==
    /\ callback.at = "raw_output"
    /\ working_on_locked_device' = IsBusy
    /\ IF ~IsBusy /\ locked_device # None
         THEN Send(Reset(locked_device)) /\ locked_device' = None
         ELSE UNCHANGED <<outbox, locked_device>>
    /\ callback' = Idle
    /\ UNCHANGED <<user_mode, stub_protocol_ready, pty, inbox, device, bounds>>

\* Mutant: only an acknowledgement makes the stub ready.
ShellFrame_NeverReady ==
    /\ NextOutput /\ Head(output).kind = "frame"
    /\ LET m == Head(output).message IN
       /\ stub_protocol_ready' = (m.type = "ACK")
       /\ locked_device' = IF m.type = "RST" THEN None ELSE locked_device
       /\ Send(m)
    /\ UNCHANGED <<user_mode, working_on_locked_device, callback, typed, job,
                   inbox, device, bounds>>

\* A frame of the stub: anything but a reset means the stub is ready.
ShellFrame ==
    /\ NextOutput /\ Head(output).kind = "frame"
    /\ LET m == Head(output).message IN
       /\ stub_protocol_ready' = (m.type # "RST")
       /\ locked_device' = IF m.type = "RST" THEN None ELSE locked_device
       /\ Send(m)
    /\ UNCHANGED <<user_mode, working_on_locked_device, callback, typed, job,
                   inbox, device, bounds>>

-----------------------------------------------------------------------------
(* The protocol connection. *)

NextLink(type) == /\ callback = Idle
                  /\ inbox # <<>> /\ Head(inbox).type = type
                  /\ inbox' = Tail(inbox)

\* Mutant: a request to a busy shell is dropped.
RefuseRequest_Drop ==
    /\ NextLink("REQ")
    /\ user_mode \/ IsBusy \/ Head(inbox).peer \notin Devices
    /\ UNCHANGED <<outbox, proxy, pty, device, bounds>>

RefuseRequest ==
    /\ NextLink("REQ")
    /\ user_mode \/ IsBusy \/ Head(inbox).peer \notin Devices
    /\ Send(Reset(Head(inbox).peer))
    /\ UNCHANGED <<proxy, pty, device, bounds>>

\* Mutant: the sender's kind is not looked at.
AcceptRequest_AnySender ==
    /\ NextLink("REQ")
    /\ ~user_mode /\ ~IsBusy
    /\ Send(Message("ACK", Head(inbox).peer, None))
    /\ PtyWrite(Cd)
    /\ callback' = [at |-> "run_cmd", message |-> Head(inbox)]
    /\ UNCHANGED <<user_mode, locked_device, working_on_locked_device,
                   stub_protocol_ready, device, bounds>>

\* The acknowledgement and the first run_cmd: both kinds of request there are
\* are known to the match (shell.py:159-161 is for a kind to come), and an
\* assertion that fails in run_cmd is logged and passed (utils/log.py:63-68).
AcceptRequest ==
    /\ NextLink("REQ")
    /\ ~user_mode /\ ~IsBusy /\ Head(inbox).peer \in Devices
    /\ Send(Message("ACK", Head(inbox).peer, None))
    /\ PtyWrite(Cd)
    /\ callback' = [at |-> "run_cmd", message |-> Head(inbox)]
    /\ UNCHANGED <<user_mode, locked_device, working_on_locked_device,
                   stub_protocol_ready, device, bounds>>

\* The second run_cmd, which asserts again that the shell is not busy.
RunMake ==
    /\ callback.at = "run_cmd"
    /\ PtyWrite(Line(callback.message.command, callback.message.peer))
    /\ locked_device' = callback.message.peer
    /\ callback' = Idle
    /\ UNCHANGED <<user_mode, working_on_locked_device, stub_protocol_ready,
                   net, bounds>>

DropReset ==
    /\ NextLink("RST")
    /\ ~IsBusy
    /\ UNCHANGED <<proxy, pty, outbox, device, bounds>>

TakesReset ==
    /\ NextLink("RST")
    /\ IsBusy
    /\ locked_device' = None
    /\ callback' = [at |-> "reset", message |-> Head(inbox)]
    /\ UNCHANGED <<user_mode, working_on_locked_device, stub_protocol_ready,
                   pty, outbox, device, bounds>>

\* No stub to tell: the job, if it still is there, is interrupted.
ResetCancels ==
    /\ callback.at = "reset"
    /\ ~IsStubProtocolReady
    /\ PtyWrite(Cancel)
    /\ callback' = Idle
    /\ UNCHANGED <<user_mode, locked_device, working_on_locked_device,
                   stub_protocol_ready, net, bounds>>

ResetForStub ==
    /\ callback.at = "reset"
    /\ IsStubProtocolReady
    /\ callback' = [at |-> "write_protocol", message |-> callback.message]
    /\ UNCHANGED <<user_mode, locked_device, working_on_locked_device,
                   stub_protocol_ready, pty, net, bounds>>

DropMessage ==
    /\ NextLink("IO")
    /\ ~IsStubProtocolReady
    /\ UNCHANGED <<proxy, pty, outbox, device, bounds>>

MessageForStub ==
    /\ NextLink("IO")
    /\ IsStubProtocolReady
    /\ callback' = [at |-> "write_protocol", message |-> Head(inbox)]
    /\ UNCHANGED <<user_mode, locked_device, working_on_locked_device,
                   stub_protocol_ready, pty, outbox, device, bounds>>

\* write_protocol, which asserts again that there is a stub.
WriteProtocol ==
    /\ callback.at = "write_protocol"
    /\ stub_protocol_ready' = (stub_protocol_ready
                               /\ callback.message.type # "RST")
    /\ PtyWrite(FrameOf(callback.message))
    /\ callback' = Idle
    /\ UNCHANGED <<user_mode, locked_device, working_on_locked_device, net,
                   bounds>>

-----------------------------------------------------------------------------
(* bash and make. *)

\* A command line is a job of its own (and echoed); the builtin cd and
\* bytes that are no line are not.
BashReads ==
    /\ phase = "bash" /\ typed # <<>>
    /\ typed' = Tail(typed)
    /\ IF Head(typed).kind = "line"
         THEN /\ phase' = "make"
              /\ run' = Head(typed).run /\ target' = Head(typed).target
              /\ output' = Append(output, Text)
         ELSE UNCHANGED <<output, job>>
    /\ UNCHANGED <<proxy, net, bounds>>

MakePrints ==
    /\ phase = "make" /\ Len(output) < MaxOutput
    /\ output' = Append(output, Text)
    /\ UNCHANGED <<proxy, typed, job, net, bounds>>

\* A program of the user's may read its input.
ProgramReads ==
    /\ phase = "make" /\ run = "user" /\ typed # <<>>
    /\ typed' = Tail(typed)
    /\ UNCHANGED <<proxy, output, job, net, bounds>>

\* The job is over, by itself, by a signal or with its stub; bash prompts.
JobEnds ==
    /\ phase \in {"make", "ending"}
    /\ phase' = "bash" /\ run' = "user" /\ target' = None
    /\ output' = Append(output, Text)
    /\ UNCHANGED <<proxy, typed, net, bounds>>

-----------------------------------------------------------------------------
(* The stub. *)

\* tty.setraw throws away pending input; then the command is sent.
StubStarts ==
    /\ phase = "make" /\ run \in Commands
    /\ phase' = "stub"
    /\ typed' = <<>>
    /\ output' = Append(output, FrameOf(Message("CMD", target, run)))
    /\ UNCHANGED <<proxy, run, target, net, bounds>>

StubReads == phase = "stub" /\ typed # <<>> /\ typed' = Tail(typed)
StubLeft == /\ phase' = "ending"
            /\ UNCHANGED <<run, target>>

\* Mutant: a reset is only accepted from the device.
StubReset_DeviceOnly ==
    /\ StubReads
    /\ Head(typed).kind = "frame" /\ Head(typed).message.type = "RST"
    /\ IF Head(typed).message.peer = target
         THEN output' = Append(output, Text) /\ StubLeft
         ELSE UNCHANGED <<output, job>>
    /\ UNCHANGED <<proxy, net, bounds>>

StubReset ==
    /\ StubReads
    /\ Head(typed).kind = "frame" /\ Head(typed).message.type = "RST"
    /\ IF Head(typed).message.peer \in {target, Client}
         THEN output' = Append(output, Text) /\ StubLeft
         ELSE UNCHANGED <<output, job>>
    /\ UNCHANGED <<proxy, net, bounds>>

\* Log messages of a flash, serial output of a term; and the flash stub's
\* "cannot be canceled".
StubPrints ==
    /\ StubReads
    /\ \/ Head(typed).kind = "frame" /\ Head(typed).message.type = "IO"
       \/ Head(typed) = Cancel /\ run = "flash"
    /\ output' = Append(output, Text)
    /\ UNCHANGED <<proxy, job, net, bounds>>

FlashIgnoresInput ==
    /\ StubReads
    /\ Head(typed).kind \in {"line", "cd"} /\ run = "flash"
    /\ UNCHANGED <<proxy, output, job, net, bounds>>

\* The term stub forwards what is typed, and ends with Ctrl-C or Ctrl-D.
TermForwards ==
    /\ StubReads
    /\ Head(typed).kind \in {"line", "cd"} /\ run = "term"
    /\ output' = Append(output, FrameOf(Message("IO", target, None)))
    /\ UNCHANGED <<proxy, job, net, bounds>>

TermCancels ==
    /\ StubReads
    /\ Head(typed) = Cancel /\ run = "term"
    /\ output' = output \o <<FrameOf(Message("IO", target, None)),
                             FrameOf(Reset(target))>>
    /\ StubLeft
    /\ UNCHANGED <<proxy, net, bounds>>

\* It is killed, or its terminal's user ends it from another one: no reset is
\* sent, and what the stub has not read is left to bash.
StubDies ==
    /\ phase = "stub"
    /\ kills < MaxKills /\ kills' = kills + 1
    /\ StubLeft
    /\ UNCHANGED <<proxy, typed, output, net, keys, requests, resets, logs>>

-----------------------------------------------------------------------------
(* The devices, in the browser.  A device that asked is locked until it is  *)
(* refused, or linked to the shell until it is reset or has done its work.  *)

Asks(d, command) ==
    /\ device[d] = "free"
    /\ requests < MaxRequests /\ requests' = requests + 1
    /\ device' = [device EXCEPT ![d] = "asked"]
    /\ inbox' = Append(inbox, Message("REQ", d, command))
    /\ UNCHANGED <<outbox, proxy, pty, keys, resets, logs, kills>>

\* A request from the Client itself, which no shell accepts.
ClientAsks ==
    /\ requests < MaxRequests /\ requests' = requests + 1
    /\ inbox' = Append(inbox, Message("REQ", Client, "flash"))
    /\ UNCHANGED <<outbox, device, proxy, pty, keys, resets, logs, kills>>

Working == {"flash", "term"}

DeviceReads ==
    /\ outbox # <<>> /\ outbox' = Tail(outbox)
    /\ LET m == Head(outbox) IN
       IF m.peer \notin Devices THEN UNCHANGED device
       ELSE LET now == device[m.peer] IN
            device' = [device EXCEPT ![m.peer] =
                CASE m.type = "ACK" /\ now = "asked" -> "linked"
                  [] m.type = "RST" /\ now # "flash" -> "free"
                  [] m.type = "CMD" /\ now # "flash" -> m.command
                  [] OTHER -> now]
    /\ UNCHANGED <<inbox, proxy, pty, bounds>>

\* Log and serial output.
DevicePrints(d) ==
    /\ device[d] \in Working
    /\ logs < MaxIO /\ logs' = logs + 1
    /\ inbox' = Append(inbox, Message("IO", d, None))
    /\ UNCHANGED <<outbox, device, proxy, pty, keys, requests, resets, kills>>

\* The work is done, or the device is taken away while it is linked.
DeviceResets(d) ==
    /\ device[d] \in Working \union {"linked"}
    /\ device' = [device EXCEPT ![d] = "free"]
    /\ inbox' = Append(inbox, Reset(d))
    /\ UNCHANGED <<outbox, proxy, pty, bounds>>

\* The page is loaded anew: the relay resets the shell for the Client, whose
\* devices are forgotten.
ClientReloads ==
    /\ resets < MaxResets /\ resets' = resets + 1
    /\ device' = [d \in Devices |-> "free"]
    /\ outbox' = <<>>
    /\ inbox' = Append(inbox, Reset(Client))
    /\ UNCHANGED <<proxy, pty, keys, requests, logs, kills>>

-----------------------------------------------------------------------------
Types == \/ \E r \in {"flash", "term"}, d \in Devices : TypesLine(r, d)
         \/ TypesLine("user", None)
         \/ TypesCancel
LinkCallback == \/ RefuseRequest \/ AcceptRequest \/ RunMake
                \/ DropReset \/ TakesReset \/ ResetCancels \/ ResetForStub
                \/ DropMessage \/ MessageForStub \/ WriteProtocol
ShellOutput == ShellText \/ TaskStopped \/ ShellFrame
StubStep == \/ StubReset \/ StubPrints \/ FlashIgnoresInput
            \/ TermForwards \/ TermCancels
Browser == \/ \E d \in Devices, c \in Commands : Asks(d, c)
           \/ ClientAsks
           \/ \E d \in Devices : DevicePrints(d) \/ DeviceResets(d)
           \/ ClientReloads

Next == \/ Types \/ LinkCallback \/ ShellOutput
        \/ BashReads \/ MakePrints \/ ProgramReads \/ JobEnds
        \/ StubStarts \/ StubStep \/ StubDies
        \/ DeviceReads \/ Browser

Spec == Init /\ [][Next]_vars

\* The event loop serves every descriptor; bash and the stub read their
\* input; make ends or calls the stub, a job that is ending ends.  A program
\* of the user's may run for ever, and so may a device that is a terminal;
\* a flash is over some time.
Fairness ==
    /\ WF_vars(LinkCallback) /\ WF_vars(ShellOutput)
    /\ WF_vars(BashReads) /\ WF_vars(StubStep)
    /\ WF_vars(run \in Commands /\ (JobEnds \/ StubStarts))
    /\ WF_vars(phase = "ending" /\ JobEnds)
    /\ WF_vars(DeviceReads)
    /\ \A d \in Devices : WF_vars(device[d] = "flash" /\ DeviceResets(d))

FairSpec == Spec /\ Fairness

-----------------------------------------------------------------------------
(* Properties. *)

Tokens == [kind : {"line"}, run : Commands \union {"user"},
           target : Devices \union {None}]
          \union [kind : {"frame"}, message : Messages]
          \union {Cd, Cancel}
Outputs == {Text} \union [kind : {"frame"}, message : Messages]

\* Types (shell.py, shell_process.py), and a half-done callback always
\* holds the message it works on.
TypeOK ==
    /\ user_mode \in BOOLEAN /\ working_on_locked_device \in BOOLEAN
    /\ stub_protocol_ready \in BOOLEAN
    /\ locked_device \in Devices \union {None}
    /\ callback \in {Idle, [at |-> "raw_output"]}
         \union [at : {"run_cmd"}, message : [type : {"REQ"}, peer : Devices,
                                              command : Commands]]
         \union [at : {"reset", "write_protocol"}, message : Messages]
    /\ typed \in Seq(Tokens) /\ output \in Seq(Outputs)
    /\ phase \in {"bash", "make", "stub", "ending"}
    /\ run \in Commands \union {"user"}
    /\ target \in Devices \union {None}
    /\ phase = "stub" => run \in Commands /\ target \in Devices
    /\ inbox \in Seq(Messages) /\ outbox \in Seq(Messages)
    /\ device \in [Devices -> {"free", "asked", "linked"} \union Working]
    /\ keys \in Nat /\ requests \in Nat /\ resets \in Nat /\ logs \in Nat
    /\ kills \in Nat

\* A message about d, of one of the kinds, is in the queue.
OnItsWay(kinds, d, queue) ==
    \E i \in DOMAIN queue : queue[i].peer = d /\ queue[i].type \in kinds
FromStub(kinds, d) ==
    \E i \in DOMAIN output :
        /\ output[i].kind = "frame"
        /\ output[i].message.peer = d /\ output[i].message.type \in kinds

\* A device that locked itself to this shell is remembered by the shell, or
\* a message that frees it or gives it work, or a request of its that will be
\* answered anew, is on its way: whatever job ends or is cancelled, whichever
\* resets cross, somebody can still unlock it
\* (shell.py:17, 92-94, 112-122, 128-129, 165-171).
NoForgottenDevice ==
    \A d \in Devices : device[d] = "linked" =>
        \/ locked_device = d
        \/ callback.at = "run_cmd" /\ callback.message.peer = d
        \/ OnItsWay({"RST", "CMD"}, d, outbox)
        \/ FromStub({"RST", "CMD"}, d)
        \/ OnItsWay({"REQ"}, d, inbox)

\* Every request of a device is answered (shell.py:142-162).
RequestsAreAnswered ==
    \A d \in Devices : device[d] = "asked" ~> device[d] # "asked"

\* A device whose build the proxy has seen is freed when the build ends, unless
\* it gets its command first: whichever jobs are interrupted or have lost their
\* stub, and although the end is only inferred from output (shell.py:107-122).
\* A device that has asked anew after a reload, and is linked by the answer to
\* its old request, is a matter of its new build.
SeenBuildsAreResolved ==
    \A d \in Devices :
        device[d] = "linked" /\ locked_device = d /\ working_on_locked_device
            ~> device[d] # "linked" \/ OnItsWay({"REQ"}, d, inbox)

\* The flash stub cannot be cancelled, so it must be told when the flash is
\* over (stub.py:88-100, shell.py:167-177): it always is.
FlashEnds == phase = "stub" /\ run = "flash" ~> phase # "stub"

\* A term stub, which is cancelled by Ctrl-C as well, ends after every reset
\* of its device or of the Client, ready or not (stub.py:88-100, 226-232).
ResetsEndTerm ==
    phase = "stub" /\ run = "term" /\ (\E i \in DOMAIN inbox :
                                         inbox[i].type = "RST")
        ~> phase # "stub"
=============================================================================
