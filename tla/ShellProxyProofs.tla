-------------------------- MODULE ShellProxyProofs --------------------------
(***************************************************************************)
(* Theorems about ShellProxy, for any devices, keys and bounds: its types, *)
(* and, where one device works with the shell, that the device's lock is   *)
(* never lost track of.  (With two devices it is: the run shell_two.)      *)
(***************************************************************************)
EXTENDS ShellProxy, SequenceTheorems, TLAPS

USE AddressAssumption, KeysAssumption, BoundAssumption

-----------------------------------------------------------------------------
(* The inductive invariant.  What may be in each of the four queues: a     *)
(* request and a command name a job, a stub and make have a device.        *)

Requesting == {m \in Messages : m.type = "REQ" => m.command \in Commands}
Commanding == {m \in Messages : m.type = "CMD" => m.command \in Commands}
Typeable == {t \in Tokens : t.kind = "line" /\ t.run \in Commands
                                => t.target \in Devices}
Printable == {o \in Outputs : o.kind = "frame" => /\ o.message \in Commanding
                                                  /\ o.message.peer \in Devices}
Callbacks == {Idle, [at |-> "raw_output"]}
    \union [at : {"run_cmd"}, message : [type : {"REQ"}, peer : Devices,
                                         command : Commands]]
    \union [at : {"reset", "write_protocol"}, message : Messages]

Flags == /\ user_mode \in BOOLEAN /\ working_on_locked_device \in BOOLEAN
         /\ stub_protocol_ready \in BOOLEAN
Holders == /\ locked_device \in Devices \union {None}
           /\ callback \in Callbacks
Jobs == /\ phase \in {"bash", "make", "stub", "ending"}
        /\ run \in Commands \union {"user"}
        /\ target \in Devices \union {None}
        /\ run \in Commands => target \in Devices
        /\ phase = "stub" => run \in Commands
Pty == typed \in Seq(Typeable) /\ output \in Seq(Printable)
Link == inbox \in Seq(Requesting) /\ outbox \in Seq(Commanding)
Locks == device \in [Devices -> {"free", "asked", "linked"} \union Working]
Counts == /\ keys \in Nat /\ requests \in Nat /\ resets \in Nat /\ logs \in Nat
          /\ kills \in Nat

WellTyped == Flags /\ Holders /\ Jobs /\ Pty /\ Link /\ Locks /\ Counts

\* Somebody is still going to answer, free or occupy d.
FrameFor(kinds, d, q) ==
    \E i \in DOMAIN q : /\ q[i].kind = "frame"
                        /\ q[i].message.peer = d /\ q[i].message.type \in kinds
Known(d) == \/ locked_device = d
            \/ callback.at = "run_cmd" /\ callback.message.peer = d
            \/ OnItsWay({"RST", "CMD"}, d, outbox)
            \/ FrameFor({"RST", "CMD"}, d, output)
            \/ OnItsWay({"REQ"}, d, inbox)
\* d is locked until it gets an answer, or linked to the shell.
Waits(d) == device[d] \in {"asked", "linked"}
NobodyUnknown == \A d \in Devices : Waits(d) => Known(d)

\* A reset frees a device before it can ask again: if it waits or is linked
\* while the reset is in the inbox, its request is behind the reset.
Renewed(d, q) ==
    \A i \in DOMAIN q :
        q[i].type = "RST" /\ q[i].peer \in {d, Client} =>
            \E j \in DOMAIN q : j > i /\ q[j].type = "REQ" /\ q[j].peer = d
ResetsAreOlder == \A d \in Devices : Waits(d) => Renewed(d, inbox)

Inv == WellTyped /\ NobodyUnknown /\ ResetsAreOlder

-----------------------------------------------------------------------------
(* The parts of the queues. *)

LEMMA MessageParts ==
    \A m \in Messages : /\ m.peer \in Address
                        /\ m.type \in {"REQ", "ACK", "RST", "CMD", "IO"}
                        /\ m.command \in Commands \union {None}
  BY DEF Messages

LEMMA MessageType ==
    \A type \in {"REQ", "ACK", "RST", "CMD", "IO"}, peer \in Address,
       command \in Commands \union {None} :
        /\ Message(type, peer, command) \in Messages
        /\ Message(type, peer, command).type = type
        /\ Message(type, peer, command).peer = peer
        /\ Message(type, peer, command).command = command
  BY DEF Messages, Message

LEMMA KindType ==
    \A type \in {"REQ", "ACK", "RST", "CMD", "IO"}, peer \in Address,
       command \in Commands \union {None} :
        /\ type # "REQ" \/ command \in Commands
               => Message(type, peer, command) \in Requesting
        /\ type # "CMD" \/ command \in Commands
               => Message(type, peer, command) \in Commanding
  BY MessageType DEF Requesting, Commanding

LEMMA KeyType == Cd \in Typeable /\ Cancel \in Typeable
  BY DEF Typeable, Tokens, Cd, Cancel

LEMMA LineType ==
    /\ \A r \in Commands, d \in Devices : Line(r, d) \in Typeable
    /\ Line("user", None) \in Typeable
  BY DEF Typeable, Tokens, Line, Commands

LEMMA FrameTypeable == \A m \in Messages : FrameOf(m) \in Typeable
  BY DEF Typeable, Tokens, FrameOf

LEMMA FramePrintable ==
    \A m \in Commanding : m.peer \in Devices => FrameOf(m) \in Printable
  BY DEF Printable, Outputs, FrameOf, Commanding

LEMMA TextPrintable == Text \in Printable /\ Text.kind = "text"
  BY DEF Printable, Outputs, Text

LEMMA PrintedFrame ==
    \A o \in Printable : o.kind = "frame" => /\ o.message \in Commanding
                                             /\ o.message \in Messages
                                             /\ o.message.peer \in Devices
  BY DEF Printable, Commanding

LEMMA TypedLine ==
    \A t \in Typeable : t.kind = "line" =>
        /\ t.run \in Commands \union {"user"}
        /\ t.target \in Devices \union {None}
        /\ t.run \in Commands => t.target \in Devices
  BY DEF Typeable, Tokens, Cd, Cancel

LEMMA InCallback ==
    ASSUME callback \in Callbacks
    PROVE  /\ callback.at = "run_cmd" =>
                /\ callback.message.command \in Commands
                /\ callback.message.peer \in Devices
           /\ callback.at \in {"reset", "write_protocol"}
                => callback.message \in Messages
  BY DEF Callbacks, Idle

LEMMA CallbackType ==
    /\ Idle \in Callbacks /\ [at |-> "raw_output"] \in Callbacks
    /\ \A m \in Requesting : m.type = "REQ" /\ m.peer \in Devices
            => [at |-> "run_cmd", message |-> m] \in Callbacks
    /\ \A m \in Messages, at \in {"reset", "write_protocol"} :
          [at |-> at, message |-> m] \in Callbacks
  BY DEF Callbacks, Requesting, Messages

-----------------------------------------------------------------------------
(* Types. *)

LEMMA PtyWriteTypes ==
    ASSUME Jobs, Pty, NEW token \in Typeable, PtyWrite(token)
    PROVE  Jobs' /\ Pty'
  <1>1. typed' \in Seq(Typeable) /\ output' \in Seq(Printable)
    BY DEF Pty, PtyWrite
  <1>2. Jobs'
    BY DEF Jobs, PtyWrite
  <1>3. QED
    BY <1>1, <1>2 DEF Pty

LEMMA AddressType == Devices \subseteq Address /\ Client \in Address
  BY DEF Address

LEMMA ResetType ==
    \A peer \in Address : Reset(peer) \in Requesting /\ Reset(peer) \in Commanding
  BY KindType DEF Reset

LEMMA InitWellTyped == Init => WellTyped
  <1> SUFFICES ASSUME Init PROVE WellTyped
    OBVIOUS
  <1>1. Flags /\ Jobs /\ Locks /\ Counts
    BY DEF Init, Flags, Jobs, Locks, Counts, Commands
  <1>2. Holders /\ Pty /\ Link
    BY CallbackType DEF Init, Holders, Pty, Link
  <1>3. QED
    BY <1>1, <1>2 DEF WellTyped

\* The user's terminal and the shell's output.
LEMMA FrontWellTyped ==
    ASSUME WellTyped,
           \/ \E r \in {"flash", "term"}, d \in Devices : TypesLine(r, d)
           \/ TypesLine("user", None)
           \/ TypesCancel
    PROVE  WellTyped'
  <1> USE DEF WellTyped
  <1>1. Jobs' /\ Pty'
    <2>1. CASE TypesCancel
      BY <2>1, KeyType, PtyWriteTypes DEF TypesCancel
    <2>2. CASE TypesLine("user", None)
      BY <2>2, LineType, PtyWriteTypes DEF TypesLine
    <2>3. CASE \E r \in {"flash", "term"}, d \in Devices : TypesLine(r, d)
      BY <2>3, LineType, PtyWriteTypes DEF TypesLine, Commands
    <2>4. QED
      BY <2>1, <2>2, <2>3
  <1>2. Flags'
    BY Zenon DEF TypesLine, TypesCancel, Flags
  <1>3. Holders'
    BY DEF TypesLine, TypesCancel, Holders
  <1>4. Link'
    <2>1. /\ inbox' = inbox
          /\ \/ outbox' = outbox
             \/ /\ locked_device \in Devices
                /\ outbox' = Append(outbox, Reset(locked_device))
      BY DEF TypesLine, TypesCancel, Holders, Send, net
    <2>2. QED
      BY <2>1, AddressType, ResetType DEF Link
  <1>5. Locks' /\ Counts'
    BY DEF TypesLine, TypesCancel, Locks, Counts, net
  <1>6. QED
    BY <1>1, <1>2, <1>3, <1>4, <1>5

LEMMA OutputWellTyped == ASSUME WellTyped, ShellOutput PROVE WellTyped'
  <1> USE DEF WellTyped
  <1>1. CASE ShellText
    <2>1. output # <<>> /\ output' = Tail(output)
      BY <1>1 DEF ShellText, NextOutput
    <2>2. Flags'
      BY <1>1 DEF ShellText, Flags
    <2>3. Holders'
      BY <1>1, CallbackType DEF ShellText, Holders
    <2>4. Jobs' /\ Pty'
      BY <1>1, <2>1 DEF ShellText, Jobs, Pty, job
    <2>5. QED
      BY <1>1, <2>2, <2>3, <2>4 DEF ShellText, Link, Locks, Counts, net, bounds
  <1>2. CASE TaskStopped
    <2>1. Flags' /\ Holders'
      BY <1>2, CallbackType DEF TaskStopped, Flags, Holders, IsBusy
    <2>2. Link'
      BY <1>2, AddressType, ResetType DEF TaskStopped, Link, Holders, Send
    <2>3. QED
      BY <1>2, <2>1, <2>2 DEF TaskStopped, pty, job, bounds, Jobs, Pty, Locks,
         Counts
  <1>3. CASE ShellFrame
    <2>1. output # <<>> /\ output' = Tail(output) /\ Head(output) \in Printable
      BY <1>3 DEF ShellFrame, NextOutput, Pty
    <2>2. Flags' /\ Holders'
      BY <1>3 DEF ShellFrame, Flags, Holders
    <2>3. Jobs' /\ Pty'
      BY <1>3, <2>1 DEF ShellFrame, Jobs, Pty, job
    <2>4. Link'
      BY <1>3, <2>1, PrintedFrame DEF ShellFrame, Link, Send
    <2>5. QED
      BY <1>3, <2>2, <2>3, <2>4 DEF ShellFrame, Locks, Counts, bounds
  <1>4. QED
    BY <1>1, <1>2, <1>3 DEF ShellOutput

LEMMA LinkWellTyped == ASSUME WellTyped, LinkCallback PROVE WellTyped'
  <1> USE DEF WellTyped
  <1>1. CASE RefuseRequest
    <2>1. Head(inbox) \in Requesting /\ inbox' \in Seq(Requesting)
      BY <1>1 DEF RefuseRequest, NextLink, Link
    <2>2. Link'
      BY <1>1, <2>1, ResetType, MessageParts DEF RefuseRequest, Link, Send, Requesting
    <2>3. QED
      BY <1>1, <2>2 DEF RefuseRequest, NextLink, proxy, pty, job, bounds,
         Flags, Holders, Jobs, Pty, Locks, Counts
  <1>2. CASE AcceptRequest
    <2>1. /\ Head(inbox) \in Requesting /\ inbox' \in Seq(Requesting)
          /\ Head(inbox).type = "REQ" /\ Head(inbox).peer \in Devices
      BY <1>2 DEF AcceptRequest, NextLink, Link
    <2>2. Link'
      <3>1. Message("ACK", Head(inbox).peer, None) \in Commanding
        BY <2>1, AddressType, KindType
      <3>2. QED
        BY <1>2, <2>1, <3>1 DEF AcceptRequest, Link, Send
    <2>3. Jobs' /\ Pty'
      BY <1>2, KeyType, PtyWriteTypes DEF AcceptRequest
    <2>4. Holders'
      BY <1>2, <2>1, CallbackType DEF AcceptRequest, Holders
    <2>5. QED
      BY <1>2, <2>2, <2>3, <2>4 DEF AcceptRequest, bounds, Flags, Locks, Counts
  <1>3. CASE RunMake
    <2>1. /\ callback.message.command \in Commands
          /\ callback.message.peer \in Devices
      BY <1>3, InCallback DEF RunMake, Holders
    <2>2. Jobs' /\ Pty'
      BY <1>3, <2>1, LineType, PtyWriteTypes DEF RunMake
    <2>3. Holders'
      BY <1>3, <2>1, CallbackType DEF RunMake, Holders
    <2>4. QED
      BY <1>3, <2>2, <2>3 DEF RunMake, bounds, net, Flags, Link, Locks, Counts
  <1>4. CASE DropReset \/ DropMessage
    <2>1. inbox' = Tail(inbox) /\ inbox # <<>> /\ UNCHANGED outbox
      BY <1>4 DEF DropReset, DropMessage, NextLink
    <2>2. Link'
      BY <2>1 DEF Link
    <2>3. QED
      BY <1>4, <2>2 DEF DropReset, DropMessage, proxy, pty, job, bounds,
         Flags, Holders, Jobs, Pty, Locks, Counts
  <1>5. CASE ResetCancels
    <2>1. Jobs' /\ Pty'
      BY <1>5, KeyType, PtyWriteTypes DEF ResetCancels
    <2>2. Holders'
      BY <1>5, CallbackType DEF ResetCancels, Holders
    <2>3. QED
      BY <1>5, <2>1, <2>2 DEF ResetCancels, bounds, net, Flags, Link, Locks, Counts
  <1>6. CASE TakesReset \/ MessageForStub
    <2>1. inbox' = Tail(inbox) /\ inbox # <<>> /\ UNCHANGED outbox
      BY <1>6 DEF TakesReset, MessageForStub, NextLink
    <2>4. Head(inbox) \in Requesting /\ Link'
      BY <2>1 DEF Link
    <2>5. Head(inbox) \in Messages
      BY <2>4 DEF Requesting
    <2>2. Holders'
      BY <1>6, <2>5, CallbackType DEF TakesReset, MessageForStub, Holders
    <2>3. QED
      BY <1>6, <2>4, <2>2 DEF TakesReset, MessageForStub, pty, job, bounds,
         Flags, Jobs, Pty, Locks, Counts
  <1>9. CASE ResetForStub
    <2>1. callback.message \in Messages
      BY <1>9, InCallback DEF ResetForStub, Holders
    <2>2. Holders'
      BY <1>9, <2>1, CallbackType DEF ResetForStub, Holders
    <2>3. QED
      BY <1>9, <2>2 DEF ResetForStub, pty, job, bounds, net,
         Flags, Jobs, Pty, Link, Locks, Counts
  <1>7. CASE WriteProtocol
    <2>1. callback.message \in Messages
      BY <1>7, InCallback DEF WriteProtocol, Holders
    <2>2. Jobs' /\ Pty'
      BY <1>7, <2>1, FrameTypeable, PtyWriteTypes DEF WriteProtocol
    <2>3. Flags' /\ Holders'
      BY <1>7, CallbackType DEF WriteProtocol, Flags, Holders
    <2>4. QED
      BY <1>7, <2>2, <2>3 DEF WriteProtocol, bounds, net, Link, Locks, Counts
  <1>8. QED
    BY <1>1, <1>2, <1>3, <1>4, <1>5, <1>6, <1>7, <1>9 DEF LinkCallback

\* bash, make and the stub.
LEMMA JobsWellTyped ==
    ASSUME WellTyped,
           BashReads \/ MakePrints \/ ProgramReads \/ JobEnds
             \/ StubStarts \/ StubStep \/ StubDies
    PROVE  WellTyped'
  <1> USE DEF WellTyped, job
  <1>1. CASE BashReads
    <2>1. Head(typed) \in Typeable /\ typed' \in Seq(Typeable)
      BY <1>1 DEF BashReads, Pty
    <2>4. Pty'
      <3>1. output' \in {output, Append(output, Text)}
        BY <1>1 DEF BashReads
      <3>2. QED
        BY <2>1, <3>1, TextPrintable DEF Pty
    <2>2. Jobs'
      <3>1. CASE Head(typed).kind = "line"
        BY <1>1, <2>1, <3>1, TypedLine DEF BashReads, Jobs
      <3>2. CASE Head(typed).kind # "line"
        BY <1>1, <3>2 DEF BashReads, Jobs
      <3>3. QED
        BY <3>1, <3>2
    <2>3. QED
      BY <1>1, <2>2, <2>4 DEF BashReads, proxy, net, bounds, Flags, Holders, Link,
         Locks, Counts
  <1>2. CASE MakePrints
    BY <1>2, TextPrintable DEF MakePrints, proxy, net, bounds, Flags, Holders,
       Jobs, Pty, Link, Locks, Counts
  <1>3. CASE ProgramReads
    BY <1>3 DEF ProgramReads, proxy, net, bounds, Flags, Holders,
       Jobs, Pty, Link, Locks, Counts
  <1>4. CASE JobEnds
    BY <1>4, TextPrintable DEF JobEnds, proxy, net, bounds, Flags, Holders,
       Jobs, Pty, Link, Locks, Counts, Commands
  <1>5. CASE StubStarts
    <2>1. FrameOf(Message("CMD", target, run)) \in Printable
      <3>1. /\ Message("CMD", target, run) \in Commanding
            /\ Message("CMD", target, run).peer = target
            /\ target \in Devices
        BY <1>5, AddressType, KindType, MessageType DEF StubStarts, Jobs
      <3>2. QED
        BY <3>1, FramePrintable
    <2>2. QED
      BY <1>5, <2>1 DEF StubStarts, proxy, net, bounds, Flags, Holders,
         Jobs, Pty, Link, Locks, Counts
  <1>6. CASE StubStep
    <2>1. typed' \in Seq(Typeable) /\ phase = "stub" /\ target \in Devices
      <3>1. StubReads
        BY <1>6, Zenon DEF StubStep, StubReset, StubPrints, FlashIgnoresInput,
           TermForwards, TermCancels
      <3>2. QED
        BY <3>1 DEF StubReads, Pty, Jobs
    <2>2. /\ FrameOf(Message("IO", target, None)) \in Printable
          /\ FrameOf(Reset(target)) \in Printable
      <3>1. /\ Message("IO", target, None) \in Commanding
            /\ Message("RST", target, None) \in Commanding
            /\ Message("IO", target, None).peer = target
            /\ Message("RST", target, None).peer = target
        BY <2>1, AddressType, KindType, MessageType
      <3>2. QED
        BY <2>1, <3>1, FramePrintable DEF Reset
    <2>3. output' \in Seq(Printable)
      <3>1. CASE TermCancels
        BY <3>1, <2>2 DEF TermCancels, Pty
      <3>2. CASE ~TermCancels
        <4>1. output' \in {output, Append(output, Text),
                           Append(output, FrameOf(Message("IO", target, None)))}
          BY <1>6, <3>2 DEF StubStep, StubReset, StubPrints,
             FlashIgnoresInput, TermForwards
        <4>2. output \in Seq(Printable)
          BY DEF Pty
        <4>3. \A o \in Printable : Append(output, o) \in Seq(Printable)
          BY <4>2
        <4>4. QED
          BY <2>2, <4>1, <4>2, <4>3, TextPrintable
      <3>3. QED
        BY <3>1, <3>2
    <2>4. Jobs'
      <3>1. /\ phase' \in {"stub", "ending"}
            /\ run' = run /\ target' = target
        <4>1. CASE StubReset
          BY <2>1, <4>1 DEF StubReset, StubLeft
        <4>2. CASE StubPrints \/ FlashIgnoresInput \/ TermForwards
          BY <2>1, <4>2 DEF StubPrints, FlashIgnoresInput, TermForwards
        <4>3. CASE TermCancels
          BY <4>3 DEF TermCancels, StubLeft
        <4>4. QED
          BY <1>6, <4>1, <4>2, <4>3 DEF StubStep
      <3>2. QED
        BY <2>1, <3>1 DEF Jobs
    <2>5. UNCHANGED <<proxy, net, bounds>>
      <3>1. CASE StubReset
        BY <3>1 DEF StubReset
      <3>2. CASE StubPrints
        BY <3>2 DEF StubPrints
      <3>3. CASE FlashIgnoresInput
        BY <3>3 DEF FlashIgnoresInput
      <3>4. CASE TermForwards
        BY <3>4 DEF TermForwards
      <3>5. CASE TermCancels
        BY <3>5 DEF TermCancels
      <3>6. QED
        BY <1>6, <3>1, <3>2, <3>3, <3>4, <3>5 DEF StubStep
    <2>6. QED
      BY <2>1, <2>3, <2>4, <2>5 DEF proxy, net, bounds,
         Flags, Holders, Pty, Link, Locks, Counts
  <1>7. CASE StubDies
    BY <1>7 DEF StubDies, StubLeft, proxy, net, Flags, Holders,
       Jobs, Pty, Link, Locks, Counts
  <1>8. QED
    BY <1>1, <1>2, <1>3, <1>4, <1>5, <1>6, <1>7

LEMMA BrowserWellTyped ==
    ASSUME WellTyped, DeviceReads \/ Browser PROVE WellTyped'
  <1> USE DEF WellTyped
  <1>1. Flags' /\ Holders' /\ Jobs' /\ Pty' /\ Counts'
    <2>1. UNCHANGED <<proxy, pty>>
      BY DEF DeviceReads, Browser, Asks, ClientAsks, DevicePrints,
         DeviceResets, ClientReloads
    <2>2. Flags' /\ Holders' /\ Jobs' /\ Pty'
      BY <2>1 DEF proxy, pty, job, Flags, Holders, Jobs, Pty
    <2>3. Counts'
      <3>1. CASE DeviceReads
        BY <3>1 DEF DeviceReads, bounds, Counts
      <3>2. CASE Browser
        BY <3>2 DEF Browser, Asks, ClientAsks, DevicePrints, DeviceResets,
           ClientReloads, bounds, Counts
      <3>3. QED
        BY <3>1, <3>2
    <2>4. QED
      BY <2>2, <2>3
  <1>2. CASE DeviceReads
    <2>1. Head(outbox) \in Commanding /\ outbox' \in Seq(Commanding)
      BY <1>2 DEF DeviceReads, Link
    <2>2. Locks'
      BY <1>2, <2>1 DEF DeviceReads, Locks, Commanding, Commands, Working
    <2>3. QED
      BY <1>1, <1>2, <2>1, <2>2 DEF DeviceReads, Link
  <1>3. CASE Browser
    <2>1. inbox' \in Seq(Requesting)
      <3>1. CASE \E d \in Devices, c \in Commands : Asks(d, c)
        BY <3>1, AddressType, KindType DEF Asks, Link
      <3>2. CASE ClientAsks
        BY <3>2, AddressType, KindType DEF ClientAsks, Link, Commands
      <3>3. CASE \E d \in Devices : DevicePrints(d)
        BY <3>3, AddressType, KindType DEF DevicePrints, Link
      <3>4. CASE \E d \in Devices : DeviceResets(d)
        BY <3>4, AddressType, ResetType DEF DeviceResets, Link
      <3>5. CASE ClientReloads
        BY <3>5, AddressType, ResetType DEF ClientReloads, Link
      <3>6. QED
        BY <1>3, <3>1, <3>2, <3>3, <3>4, <3>5 DEF Browser
    <2>2. outbox' \in Seq(Commanding)
      <3>1. outbox' \in {outbox, <<>>}
        BY <1>3 DEF Browser, Asks, ClientAsks, DevicePrints, DeviceResets,
           ClientReloads
      <3>2. <<>> \in Seq(Commanding) /\ outbox \in Seq(Commanding)
        BY DEF Link
      <3>3. QED
        BY <3>1, <3>2
    <2>3. Locks'
      BY <1>3 DEF Browser, Asks, ClientAsks, DevicePrints, DeviceResets,
         ClientReloads, Locks
    <2>4. QED
      BY <1>1, <2>1, <2>2, <2>3 DEF Link
  <1>4. QED
    BY <1>2, <1>3

LEMMA NextWellTyped == WellTyped /\ [Next]_vars => WellTyped'
  <1> SUFFICES ASSUME WellTyped, [Next]_vars PROVE WellTyped'
    OBVIOUS
  <1>1. CASE UNCHANGED vars
    BY <1>1 DEF vars, proxy, pty, job, net, bounds, WellTyped, Flags, Holders,
       Jobs, Pty, Link, Locks, Counts
  <1>2. QED
    BY <1>1, FrontWellTyped, OutputWellTyped, LinkWellTyped, JobsWellTyped,
       BrowserWellTyped DEF Next, Types

LEMMA Subsequences == \A S, T : S \subseteq T => Seq(S) \subseteq Seq(T)
  OBVIOUS

LEMMA TypesFollow == WellTyped => TypeOK
  <1> SUFFICES ASSUME WellTyped PROVE TypeOK
    OBVIOUS
  <1>1. typed \in Seq(Tokens) /\ output \in Seq(Outputs)
    <2>1. Typeable \subseteq Tokens /\ Printable \subseteq Outputs
      BY DEF Typeable, Printable
    <2>2. QED
      BY <2>1, Subsequences DEF WellTyped, Pty
  <1>2. inbox \in Seq(Messages) /\ outbox \in Seq(Messages)
    <2>1. Requesting \subseteq Messages /\ Commanding \subseteq Messages
      BY DEF Requesting, Commanding
    <2>2. QED
      BY <2>1, Subsequences DEF WellTyped, Link
  <1>3. QED
    BY <1>1, <1>2 DEF WellTyped, TypeOK, Flags, Holders, Jobs, Locks, Counts,
       Callbacks

-----------------------------------------------------------------------------
(* One device. *)

LEMMA AppendKeeps ==
    ASSUME NEW kinds, NEW d, NEW q \in Seq(Messages), NEW m \in Messages
    PROVE  /\ OnItsWay(kinds, d, q) => OnItsWay(kinds, d, Append(q, m))
           /\ m.peer = d /\ m.type \in kinds => OnItsWay(kinds, d, Append(q, m))
  <1>1. /\ DOMAIN Append(q, m) = 1 .. Len(q) + 1 /\ DOMAIN q = 1 .. Len(q)
        /\ \A i \in DOMAIN q : Append(q, m)[i] = q[i]
        /\ Append(q, m)[Len(q) + 1] = m /\ Len(q) \in Nat
    OBVIOUS
  <1>2. \A i \in DOMAIN q : i \in DOMAIN Append(q, m)
    BY <1>1
  <1>3. Len(q) + 1 \in DOMAIN Append(q, m)
    BY <1>1
  <1>4. QED
    BY <1>1, <1>2, <1>3 DEF OnItsWay

LEMMA TailKeeps ==
    ASSUME NEW kinds, NEW d, NEW q \in Seq(Messages), q # <<>>,
           OnItsWay(kinds, d, q)
    PROVE  \/ OnItsWay(kinds, d, Tail(q))
           \/ Head(q).peer = d /\ Head(q).type \in kinds
  <1>1. PICK i \in DOMAIN q : q[i].peer = d /\ q[i].type \in kinds
    BY DEF OnItsWay
  <1>2. CASE i = 1
    BY <1>1, <1>2
  <1>3. CASE i # 1
    <2>1. i - 1 \in DOMAIN Tail(q) /\ Tail(q)[i - 1] = q[i]
      BY <1>3
    <2>2. QED
      BY <1>1, <2>1 DEF OnItsWay
  <1>4. QED
    BY <1>2, <1>3

LEMMA AppendKeepsFrame ==
    ASSUME NEW kinds, NEW d, NEW q \in Seq(Outputs), NEW o \in Outputs
    PROVE  /\ FrameFor(kinds, d, q) => FrameFor(kinds, d, Append(q, o))
           /\ o.kind = "frame" /\ o.message.peer = d /\ o.message.type \in kinds
                => FrameFor(kinds, d, Append(q, o))
  <1>1. /\ DOMAIN Append(q, o) = 1 .. Len(q) + 1 /\ DOMAIN q = 1 .. Len(q)
        /\ \A i \in DOMAIN q : Append(q, o)[i] = q[i]
        /\ Append(q, o)[Len(q) + 1] = o /\ Len(q) \in Nat
    OBVIOUS
  <1>2. \A i \in DOMAIN q : i \in DOMAIN Append(q, o)
    BY <1>1
  <1>3. Len(q) + 1 \in DOMAIN Append(q, o)
    BY <1>1
  <1>4. QED
    BY <1>1, <1>2, <1>3 DEF FrameFor

LEMMA TailKeepsFrame ==
    ASSUME NEW kinds, NEW d, NEW q \in Seq(Outputs), q # <<>>,
           FrameFor(kinds, d, q)
    PROVE  \/ FrameFor(kinds, d, Tail(q))
           \/ /\ Head(q).kind = "frame"
              /\ Head(q).message.peer = d /\ Head(q).message.type \in kinds
  <1>1. PICK i \in DOMAIN q : /\ q[i].kind = "frame"
                              /\ q[i].message.peer = d
                              /\ q[i].message.type \in kinds
    BY DEF FrameFor
  <1>2. CASE i = 1
    BY <1>1, <1>2
  <1>3. CASE i # 1
    <2>1. i - 1 \in DOMAIN Tail(q) /\ Tail(q)[i - 1] = q[i]
      BY <1>3
    <2>2. QED
      BY <1>1, <2>1 DEF FrameFor
  <1>4. QED
    BY <1>2, <1>3

LEMMA TailRenews ==
    ASSUME NEW d, NEW q \in Seq(Messages), q # <<>>, Renewed(d, q)
    PROVE  /\ Renewed(d, Tail(q))
           /\ Head(q).type = "RST" /\ Head(q).peer \in {d, Client}
                => OnItsWay({"REQ"}, d, Tail(q))
  <1>1. Renewed(d, Tail(q))
    <2> SUFFICES ASSUME NEW i \in DOMAIN Tail(q), Tail(q)[i].type = "RST",
                        Tail(q)[i].peer \in {d, Client}
                 PROVE  \E j \in DOMAIN Tail(q) :
                          j > i /\ Tail(q)[j].type = "REQ" /\ Tail(q)[j].peer = d
      BY DEF Renewed
    <2>1. i + 1 \in DOMAIN q /\ q[i + 1] = Tail(q)[i] /\ i \in Nat
      OBVIOUS
    <2>2. PICK j \in DOMAIN q : j > i + 1 /\ q[j].type = "REQ" /\ q[j].peer = d
      BY <2>1 DEF Renewed
    <2>3. /\ j - 1 \in DOMAIN Tail(q) /\ Tail(q)[j - 1] = q[j] /\ j - 1 > i
      BY <2>1, <2>2
    <2>4. QED
      BY <2>2, <2>3
  <1>2. ASSUME Head(q).type = "RST", Head(q).peer \in {d, Client}
        PROVE  OnItsWay({"REQ"}, d, Tail(q))
    <2>1. 1 \in DOMAIN q /\ Head(q) = q[1]
      OBVIOUS
    <2>2. PICK j \in DOMAIN q : j > 1 /\ q[j].type = "REQ" /\ q[j].peer = d
      BY <1>2, <2>1 DEF Renewed
    <2>3. j - 1 \in DOMAIN Tail(q) /\ Tail(q)[j - 1] = q[j]
      BY <2>2
    <2>4. QED
      BY <2>2, <2>3 DEF OnItsWay
  <1>3. QED
    BY <1>1, <1>2

LEMMA AppendRenews ==
    ASSUME NEW d, NEW q \in Seq(Messages), NEW m \in Messages
    PROVE  /\ Renewed(d, q) /\ m.type # "RST" => Renewed(d, Append(q, m))
           /\ m.type = "REQ" /\ m.peer = d => Renewed(d, Append(q, m))
  <1> DEFINE r == Append(q, m)
  <1>1. /\ DOMAIN r = 1 .. Len(q) + 1 /\ DOMAIN q = 1 .. Len(q)
        /\ \A i \in DOMAIN q : r[i] = q[i]
        /\ r[Len(q) + 1] = m /\ Len(q) \in Nat
    OBVIOUS
  <1> HIDE DEF r
  <1>2. ASSUME Renewed(d, q), m.type # "RST" PROVE Renewed(d, r)
    <2> SUFFICES ASSUME NEW i \in DOMAIN r, r[i].type = "RST",
                        r[i].peer \in {d, Client}
                 PROVE  \E j \in DOMAIN r :
                          j > i /\ r[j].type = "REQ" /\ r[j].peer = d
      BY DEF Renewed
    <2>1. i \in DOMAIN q
      BY <1>1, <1>2
    <2>2. PICK j \in DOMAIN q : j > i /\ q[j].type = "REQ" /\ q[j].peer = d
      BY <1>1, <1>2, <2>1 DEF Renewed
    <2>3. QED
      BY <1>1, <2>2
  <1>3. ASSUME m.type = "REQ", m.peer = d PROVE Renewed(d, r)
    <2> SUFFICES ASSUME NEW i \in DOMAIN r, r[i].type = "RST"
                 PROVE  \E j \in DOMAIN r :
                          j > i /\ r[j].type = "REQ" /\ r[j].peer = d
      BY DEF Renewed
    <2>1. i # Len(q) + 1
      BY <1>1, <1>3
    <2>2. Len(q) + 1 \in DOMAIN r /\ Len(q) + 1 > i
      BY <1>1, <2>1
    <2>3. QED
      BY <1>1, <1>3, <2>2
  <1>4. QED
    BY <1>2, <1>3 DEF r

OneDevice == \A d, e \in Devices : d = e

LEMMA QueueTypes ==
    WellTyped => /\ inbox \in Seq(Messages) /\ outbox \in Seq(Messages)
                 /\ output \in Seq(Outputs)
  BY TypesFollow DEF TypeOK

\* A step that leaves the proxy's memory alone keeps a device known if it
\* keeps what is in the three queues.
LEMMA KnownKept ==
    ASSUME NEW d, Known(d), UNCHANGED <<locked_device, callback>>,
           OnItsWay({"RST", "CMD"}, d, outbox)
             => OnItsWay({"RST", "CMD"}, d, outbox'),
           FrameFor({"RST", "CMD"}, d, output)
             => FrameFor({"RST", "CMD"}, d, output'),
           OnItsWay({"REQ"}, d, inbox) => OnItsWay({"REQ"}, d, inbox')
    PROVE  Known(d)'
  BY DEF Known

LEMMA ResetParts ==
    \A peer \in Address : /\ Reset(peer) \in Messages
                          /\ Reset(peer).type = "RST" /\ Reset(peer).peer = peer
  BY MessageType DEF Reset

LEMMA FrontKnown ==
    ASSUME WellTyped, NEW d \in Devices, Known(d),
           \/ \E r \in {"flash", "term"}, e \in Devices : TypesLine(r, e)
           \/ TypesLine("user", None)
           \/ TypesCancel
    PROVE  Known(d)'
  <1>1. CASE TypesCancel
    <2>1. /\ UNCHANGED <<inbox, device, callback, output>>
      BY <1>1 DEF TypesCancel, PtyWrite
    <2>2. CASE locked_device # None /\ ~IsStubProtocolReady
      <3>1. outbox' = Append(outbox, Reset(locked_device)) /\ locked_device \in Devices
        BY <1>1, <2>2 DEF TypesCancel, Send, WellTyped, Holders
      <3>2. CASE locked_device = d
        <4>1. OnItsWay({"RST", "CMD"}, d, outbox')
          BY <3>1, <3>2, QueueTypes, ResetParts, AddressType, AppendKeeps
        <4>2. QED
          BY <2>1, <4>1 DEF Known
      <3>3. CASE locked_device # d
        <4>1. OnItsWay({"RST", "CMD"}, d, outbox)
                => OnItsWay({"RST", "CMD"}, d, outbox')
          BY <3>1, QueueTypes, ResetParts, AddressType, AppendKeeps
        <4>2. QED
          BY <2>1, <3>3, <4>1 DEF Known
      <3>4. QED
        BY <3>2, <3>3
    <2>3. CASE ~(locked_device # None /\ ~IsStubProtocolReady)
      <3>1. UNCHANGED <<outbox, locked_device>>
        BY <1>1, <2>3 DEF TypesCancel
      <3>2. QED
        BY <2>1, <3>1, KnownKept
    <2>4. QED
      BY <2>2, <2>3
  <1>2. CASE ~TypesCancel
    <2>1. UNCHANGED <<locked_device, callback, inbox, outbox, device, output>>
      BY <1>2 DEF TypesLine, PtyWrite, net
    <2>2. QED
      BY <2>1, KnownKept
  <1>3. QED
    BY <1>1, <1>2

LEMMA OutputKnown ==
    ASSUME WellTyped, OneDevice, NEW d \in Devices, Known(d), ShellOutput
    PROVE  Known(d)'
  <1>1. CASE ShellText
    <2>1. /\ output # <<>> /\ output' = Tail(output) /\ callback = Idle
          /\ UNCHANGED <<inbox, outbox, device, locked_device>>
      BY <1>1 DEF ShellText, NextOutput, net
    <2>2. FrameFor({"RST", "CMD"}, d, output)
            => FrameFor({"RST", "CMD"}, d, output')
      <3>1. Head(output).kind # "frame"
        BY <1>1, TextPrintable DEF ShellText
      <3>2. QED
        BY <2>1, <3>1, QueueTypes, TailKeepsFrame
    <2>3. QED
      BY <2>1, <2>2 DEF Known, Idle
  <1>2. CASE TaskStopped
    <2>1. /\ callback.at = "raw_output"
          /\ UNCHANGED <<inbox, output, device>>
      BY <1>2 DEF TaskStopped, pty
    <2>2. CASE ~IsBusy /\ locked_device # None
      <3>1. /\ outbox' = Append(outbox, Reset(locked_device))
            /\ locked_device \in Devices
        BY <1>2, <2>2 DEF TaskStopped, Send, WellTyped, Holders
      <3>2. OnItsWay({"RST", "CMD"}, d, outbox')
        BY <3>1, QueueTypes, ResetParts, AddressType, AppendKeeps DEF OneDevice
      <3>3. QED
        BY <3>2 DEF Known
    <2>3. CASE ~(~IsBusy /\ locked_device # None)
      <3>1. UNCHANGED <<outbox, locked_device>>
        BY <1>2, <2>3 DEF TaskStopped
      <3>2. QED
        BY <2>1, <3>1 DEF Known
    <2>4. QED
      BY <2>2, <2>3
  <1>3. CASE ShellFrame
    <2> DEFINE m == Head(output).message
    <2>5. /\ UNCHANGED <<inbox, device, callback>> /\ output # <<>>
          /\ output' = Tail(output) /\ Head(output) \in Printable
      BY <1>3 DEF ShellFrame, NextOutput, WellTyped, Pty
    <2>1. /\ outbox' = Append(outbox, m)
          /\ locked_device' = IF m.type = "RST" THEN None ELSE locked_device
          /\ m \in Messages /\ m.peer = d /\ Head(output).kind = "frame"
      BY <2>5, <1>3, PrintedFrame DEF ShellFrame, Send, OneDevice
    <2> HIDE DEF m
    <2>2. CASE m.type \in {"RST", "CMD"}
      <3>1. OnItsWay({"RST", "CMD"}, d, outbox')
        BY <2>1, <2>2, QueueTypes, AppendKeeps
      <3>2. QED
        BY <2>5, <3>1 DEF Known
    <2>3. CASE m.type \notin {"RST", "CMD"}
      <3>1. locked_device' = locked_device
        BY <2>1, <2>3
      <3>2. OnItsWay({"RST", "CMD"}, d, outbox)
              => OnItsWay({"RST", "CMD"}, d, outbox')
        BY <2>1, QueueTypes, AppendKeeps
      <3>3. FrameFor({"RST", "CMD"}, d, output)
              => FrameFor({"RST", "CMD"}, d, output')
        BY <2>5, <2>3, QueueTypes, TailKeepsFrame DEF m
      <3>4. QED
        BY <2>5, <3>1, <3>2, <3>3, KnownKept
    <2>4. QED
      BY <2>2, <2>3
  <1>4. QED
    BY <1>1, <1>2, <1>3 DEF ShellOutput

\* The callback for link messages takes the oldest one and, but for requests,
\* tells nobody.
LEMMA LinkKnown ==
    ASSUME WellTyped, OneDevice, NEW d \in Devices, Known(d),
           Renewed(d, inbox), LinkCallback
    PROVE  /\ Known(d)'
           /\ \/ UNCHANGED inbox
              \/ inbox # <<>> /\ inbox' = Tail(inbox)
  <1> DEFINE m == Head(inbox)
  <1>1. inbox # <<>> => m \in Messages
    BY QueueTypes
  <1> HIDE DEF m
  <1>2. CASE RefuseRequest
    <2>1. /\ inbox # <<>> /\ inbox' = Tail(inbox) /\ m.type = "REQ"
          /\ outbox' = Append(outbox, Reset(m.peer))
          /\ UNCHANGED <<locked_device, callback, output, device>>
      BY <1>2 DEF RefuseRequest, NextLink, Send, proxy, pty, m
    <2>2. Reset(m.peer) \in Messages /\ Reset(m.peer).type = "RST"
          /\ Reset(m.peer).peer = m.peer
      BY <1>1, <2>1, MessageParts, ResetParts
    <2>3. CASE m.peer = d
      <3>1. OnItsWay({"RST", "CMD"}, d, outbox')
        BY <2>1, <2>2, <2>3, QueueTypes, AppendKeeps
      <3>2. QED
        BY <2>1, <3>1 DEF Known
    <2>4. CASE m.peer # d
      <3>1. OnItsWay({"RST", "CMD"}, d, outbox)
              => OnItsWay({"RST", "CMD"}, d, outbox')
        BY <2>1, <2>2, QueueTypes, AppendKeeps
      <3>2. OnItsWay({"REQ"}, d, inbox) => OnItsWay({"REQ"}, d, inbox')
        BY <2>1, <2>4, QueueTypes, TailKeeps DEF m
      <3>3. QED
        BY <2>1, <3>1, <3>2, KnownKept
    <2>5. QED
      BY <2>3, <2>4
  <1>3. CASE AcceptRequest
    <2>1. /\ inbox # <<>> /\ inbox' = Tail(inbox) /\ m.peer \in Devices
          /\ callback' = [at |-> "run_cmd", message |-> m]
          /\ UNCHANGED device
      BY <1>3 DEF AcceptRequest, NextLink, m
    <2>2. callback'.at = "run_cmd" /\ callback'.message.peer = d
      BY <2>1 DEF OneDevice
    <2>3. QED
      BY <2>1, <2>2 DEF Known
  <1>4. CASE RunMake
    <2>1. locked_device' = callback.message.peer /\ UNCHANGED <<inbox, device>>
      BY <1>4 DEF RunMake, net
    <2>2. callback.message.peer \in Devices
      BY <1>4, InCallback DEF RunMake, WellTyped, Holders
    <2>3. QED
      BY <2>1, <2>2 DEF Known, OneDevice
  <1>5. CASE DropReset \/ DropMessage \/ MessageForStub
    <2>1. /\ inbox # <<>> /\ inbox' = Tail(inbox) /\ m.type # "REQ"
          /\ callback = Idle
          /\ UNCHANGED <<locked_device, outbox, output, device>>
      BY <1>5 DEF DropReset, DropMessage, MessageForStub, NextLink, proxy, pty, m
    <2>2. OnItsWay({"REQ"}, d, inbox) => OnItsWay({"REQ"}, d, inbox')
      BY <2>1, QueueTypes, TailKeeps DEF m
    <2>3. QED
      BY <2>1, <2>2 DEF Known, Idle
  <1>6. CASE TakesReset
    <2>1. /\ inbox # <<>> /\ inbox' = Tail(inbox) /\ m.type = "RST"
          /\ UNCHANGED device
      BY <1>6 DEF TakesReset, NextLink, m
    <2>2. m.peer \in {d, Client}
      BY <1>1, <2>1, MessageParts DEF Address, OneDevice
    <2>3. OnItsWay({"REQ"}, d, inbox')
      BY <2>1, <2>2, QueueTypes, TailRenews DEF m
    <2>4. QED
      BY <2>1, <2>3 DEF Known
  <1>7. CASE ResetCancels \/ ResetForStub \/ WriteProtocol
    <2>1. /\ callback.at \in {"reset", "write_protocol"}
          /\ UNCHANGED <<locked_device, inbox, outbox, output, device>>
      BY <1>7 DEF ResetCancels, ResetForStub, WriteProtocol, PtyWrite, pty, net
    <2>2. QED
      BY <2>1 DEF Known
  <1>8. QED
    BY <1>2, <1>3, <1>4, <1>5, <1>6, <1>7 DEF LinkCallback

\* bash, make and the stub only add to the shell's output.
LEMMA JobsKnown ==
    ASSUME WellTyped, WellTyped', NEW d \in Devices, Known(d),
           BashReads \/ MakePrints \/ ProgramReads \/ JobEnds
             \/ StubStarts \/ StubStep \/ StubDies
    PROVE  Known(d)'
  <1>1. UNCHANGED <<proxy, net>>
    <2>1. CASE StubStep
      BY <2>1, Zenon DEF StubStep, StubReset, StubPrints, FlashIgnoresInput,
         TermForwards, TermCancels
    <2>2. CASE ~StubStep
      BY <2>2 DEF BashReads, MakePrints, ProgramReads, JobEnds, StubStarts, StubDies
    <2>3. QED
      BY <2>1, <2>2
  <1>2. FrameFor({"RST", "CMD"}, d, output)
          => FrameFor({"RST", "CMD"}, d, output')
    <2>1. \A o : output' = Append(output, o) =>
                  \A i \in DOMAIN output : i \in DOMAIN output'
                                            /\ output'[i] = output[i]
      BY QueueTypes
    <2>2. \A o, p : output' = output \o <<o, p>> =>
                  \A i \in DOMAIN output : i \in DOMAIN output'
                                            /\ output'[i] = output[i]
      BY QueueTypes
    <2>3. \/ output' = output
          \/ \E o : output' = Append(output, o)
          \/ \E o, p : output' = output \o <<o, p>>
      <3>1. CASE StubStep
        BY <3>1 DEF StubStep, StubReset, StubPrints, FlashIgnoresInput,
           TermForwards, TermCancels
      <3>2. CASE ~StubStep
        BY <3>2 DEF BashReads, MakePrints, ProgramReads, JobEnds, StubStarts, StubDies
      <3>3. QED
        BY <3>1, <3>2
    <2>4. \A i \in DOMAIN output : i \in DOMAIN output' /\ output'[i] = output[i]
      BY <2>1, <2>2, <2>3
    <2>5. QED
      BY <2>4 DEF FrameFor
  <1>3. QED
    BY <1>1, <1>2, KnownKept DEF proxy, net

\* The devices.
LEMMA DeviceReadsKnown ==
    ASSUME WellTyped, NEW d \in Devices, Waits(d) => Known(d),
           DeviceReads, Waits(d)'
    PROVE  Known(d)' /\ Waits(d) /\ UNCHANGED inbox
  <1> DEFINE m == Head(outbox)
  <1>1. /\ outbox # <<>> /\ outbox' = Tail(outbox) /\ m \in Commanding
        /\ UNCHANGED <<inbox, locked_device, callback, output>>
    BY DEF DeviceReads, proxy, pty, WellTyped, Link
  <1>2. CASE m.peer # d
    <2>1. UNCHANGED device \/ device' = [device EXCEPT ![m.peer] = device'[m.peer]]
      BY DEF DeviceReads, WellTyped, Locks
    <2>2. device'[d] = device[d]
      BY <1>2, <2>1 DEF WellTyped, Locks
    <2>3. OnItsWay({"RST", "CMD"}, d, outbox)
            => OnItsWay({"RST", "CMD"}, d, outbox')
      BY <1>1, <1>2, QueueTypes, TailKeeps
    <2>4. QED
      BY <1>1, <2>2, <2>3, KnownKept DEF Waits
  <1>3. CASE m.peer = d
    <2>1. device'[d] =
            CASE m.type = "ACK" /\ device[d] = "asked" -> "linked"
              [] m.type = "RST" /\ device[d] # "flash" -> "free"
              [] m.type = "CMD" /\ device[d] # "flash" -> m.command
              [] OTHER -> device[d]
      BY <1>3 DEF DeviceReads, WellTyped, Locks
    <2>2. m.type = "CMD" => m.command \in Commands
      BY <1>1 DEF Commanding
    <2>3. m.type \notin {"RST", "CMD"} /\ Waits(d)
      BY <2>1, <2>2 DEF Waits, Commands
    <2>4. OnItsWay({"RST", "CMD"}, d, outbox)
            => OnItsWay({"RST", "CMD"}, d, outbox')
      BY <1>1, <2>3, QueueTypes, TailKeeps
    <2>5. QED
      BY <1>1, <2>3, <2>4, KnownKept
  <1>4. QED
    BY <1>2, <1>3

LEMMA BrowserKnown ==
    ASSUME WellTyped, OneDevice, NEW d \in Devices, Waits(d) => Known(d),
           Waits(d) => Renewed(d, inbox), Browser, Waits(d)'
    PROVE  Known(d)' /\ Renewed(d, inbox')
  <1>1. UNCHANGED <<locked_device, callback, output>>
    BY DEF Browser, Asks, ClientAsks, DevicePrints, DeviceResets,
       ClientReloads, proxy, pty
  <1>2. ASSUME NEW e \in Devices, NEW c \in Commands, Asks(e, c)
        PROVE  Known(d)' /\ Renewed(d, inbox')
    <2> DEFINE m == Message("REQ", e, c)
    <2>1. /\ inbox' = Append(inbox, m) /\ outbox' = outbox
          /\ device' = [device EXCEPT ![e] = "asked"]
      BY <1>2 DEF Asks
    <2>2. m \in Messages /\ m.type = "REQ" /\ m.peer = e
      BY AddressType, MessageType
    <2> HIDE DEF m
    <2>3. CASE e = d
      <3>1. OnItsWay({"REQ"}, d, inbox') /\ Renewed(d, inbox')
        BY <2>1, <2>2, <2>3, QueueTypes, AppendKeeps, AppendRenews
      <3>2. QED
        BY <3>1 DEF Known
    <2>4. CASE e # d
      <3>1. Waits(d)
        BY <2>1, <2>4 DEF Waits, WellTyped, Locks
      <3>2. OnItsWay({"REQ"}, d, inbox) => OnItsWay({"REQ"}, d, inbox')
        BY <2>1, <2>2, QueueTypes, AppendKeeps
      <3>3. Renewed(d, inbox')
        BY <2>1, <2>2, <3>1, QueueTypes, AppendRenews
      <3>4. QED
        BY <1>1, <2>1, <3>1, <3>2, <3>3, KnownKept
    <2>5. QED
      BY <2>3, <2>4
  <1>3. ASSUME NEW m \in Messages, m.type # "RST", inbox' = Append(inbox, m),
               UNCHANGED <<outbox, device>>
        PROVE  Known(d)' /\ Renewed(d, inbox')
    <2>1. Waits(d)
      BY <1>3 DEF Waits
    <2>2. OnItsWay({"REQ"}, d, inbox) => OnItsWay({"REQ"}, d, inbox')
      BY <1>3, QueueTypes, AppendKeeps
    <2>3. Renewed(d, inbox')
      BY <1>3, <2>1, QueueTypes, AppendRenews
    <2>4. QED
      BY <1>1, <1>3, <2>1, <2>2, <2>3, KnownKept
  <1>4. CASE ClientAsks
    <2>1. /\ Message("REQ", Client, "flash") \in Messages
          /\ Message("REQ", Client, "flash").type # "RST"
      BY AddressType, MessageType DEF Commands
    <2>2. QED
      BY <1>3, <1>4, <2>1 DEF ClientAsks
  <1>5. ASSUME NEW e \in Devices, DevicePrints(e)
        PROVE  Known(d)' /\ Renewed(d, inbox')
    <2>1. /\ Message("IO", e, None) \in Messages
          /\ Message("IO", e, None).type # "RST"
      BY AddressType, MessageType
    <2>2. QED
      BY <1>3, <1>5, <2>1 DEF DevicePrints
  <1>6. ASSUME NEW e \in Devices, DeviceResets(e) PROVE FALSE
    BY <1>6 DEF DeviceResets, Waits, OneDevice, WellTyped, Locks
  <1>7. CASE ClientReloads
    BY <1>7 DEF ClientReloads, Waits
  <1>8. QED
    BY <1>2, <1>4, <1>5, <1>6, <1>7 DEF Browser

-----------------------------------------------------------------------------
(* The theorems. *)

LEMMA InitInv == Init => Inv
  BY InitWellTyped DEF Init, Inv, NobodyUnknown, ResetsAreOlder, Waits

LEMMA NextInv ==
    ASSUME OneDevice, Inv, [Next]_vars PROVE Inv'
  <1>1. WellTyped'
    BY NextWellTyped DEF Inv
  <1>2. ASSUME NEW d \in Devices, Waits(d)'
        PROVE  Known(d)' /\ Renewed(d, inbox')
    <2>1. /\ Waits(d) => Known(d)
          /\ Waits(d) => Renewed(d, inbox)
      BY DEF Inv, NobodyUnknown, ResetsAreOlder
    <2>2. WellTyped
      BY DEF Inv
    <2>3. UNCHANGED device => Waits(d)
      BY <1>2 DEF Waits
    <2>4. CASE Types
      <3>1. UNCHANGED <<inbox, device>>
        BY <2>4 DEF Types, TypesLine, TypesCancel, net
      <3>2. QED
        BY <2>1, <2>2, <2>3, <2>4, <3>1, FrontKnown DEF Types
    <2>5. CASE ShellOutput
      <3>1. UNCHANGED <<inbox, device>>
        BY <2>5 DEF ShellOutput, ShellText, TaskStopped, ShellFrame, net
      <3>2. QED
        BY <2>1, <2>2, <2>3, <2>5, <3>1, OutputKnown
    <2>6. CASE LinkCallback
      <3>1. UNCHANGED device
        BY <2>6, Zenon DEF LinkCallback, RefuseRequest, AcceptRequest, RunMake,
           DropReset, DropMessage, TakesReset, ResetCancels, ResetForStub,
           MessageForStub, WriteProtocol, net
      <3>2. Known(d)' /\ ((inbox # <<>> /\ inbox' = Tail(inbox)) \/ UNCHANGED inbox)
        BY <2>1, <2>2, <2>3, <2>6, <3>1, LinkKnown
      <3>3. Renewed(d, inbox')
        BY <2>1, <2>2, <2>3, <3>1, <3>2, QueueTypes, TailRenews
      <3>4. QED
        BY <3>2, <3>3
    <2>7. CASE BashReads \/ MakePrints \/ ProgramReads \/ JobEnds
                 \/ StubStarts \/ StubStep \/ StubDies
      <3>1. UNCHANGED <<inbox, device>>
        BY <2>7, Zenon DEF BashReads, MakePrints, ProgramReads, JobEnds,
           StubStarts, StubStep, StubDies, StubReset, StubPrints,
           FlashIgnoresInput, TermForwards, TermCancels, net
      <3>2. QED
        BY <1>1, <2>1, <2>2, <2>3, <2>7, <3>1, JobsKnown
    <2>8. CASE DeviceReads
      BY <1>2, <2>1, <2>2, <2>8, DeviceReadsKnown
    <2>9. CASE Browser
      BY <1>2, <2>1, <2>2, <2>9, BrowserKnown
    <2>10. CASE UNCHANGED vars
      <3>1. UNCHANGED <<locked_device, callback, inbox, outbox, output, device>>
        BY <2>10 DEF vars, proxy, pty, net
      <3>2. QED
        BY <2>1, <2>3, <3>1, KnownKept
    <2>11. QED
      BY <2>4, <2>5, <2>6, <2>7, <2>8, <2>9, <2>10 DEF Next
  <1>3. NobodyUnknown' /\ ResetsAreOlder'
    BY <1>2 DEF NobodyUnknown, ResetsAreOlder
  <1>4. QED
    BY <1>1, <1>3 DEF Inv

LEMMA NobodyIsForgotten == Inv => NoForgottenDevice
  BY DEF Inv, NobodyUnknown, NoForgottenDevice, Waits, Known, FromStub, FrameFor

\* The types of the proxy, the pty and the connection, with any number of
\* devices: a callback that is half done always has the request or message it
\* works on, and a stub always has a device.
THEOREM ShellTypeOK == Spec => []TypeOK
  <1>1. Init => WellTyped
    BY InitWellTyped
  <1>2. WellTyped /\ [Next]_vars => WellTyped'
    BY NextWellTyped
  <1>3. QED
    BY <1>1, <1>2, TypesFollow, PTL DEF Spec

\* With one device at the shell, the lock of the device is never forgotten,
\* whatever the user types, however often the device asks and the page is
\* loaded anew, and wherever resets, Ctrl-C, the end of make, the stub's frames
\* and a killed stub cross each other.
THEOREM OneDeviceIsNotForgotten ==
    ASSUME OneDevice PROVE Spec => []NoForgottenDevice
  <1>1. Init => Inv
    BY InitInv
  <1>2. Inv /\ [Next]_vars => Inv'
    BY NextInv
  <1>3. QED
    BY <1>1, <1>2, NobodyIsForgotten, PTL DEF Spec
=============================================================================
