# TLA+ model of RIOT-WebEditor

A RIOT-WebEditor host lets a browser edit, build, flash and talk to
microcontrollers.  The source of this directory's models is
`src/riot-web-tools/src/riot_web_tools` (Python, asyncio); paths below are
relative to it unless they begin with `docs/` or `README.md`.

```
 browser extension  --websocket--  relay.py  --websocket--  shell.py (one per terminal)
 (Client, devices)                                            |  pty: raw text + frames
                                                              |
                                                            bash - make - stub.py
```

* The **relay** is one process.  It has one connection to the browser (the
  *Client*, through which all *devices* speak) and one to every RIOT shell, and
  forwards *link messages* (Request, Ack, Reset, Command, Log, I/O) between the
  two sides.  *Control messages* (Connect, ConnectAck, Disconnect) are between
  a peer and the relay.
* A **shell** is a proxy between a terminal, a pty with a bash in it, and the
  relay.  `make flash` and `make term` in that bash start the **stub** instead
  of a flasher; stub and proxy exchange messages as frames inside the pty's
  text (**MUXFDIO**).
* A device that asks a shell to flash locks itself to it until the flash is
  over or the shell refuses.  Most of what can go wrong is a lock, a request or
  a message that one side has forgotten and the other waits for.

## 1. Inventory

| part | state it keeps | operations | modelled by |
|---|---|---|---|
| `relay.py` Relay | `requested_shells`, sleeping `timeout_worker`s | connect and link-message callbacks, timeout | `Relay`, abstractly `Switchboard` |
| `protocol/transport/remote_socket_server.py` | `_connections`: address to socket | Connect, Disconnect, takeover, close, `write_to` | `Relay`, abstractly `Switchboard` |
| `rsocket/remote_socket_server.py` | `_scheduled_writes`, registered sockets | one handler task per socket, one writer task | `Relay` |
| `shell/fd_io.py` FDWriter, AsyncFDReader, MUXFDIO | search position, header, active channel, budget | `write`, `write_channel`, `__on_raw_fdin__` | `MuxFDIO`, abstractly `FrameQueue` |
| `protocol/transport/protocol_fd_io.py` | none | messages on channel 1 of a MUXFDIO | `MuxFDIO` (its channel), `Codec` (its messages) |
| `shell.py` RiotWebShellProxy | `user_mode`, `locked_device`, `working_on_locked_device` | callbacks: keyboard, shell output, stub message, link message; run, stop, shutdown | `ShellProxy`, `ShellSession` |
| `shell/shell_process.py` RiotWebShellProcess | `_stub_protocol_ready`, the pty, the child | `is_busy`, `run_cmd`, `write_protocol`; fork, `is_alive`, `stop` | `ShellProxy`; `ShellSession` |
| `stub.py` | which command, which device | start, input, messages, reset, exit | `ShellProxy` |
| `rsocket/`, `protocol/transport/remote_socket_client.py` | write queue, connection, tasks, flag | connect with retry, reader, writer, disconnect | `RemoteSocketClient`, composed in `ShellSession` |
| `protocol/codec`, `protocol/model`, `utils/types` | class registry | define a class, encode, decode | `Codec`, `ProtocolModel` |
| `shell/tty_io.py` | raw mode | raw, restore, window size | `ShellSession` (restored or not), `ShellProxy` (what raw mode does) |
| `utils/log.py`, RIOT make patches, containers | - | output, build | no behaviour of their own that the properties could see |
| browser extension | device locks | a git submodule that is not in the repository | environment of `Relay`, `ShellProxy` and `Codec` |

How they interact, and what is hard about it:

* *Inside the relay* everything is callbacks and tasks of one event loop.
  Steps interleave at each `await`: the writer may be in the middle of a pass
  over the queues when a socket closes, is taken over by a page reload, or a
  sleeper wakes.  Peers vanish without a word.
* *Between proxy and stub* there is a byte stream that the kernel cuts wherever
  it likes, in a pty of finite size; raw text and frames share it; the writing
  process may be killed between two bytes.
* *Between proxy and bash* there is no synchronisation at all.  The proxy asks
  the kernel who is in the foreground (`is_busy`) and acts on the answer after
  bash may have gone on; it infers the end of a build from the order of output
  and process-group changes.
* *Between shell and device* resets from either side cross each other, Ctrl-C,
  the stub's first frame, and page reloads.
* *Between shell and relay* four tasks share one connection: one connects, one
  reads, one writes, one closes.  Each may be the first to notice that the
  connection is over, and the reader may be killed by what its callback raises.
* *At the end of a shell* bash may be gone, going, or deaf to SIGTERM, while the
  event loop that would close the connection has stopped.
* *Between the two ends of the protocol* the relay decodes and encodes every
  message, and decoding converts instead of checking.

What makes each part correct:

* Relay: addresses are established through live sockets of their own peers;
  no connected peer is forgotten without being told; ConnectAck comes first;
  nothing reaches the wrong peer; staged requests wait only for absent shells,
  are watched by a timer and are eventually resolved; queues drain.
* MUXFDIO: frames arrive exactly, in order, and eventually; raw output is in
  order and free of frame bytes; a refused header makes no frame up; the end of
  the pty is reported.
* The relay as a whole: to its peers it is a switchboard, whatever its tasks do to
  each other.
* Shell and stub: a device that locked itself to the shell is never lost track
  of; every request is answered; a device whose build has been seen gets work or is
  freed; stubs end.
* The shell's connection: Connect comes first; writes are neither reordered nor
  repeated and at most one is lost; a loss is noticed; an attempt that fails is
  followed by another.
* The shutdown: the child is reaped, the terminal restored, and no signal goes to
  a process id that has been given back.
* The codec: a registry has exactly the tagged classes of its domain; what is
  accepted is a message of it; what the relay passes on is what it has understood.

`PROJECT.json` lists all of this with its lines, and the hazards one by one.

## 2. The modules

**`Relay`** - relay.py and the two server classes below it.  One action is the
Python code between two awaits.

| code | actions |
|---|---|
| `AsyncWebSocketServer.__handler__` start, end, exception | `Accept`, `HandlerCloses`, `HandlerFails` (both `HandlerEnds`) |
| `__on_message__`: MessageConnect plus the relay's connect callback | `ClientConnects`, `ShellConnects` |
| `__on_message__`: MessageDisconnect | `Disconnects` |
| `__on_protocol_link_message__`, one action per branch | `DropIllegalPair`, `Forward`, `DropReset`, `DropRequestToClient`, `DropDuplicate`, `RejectRequestToDeadShell`, `StageRequest`, `RejectToUnknown` |
| `timeout_worker` after its sleep | `TimerExpires` |
| `__writer__`, `__write__` | `WriterStarts`, `WriterSends`, `WriterLeaves` |
| peer (environment) | `Accept`, `ConnectionLost`, and the choice of what to say |

The three-second timers all sleep equally long, so `timers` is a queue.  A
peer's `send` and the relay's receipt are one step, taken only once the peer has
been told something (its ConnectAck, in the code's client); since the relay never
acts on what a peer has *read*, delaying the receipt adds no behaviour but
messages sent before the peer reads a Disconnect, and those are allowed anyway.
Command, Ack, Log and I/O messages are one kind: the relay treats them alike.
Messages buffered in a closed socket are still handled (`Readable`).  A Connect
from a device address and an unknown control message only log, so they are
stuttering steps.  Each socket carries one Connect, at most one Disconnect and
at most `MaxSends` link messages from the set `Traffic`.

**`MuxFDIO`** - one direction of a pty.  Bytes are known by their offset in
`stream`; `written`, `read` and `pos` are how far FDWriter, `os.read` and the
decoding loop have come.  `__on_raw_fdin__` is one action per byte, because the
writing end is another process and goes on meanwhile; each branch of the loop
is one action: `ChannelByte`, `HeaderByte`, `HeaderComplete`, `HeaderBroken`
(the two exceptions), `MatchByte`, `MismatchByte`, `RawByte`, and
`HandlerReturns`.  The four bytes of the length are one symbol (`HeaderRest` is
2 where the code has 5): each is read by the same branch.  There is one writing
process at a time, and none after one that was killed in a write (`Close`): that
the bytes of whoever writes next become data of the frame it left is not in the
model.  A callback does not raise (`ChannelByte`): if one did (fd_io.py:199), its
channel would stay active and the rest of the read would be lost, but what it does
is to decode messages of this code, which the codec accepts (`OwnMessagesArrive`).
`writes`, `frames`, `expected`, `plain`, `channel_input` and
`raw_input` are history: `frames` says where in the stream each frame lies and for
which channel, `expected` has those that a callback is to get, in the order of
writing, `plain` the text.

**`FrameQueue`** - what two MUXFDIOs promise the stub and the proxy: a queue of
messages whose sender may go, or be stopped in the middle of a message, and whose
end comes last.  **`MuxRefinement`** maps `MuxFDIO` to it.  It is what `ShellProxy`
takes the pty to be for frames.

**`Switchboard`** - what the relay promises its peers: one line per address, a
mailbox per socket, a waiting place per shell; a call takes effect in one step.
Lost connections, handler tasks, timers and the writer's passes are not in it.
**`RelayRefinement`** maps `Relay` to it: the line is `_connections`, the mailbox
`_scheduled_writes`, the waiting request `requested_shells`, and a socket is off
when its handler has ended or its peer has said Disconnect.

**`ShellProxy`** - the proxy's callbacks, with bash, make, the tty and the stub
below it and the devices above it.  The tty is modelled by what matters here:
Ctrl-C flushes pending input and ends the foreground job unless the stub has
made the tty raw, and doing that throws pending input away.  A callback that
asks the kernel about the foreground again is one action per answer
(`ShellText` then `TaskStopped`; `AcceptRequest` then `RunMake`; `TakesReset` then
`ResetCancels`, or `ResetForStub` and `WriteProtocol`; `MessageForStub` then
`WriteProtocol`), with `callback` holding where it is in between, because bash
and the stub run in between.  Two things are one step: an answer and what is done
with it before the next question, and the check of a request with the assertion of
the first `run_cmd`, after which only that assertion could tell them apart.  A failing
`err_assert` opens the debugger; this model goes on after it, as the program does
when the debugger is told to continue.  `ShellSession` has the other answer for the
connection; for the device it would mean that a debugger which is quit between
the ACK and shell.py:165 leaves a linked device that nobody remembers, and
`NoForgottenDevice` does not cover that.  An unknown kind of request
(shell.py:159) cannot be decoded, so there is no action for it.  A stub may
be killed at any time (`StubDies`): no reset is sent, and what it has not read is
left to bash.  The connection is up and delivers in order; a frame is one item of
the pty (`MuxFDIO` is where frames are bytes).  Bash, make, the tty's line
discipline, the user and the browser extension are external: they are modelled
from how the code uses them and from `docs/RIOT-Protocol-V-0-0-2.pdf` and
`docs/project-log/LOG.md`.

**`RemoteSocketClient`** - the shell's end of its connection, without a `Next` of
its own; **`ShellSession`** composes it with the life of the proxy.

| code | actions |
|---|---|
| `__connect_and_run__` | `ConnectFails`, `DelayEnds`, `ConnectSucceeds` (with `__on_open__`, which queues Connect) |
| `__reader__` with `__on_message__` | `ReaderReceives`, `ReaderEnds`, `ReaderDies` (the callback raises) |
| `__writer__` | `WriterSends`, `WriterDrained`, `WriterFails` (send waits on a closing connection with a message it will not send), `WriterEnds` |
| `__stop_and_disconnect__` | `CloserStarts`, `CloserEnds` |
| the websockets library, the relay | `ConnectionLost`, `Arrives` |
| `run`, `stop` | `Run`, `LoopStops` |
| the callbacks, reduced to the messages they write | `HandlesMessage`, `HandlerRaises`, `ForwardsStub`, `ResetsDevice`, `ShellCloses` |
| `__shutdown__`, `is_alive`, `stop`, `TTYRawIO.close`, `os._exit` | `ShutsSocket`, `AsksProcess`, `Terminates`, `Waits`, `Kills`, `Reaps`, `RestoresTTY`, `Exits` |
| bash (environment) | `ChildLeaves`, `ChildEnds` |

While the loop runs everything interleaves.  Once it has stopped, only the main
program goes on: the client's state is frozen, the task that `disconnect()`
creates is never run, and the Disconnect stays in the queue.  `HandlerRaises` is a
callback whose assertion fails (`run_cmd` or `write_protocol`, see section 4) and
whose debugger is quit.  `pty` is what a reader of its master sees: it stays `open`
as long as any process has the slave side open, bash or a job it has left in the
background (`LastJobEnds`; none has to end), and then it has `ended`, or is `cut`
inside a frame, in which case MUXFDIO swallows the end of file (see
`EndIsReported`).  An interactive
bash ignores SIGTERM; `Terminates` therefore changes nothing but the place in
`stop`, and bash may end by itself at any time.  `written`, `sent` and `lost` are
history.

**`Codec`** - the registry of tagged structs, packing and unpacking.  First Python
runs the class statements: `DefinesRoot`, `DefinesIntermediate` and `DefinesFinal`
are the three ways through `__init_subclass__`.  Then messages travel: `Sends` or
`SendsAnything`, `Relays`, `Receives`.  `Target`, `Outcomes`, `Built`, `FromPackage`,
`UnpackField` and `decode` are the code's functions; since structs nest two deep,
each level takes the one below as an argument and nothing is recursive.  What a
Python constructor makes of a datum is the constant `Convert`, of which is assumed
that it returns one of its `Instances`, and an instance as it is.  They are those of
the class that is called, which for `dict[int, bytes]` (message.py:88) is `dict`.  **`ProtocolModel`** has the classes of `protocol/model` as
class records.  In `Codec` a class's `domain` is what `get_generic_fully_resolved`
(smart_struct.py:18-57) finds.

**`MCRelay`, `MCMuxFDIO`, `MCShellProxy`, `MCShellSession`, `MCCodec`** give
constants their values; `MCCodec` also has a table of what `int`, `str`, `bytes`,
`bool`, `dict` and the enums make of a few scalars.  **`RelayProofs`**,
**`RelayRefinementProofs`**, **`MuxFDIOProofs`**, **`MuxStreamProofs`**,
**`MuxFramesProofs`**, **`ShellProxyProofs`**,
**`ShellSessionProofs`** and **`CodecProofs`** hold the theorems.

An operator with a suffix after an underscore (`StageRequest_NoTimer`) is a
mutant: what the definition after it would be if the code had a plausible bug.
No specification uses it; it shows that a property can fail.

## 3. The runs

`CHECK_DEADLOCK FALSE` is used in all runs but `codec`: the users, peers and
processes of the environment may stop for good, a shell exits, and all bounds are
reached at some point.

| run | instance | shows |
|---|---|---|
| `routing` | one tab, one shell, eight kinds of messages, two per socket, fair | `TypeOK`, `AckFirst`, `StagedMeansAbsent`, `StagedIsTimed`, `OnlyOwnMail`, `StagedIsResolved`, `WritesDrain` |
| `takeover` | two tabs (symmetric) and a shell, two kinds of messages, one per socket | `ConnectionsConsistent`, `NoForgottenPeer`, `OnlyOwnMail`, `ImplementsSwitchboard` |
| `superseded` | the same | **violates** `OnlyEstablishedAreRouted` |
| `timer` | two different requests staged for the same shell | **violates** `TimerReportsOwnRequest` |
| `mux_frames` | four writes: text with NULs, data that contains the delimiter, a channel without callback | `TypeOK`, `FramesIntact`, `FramesArriveWhole`, `RawInOrder`, `ImplementsQueue` |
| `mux_fair` | a pty of three bytes, four writes, frames of length zero among them, fair | `EndIsReported`, `NoInventedFrames`, `FramesArrive`, `OnlyRefusalsSpoilHeaders` |
| `mux_raw` | text and frames, two writes | **violates** `RawIsKept` |
| `shell_answers` | one device, one request, a killed stub, one reload, one program, make or Ctrl-C of the user, serial output, fair | `TypeOK`, `RequestsAreAnswered`, `FlashEnds`, `ResetsEndTerm` |
| `shell_builds` | one device, two requests, a killed stub, one reload, one Ctrl-C of the user, fair | `NoForgottenDevice`, `SeenBuildsAreResolved` |
| `shell_two` | two devices, one request each | **violates** `NoForgottenDevice` |
| `session` | one shell's life, two messages in either direction, a grace period of two rounds, fair | `TypeOK`, `ConnectComesFirst`, `WritesKeepOrder`, `FlagHasKeeper`, `NothingIsLeftBehind`, `SignalsHitTheChild`, `FinallyConnects`, `LossIsNoticed`, `ShellEnds` |
| `codec` | the 25 classes of the protocol, a message of each final one, about 700 packages that are almost messages | `TypeOK`, `RegistryIsExact`, `OwnMessagesArrive`, `AcceptedIsTyped`, `RelayIsTransparent` |

### What the violations say

* `timer`: `timeout_worker` deletes whatever is staged for its shell, not the
  request it was started for (relay.py:77), and its warning names the wrong
  one.  A flash is staged, replaced by a terminal request 2.9 seconds later, and
  the new one lives 0.1 seconds.
* `superseded`: link messages are routed whatever socket they come on
  (remote_socket_server.py:55).  A tab whose address a reloaded page has taken over
  still stages a request, after the takeover has purged the old ones.
  `docs/project-log/LOG.md:182-185` says that the relay keeps exactly one connection
  to the frontend and resets unknown peers.
* `mux_raw`: `__on_raw_fdin__` hands raw bytes on only at the end of a read, and
  only if no channel is active then (fd_io.py:255).  Text in front of a frame
  that the same read starts and does not finish is lost.
* `shell_two`: the shell is not busy until bash has read the command line that
  `run_cmd` wrote (shell.py:143, 165).  A second device is accepted meanwhile,
  overwrites `locked_device`, and nobody unlocks the first.

### Bounds, and why they are enough

* Relay: the address table, the staging table and the timers interact per
  address; two sockets of one address are needed for a takeover and its late
  close, one shell for staging.  Two link messages per socket suffice for a
  request to be staged, overwritten, duplicated or reset.  More shells add no
  interaction but mixing them up; that nothing is mixed up, for any number of
  them, is proved (section 5).
* MuxFDIO: the delimiter of the instance has five symbols that keep the shape of
  the real one (its first two repeat, no longer prefix does).  Capacity and read
  size of 9 let reads end at every place of a header and a frame and let two
  short items share a read; three bytes force every frame to be written in
  pieces.  Four writes let a frame follow an unregistered channel's frame, text
  or a broken header, and be followed by another.
* FrameQueue: the same four writes; two frames for the callback let one be received
  while the next is written or cut off, and the mapping holds for any number of
  them by proof.
* Switchboard: the same two tabs and shell; the order of one queue, one line and one
  waiting place is what the mapping is about, and it holds for any number of them
  by proof.
* ShellProxy: one request while another is being worked on is the case the callbacks
  have to separate, and a killed stub that is followed by a second request and its
  job the case that leaves most behind; `shell_builds` has both, with one reload and
  one Ctrl-C of the user in any place.  The user's own jobs and the output of the
  devices (`MaxIO`), which may make a stub speak, are in `shell_answers`, with one
  request so that liveness can be checked; `NoForgottenDevice` is proved for any
  number of all of these.  Output of make is bounded by `MaxOutput = 1` pending item,
  since the proxy only asks *whether* there was some.
* ShellSession: two messages of the proxy and two of the relay let one be queued,
  one lost and one sent, before and after each event of the connection; there is
  only one connection in a shell's life.  Two rounds of the grace period have a
  first, a last and an end.
* Codec: the real classes.  The packages take every message and replace one part
  by each of fifteen scalars and thirteen nested packages (right, of another domain,
  too short, too long, convertible, not convertible), or drop or add parts.

### Fairness

* `Relay`: weak fairness of the writer task, of the timer that is due, and of
  the handler of a closed socket - asyncio runs every task that is ready.  No
  fairness for peers.
* `MuxFDIO`: weak fairness of `os.write` while the writing process lives, of the
  reader of a readable descriptor, and of the decoding loop, which always ends.
* `ShellProxy`: weak fairness of the proxy's callbacks, of bash and the stub
  reading their input, of make (which ends or calls the stub) and of a job that
  has been interrupted; and a flash ends some time, after which the device resets.
  A program of the user's may run for ever, and so may a terminal session.
* `ShellSession`: weak fairness of the loop's tasks and of the proxy's main program,
  of the reader of the pty's end, of the closing handshake (websockets has a
  timeout for it), of the child that SIGKILL ends (it is a zombie at once), and
  of messages that have arrived.  Strong fairness of `ConnectSucceeds`: a relay
  that can be reached time and again is reached.  None for bash, the relay, losses
  or callbacks.
* `Codec`: none, it has no liveness.

## 4. Further disagreements

Met while modelling and confirmed by TLC on the same modules, or by reading.  They
have no run of their own: most contradict no doc, comment or test in so many words,
and the runs of section 3 are kept to the findings that cost users a message, a
request or a device in ordinary use.

* *A frame that is not found.*  After a mismatch only the current byte is tried as a
  new beginning (fd_io.py:242).  The delimiter begins `\0\2\0\2`, so a frame right
  behind the raw bytes `\0\2` is not recognised and appears as text: with
  `Texts = {<<0, 2>>}` and two writes `FramesArriveWhole` fails.  The properties of
  `MuxFDIO` that are checked and proved are therefore about text that does not end
  like this (`Separable`, section 5); ordinary terminal output does not.
* *A make that passes for a stub.*  `_stub_protocol_ready` is cleared only by a reset
  from the stub or for it, so it survives a stub that is killed, and the make of the
  next request passes for a stub: `IsStubProtocolReady => phase # "make"` fails with
  two requests and a killed stub (shell_process.py:230), although "the Stub initiates
  protocol communication availability" (shell_process.py:250).  A reset of the
  device is then written to a make as a frame, and a Ctrl-C of the user sends the
  device none.
* *Devices that stay linked.*  Hence it is not so that every linked device gets work
  or is freed.  `SeenBuildsAreResolved` begins where the proxy has seen the build
  (`working_on_locked_device`), because there are ways around it.  The end of a make
  of whose output nothing was handled while it ran frees nobody (shell.py:109-111
  says as much, and names silent ones).  A Ctrl-C during a make that passes for a
  stub does not free its device either, and if nothing of its output has been
  handled yet, the device stays locked to an idle shell.  A make
  that waits behind a program of the user's which never ends is not resolved either,
  so the run leaves the user only Ctrl-C.  And after a reload a device may ask anew and be linked
  by the ACK to its *old* request while the new one is still on its way; the end of
  the old build is then not the end of its lock, which is why the property allows a
  request on its way.
* *`run_cmd` while busy.*  `callback.at = "run_cmd" => ~IsBusy` fails: a line
  typed ahead is started by bash between the two calls (shell.py:163,
  shell_process.py:141).
* *`write_protocol` without a stub.*  `callback.at = "write_protocol" =>
  IsStubProtocolReady` fails: the stub ends between check and write
  (shell.py:179, shell_process.py:236).
* *A readiness flag that comes back.*  Input that a term stub forwarded before it
  read its reset sets `_stub_protocol_ready` again after `write_protocol` has
  cleared it; the next make passes for a stub (shell_process.py:252).
* *User mode.*  The Client's reset after a page reload interrupts the user's own
  program although `user_mode` is set (shell.py:16, 174).
* *No reconnect.*  `connect()` retries until the first connection and is called
  once; a relay that restarts never sees its shells again
  (remote_socket_client.py:69-76).
* *A shutdown without farewell.*  `disconnect()` in `__shutdown__` creates a task in a
  loop that has stopped (shell.py:59); the relay learns of the end from the closed
  socket.
* *A dead reader.*  An exception in the message callback ends the reader task
  without its closed callback (remote_socket_client.py:116): the shell stays
  established and deaf until the writer notices the end of the connection.  An
  assertion of `run_cmd` whose debugger is quit gets there.
* *A shell that does not end.*  The proxy ends when its pty does, and never asks for
  bash itself.  The master of a pty reports the end only when the last process has
  closed the slave side (fd_io.py:44-58), so a job in the background keeps the proxy
  for as long as it runs, however long bash has been gone; and a stub that is killed
  in the middle of a frame makes MUXFDIO swallow the end, and the proxy waits for
  ever.  `ShellSession` has both (`pty` stays `"open"`, or is `"cut"`);
  `ShellEnds` is about an end that is reported and promises nothing for these.
* *A validation step that converts.*  `expected_type(data)` is "basically just a
  validation step" (pkgable_struct.py:32), but it makes 5 of `"5"`, five NULs of
  `bytes(5)` and True of `"no"`.  What it makes is an instance of the class that was
  called, and its receiver understands it as the relay did.  A dict is not looked into:
  `dict[int, bytes](x)` is `dict(x)`, so a CommandFlash is accepted whose binaries are
  not what its annotation says (message.py:88), and `AcceptedIsTyped` does not say
  that they are.
* *Where generics are looked for.*  `get_generic_fully_resolved` iterates over the
  method resolution order but reads `search_cls.__orig_bases__` each time
  (smart_struct.py:40-42), and a tag given to an infrastructure class or to a
  domain root is ignored (line 96).  The classes of the protocol depend on neither.

## 5. What is proved

`RelayProofs` (TLAPS) proves, for any sets of shells, devices and sockets, any
traffic and any bound `MaxSends`:

| theorem | statement |
|---|---|
| `RelayTypeOK` | `Spec => []TypeOK` |
| `RelayInv` | `Spec => []Inv`, the inductive invariant |
| `ConnectionsAreConsistent` | `Spec => []ConnectionsConsistent` |
| `NobodyIsForgotten` | `Spec => []NoForgottenPeer` |
| `AckComesFirst` | `Spec => []AckFirst` |
| `MailIsOwn` | `Spec => []OnlyOwnMail` |
| `StagedWaitForAbsentShells` | `Spec => []StagedMeansAbsent` |
| `StagedRequestsAreTimed` | `Spec => []StagedIsTimed` |

The assumptions are those of `Relay`: addresses of the two sides are disjoint,
`None` is none of them, every socket has one peer, and traffic consists of link
messages.

*The argument.*  None of the invariants but the types is inductive alone.
`AckFirst` speaks of a queue whose ConnectAck is its first element as long as the
peer has been told nothing; for the steps that append, one must know that a
socket which has not said Connect has an empty queue (`UnopenedIsSilent`), and that
whoever is written to is established, through its own live socket
(`ConnectionsConsistent`).  `QueuesOK` states ordering and addressing of one queue
together, since an append has to preserve both.  `StagedMeansAbsent` needs the
fact that requests are staged under the shell they are addressed to
(`StagedIsAddressed`); without it the request forwarded at a shell's Connect could
go to another address and `OnlyOwnMail` would fail.  `NoForgottenPeer` is
preserved by a takeover because the Disconnect is queued on the old socket in the
same step that establishes the new one, and by the writer because what it takes
off a live socket's queue is told.  The lemmas say what an append, a removal and
each operation of the socket server do to queues and connections; `NextQueues`,
`NextStaging`, `NextForgetsNobody` and `NextConnections` then have one step per
action.

`RelayRefinementProofs` proves `RelayImplementsSwitchboard == Spec =>
ImplementsSwitchboard`, under the same assumptions.  Each action of `Relay` is
mapped to one of `Switchboard` or to a stutter: the two connects to `CallsIn`,
`HandlerCloses`, `HandlerFails` and `Disconnects` to `HangsUp` (the end of the
handler after a Disconnect stutters), forwarding and the resets to `Posts` (a reset
to an absent peer stutters), `StageRequest` to `Waits`, `TimerExpires` to `GivesUp` or
a stutter, the writer's send to `Collects`.  It uses `RelayInv`: that a call's
Disconnect goes to a socket other than the caller's, and that a staged request is
put where its addressee reads, are facts about reachable states only.

Three modules prove theorems about `MuxFDIO`, for any channels, pty size, read size
and number of writes, and any delimiter, text and data that meet the condition
named in the second column (beyond the assumptions of `MuxFDIO`: the delimiter is
not empty, channels are not 0, data and lengths are bytes):

| theorem | condition | statement |
|---|---|---|
| `MuxTypeOK` | - | `Spec => []TypeOK` |
| `HeadersStayExact` | - | `Spec => OnlyRefusalsSpoilHeaders` |
| `StreamIsLaidOut` | - | `Spec => []Layout` |
| `DecoderKnowsItsFrame` | `[]OwnDelimiters` | `Spec => []Reading` |
| `NothingIsInvented` | `[]OwnDelimiters` | `Spec => []NoInventedFrames` |
| `EndGetsThrough` | `[]OwnDelimiters`, `Registered = Channels` | `Spec => []EndIsReported` |
| `DecoderIsInStep` | `Separable` | `Spec => []InStep` |
| `CallbacksGetWholeFrames` | `Separable` | `Spec => []FramesArriveWhole` |
| `CallbacksGetIntactFrames` | `Separable` | `Spec => []FramesIntact` |
| `EndGetsThroughToo` | `Separable`, `Registered = Channels` | `Spec => []EndIsReported` |
| `TerminalGetsTextInOrder` | `Separable` | `Spec => []RawInOrder` |
| `FramesAreQueued` | `Separable` | `Spec => ImplementsQueue` |

*The conditions.*  None can simply be dropped.
`Separable` says that the first two bytes of the delimiter differ (they are
`\0\2` in the code), that text neither holds these two in a row nor begins with the
second (so that no two writes make up the pair), and that every frame has data.
Text that ends in the pair hides the frame behind it (section 4), and a frame
without data is refused with a `TypeError`.  It leaves *data* free: data may hold
the delimiter, whole frames, anything.
The instance of `mux_frames` meets it.
`OwnDelimiters` says that the delimiter is in the stream only where `write_channel`
put it.  It allows frames without data, after which the decoder is out of step and
may well look for a delimiter inside data; if it found one there, it would
invent a frame.  It is a condition on what is written in a behaviour, and one that
binaries and serial output may break: the delimiter is no reserved sequence of the
protocol.  The instance of `mux_fair` meets it.
`Registered = Channels` is needed because a frame for a channel without callback
leaves `active_channel` set, and then the end of the pty is suppressed
(fd_io.py:198, 255); the code registers channel 1 and writes to no other.

*The argument.*  `MuxTypeOK` is inductive as it stands and says more than types: the
loop never indexes the delimiter out of its range and never overtakes what was
read.  Everything else rests on `Layout`: each frame lies in the stream byte for byte,
frames are disjoint, and `expected` has their order.  It concerns the writing end
alone.  The reading end is related to it by `Reading`: either the decoder searches,
or it is at the named byte of the header or the data of one particular frame and
holds what it has seen of it.  That is inductive except where a delimiter has been
matched in full, where one must know that it is a frame's: with `OwnDelimiters`
because of `Matching` (what the decoder counts as matched it has just passed), with
`Separable` because of `Locating` (a searching decoder is between frames with at
most one byte of text held back, or inside the delimiter of a frame with all of it
counted; so it cannot be in data at all).  `LastByte` and `DeliveryIsNext` then
give `FramesArriveWhole` and `Received`: a callback gets the frame whose last byte
the decoder passes, and that is the next one due.  `RawInOrder` needs to
know, in addition, that what is held back or passed on consists of text
(`RawTraced`, `PlainPlaced`).

`NoInventedFrames` and `RawInOrder` are defined by a recursive function
(`IsPartOf`), the others by quantifiers.  `EmbeddedIsPart` connects the two: a
sequence that can be embedded into another is a part of it.  Its induction is made
without the library's induction theorems, from the existence of a least element of
a non-empty set of naturals (`LeastElement`, from `WFMin`).

*The refinement.*  A write for a callback is `Sends`, a callback `Delivers`, `Close`
is `Leaves`, reading the end is `Ends`; all else stutters.  That the end comes last
is `Closing`: nothing is read after it, and of all frames only the last can be
unfinished, since `FDWriter.write` returns only when all has been accepted.

`ShellProxyProofs` proves `ShellTypeOK == Spec => []TypeOK` for any devices and
bounds, and `OneDeviceIsNotForgotten`: with at most one device (`OneDevice`),
`Spec => []NoForgottenDevice` for any number of requests, keystrokes, reloads, killed
stubs and messages under way.  The assumption is needed: `shell_two` refutes the
property for two.  *The argument.*  A device that waits (asked or linked) must be
*known*: locked, in a half-done callback, or with its request, or an answer, on
its way (`NobodyUnknown`).  The steps that forget are the resets: one from the
device or the Client makes the proxy clear `locked_device`.  They are harmless
because a reset that is in the inbox while the device waits is older than the
device's present request, which is still behind it (`ResetsAreOlder`).  That a line
typed into bash, a frame or an output is what it must be (`WellTyped`) is needed
for stubs to have a device.

`ShellSessionProofs`, for any numbers of messages and any grace period:

| theorem | statement |
|---|---|
| `SessionTypeOK` | `Spec => []TypeOK` |
| `WritesAreOrdered` | `Spec => []WritesKeepOrder` |
| `ConnectionsBeginWithConnect` | `Spec => []ConnectComesFirst` |
| `FlagIsKept` | `Spec => []FlagHasKeeper` |
| `NothingStays` | `Spec => []NothingIsLeftBehind` |
| `SignalsAreSafe` | `Spec => []SignalsHitTheChild` |

The inductive invariant adds that nothing is written before the only connection
is made (`Connection`: this is what makes Connect the first message, since the code
queues it last), that a message is lost only on a closing connection and the
writer ends only on a closed one (`Keepers`: so nobody sets the flag again), that
Connect is at the front of everything written (`ConnectLeads`), and where in the
shutdown the child is still to be reaped (`Shutting`).

`CodecProofs`, for any classes in any order that Python accepts, any data, and any
constructors that return instances of their classes and leave instances alone:

| theorem | statement |
|---|---|
| `TypeCorrect` | `Spec => []TypeOK` |
| `RegistriesExact` | `Spec => []RegistryIsExact` |
| `OwnMessagesDecoded` | `Spec => []OwnMessagesArrive` |
| `AcceptedTyped` | `Spec => []AcceptedIsTyped` (classes, fields and the class of each scalar; not what a dict contains) |
| `RelayTransparent` | `Spec => []RelayIsTransparent` |

The lemmas go up level by level: a scalar that has been converted is an instance and
converts to itself, so a struct of scalars decodes to itself, so a message does; and what
`decode` returns is such a message.  The registry enters by `RegistryIsExact`, which
needs that a tag is entered only once (the `raise` of smart_struct.py:104).

*Only model-checked.*  Liveness (`StagedIsResolved`, `WritesDrain`, `FramesArrive`,
`RequestsAreAnswered`, `SeenBuildsAreResolved`, `FlashEnds`, `ResetsEndTerm`,
`FinallyConnects`, `LossIsNoticed`, `ShellEnds`): fairness is out of the prover's
reach.  Every safety property of a passing run is stated by a theorem.
Nothing is proved about what `MuxFDIO` delivers when text breaks the conditions
above; section 4 says what that leads to.

## 6. Not modelled, and why

* A writer that is starved by a peer which is written to without end: traffic is
  bounded in an instance, so `WritesDrain` speaks of bounded traffic only.
* Two processes that write frames into one pty at once, and both directions of a
  pty full at once: the code has no lock and no promise that could be checked, and
  when it happens depends on the user's jobs and the kernel's buffers.
* What bash writes after a stub was killed inside a frame: it becomes data of that
  frame (fd_io.py:192).  `MuxFDIO` ends with the killed process.
* The locks of devices beyond one shell (a device at two shells, a request that
  the relay drops without a reset): they are decided in the browser extension,
  which is not in the repository.  A composition would be a model of guesses.
* The stub's messages while the connection is down: they are dropped
  (`ForwardsStub` is disabled), but `ShellProxy`, which has the devices, assumes the
  connection.
* The terminal's size, the reformatting of newlines, argument parsing, loading the
  binaries, log output: no state that other parts depend on, or wording.
* cbor2 and the websockets library: external.

## 7. Plan, and what is left of it

Done: the relay and MUXFDIO with their abstract specifications, the shell proxy with one
device proved and two refuted, the shell's connection and life, the codec.  What
could follow, in this order:

1. Should the browser extension become available: its device locks as a module in
   place of `ShellProxy`'s environment, and relay, shells and devices composed.
2. `MuxFDIO` with two writing processes, once the code says who may write.
3. `NoForgottenDevice` for more than one device, under the condition that no request
   is accepted between `run_cmd` and the start of make (`shell_two` shows that the
   code does not guarantee it).
