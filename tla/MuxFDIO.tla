------------------------------ MODULE MuxFDIO ------------------------------
(***************************************************************************)
(* One direction of a pty that carries raw terminal output and framed      *)
(* protocol messages at once (shell/fd_io.py):                             *)
(*   FDWriter        loops over os.write until all of the data is accepted *)
(*   AsyncFDReader   hands each os.read to the callback, b"" at the end    *)
(*   MUXFDIO         write_channel frames data: delimiter, channel, length;*)
(*                   __on_raw_fdin__ separates frames from raw bytes       *)
(*                                                                         *)
(* A byte is known by its offset in `stream', everything the writing end   *)
(* handed to FDWriter.write: `written' of those bytes have been accepted   *)
(* by the pty, `read' of them have been returned by os.read, and the loop  *)
(* of __on_raw_fdin__ has looked at `pos' of them.  The loop advances one  *)
(* byte per step because the writing end is another process.               *)
(***************************************************************************)
EXTENDS Naturals, Sequences

CONSTANTS
    Magic,       \* header_magic_delimiter
    Channels,    \* channels data is written to
    Registered,  \* keys of on_channel_input
    Payloads,    \* data handed to write_channel
    Texts,       \* data handed to write
    Capacity,    \* bytes the pty buffers (4096 in Linux)
    ReadSize,    \* most bytes one os.read returns (4096 in the code)
    MaxWrites    \* bound: calls of write and write_channel

Byte == 0 .. 255

\* What follows the delimiter: the channel and, in one symbol, the length.
HeaderRest == 2
HeaderSize == Len(Magic) + HeaderRest

ASSUME MagicAssumption == Magic \in Seq(Byte) /\ Magic # <<>>
ASSUME ChannelAssumption == Channels \subseteq Byte \ {0}
                            /\ Registered \subseteq Channels
ASSUME DataAssumption ==
    /\ Payloads \subseteq Seq(Byte) /\ \A p \in Payloads : Len(p) \in Byte
    /\ Texts \subseteq Seq(Byte)
ASSUME BoundAssumption == /\ Capacity \in Nat \ {0}
                          /\ ReadSize \in Nat \ {0}
                          /\ MaxWrites \in Nat

VARIABLES
    (* the writing end *)
    stream, written,
    open,                      \* some process has the pty slave open
    (* the reading end *)
    read, pos,
    handling,                  \* __on_raw_fdin__ is running
    header_magic_check_next, header_buffer, header_to_read,
    active_channel, active_channel_buffer, active_channel_buget,
    raw_out,
    eof,                       \* "no", "reported" to on_raw_input, "lost"
    (* history: what was written (calls, all frames, those for a callback in *)
    (* the order of writing, raw bytes), what arrived                        *)
    writes, frames, expected, plain, channel_input, raw_input

writer == <<stream, written, open, writes, frames, expected, plain>>
search == <<header_magic_check_next, header_buffer, header_to_read>>
payload == <<active_channel, active_channel_buffer, active_channel_buget>>
loop == <<read, pos, handling, raw_out>>
delivered == <<channel_input, raw_input, eof>>
vars == <<writer, search, payload, loop, delivered>>

Frame(channel, data) == Magic \o <<channel, Len(data)>> \o data

\* Where a frame's data begins and ends in the stream.
Body(frame) == frame.at + HeaderSize
End(frame) == Body(frame) + Len(frame.data)

Init ==
    /\ stream = <<>> /\ written = 0 /\ open = TRUE
    /\ read = 0 /\ pos = 0 /\ handling = FALSE /\ raw_out = <<>>
    /\ header_magic_check_next = 0 /\ header_buffer = <<>>
    /\ header_to_read = 0
    /\ active_channel = 0 /\ active_channel_buffer = <<>>
    /\ active_channel_buget = 0
    /\ eof = "no"
    /\ writes = 0 /\ frames = {} /\ expected = <<>> /\ plain = <<>>
    /\ channel_input = <<>> /\ raw_input = <<>>

-----------------------------------------------------------------------------
(* The writing end. *)

\* FDWriter.write returns only when everything has been accepted.
WriterIdle == open /\ written = Len(stream)

Write(data) ==
    /\ WriterIdle
    /\ writes < MaxWrites
    /\ writes' = writes + 1
    /\ stream' = stream \o data
    /\ plain' = plain \o data
    /\ UNCHANGED <<written, open, frames, expected, search, payload, loop,
                   delivered>>

WriteChannel(channel, data) ==
    LET frame == [at |-> Len(stream), channel |-> channel, data |-> data] IN
    /\ WriterIdle
    /\ writes < MaxWrites
    /\ writes' = writes + 1
    /\ stream' = stream \o Frame(channel, data)
    /\ frames' = frames \union {frame}
    /\ expected' = IF channel \in Registered THEN Append(expected, frame)
                                             ELSE expected
    /\ UNCHANGED <<written, open, plain, search, payload, loop, delivered>>

Least(a, b) == IF a < b THEN a ELSE b

\* Mutant: a short write is not continued where it ended.
OsWrite_Drops ==
    LET n == Least(Capacity - (written - read), Len(stream) - written) IN
    /\ open
    /\ n > 0
    /\ stream' = SubSeq(stream, 1, written + n)
    /\ written' = written + n
    /\ UNCHANGED <<open, writes, frames, expected, plain, search, payload,
                   loop, delivered>>

\* One os.write of the loop: the pty takes what fits, and a full pty blocks
\* the writer (EAGAIN, select).
OsWrite ==
    LET n == Least(Capacity - (written - read), Len(stream) - written) IN
    /\ open
    /\ n > 0
    /\ written' = written + n
    /\ UNCHANGED <<stream, open, writes, frames, expected, plain, search,
                   payload, loop, delivered>>

\* The writing process exits, or is killed in a write, and with it the pty
\* ends.  (Where bash goes on writing after a stub killed in a frame, its
\* bytes become data of that frame: that is left out.)
Close ==
    /\ open
    /\ open' = FALSE
    /\ UNCHANGED <<stream, written, writes, frames, expected, plain, search,
                   payload, loop, delivered>>

-----------------------------------------------------------------------------
(* The reading end. *)

\* AsyncFDReader.__read__ got n bytes: __on_raw_fdin__ starts.
OsRead(n) ==
    /\ ~handling
    /\ n \in 1 .. ReadSize /\ read + n <= written
    /\ read' = read + n
    /\ handling' = TRUE
    /\ raw_out' = <<>>
    /\ UNCHANGED <<pos, writer, search, payload, delivered>>

\* Mutant: the end is reported as soon as the other side has closed.
OsReadEnd_Early ==
    /\ ~handling /\ ~open
    /\ eof = "no"
    /\ eof' = IF active_channel = 0 THEN "reported" ELSE "lost"
    /\ UNCHANGED <<channel_input, raw_input, writer, search, payload, loop>>

\* AsyncFDReader.__read__ got nothing, or EIO: __on_raw_fdin__(b"").
OsReadEnd ==
    /\ ~handling /\ ~open /\ read = written
    /\ eof = "no"
    /\ eof' = IF active_channel = 0 THEN "reported" ELSE "lost"
    /\ UNCHANGED <<channel_input, raw_input, writer, search, payload, loop>>

\* The next byte of the message.
NextByte == stream[pos + 1]
Advance == /\ handling /\ pos < read
           /\ pos' = pos + 1
           /\ UNCHANGED <<read, handling>>

ReadingChannel == active_channel # 0 /\ active_channel_buget > 0
ReadingHeader == ~ReadingChannel /\ header_to_read > 0
Searching == ~ReadingChannel /\ header_to_read = 0

\* Mutant: the channel is not given back after its callback.
ChannelByte_KeepsChannel ==
    /\ ReadingChannel /\ Advance
    /\ active_channel_buget' = active_channel_buget - 1
    /\ IF active_channel_buget = 1 /\ active_channel \in Registered
         THEN /\ channel_input' =
                   Append(channel_input,
                          [channel |-> active_channel,
                           data |-> Append(active_channel_buffer, NextByte)])
              /\ active_channel_buffer' = <<>>
         ELSE /\ active_channel_buffer' = Append(active_channel_buffer,
                                                 NextByte)
              /\ UNCHANGED channel_input
    /\ UNCHANGED <<active_channel, raw_out, raw_input, eof, writer, search>>

\* Mutant: the frame is complete one byte too early.
ChannelByte_Early ==
    /\ ReadingChannel /\ Advance
    /\ IF active_channel_buget <= 2 /\ active_channel \in Registered
         THEN /\ channel_input' =
                   Append(channel_input,
                          [channel |-> active_channel,
                           data |-> Append(active_channel_buffer, NextByte)])
              /\ active_channel' = 0 /\ active_channel_buffer' = <<>>
              /\ active_channel_buget' = 0
         ELSE /\ active_channel_buffer' = Append(active_channel_buffer,
                                                 NextByte)
              /\ active_channel_buget' = active_channel_buget - 1
              /\ UNCHANGED <<active_channel, channel_input>>
    /\ UNCHANGED <<raw_out, raw_input, eof, writer, search>>

\* Data of a frame.  A channel without a callback stays active.  The callback
\* does not raise: what it decodes is a message of this code (OwnMessagesArrive
\* of Codec).  If it did, the channel would stay active as well, and the rest
\* of the read would be lost.
ChannelByte ==
    /\ ReadingChannel /\ Advance
    /\ active_channel_buget' = active_channel_buget - 1
    /\ IF active_channel_buget = 1 /\ active_channel \in Registered
         THEN /\ channel_input' =
                   Append(channel_input,
                          [channel |-> active_channel,
                           data |-> Append(active_channel_buffer, NextByte)])
              /\ active_channel' = 0 /\ active_channel_buffer' = <<>>
         ELSE /\ active_channel_buffer' = Append(active_channel_buffer,
                                                 NextByte)
              /\ UNCHANGED <<active_channel, channel_input>>
    /\ UNCHANGED <<raw_out, raw_input, eof, writer, search>>

\* A byte of the header that is not its last.
HeaderByte ==
    /\ ReadingHeader /\ header_to_read > 1 /\ Advance
    /\ header_buffer' = Append(header_buffer, NextByte)
    /\ header_to_read' = header_to_read - 1
    /\ UNCHANGED <<header_magic_check_next, raw_out, payload, delivered,
                   writer>>

\* struct.unpack needs exactly header_size bytes; channel 0 and length 0
\* raise a TypeError.
Unpacks(header) == /\ Len(header) = HeaderSize
                   /\ header[HeaderSize - 1] # 0
                   /\ header[HeaderSize] # 0

\* Mutant: header_buffer is not cleared when the header has been read.
HeaderComplete_KeepsHeader ==
    LET header == Append(header_buffer, NextByte) IN
    /\ ReadingHeader /\ header_to_read = 1 /\ Advance
    /\ Unpacks(header)
    /\ active_channel' = header[HeaderSize - 1]
    /\ active_channel_buffer' = <<>>
    /\ active_channel_buget' = header[HeaderSize]
    /\ header_buffer' = header
    /\ header_magic_check_next' = 0
    /\ header_to_read' = 0
    /\ UNCHANGED <<raw_out, delivered, writer>>

\* The last byte of the header.
HeaderComplete ==
    LET header == Append(header_buffer, NextByte) IN
    /\ ReadingHeader /\ header_to_read = 1 /\ Advance
    /\ Unpacks(header)
    /\ active_channel' = header[HeaderSize - 1]
    /\ active_channel_buffer' = <<>>
    /\ active_channel_buget' = header[HeaderSize]
    /\ header_buffer' = <<>>
    /\ header_magic_check_next' = 0
    /\ header_to_read' = 0
    /\ UNCHANGED <<raw_out, delivered, writer>>

\* The exception leaves the handler: the rest of the message and raw_out are
\* lost, header_buffer keeps what it holds.
HeaderBroken ==
    LET header == Append(header_buffer, NextByte) IN
    /\ ReadingHeader /\ header_to_read = 1
    /\ handling /\ pos < read
    /\ ~Unpacks(header)
    /\ header_buffer' = header
    /\ header_to_read' = 0
    /\ pos' = read
    /\ handling' = FALSE
    /\ raw_out' = <<>>
    /\ UNCHANGED <<header_magic_check_next, read, payload, delivered,
                   writer>>

Matches(b) == b = Magic[header_magic_check_next + 1]

\* Mutant: the search position survives a full match.
MatchByte_NoReset ==
    LET matched == header_magic_check_next + 1 IN
    /\ Searching /\ Advance
    /\ Matches(NextByte)
    /\ header_buffer' = Append(header_buffer, NextByte)
    /\ header_magic_check_next' = matched
    /\ header_to_read' = IF matched = Len(Magic) THEN HeaderRest ELSE 0
    /\ UNCHANGED <<raw_out, payload, delivered, writer>>

MatchByte ==
    LET matched == header_magic_check_next + 1 IN
    /\ Searching /\ Advance
    /\ Matches(NextByte)
    /\ header_buffer' = Append(header_buffer, NextByte)
    /\ header_magic_check_next' = IF matched = Len(Magic) THEN 0 ELSE matched
    /\ header_to_read' = IF matched = Len(Magic) THEN HeaderRest ELSE 0
    /\ UNCHANGED <<raw_out, payload, delivered, writer>>

\* Mutant: after a mismatch the current byte is not looked at again.
MismatchByte_NoRestart ==
    /\ Searching /\ Advance
    /\ ~Matches(NextByte) /\ header_magic_check_next > 0
    /\ header_magic_check_next' = 0
    /\ header_buffer' = <<>>
    /\ raw_out' = raw_out \o Append(header_buffer, NextByte)
    /\ UNCHANGED <<header_to_read, payload, delivered, writer>>

\* Mutant: what was held back is flushed but not forgotten.
MismatchByte_NoClear ==
    /\ Searching /\ Advance
    /\ ~Matches(NextByte) /\ header_magic_check_next > 0
    /\ IF NextByte = Magic[1]
         THEN /\ header_buffer' = Append(header_buffer, NextByte)
              /\ header_magic_check_next' = 1
              /\ raw_out' = raw_out \o header_buffer
         ELSE /\ header_magic_check_next' = 0
              /\ raw_out' = raw_out \o Append(header_buffer, NextByte)
              /\ UNCHANGED header_buffer
    /\ UNCHANGED <<header_to_read, payload, delivered, writer>>

\* A partial match ends: what it held back is raw output, and the byte at
\* hand may start the next match.
MismatchByte ==
    /\ Searching /\ Advance
    /\ ~Matches(NextByte) /\ header_magic_check_next > 0
    /\ IF NextByte = Magic[1]
         THEN /\ header_buffer' = <<NextByte>>
              /\ header_magic_check_next' = 1
              /\ raw_out' = raw_out \o header_buffer
         ELSE /\ header_buffer' = <<>>
              /\ header_magic_check_next' = 0
              /\ raw_out' = raw_out \o Append(header_buffer, NextByte)
    /\ UNCHANGED <<header_to_read, payload, delivered, writer>>

RawByte ==
    /\ Searching /\ Advance
    /\ ~Matches(NextByte) /\ header_magic_check_next = 0
    /\ raw_out' = Append(raw_out, NextByte)
    /\ UNCHANGED <<search, payload, delivered, writer>>

\* The end of __on_raw_fdin__: raw output is passed on only if no channel is
\* being read.
HandlerReturns ==
    /\ handling /\ pos = read
    /\ handling' = FALSE
    /\ raw_out' = <<>>
    /\ raw_input' = IF active_channel = 0 THEN raw_input \o raw_out
                                          ELSE raw_input
    /\ UNCHANGED <<read, pos, channel_input, eof, search, payload, writer>>

-----------------------------------------------------------------------------
Decode == \/ ChannelByte \/ HeaderByte \/ HeaderComplete \/ HeaderBroken
          \/ MatchByte \/ MismatchByte \/ RawByte \/ HandlerReturns
Reads == \/ \E n \in 1 .. ReadSize : OsRead(n)
         \/ OsReadEnd

Next ==
    \/ \E text \in Texts : Write(text)
    \/ \E channel \in Channels, data \in Payloads : WriteChannel(channel, data)
    \/ OsWrite
    \/ Close
    \/ Reads
    \/ Decode

Spec == Init /\ [][Next]_vars

\* os.write goes on while the writing process lives, and an event loop calls
\* the reader of a readable descriptor; __on_raw_fdin__ always returns.
Fairness == WF_vars(OsWrite) /\ WF_vars(Reads) /\ WF_vars(Decode)

FairSpec == Spec /\ Fairness

-----------------------------------------------------------------------------
(* Properties. *)

\* Types, and the loop never runs ahead of what was read nor the reads ahead
\* of what was written (fd_io.py, MUXFDIO).
TypeOK ==
    /\ stream \in Seq(Byte) /\ plain \in Seq(Byte)
    /\ frames \in SUBSET [at : Nat, channel : Channels, data : Payloads]
    /\ expected \in Seq(frames)
    /\ writes \in 0 .. MaxWrites
    /\ open \in BOOLEAN /\ handling \in BOOLEAN
    /\ pos \in Nat /\ read \in Nat /\ written \in Nat
    /\ pos <= read /\ read <= written /\ written <= Len(stream)
    /\ ~handling => pos = read
    /\ header_magic_check_next \in 0 .. Len(Magic) - 1
    /\ header_to_read \in 0 .. HeaderRest
    /\ header_buffer \in Seq(Byte)
    /\ active_channel \in Byte /\ active_channel_buget \in Byte
    /\ active_channel_buffer \in Seq(Byte)
    /\ raw_out \in Seq(Byte) /\ raw_input \in Seq(Byte)
    /\ channel_input \in Seq([channel : Registered, data : Seq(Byte)])
    /\ eof \in {"no", "reported", "lost"}

\* What the callbacks are to get.
Expected == [n \in DOMAIN expected |-> [channel |-> expected[n].channel,
                                        data    |-> expected[n].data]]

IsPrefixOf(s, t) == Len(s) <= Len(t) /\ s = SubSeq(t, 1, Len(s))

\* s is t with some elements left out: t is read from the left, and f[i] is
\* how much of s its first i elements account for.
IsPartOf(s, t) ==
    LET f[i \in 0 .. Len(t)] ==
          IF i = 0 THEN 0
          ELSE LET n == f[i - 1] IN
               IF n < Len(s) /\ s[n + 1] = t[i] THEN n + 1 ELSE n
    IN  f[Len(t)] = Len(s)

\* A channel callback gets exactly what write_channel was given, frame by
\* frame, none skipped, none altered, however os.write and os.read cut the
\* stream and whatever bytes (the delimiter included) the data contains.
FramesIntact == IsPrefixOf(channel_input, Expected)

\* A callback is called with the last byte of its frame: no frame is passed on
\* before it is complete, and none that is complete is held back or missed,
\* however the text, the frames and the reads around it are cut.
FramesArriveWhole ==
    \A n \in DOMAIN expected :
        n <= Len(channel_input) <=> End(expected[n]) <= pos

\* on_raw_input gets raw output in the order it was written, and never a byte
\* of a frame: the terminal shows no protocol data.
RawInOrder == IsPartOf(raw_input, plain)

\* header_buffer holds exactly the part of a header seen so far, so that the
\* next struct.unpack gets header_size bytes.
HeaderIsExact ==
    Len(header_buffer) = IF header_to_read > 0 THEN HeaderSize - header_to_read
                                               ELSE header_magic_check_next

\* Only a header that is refused spoils the header_buffer: no other byte, no
\* cut of the stream, no frame for anybody puts the decoder out of step with
\* struct.unpack (fd_io.py:206-219, 226-247).
OnlyRefusalsSpoilHeaders ==
    [][HeaderIsExact /\ ~HeaderBroken => HeaderIsExact']_vars

\* The end of the pty reaches on_raw_input (on which ShellProcess builds its
\* closed callback) unless the last writer was stopped in the middle of a
\* write.
EndIsReported == eof = "lost" => written < Len(stream)

\* Every frame whose writer is not killed meanwhile reaches its callback,
\* unless a frame without data has put the decoder out of step.
FramesArrive ==
    \A k \in 1 .. MaxWrites :
        Len(expected) >= k ~> \/ Len(channel_input) >= k
                              \/ ~open /\ written < Len(stream)
                              \/ \E frame \in frames : frame.data = <<>>

\* After a header that is refused no frame is invented: what callbacks get
\* has been written by somebody.
NoInventedFrames == IsPartOf(channel_input, Expected)

Quiet == ~handling /\ read = Len(stream)

\* "keeping raw FDIO communication" (fd_io.py:129): what was written raw
\* arrives.  It does not: raw bytes in front of a frame that the same read
\* does not complete are thrown away (fd_io.py:255).
RawIsKept == Quiet => raw_input = plain
=============================================================================
