--------------------------- MODULE MuxFDIOProofs ---------------------------
(* Theorems about MuxFDIO, for any delimiter, channels, data and bounds. *)
EXTENDS MuxFDIO, SequenceTheorems, TLAPS

USE MagicAssumption, ChannelAssumption, DataAssumption, BoundAssumption

-----------------------------------------------------------------------------
LEMMA ByteIsNat == /\ \A b \in Byte : b \in Nat
                   /\ \A b \in Byte : b > 0 => b - 1 \in Byte
                   /\ 0 \in Byte
  <1>1. \A b \in 0 .. 255 : b \in Nat
    OBVIOUS
  <1>2. \A b \in 0 .. 255 : b > 0 => b - 1 \in 0 .. 255
    OBVIOUS
  <1>3. 0 \in 0 .. 255
    OBVIOUS
  <1>4. QED
    BY <1>1, <1>2, <1>3 DEF Byte

LEMMA FrameType ==
    ASSUME NEW channel \in Channels, NEW data \in Payloads
    PROVE  Frame(channel, data) \in Seq(Byte)
  <1>1. channel \in Byte /\ Len(data) \in Byte /\ data \in Seq(Byte)
        /\ Magic \in Seq(Byte)
    OBVIOUS
  <1>2. <<channel, Len(data)>> \in Seq(Byte)
    BY <1>1
  <1>3. Magic \o <<channel, Len(data)>> \in Seq(Byte)
    BY <1>1, <1>2, ConcatProperties
  <1>4. QED
    BY <1>1, <1>3, ConcatProperties DEF Frame

LEMMA ElementType == \A s \in Seq(Byte) : \A n \in 1 .. Len(s) : s[n] \in Byte
  BY ElementOfSeq

LEMMA NextByteType ==
    ASSUME TypeOK, pos < read PROVE NextByte \in Byte
  <1>1. /\ stream \in Seq(Byte)
        /\ pos \in Nat /\ read \in Nat /\ written \in Nat
        /\ read <= written /\ written <= Len(stream)
    BY Zenon DEF TypeOK
  <1>2. pos + 1 \in 1 .. Len(stream)
    BY <1>1
  <1>3. QED
    BY <1>1, <1>2 DEF NextByte

LEMMA MagicLength == Len(Magic) \in Nat /\ Len(Magic) > 0
  BY EmptySeq

LEMMA EmptyType == <<>> \in Seq(Byte)
  OBVIOUS

LEMMA ConcatType == \A s, t \in Seq(Byte) : s \o t \in Seq(Byte)
  OBVIOUS

LEMMA InitTypeOK == Init => TypeOK
  <1> SUFFICES ASSUME Init PROVE TypeOK
    OBVIOUS
  <1>1. stream = <<>> /\ Len(stream) = 0
    BY DEF Init
  <1>2. /\ frames \in SUBSET [at : Nat, channel : Channels, data : Payloads]
        /\ expected \in Seq(frames)
    BY DEF Init
  <1>3. channel_input \in Seq([channel : Registered, data : Seq(Byte)])
    BY DEF Init
  <1>4. header_magic_check_next \in 0 .. Len(Magic) - 1
    BY MagicLength DEF Init
  <1>5. /\ stream \in Seq(Byte) /\ plain \in Seq(Byte)
        /\ header_buffer \in Seq(Byte) /\ active_channel_buffer \in Seq(Byte)
        /\ raw_out \in Seq(Byte) /\ raw_input \in Seq(Byte)
    BY EmptyType DEF Init
  <1>6. /\ active_channel \in Byte /\ active_channel_buget \in Byte
        /\ header_to_read \in 0 .. HeaderRest /\ writes \in 0 .. MaxWrites
    <2>1. 0 \in Byte /\ 0 \in 0 .. HeaderRest /\ 0 \in 0 .. MaxWrites
      BY ByteIsNat DEF HeaderRest
    <2>2. QED
      BY <2>1 DEF Init
  <1>7. /\ pos \in Nat /\ read \in Nat /\ written \in Nat
        /\ pos <= read /\ read <= written /\ written <= Len(stream)
        /\ pos = read
    BY <1>1 DEF Init
  <1>8. open \in BOOLEAN /\ handling \in BOOLEAN
        /\ eof \in {"no", "reported", "lost"}
    BY DEF Init
  <1>9. QED
    BY <1>2, <1>3, <1>4, <1>5, <1>6, <1>7, <1>8 DEF TypeOK

\* One step per action; the loop's actions change the search, the header or
\* the channel, and never move past what was read.
LEMMA NextTypeOK == TypeOK /\ [Next]_vars => TypeOK'
  <1> SUFFICES ASSUME TypeOK, [Next]_vars PROVE TypeOK'
    OBVIOUS
  <1> USE DEF TypeOK, writer, search, payload, loop, delivered
  <1>1. ASSUME NEW text \in Texts, Write(text) PROVE TypeOK'
    <2>1. stream' \in Seq(Byte) /\ plain' \in Seq(Byte)
      BY <1>1 DEF Write
    <2>2. Len(stream') = Len(stream) + Len(text) /\ Len(text) \in Nat
      BY <1>1 DEF Write
    <2>3. written' <= Len(stream') /\ writes' \in 0 .. MaxWrites
      BY <1>1, <2>2 DEF Write, WriterIdle
    <2>4. QED
      BY <1>1, <2>1, <2>3 DEF Write
  <1>2. ASSUME NEW channel \in Channels, NEW data \in Payloads,
               WriteChannel(channel, data)
        PROVE TypeOK'
    <2> DEFINE f == [at |-> Len(stream), channel |-> channel, data |-> data]
    <2>1. stream' \in Seq(Byte)
      BY <1>2, FrameType DEF WriteChannel
    <2>2. Len(stream') = Len(stream) + Len(Frame(channel, data))
          /\ Len(Frame(channel, data)) \in Nat
      BY <1>2, FrameType DEF WriteChannel
    <2>3. written' <= Len(stream') /\ writes' \in 0 .. MaxWrites
      BY <1>2, <2>2 DEF WriteChannel, WriterIdle
    <2>4. f \in [at : Nat, channel : Channels, data : Payloads]
      OBVIOUS
    <2>5. frames' = frames \union {f}
          /\ expected' = IF channel \in Registered THEN Append(expected, f)
                                                   ELSE expected
      BY <1>2 DEF WriteChannel
    <2>6. frames' \in SUBSET [at : Nat, channel : Channels, data : Payloads]
      BY <2>4, <2>5
    <2>7. expected' \in Seq(frames')
      <3> HIDE DEF f
      <3>1. expected \in Seq(frames')
        BY <2>5, SeqMonotonic
      <3>2. f \in frames'
        BY <2>5
      <3>3. QED
        BY <2>5, <3>1, <3>2
    <2>8. QED
      BY <1>2, <2>1, <2>3, <2>6, <2>7 DEF WriteChannel
  <1>3. CASE OsWrite
    <2> DEFINE n == Least(Capacity - (written - read), Len(stream) - written)
    <2>1. n \in Int /\ n > 0 /\ n <= Len(stream) - written
      BY <1>3 DEF OsWrite, Least
    <2>2. written' = written + n
      BY <1>3 DEF OsWrite
    <2>3. written' \in Nat /\ read <= written' /\ written' <= Len(stream)
      <3> HIDE DEF n
      <3>1. read <= written /\ written \in Nat /\ read \in Nat
            /\ Len(stream) \in Nat
        OBVIOUS
      <3>2. QED
        BY <2>1, <2>2, <3>1
    <2>4. QED
      BY <1>3, <2>3 DEF OsWrite
  <1>4. CASE Close
    BY <1>4 DEF Close
  <1>5. ASSUME NEW n \in 1 .. ReadSize, OsRead(n) PROVE TypeOK'
    BY <1>5 DEF OsRead
  <1>6. CASE OsReadEnd
    BY <1>6 DEF OsReadEnd
  <1>7. CASE ChannelByte
    <2>1. NextByte \in Byte /\ pos' = pos + 1 /\ pos' <= read
      BY <1>7, NextByteType DEF ChannelByte, Advance
    <2>2. active_channel_buget' \in Byte
      <3>1. /\ active_channel_buget \in Byte /\ active_channel_buget > 0
            /\ active_channel_buget' = active_channel_buget - 1
        BY <1>7 DEF ChannelByte, ReadingChannel
      <3>2. QED
        BY <3>1, ByteIsNat
    <2>3. Append(active_channel_buffer, NextByte) \in Seq(Byte)
      BY <2>1
    <2>4. CASE active_channel_buget = 1 /\ active_channel \in Registered
      <3> DEFINE input == [channel |-> active_channel,
                           data |-> Append(active_channel_buffer, NextByte)]
      <3>0. input \in [channel : Registered, data : Seq(Byte)]
        BY <2>3, <2>4
      <3>1. channel_input' \in Seq([channel : Registered, data : Seq(Byte)])
        <4>1. channel_input' = Append(channel_input, input)
          BY <1>7, <2>4 DEF ChannelByte
        <4> HIDE DEF input
        <4>2. QED
          BY <4>1, <3>0
      <3>2. active_channel' \in Byte /\ active_channel_buffer' \in Seq(Byte)
        <4>1. active_channel' = 0 /\ active_channel_buffer' = <<>>
          BY <1>7, <2>4 DEF ChannelByte
        <4>2. QED
          BY <4>1, ByteIsNat, EmptyType
      <3>3. QED
        BY <1>7, <2>1, <2>2, <3>1, <3>2 DEF ChannelByte, Advance
    <2>5. CASE ~(active_channel_buget = 1 /\ active_channel \in Registered)
      <3>1. active_channel_buffer' \in Seq(Byte)
        BY <1>7, <2>3, <2>5 DEF ChannelByte
      <3>2. UNCHANGED <<active_channel, channel_input>>
        BY <1>7, <2>5 DEF ChannelByte
      <3>3. QED
        BY <1>7, <2>1, <2>2, <3>1, <3>2 DEF ChannelByte, Advance
    <2>6. QED
      BY <2>4, <2>5
  <1>8. CASE HeaderByte
    <2>1. NextByte \in Byte /\ pos' = pos + 1 /\ pos' <= read
      BY <1>8, NextByteType DEF HeaderByte, Advance
    <2>2. header_buffer' \in Seq(Byte) /\ header_to_read' \in 0 .. HeaderRest
      BY <1>8, <2>1 DEF HeaderByte, HeaderRest
    <2>3. QED
      BY <1>8, <2>1, <2>2 DEF HeaderByte, Advance
  <1>9. CASE HeaderComplete
    <2> DEFINE header == Append(header_buffer, NextByte)
    <2>1. NextByte \in Byte /\ pos' = pos + 1 /\ pos' <= read
      BY <1>9, NextByteType DEF HeaderComplete, Advance
    <2>2. header \in Seq(Byte) /\ Len(header) = HeaderSize
      BY <1>9, <2>1 DEF HeaderComplete, Unpacks
    <2>3. HeaderSize - 1 \in 1 .. HeaderSize /\ HeaderSize \in 1 .. HeaderSize
      BY DEF HeaderSize, HeaderRest
    <2>4. header[HeaderSize - 1] \in Byte /\ header[HeaderSize] \in Byte
      <3> HIDE DEF header
      <3>1. QED
        BY <2>2, <2>3, ElementType, Zenon
    <2>5. active_channel' \in Byte /\ active_channel_buget' \in Byte
      BY <1>9, <2>4 DEF HeaderComplete
    <2>6. QED
      <3>1. header_buffer' \in Seq(Byte) /\ active_channel_buffer' \in Seq(Byte)
        BY <1>9, EmptyType DEF HeaderComplete
      <3>2. header_magic_check_next' \in 0 .. Len(Magic) - 1
            /\ header_to_read' \in 0 .. HeaderRest
        BY <1>9, MagicLength DEF HeaderComplete, HeaderRest
      <3>3. UNCHANGED <<read, handling, raw_out, delivered, writer>>
        BY <1>9 DEF HeaderComplete, Advance
      <3>4. handling
        BY <1>9 DEF HeaderComplete, Advance
      <3>5. QED
        BY <2>1, <2>5, <3>1, <3>2, <3>3, <3>4
  <1>10. CASE HeaderBroken
    <2>1. NextByte \in Byte
      BY <1>10, NextByteType DEF HeaderBroken
    <2>2. QED
      <3>1. header_buffer' \in Seq(Byte) /\ raw_out' \in Seq(Byte)
        BY <1>10, <2>1, EmptyType DEF HeaderBroken
      <3>2. header_to_read' \in 0 .. HeaderRest
        BY <1>10 DEF HeaderBroken, HeaderRest
      <3>3. /\ UNCHANGED <<header_magic_check_next, read>>
            /\ UNCHANGED <<active_channel, active_channel_buffer,
                           active_channel_buget>>
            /\ UNCHANGED <<channel_input, raw_input, eof>>
            /\ UNCHANGED <<stream, written, open, writes, frames, expected,
                           plain>>
        BY <1>10 DEF HeaderBroken
      <3>4. pos' = read /\ handling' = FALSE
        BY <1>10 DEF HeaderBroken
      <3>5. /\ pos' \in Nat /\ read' \in Nat /\ written' \in Nat
            /\ pos' <= read' /\ read' <= written' /\ written' <= Len(stream')
            /\ pos' = read'
        BY <3>3, <3>4
      <3>6. open' \in BOOLEAN /\ eof' \in {"no", "reported", "lost"}
        BY <3>3
      <3>7. handling' \in BOOLEAN
        BY <3>4
      <3>8. header_magic_check_next' \in 0 .. Len(Magic) - 1
        BY <3>3
      <3>9. writes' \in 0 .. MaxWrites
            /\ stream' \in Seq(Byte) /\ plain' \in Seq(Byte)
        BY <3>3
      <3>10. /\ frames' \in SUBSET [at : Nat, channel : Channels, data : Payloads]
             /\ expected' \in Seq(frames')
        BY <3>3
      <3>11. channel_input' \in Seq([channel : Registered, data : Seq(Byte)])
        BY <3>3
      <3>12. active_channel' \in Byte /\ active_channel_buget' \in Byte
             /\ active_channel_buffer' \in Seq(Byte)
             /\ raw_input' \in Seq(Byte)
        BY <3>3
      <3>13. QED
        BY <3>1, <3>2, <3>5, <3>6, <3>7, <3>8, <3>9, <3>10, <3>11, <3>12
  <1>11. CASE MatchByte
    <2>1. NextByte \in Byte /\ pos' = pos + 1 /\ pos' <= read
      BY <1>11, NextByteType DEF MatchByte, Advance
    <2>2. header_magic_check_next' \in 0 .. Len(Magic) - 1
      BY <1>11 DEF MatchByte
    <2>3. header_to_read' \in 0 .. HeaderRest
      BY <1>11 DEF MatchByte, HeaderRest
    <2>4. QED
      BY <1>11, <2>1, <2>2, <2>3 DEF MatchByte, Advance
  <1>12. CASE MismatchByte
    <2>1. NextByte \in Byte /\ pos' = pos + 1 /\ pos' <= read
      BY <1>12, NextByteType DEF MismatchByte, Advance
    <2>2. Append(header_buffer, NextByte) \in Seq(Byte)
          /\ <<NextByte>> \in Seq(Byte)
      BY <2>1
    <2>3. header_buffer' \in Seq(Byte)
      BY <1>12, <2>2, EmptyType DEF MismatchByte
    <2>4. raw_out' \in Seq(Byte)
      <3>1. \/ raw_out' = raw_out \o header_buffer
            \/ raw_out' = raw_out \o Append(header_buffer, NextByte)
        BY <1>12 DEF MismatchByte
      <3>2. QED
        BY <2>2, <3>1, ConcatType
    <2>5. header_magic_check_next' \in 0 .. Len(Magic) - 1
      <3>1. header_magic_check_next' \in {0, 1}
        BY <1>12 DEF MismatchByte
      <3>2. 0 < header_magic_check_next /\ header_magic_check_next < Len(Magic)
            /\ header_magic_check_next \in Nat
        BY <1>12, MagicLength DEF MismatchByte
      <3>3. {0, 1} \subseteq 0 .. Len(Magic) - 1
        BY <3>2, MagicLength
      <3>4. QED
        BY <3>1, <3>3, Zenon
    <2>6. QED
      BY <1>12, <2>1, <2>3, <2>4, <2>5 DEF MismatchByte, Advance
  <1>13. CASE RawByte
    <2>1. NextByte \in Byte /\ pos' = pos + 1 /\ pos' <= read
      BY <1>13, NextByteType DEF RawByte, Advance
    <2>2. QED
      BY <1>13, <2>1 DEF RawByte, Advance
  <1>14. CASE HandlerReturns
    <2>1. raw_input' \in Seq(Byte)
      BY <1>14, ConcatType DEF HandlerReturns
    <2>2. QED
      BY <1>14, <2>1, EmptyType DEF HandlerReturns
  <1>15. CASE UNCHANGED vars
    BY <1>15 DEF vars
  <1>16. QED
    BY <1>1, <1>2, <1>3, <1>4, <1>5, <1>6, <1>7, <1>8, <1>9, <1>10, <1>11,
       <1>12, <1>13, <1>14, <1>15 DEF Next, Reads, Decode

\* The loop of __on_raw_fdin__ never indexes the delimiter out of its range,
\* never reads past what os.read returned, and hands callbacks bytes of
\* registered channels only, whatever bytes arrive (a broken header or a
\* stream that was cut off included).
THEOREM MuxTypeOK == Spec => []TypeOK
  BY InitTypeOK, NextTypeOK, PTL DEF Spec

LEMMA HeaderStaysExact ==
    ASSUME TypeOK, HeaderIsExact, ~HeaderBroken, [Next]_vars
    PROVE  HeaderIsExact'
  <1>1. /\ header_buffer \in Seq(Byte) /\ header_to_read \in 0 .. HeaderRest
        /\ header_magic_check_next \in 0 .. Len(Magic) - 1
    BY DEF TypeOK
  <1>2. Len(header_buffer) = IF header_to_read > 0
                             THEN HeaderSize - header_to_read
                             ELSE header_magic_check_next
    BY DEF HeaderIsExact
  <1>3. CASE UNCHANGED search
    BY <1>3 DEF HeaderIsExact, search
  <1>4. CASE HeaderByte
    <2>1. Len(header_buffer') = Len(header_buffer) + 1
      BY <1>1, <1>4, NextByteType DEF HeaderByte, Advance
    <2>2. QED
      BY <1>1, <1>2, <1>4, <2>1, MagicLength
         DEF HeaderByte, HeaderIsExact, HeaderSize, HeaderRest
  <1>5. CASE HeaderComplete
    BY <1>5, EmptySeq DEF HeaderComplete, HeaderIsExact
  <1>6. CASE MatchByte
    <2>1. Len(header_buffer') = header_magic_check_next + 1
      BY <1>1, <1>2, <1>6, NextByteType DEF MatchByte, Advance, Searching
    <2>2. QED
      BY <1>1, <1>6, <2>1, MagicLength
         DEF MatchByte, HeaderIsExact, HeaderSize, HeaderRest
  <1>7. CASE MismatchByte
    <2>1. header_to_read' = 0
      BY <1>7 DEF MismatchByte, Searching
    <2>2. Len(header_buffer') = header_magic_check_next'
      <3>1. \/ header_buffer' = <<NextByte>> /\ header_magic_check_next' = 1
            \/ header_buffer' = <<>> /\ header_magic_check_next' = 0
        BY <1>7 DEF MismatchByte
      <3>2. \A b : Len(<<b>>) = 1
        OBVIOUS
      <3>3. QED
        BY <3>1, <3>2
    <2>3. QED
      BY <2>1, <2>2 DEF HeaderIsExact
  <1>8. QED
    <2>1. ASSUME ~HeaderByte, ~HeaderComplete, ~MatchByte, ~MismatchByte
          PROVE  UNCHANGED search
      BY <2>1 DEF Next, vars, Reads, Decode, Write, WriteChannel, OsWrite,
         Close, OsRead, OsReadEnd, ChannelByte, RawByte, HandlerReturns
    <2>2. QED
      BY <1>3, <1>4, <1>5, <1>6, <1>7, <2>1

\* The header_buffer stays in step with what is left to read, for any
\* delimiter and any bytes, until a header is refused.
THEOREM HeadersStayExact == Spec => OnlyRefusalsSpoilHeaders
  <1>1. TypeOK /\ [Next]_vars
        => [HeaderIsExact /\ ~HeaderBroken => HeaderIsExact']_vars
    BY HeaderStaysExact
  <1>2. QED
    BY <1>1, MuxTypeOK, PTL DEF Spec, OnlyRefusalsSpoilHeaders
=============================================================================
