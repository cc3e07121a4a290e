-------------------------- MODULE MuxFramesProofs --------------------------
(***************************************************************************)
(* Theorems about MuxFDIO for data that may hold the delimiter: the decoder*)
(* never looks for one inside a frame.  What it needs is that frames have  *)
(* data and that text does not hold the first two bytes of the delimiter.  *)
(***************************************************************************)
EXTENDS MuxStreamProofs, MuxRefinement

\* The delimiter can be told from text after two bytes, wherever one call of
\* write ends and the next begins, and no frame is refused.
Separable ==
    /\ Len(Magic) >= 2 /\ Magic[1] # Magic[2]
    /\ <<>> \notin Payloads
    /\ \A text \in Texts : \A i \in 1 .. Len(text) :
           text[i] = Magic[2] => i > 1 /\ text[i - 1] # Magic[1]

-----------------------------------------------------------------------------
(* Text and frames. *)

\* The p-th byte of the stream belongs to a frame.
Inside(p) == \E f \in frames : f.at < p /\ p <= End(f)

\* Text does not hold the delimiter's first pair, nor does text after text.
PlainPairs ==
    \A p \in 1 .. Len(stream) - 1 :
        ~Inside(p) /\ ~Inside(p + 1) /\ stream[p] = Magic[1] =>
            stream[p + 1] # Magic[2]

LEMMA SameFrame ==
    ASSUME TypeOK, Layout, NEW f \in frames, NEW g \in frames, NEW p \in Nat,
           f.at < p, p <= End(f), g.at < p, p <= End(g)
    PROVE  f = g
  <1>1. /\ f.at \in Nat /\ g.at \in Nat /\ End(f) \in Nat /\ End(g) \in Nat
    BY FramesTyped, FrameParts
  <1>2. f = g \/ End(f) <= g.at \/ End(g) <= f.at
    BY DEF Layout
  <1>3. QED
    BY <1>1, <1>2

\* What is appended is not inside the frames there are.
LEMMA InsideStays ==
    ASSUME TypeOK, NEW p \in 1 .. Len(stream),
           \A f \in frames' : f \in frames \/ f.at = Len(stream),
           Inside(p)'
    PROVE  Inside(p)
  <1>1. PICK f \in frames' : f.at < p /\ p <= End(f)
    BY DEF Inside
  <1>2. f.at # Len(stream)
    BY <1>1, FramesTyped
  <1>3. QED
    BY <1>1, <1>2 DEF Inside

LEMMA StreamEnds ==
    ASSUME TypeOK, Layout, NEW p, p > Len(stream), p \in Nat
    PROVE  ~Inside(p)
  <1>1. SUFFICES ASSUME NEW f \in frames, p <= End(f) PROVE FALSE
    BY DEF Inside
  <1>2. End(f) <= Len(stream) /\ End(f) \in Nat /\ Len(stream) \in Nat
    BY FramesTyped, FrameParts DEF Layout, Written
  <1>3. QED
    BY <1>1, <1>2

LEMMA WritePairs ==
    ASSUME TypeOK, Layout, Separable, PlainPairs, NEW text \in Texts,
           Write(text)
    PROVE  PlainPairs'
  <1>1. /\ stream' = stream \o text /\ text \in Seq(Byte)
        /\ frames' = frames /\ Len(stream) \in Nat
    BY DataAssumption, FramesTyped DEF Write
  <1>2. /\ Len(stream') = Len(stream) + Len(text) /\ Len(text) \in Nat
        /\ \A p \in 1 .. Len(stream) : stream'[p] = stream[p]
        /\ \A i \in 1 .. Len(text) : stream'[Len(stream) + i] = text[i]
    BY <1>1, AppendedStream
  <1>3. \A p : Inside(p)' <=> Inside(p)
    BY <1>1 DEF Inside
  <1>4. ASSUME NEW p \in 1 .. Len(stream') - 1, ~Inside(p), ~Inside(p + 1),
               stream'[p] = Magic[1], stream'[p + 1] = Magic[2]
        PROVE  FALSE
    <2>1. CASE p + 1 <= Len(stream)
      <3>1. p \in 1 .. Len(stream) - 1 /\ p \in 1 .. Len(stream)
            /\ p + 1 \in 1 .. Len(stream)
        BY <1>1, <2>1
      <3>2. QED
        BY <1>2, <1>4, <3>1 DEF PlainPairs
    <2>2. CASE p + 1 > Len(stream)
      <3> DEFINE i == p + 1 - Len(stream)
      <3>1. i \in 1 .. Len(text) /\ Len(stream) + i = p + 1
        BY <1>1, <1>2, <2>2
      <3> HIDE DEF i
      <3>2. text[i] = Magic[2]
        BY <1>2, <1>4, <3>1
      <3>3. i > 1 /\ text[i - 1] # Magic[1]
        BY <3>1, <3>2 DEF Separable
      <3>4. i - 1 \in 1 .. Len(text) /\ Len(stream) + (i - 1) = p
        BY <1>1, <1>2, <3>1, <3>3
      <3>5. QED
        BY <1>2, <1>4, <3>3, <3>4
    <2>3. QED
      BY <1>1, <2>1, <2>2
  <1>5. QED
    BY <1>3, <1>4 DEF PlainPairs

LEMMA WriteChannelPairs ==
    ASSUME TypeOK, PlainPairs, NEW c \in Channels, NEW d \in Payloads,
           WriteChannel(c, d)
    PROVE  PlainPairs'
  <1>1. PICK new : new = [at |-> Len(stream), channel |-> c, data |-> d]
    OBVIOUS
  <1>2. /\ stream' = stream \o Frame(c, d) /\ Frame(c, d) \in Seq(Byte)
        /\ frames' = frames \union {new} /\ new.at = Len(stream)
        /\ Len(stream) \in Nat
    BY <1>1, FrameBytes, FramesTyped DEF WriteChannel
  <1>3. /\ Len(stream') = Len(stream) + HeaderSize + Len(d)
        /\ End(new) = Len(stream')
        /\ \A p \in 1 .. Len(stream) : stream'[p] = stream[p]
        /\ Len(stream') \in Nat
    <2>1. Len(Frame(c, d)) = HeaderSize + Len(d) /\ Len(d) \in Nat
          /\ HeaderSize \in Nat
      BY FrameBytes, DataParts, HeaderLength, MagicLength
    <2>2. Len(stream') = Len(stream) + Len(Frame(c, d))
          /\ \A p \in 1 .. Len(stream) : stream'[p] = stream[p]
      BY <1>2, AppendedStream
    <2>3. End(new) = Len(stream) + HeaderSize + Len(d)
      BY <1>1 DEF End, Body
    <2>4. QED
      BY <1>2, <2>1, <2>2, <2>3
  <1>4. ASSUME NEW p \in 1 .. Len(stream') - 1, ~Inside(p)', ~Inside(p + 1)',
               stream'[p] = Magic[1]
        PROVE  stream'[p + 1] # Magic[2]
    <2>1. p + 1 <= Len(stream)
      <3>1. ~(Len(stream) < p + 1 /\ p + 1 <= Len(stream'))
        BY <1>2, <1>3, <1>4 DEF Inside
      <3>2. QED
        BY <1>2, <1>3, <3>1
    <2>2. p \in 1 .. Len(stream) - 1 /\ p \in 1 .. Len(stream)
          /\ p + 1 \in 1 .. Len(stream)
      BY <1>2, <2>1
    <2>3. ~Inside(p) /\ ~Inside(p + 1)
      BY <1>2, <1>4 DEF Inside
    <2>4. QED
      BY <1>3, <1>4, <2>2, <2>3 DEF PlainPairs
  <1>5. QED
    BY <1>4 DEF PlainPairs

LEMMA NextPairs ==
    Separable /\ TypeOK /\ Layout /\ PlainPairs /\ [Next]_vars => PlainPairs'
  <1> SUFFICES ASSUME Separable, TypeOK, Layout, PlainPairs, [Next]_vars
               PROVE  PlainPairs'
    OBVIOUS
  <1>1. CASE UNCHANGED <<stream, frames, expected, plain>>
    BY <1>1 DEF PlainPairs, Inside
  <1>2. QED
    BY <1>1, StreamStays, WritePairs, WriteChannelPairs

-----------------------------------------------------------------------------
(* Where the decoder searches. *)

Between == \A f \in frames : pos <= f.at \/ End(f) <= pos

\* Between frames, with at most one byte of text held back.
AtText ==
    /\ Between
    /\ header_magic_check_next \in {0, 1}
    /\ header_magic_check_next = 1 =>
           /\ pos \in 1 .. Len(stream) /\ ~Inside(pos)
           /\ stream[pos] = Magic[1]
           /\ header_buffer = <<Magic[1]>>

\* Inside the delimiter of f, having counted all of it.
InDelimiter(f) ==
    /\ f.at < pos /\ pos < f.at + Len(Magic)
    /\ header_magic_check_next = pos - f.at

Locating == Searching => AtText \/ \E f \in frames : InDelimiter(f)

LEMMA DelimiterByte ==
    ASSUME TypeOK, Layout, NEW f \in frames, f.at <= pos,
           pos < f.at + Len(Magic)
    PROVE  NextByte = Magic[pos - f.at + 1]
  <1>1. Written(f) /\ f.at \in Nat /\ pos \in Nat /\ Len(Magic) \in Nat
    BY FramesTyped, FrameParts, MagicLength DEF Layout, TypeOK
  <1> DEFINE i == pos - f.at + 1
  <1>2. i \in 1 .. Len(Magic) /\ f.at + i = pos + 1
    BY <1>1
  <1> HIDE DEF i
  <1>3. stream[f.at + i] = Magic[i]
    BY <1>1, <1>2 DEF Written
  <1>4. QED
    BY <1>2, <1>3 DEF NextByte, i

\* The byte after text is text, or the first byte of a frame.
LEMMA NextOfText ==
    ASSUME TypeOK, Layout, Separable, Between
    PROVE  \/ \E f \in frames : f.at = pos /\ NextByte = Magic[1]
           \/ /\ ~Inside(pos + 1)
              /\ \A f \in frames : pos + 1 <= f.at \/ End(f) <= pos + 1
  <1>1. pos \in Nat /\ \A f \in frames : f.at \in Nat /\ End(f) \in Nat
    BY FramesTyped, FrameParts DEF TypeOK
  <1>2. CASE \E f \in frames : f.at = pos
    <2>1. PICK f \in frames : f.at = pos
      BY <1>2
    <2>2. f.at <= pos /\ pos < f.at + Len(Magic) /\ pos - f.at + 1 = 1
      BY <1>1, <2>1, MagicLength
    <2>3. QED
      BY <2>1, <2>2, DelimiterByte
  <1>3. CASE \A f \in frames : f.at # pos
    <2>1. \A f \in frames : pos + 1 <= f.at \/ End(f) <= pos
      BY <1>1, <1>3 DEF Between
    <2>2. \A f \in frames : pos + 1 <= f.at \/ End(f) <= pos + 1
      BY <1>1, <2>1
    <2>3. ~Inside(pos + 1)
      BY <1>1, <2>1 DEF Inside
    <2>4. QED
      BY <2>2, <2>3
  <1>4. QED
    BY <1>2, <1>3

\* What is held back of text is not the beginning of a delimiter's pair.
LEMMA HeldBack ==
    ASSUME TypeOK, Layout, Separable, PlainPairs, AtText,
           header_magic_check_next = 1, pos < read
    PROVE  NextByte # Magic[2]
  <1>1. /\ pos \in Nat /\ Len(stream) \in Nat /\ pos < Len(stream)
        /\ pos \in 1 .. Len(stream) - 1
        /\ ~Inside(pos) /\ stream[pos] = Magic[1]
    <2>1. /\ pos \in Nat /\ read \in Nat /\ written \in Nat
          /\ read <= written /\ written <= Len(stream)
      BY Zenon DEF TypeOK
    <2>2. /\ pos \in 1 .. Len(stream) /\ ~Inside(pos)
          /\ stream[pos] = Magic[1]
      BY DEF AtText
    <2>3. QED
      BY <2>1, <2>2, FramesTyped
  <1>2. CASE \E f \in frames : f.at = pos /\ NextByte = Magic[1]
    BY <1>2 DEF Separable
  <1>3. CASE ~Inside(pos + 1)
    BY <1>1, <1>3 DEF PlainPairs, NextByte
  <1>4. QED
    BY <1>2, <1>3, NextOfText DEF AtText

\* A refused header needs a frame without data.
LEMMA NoRefusal ==
    ASSUME TypeOK, Layout, Separable, Reading, HeaderIsExact
    PROVE  ~HeaderBroken
  <1>1. SUFFICES ASSUME HeaderBroken PROVE FALSE
    OBVIOUS
  <1> DEFINE header == Append(header_buffer, NextByte)
  <1>2. PICK f \in frames : InHeader(f)
    BY <1>1, Modes DEF HeaderBroken
  <1>3. header_to_read = 1 /\ pos < read /\ ~Unpacks(header)
    BY <1>1 DEF HeaderBroken
  <1>4. Len(header) = HeaderSize
    <2>1. Len(header_buffer) = HeaderSize - 1 /\ HeaderSize \in Nat
      BY <1>3, HeaderLength, MagicLength DEF HeaderIsExact
    <2>2. Len(header) = Len(header_buffer) + 1
      BY <1>3, NextByteType DEF TypeOK
    <2>3. QED
      BY <2>1, <2>2
  <1>5. header[HeaderSize - 1] = f.channel /\ header[HeaderSize] = Len(f.data)
    BY <1>2, <1>3, <1>4, HeaderEnds
  <1>6. f.channel # 0 /\ Len(f.data) # 0
    <2>1. f.data \in Payloads /\ f.data \in Seq(Byte) /\ f.channel # 0
      BY FramesTyped, FrameParts DEF FrameRecord
    <2>2. QED
      BY <2>1, EmptySeq DEF Separable
  <1>7. QED
    BY <1>3, <1>4, <1>5, <1>6 DEF Unpacks

LEMMA LocatingGrows ==
    ASSUME TypeOK, Locating, frames \subseteq frames',
           \A f \in frames' : f \in frames \/ f.at = Len(stream),
           Len(stream) <= Len(stream'), Len(stream') \in Nat,
           \A p \in 1 .. Len(stream) : stream'[p] = stream[p],
           UNCHANGED <<pos, search, payload>>
    PROVE  Locating'
  <1>1. SUFFICES ASSUME Searching'
                 PROVE  (AtText \/ \E f \in frames : InDelimiter(f))'
    BY DEF Locating
  <1>2. Searching
    BY <1>1 DEF Searching, ReadingChannel, search, payload
  <1>3. pos <= Len(stream) /\ pos \in Nat /\ Len(stream) \in Nat
    BY DEF TypeOK
  <1>4. CASE AtText
    <2>1. Between'
      <3>1. ASSUME NEW f \in frames' PROVE pos <= f.at \/ End(f) <= pos
        BY <1>3, <1>4 DEF AtText, Between
      <3>2. QED
        BY <3>1 DEF Between
    <2>2. ASSUME header_magic_check_next = 1
          PROVE  /\ pos \in 1 .. Len(stream') /\ ~Inside(pos)'
                 /\ stream'[pos] = Magic[1] /\ header_buffer = <<Magic[1]>>
      <3>1. /\ pos \in 1 .. Len(stream) /\ ~Inside(pos)
            /\ stream[pos] = Magic[1] /\ header_buffer = <<Magic[1]>>
        BY <1>4, <2>2 DEF AtText
      <3>2. ~Inside(pos)'
        BY <1>3, <3>1 DEF Inside
      <3>3. QED
        BY <1>3, <3>1, <3>2
    <2>3. AtText'
      BY <1>4, <2>1, <2>2 DEF AtText, search
    <2>4. QED
      BY <2>3
  <1>5. ASSUME NEW f \in frames, InDelimiter(f)
        PROVE  \E g \in frames' : InDelimiter(g)'
    <2>1. InDelimiter(f)'
      BY <1>5 DEF InDelimiter, search
    <2>2. QED
      BY <2>1
  <1>6. QED
    BY <1>2, <1>4, <1>5 DEF Locating

LEMMA MatchByteLocates ==
    ASSUME TypeOK, Layout, Separable, PlainPairs, Reading, Locating,
           HeaderIsExact, MatchByte
    PROVE  /\ Locating'
           /\ header_magic_check_next + 1 = Len(Magic) => Opens
  <1>1. /\ Searching /\ pos < read /\ pos' = pos + 1 /\ pos \in Nat
        /\ NextByte = Magic[header_magic_check_next + 1]
        /\ header_buffer' = Append(header_buffer, NextByte)
        /\ UNCHANGED <<stream, frames, payload>>
        /\ pos + 1 \in 1 .. Len(stream) /\ Len(Magic) \in Nat
    BY MagicLength DEF MatchByte, Advance, Matches, writer, TypeOK
  <1>2. CASE AtText /\ header_magic_check_next = 0
    <2>1. /\ 1 < Len(Magic) /\ header_magic_check_next' = 1
          /\ header_to_read' = 0 /\ NextByte = Magic[1]
          /\ header_magic_check_next + 1 # Len(Magic)
      BY <1>1, <1>2 DEF MatchByte, Separable
    <2>2. CASE \E f \in frames : f.at = pos
      <3>1. PICK f \in frames : f.at = pos
        BY <2>2
      <3>2. InDelimiter(f)'
        BY <1>1, <2>1, <3>1 DEF InDelimiter
      <3>3. f \in frames'
        BY <1>1
      <3>4. QED
        BY <2>1, <3>2, <3>3 DEF Locating
    <2>3. CASE /\ ~Inside(pos + 1)
               /\ \A f \in frames : pos + 1 <= f.at \/ End(f) <= pos + 1
      <3>1. Between' /\ ~Inside(pos)'
        BY <1>1, <2>3 DEF Between, Inside
      <3>2. header_buffer' = <<Magic[1]>>
        <4>1. header_buffer = <<>>
          BY <1>1, <1>2, EmptySeq
             DEF HeaderIsExact, Searching, TypeOK
        <4>2. QED
          BY <1>1, <2>1, <4>1
      <3>3. stream'[pos'] = Magic[1] /\ pos' \in 1 .. Len(stream')
        BY <1>1, <2>1 DEF NextByte
      <3>4. AtText'
        BY <2>1, <3>1, <3>2, <3>3 DEF AtText
      <3>5. QED
        BY <2>1, <3>4 DEF Locating
    <2>4. QED
      BY <1>2, <2>2, <2>3, NextOfText DEF AtText
  <1>3. CASE AtText /\ header_magic_check_next = 1
    BY <1>1, <1>3, HeldBack
  <1>4. ASSUME NEW f \in frames, InDelimiter(f)
        PROVE  /\ Locating'
               /\ header_magic_check_next + 1 = Len(Magic) => Opens
    <2>1. /\ f.at \in Nat /\ f.at < pos /\ pos < f.at + Len(Magic)
          /\ header_magic_check_next = pos - f.at
      BY <1>4, FramesTyped, FrameParts DEF InDelimiter
    <2>2. CASE header_magic_check_next + 1 = Len(Magic)
      <3>1. ~Searching'
        BY <2>2 DEF MatchByte, HeaderRest, Searching
      <3>2. f.at + Len(Magic) = pos + 1
        BY <1>1, <2>1, <2>2
      <3>3. QED
        BY <3>1, <3>2 DEF Locating, Opens
    <2>3. CASE header_magic_check_next + 1 # Len(Magic)
      <3>1. header_magic_check_next' = header_magic_check_next + 1
        BY <2>3 DEF MatchByte
      <3>2. InDelimiter(f)'
        BY <1>1, <2>1, <2>3, <3>1 DEF InDelimiter
      <3>3. QED
        BY <1>1, <2>3, <3>2 DEF Locating
    <2>4. QED
      BY <2>2, <2>3
  <1>5. QED
    BY <1>1, <1>2, <1>3, <1>4 DEF Locating, AtText

\* In a frame's delimiter nothing mismatches; in text one byte is held back
\* at most.
LEMMA Mismatches ==
    ASSUME TypeOK, Layout, Locating, MismatchByte \/ RawByte
    PROVE  AtText
  <1>1. Searching /\ NextByte # Magic[header_magic_check_next + 1]
        /\ pos \in Nat
    BY DEF MismatchByte, RawByte, Matches, TypeOK
  <1>2. ASSUME NEW f \in frames, InDelimiter(f) PROVE FALSE
    <2>1. f.at <= pos /\ pos < f.at + Len(Magic)
          /\ header_magic_check_next = pos - f.at
      BY <1>1, <1>2, FramesTyped, FrameParts DEF InDelimiter
    <2>2. QED
      BY <1>1, <2>1, DelimiterByte
  <1>3. QED
    BY <1>1, <1>2 DEF Locating

LEMMA MismatchByteLocates ==
    ASSUME TypeOK, Layout, Separable, Locating, MismatchByte
    PROVE  Locating'
  <1>1. AtText
    BY Mismatches
  <1>2. /\ header_magic_check_next = 1 /\ pos' = pos + 1 /\ pos \in Nat
        /\ UNCHANGED <<stream, frames>> /\ pos + 1 \in 1 .. Len(stream)
    BY <1>1 DEF MismatchByte, Advance, AtText, writer, TypeOK
  <1>3. CASE NextByte # Magic[1]
    <2>1. header_magic_check_next' = 0
      BY <1>3 DEF MismatchByte
    <2>2. Between'
      BY <1>1, <1>2, <1>3, NextOfText DEF AtText, Between
    <2>3. QED
      BY <2>1, <2>2 DEF Locating, AtText
  <1>4. CASE NextByte = Magic[1]
    <2>1. header_magic_check_next' = 1 /\ header_buffer' = <<Magic[1]>>
      BY <1>4 DEF MismatchByte
    <2>2. CASE \E f \in frames : f.at = pos
      <3>1. PICK f \in frames : f.at = pos
        BY <2>2
      <3>2. 1 < Len(Magic) /\ Len(Magic) \in Nat
        BY MagicLength DEF Separable
      <3>3. InDelimiter(f)'
        BY <1>2, <2>1, <3>1, <3>2 DEF InDelimiter
      <3>4. QED
        BY <1>2, <3>3 DEF Locating
    <2>3. CASE /\ ~Inside(pos + 1)
               /\ \A f \in frames : pos + 1 <= f.at \/ End(f) <= pos + 1
      <3>1. Between' /\ ~Inside(pos)'
        BY <1>2, <2>3 DEF Between, Inside
      <3>2. stream'[pos'] = Magic[1] /\ pos' \in 1 .. Len(stream')
        BY <1>2, <1>4 DEF NextByte
      <3>3. QED
        BY <2>1, <3>1, <3>2 DEF Locating, AtText
    <2>4. QED
      BY <1>1, <2>2, <2>3, NextOfText DEF AtText
  <1>5. QED
    BY <1>3, <1>4

LEMMA RawByteLocates ==
    ASSUME TypeOK, Layout, Separable, Locating, RawByte
    PROVE  /\ Locating'
           /\ ~Inside(pos + 1)
  <1>1. AtText
    BY Mismatches
  <1>2. /\ header_magic_check_next = 0 /\ header_magic_check_next' = 0
        /\ pos' = pos + 1 /\ NextByte # Magic[1] /\ frames' = frames
    BY DEF RawByte, Advance, Matches, search, writer
  <1>3. ~Inside(pos + 1)
        /\ \A f \in frames : pos + 1 <= f.at \/ End(f) <= pos + 1
    BY <1>1, <1>2, NextOfText DEF AtText
  <1>4. AtText'
    BY <1>2, <1>3 DEF AtText, Between
  <1>5. QED
    BY <1>3, <1>4 DEF Locating

LEMMA ChannelByteLocates ==
    ASSUME TypeOK, Layout, Reading, ChannelByte
    PROVE  Locating'
  <1>1. PICK f \in frames : InData(f)
    BY Modes DEF ChannelByte
  <1>2. CASE InData(f)'
    BY <1>2 DEF InData, Locating, Searching
  <1>3. CASE pos' = End(f)
    <2>1. header_magic_check_next' = 0 /\ frames' = frames
      BY <1>1 DEF ChannelByte, search, writer, InData
    <2>2. ASSUME NEW g \in frames PROVE pos' <= g.at \/ End(g) <= pos'
      <3>1. /\ f.at \in Nat /\ End(f) \in Nat /\ f.at <= End(f)
            /\ g.at \in Nat /\ End(g) \in Nat
        BY FramesTyped, FrameParts
      <3>2. f = g \/ End(f) <= g.at \/ End(g) <= f.at
        BY DEF Layout
      <3>3. QED
        BY <1>3, <3>1, <3>2
    <2>3. AtText'
      BY <2>1, <2>2 DEF AtText, Between
    <2>4. QED
      BY <2>3 DEF Locating
  <1>4. QED
    BY <1>1, <1>2, <1>3, ChannelByteReads

LEMMA InitLocating == Init => Locating
  BY DEF Init, Locating, AtText, Between

LEMMA NextLocating ==
    ASSUME TypeOK, TypeOK', Layout, Separable, PlainPairs, Reading, Locating,
           HeaderIsExact, [Next]_vars
    PROVE  Locating'
  <1>1. ASSUME NEW text \in Texts, Write(text) PROVE Locating'
    <2>1. /\ stream' = stream \o text /\ text \in Seq(Byte)
          /\ UNCHANGED <<frames, pos, search, payload>>
      BY <1>1, DataAssumption DEF Write, loop
    <2>2. /\ \A p \in 1 .. Len(stream) : stream'[p] = stream[p]
          /\ Len(stream) <= Len(stream') /\ Len(stream') \in Nat
      BY <2>1, AppendedStream, FramesTyped
    <2>3. QED
      BY <2>1, <2>2, LocatingGrows
  <1>2. ASSUME NEW c \in Channels, NEW d \in Payloads, WriteChannel(c, d)
        PROVE  Locating'
    <2>1. PICK new : new = [at |-> Len(stream), channel |-> c, data |-> d]
      OBVIOUS
    <2>2. /\ stream' = stream \o Frame(c, d) /\ Frame(c, d) \in Seq(Byte)
          /\ frames' = frames \union {new} /\ new.at = Len(stream)
          /\ UNCHANGED <<pos, search, payload>>
      BY <1>2, <2>1, FrameBytes DEF WriteChannel, loop
    <2>3. /\ \A p \in 1 .. Len(stream) : stream'[p] = stream[p]
          /\ Len(stream) <= Len(stream') /\ Len(stream') \in Nat
      BY <2>2, AppendedStream, FramesTyped
    <2>4. QED
      BY <2>2, <2>3, LocatingGrows
  <1>3. CASE \/ OsWrite \/ Close \/ OsReadEnd \/ HandlerReturns
             \/ \E n \in 1 .. ReadSize : OsRead(n)
             \/ UNCHANGED vars
    <2>1. UNCHANGED <<stream, frames, pos, search, payload>>
      BY <1>3 DEF OsWrite, Close, OsReadEnd, HandlerReturns, OsRead, writer,
         loop, vars
    <2>2. QED
      BY <2>1, FramesTyped, LocatingGrows
  <1>4. CASE HeaderByte
    <2>1. header_to_read' > 0
      BY <1>4 DEF HeaderByte, TypeOK, HeaderRest
    <2>2. QED
      BY <2>1 DEF Locating, Searching
  <1>5. CASE HeaderComplete
    <2>1. PICK f \in frames : InHeader(f)
      BY <1>5, Modes DEF HeaderComplete
    <2>2. InData(f)'
      BY <1>5, <2>1, HeaderCompleteReads
    <2>3. QED
      BY <2>2 DEF InData, Locating, Searching
  <1>6. QED
    BY <1>1, <1>2, <1>3, <1>4, <1>5, NoRefusal, ChannelByteLocates,
       MatchByteLocates, MismatchByteLocates, RawByteLocates
       DEF Next, Reads, Decode

-----------------------------------------------------------------------------
(* Frames arrive whole, in order, none skipped. *)

\* Callbacks got the first frames that were written for them.
Received ==
    /\ Len(channel_input) <= Len(expected)
    /\ \A n \in 1 .. Len(channel_input) :
           channel_input[n] = [channel |-> expected[n].channel,
                               data    |-> expected[n].data]

\* The decoder that passes the last byte of a frame reads its data.
LEMMA LastByte ==
    ASSUME TypeOK, Layout, Separable, Reading, Locating,
           NEW f \in frames, End(f) = pos + 1
    PROVE  InData(f)
  <1>1. /\ f.at \in Nat /\ Body(f) \in Nat /\ Len(f.data) \in Nat
        /\ f.at + Len(Magic) + 2 = Body(f) /\ Body(f) + Len(f.data) = End(f)
        /\ f.at < Body(f) /\ pos \in Nat /\ Len(Magic) \in Nat
    BY FramesTyped, FrameParts, MagicLength DEF TypeOK
  <1>2. Len(f.data) > 0
    <2>1. f.data \in Payloads /\ f.data \in Seq(Byte)
      BY FramesTyped, FrameParts DEF FrameRecord
    <2>2. QED
      BY <2>1, <1>1, EmptySeq DEF Separable
  <1>3. f.at < pos + 1 /\ pos + 1 <= End(f) /\ f.at < pos /\ Body(f) <= pos
    BY <1>1, <1>2
  <1>4. CASE AtText
    BY <1>1, <1>3, <1>4 DEF AtText, Between
  <1>5. ASSUME NEW g \in frames, InDelimiter(g) PROVE FALSE
    <2>1. /\ g.at \in Nat /\ Body(g) \in Nat /\ End(g) \in Nat
          /\ g.at + Len(Magic) + 2 = Body(g) /\ Body(g) <= End(g)
          /\ g.at < pos /\ pos < g.at + Len(Magic)
      BY <1>5, FramesTyped, FrameParts DEF InDelimiter
    <2>2. g.at < pos + 1 /\ pos + 1 <= End(g) /\ pos + 1 \in Nat
      <3>1. PICK at \in Nat, m \in Nat, b \in Nat, e \in Nat, p \in Nat :
                /\ at = g.at /\ m = Len(Magic) /\ b = Body(g) /\ e = End(g)
                /\ p = pos
        BY <1>1, <2>1
      <3>2. at + m + 2 = b /\ b <= e /\ at < p /\ p < at + m
        BY <2>1, <3>1
      <3>3. at < p + 1 /\ p + 1 <= e
        BY <3>2
      <3>4. QED
        BY <3>1, <3>3
    <2>3. f = g
      BY <1>3, <2>2, SameFrame
    <2>4. QED
      BY <1>1, <1>3, <2>1, <2>3
  <1>6. ASSUME NEW g \in frames, InHeader(g) PROVE FALSE
    <2>1. /\ g.at \in Nat /\ Body(g) \in Nat /\ End(g) \in Nat
          /\ g.at + Len(Magic) + 2 = Body(g) /\ Body(g) <= End(g)
      BY FramesTyped, FrameParts
    <2>2. header_to_read \in {1, 2} /\ header_to_read = Body(g) - pos
      BY <1>6, HeaderBytes DEF InHeader
    <2>3. g.at < pos + 1 /\ pos + 1 <= End(g) /\ pos + 1 \in Nat
          /\ pos < Body(g)
      <3>1. PICK at \in Nat, m \in Nat, b \in Nat, e \in Nat, p \in Nat :
                /\ at = g.at /\ m = Len(Magic) /\ b = Body(g) /\ e = End(g)
                /\ p = pos
        BY <1>1, <2>1
      <3>2. at + m + 2 = b /\ b <= e /\ b - p \in {1, 2} /\ m > 0
        BY <2>1, <2>2, <3>1, MagicLength
      <3>3. at < p + 1 /\ p + 1 <= e /\ p < b
        BY <3>2
      <3>4. QED
        BY <3>1, <3>3
    <2>4. f = g
      BY <1>3, <2>3, SameFrame
    <2>5. QED
      BY <1>1, <1>3, <2>1, <2>3, <2>4
  <1>7. ASSUME NEW g \in frames, InData(g) PROVE f = g
    <2>1. /\ g.at \in Nat /\ Body(g) \in Nat /\ End(g) \in Nat
          /\ g.at < Body(g)
      BY FramesTyped, FrameParts
    <2>2. pos < End(g) /\ pos - Body(g) \in Nat
      BY <1>7, DataBytes
    <2>3. g.at < pos + 1 /\ pos + 1 <= End(g) /\ pos + 1 \in Nat
      <3>1. PICK at \in Nat, b \in Nat, e \in Nat, p \in Nat :
                at = g.at /\ b = Body(g) /\ e = End(g) /\ p = pos
        BY <1>1, <2>1
      <3>2. at < b /\ p < e /\ p - b \in Nat
        BY <2>1, <2>2, <3>1
      <3>3. at < p + 1 /\ p + 1 <= e
        BY <3>2
      <3>4. QED
        BY <3>1, <3>3
    <2>4. QED
      BY <1>3, <2>3, SameFrame
  <1>8. QED
    BY <1>4, <1>5, <1>6, <1>7 DEF Reading, Locating

\* A frame ends where the next one begins, or before.
LEMMA EndsGrow ==
    ASSUME TypeOK, Layout, NEW m \in 1 .. Len(expected),
           NEW n \in 1 .. Len(expected), m < n
    PROVE  End(expected[m]) < End(expected[n])
  <1>1. /\ expected[m] \in FrameRecord /\ expected[n] \in FrameRecord
        /\ m \in DOMAIN expected /\ n \in DOMAIN expected
    BY FramesTyped
  <1>2. End(expected[m]) <= expected[n].at
    BY <1>1 DEF Layout
  <1>3. /\ End(expected[m]) \in Nat /\ expected[n].at \in Nat
        /\ Body(expected[n]) \in Nat /\ End(expected[n]) \in Nat
        /\ expected[n].at < Body(expected[n])
        /\ Body(expected[n]) <= End(expected[n])
    BY <1>1, FrameParts
  <1>4. QED
    BY <1>2, <1>3

LEMMA DeliveryIsNext ==
    ASSUME TypeOK, TypeOK', Layout, Separable, Reading, ChannelByte,
           FramesArriveWhole, Received, channel_input' # channel_input
    PROVE  FramesArriveWhole' /\ Received'
  <1>1. PICK m \in 1 .. Len(expected) :
             /\ End(expected[m]) = pos + 1 /\ pos' = pos + 1
             /\ channel_input' =
                    Append(channel_input,
                           [channel |-> expected[m].channel,
                            data    |-> expected[m].data])
    BY ChannelByteDelivers
  <1>2. /\ DOMAIN expected = 1 .. Len(expected) /\ Len(expected) \in Nat
        /\ expected' = expected /\ pos \in Nat
        /\ \A n \in 1 .. Len(expected) : End(expected[n]) \in Nat
    BY FramesTyped, FrameParts DEF ChannelByte, writer, TypeOK
  <1> DEFINE k == Len(channel_input)
             input == [channel |-> expected[m].channel,
                       data    |-> expected[m].data]
  <1>3. /\ k \in Nat /\ Len(channel_input') = k + 1
        /\ \A i \in 1 .. k : channel_input'[i] = channel_input[i]
        /\ channel_input'[k + 1] = input
    <2>1. channel_input' = Append(channel_input, input)
      BY <1>1
    <2> HIDE DEF input
    <2>2. Len(channel_input') = k + 1 /\ k \in Nat
      BY <2>1 DEF TypeOK
    <2>3. QED
      BY <2>1, <2>2 DEF TypeOK
  <1>4. \A n \in 1 .. Len(expected) : n <= k <=> End(expected[n]) <= pos
    BY <1>2 DEF FramesArriveWhole
  <1>5. k + 1 \in 1 .. Len(expected) /\ k + 1 <= m
    BY <1>1, <1>2, <1>3, <1>4
  <1>6. m = k + 1
    <2>1. SUFFICES ASSUME k + 1 < m PROVE FALSE
      BY <1>2, <1>3, <1>5
    <2>2. End(expected[k + 1]) < End(expected[m])
      BY <1>5, <2>1, EndsGrow
    <2>3. End(expected[k + 1]) <= pos
      BY <1>1, <1>2, <1>5, <2>2
    <2>4. QED
      BY <1>3, <1>4, <1>5, <2>3
  <1>7. ASSUME NEW n \in 1 .. Len(expected)
        PROVE  n <= k + 1 <=> End(expected[n]) <= pos + 1
    <2>1. CASE n <= k
      BY <1>2, <1>3, <1>4, <2>1
    <2>2. CASE n = m
      BY <1>1, <1>3, <1>6, <2>2
    <2>3. CASE m < n
      <3>1. pos + 1 < End(expected[n])
        BY <1>1, <2>3, EndsGrow
      <3>2. QED
        BY <1>2, <1>3, <1>6, <2>3, <3>1
    <2>4. QED
      BY <1>2, <1>3, <1>6, <2>1, <2>2, <2>3
  <1>8. FramesArriveWhole'
    BY <1>1, <1>2, <1>3, <1>7 DEF FramesArriveWhole
  <1>9. ASSUME NEW n \in 1 .. k + 1
        PROVE  channel_input'[n] = [channel |-> expected[n].channel,
                                    data    |-> expected[n].data]
    <2>1. CASE n \in 1 .. k
      BY <1>3, <2>1 DEF Received
    <2>2. CASE n = k + 1
      BY <1>3, <1>6, <2>2
    <2>3. QED
      BY <1>3, <2>1, <2>2
  <1>10. Received'
    BY <1>2, <1>3, <1>5, <1>9 DEF Received
  <1>11. QED
    BY <1>8, <1>10

LEMMA WriteChannelWhole ==
    ASSUME TypeOK, TypeOK', FramesArriveWhole, Received,
           NEW c \in Channels, NEW d \in Payloads, WriteChannel(c, d)
    PROVE  FramesArriveWhole' /\ Received'
  <1>1. PICK new : new = [at |-> Len(stream), channel |-> c, data |-> d]
    OBVIOUS
  <1>2. /\ expected' = IF c \in Registered THEN Append(expected, new)
                                           ELSE expected
        /\ UNCHANGED <<pos, channel_input>>
    BY <1>1 DEF WriteChannel, loop, delivered
  <1>3. CASE expected' = expected
    BY <1>2, <1>3 DEF FramesArriveWhole, Received
  <1>4. CASE expected' = Append(expected, new)
    <2>1. expected \in Seq(frames) /\ expected' \in Seq(frames')
          /\ channel_input \in Seq([channel : Registered, data : Seq(Byte)])
      BY DEF TypeOK
    <2>2. /\ Len(expected) \in Nat /\ Len(expected') = Len(expected) + 1
          /\ DOMAIN expected = 1 .. Len(expected)
          /\ DOMAIN expected' = 1 .. Len(expected) + 1
          /\ \A n \in 1 .. Len(expected) : expected'[n] = expected[n]
          /\ expected'[Len(expected) + 1] = new
          /\ Len(channel_input) \in Nat
      BY <1>4, <2>1
    <2>3. pos < End(new) /\ pos \in Nat /\ End(new) \in Nat
      <3>1. new \in FrameRecord /\ new.at = Len(stream)
        BY <1>1, FramesTyped DEF FrameRecord
      <3>2. /\ new.at < Body(new) /\ Body(new) <= End(new)
            /\ Body(new) \in Nat /\ End(new) \in Nat /\ new.at \in Nat
        BY <3>1, FrameParts
      <3>3. pos \in Nat /\ pos <= new.at
        BY <3>1 DEF TypeOK
      <3>4. QED
        BY <3>2, <3>3
    <2>4. Len(channel_input) <= Len(expected)
      BY DEF Received
    <2>5. ASSUME NEW n \in 1 .. Len(expected) + 1
          PROVE  n <= Len(channel_input) <=> End(expected'[n]) <= pos
      <3>1. CASE n \in 1 .. Len(expected)
        BY <2>2, <3>1 DEF FramesArriveWhole
      <3>2. CASE n = Len(expected) + 1
        BY <2>2, <2>3, <2>4, <3>2
      <3>3. QED
        BY <2>2, <3>1, <3>2
    <2>6. FramesArriveWhole'
      BY <1>2, <2>2, <2>5 DEF FramesArriveWhole
    <2>7. \A n \in 1 .. Len(channel_input) :
              channel_input[n] = [channel |-> expected'[n].channel,
                                  data    |-> expected'[n].data]
      BY <2>2, <2>4 DEF Received
    <2>8. Len(channel_input) <= Len(expected')
      BY <2>2, <2>4
    <2>9. QED
      BY <1>2, <2>6, <2>7, <2>8 DEF Received
  <1>5. QED
    BY <1>2, <1>3, <1>4

LEMMA NextWhole ==
    ASSUME TypeOK, TypeOK', Layout, Separable, Reading, Locating,
           HeaderIsExact, FramesArriveWhole, Received, [Next]_vars
    PROVE  FramesArriveWhole' /\ Received'
  <1>1. CASE \E c \in Channels, d \in Payloads : WriteChannel(c, d)
    BY <1>1, WriteChannelWhole
  <1>2. CASE channel_input' # channel_input
    <2>1. ChannelByte
      BY <1>2 DEF Next, Reads, Decode, Write, WriteChannel, OsWrite, Close,
         OsRead, OsReadEnd, ChannelByte, HeaderByte, HeaderComplete,
         HeaderBroken, MatchByte, MismatchByte, RawByte, HandlerReturns,
         delivered, vars
    <2>2. QED
      BY <1>2, <2>1, DeliveryIsNext
  <1>3. CASE /\ channel_input' = channel_input
             /\ \A c \in Channels, d \in Payloads : ~WriteChannel(c, d)
    <2>1. expected' = expected
      <3>1. ASSUME NEW text \in Texts, Write(text) PROVE expected' = expected
        BY <3>1 DEF Write
      <3>2. QED
        BY <1>3, <3>1, StreamStays
    <2>2. ~HeaderBroken
      BY NoRefusal
    <2>3. pos' \in {pos, pos + 1}
      BY <2>2 DEF Next, Reads, Decode, Write, WriteChannel, OsWrite, Close,
         OsRead, OsReadEnd, ChannelByte, HeaderByte, HeaderComplete, Advance,
         MatchByte, MismatchByte, RawByte, HandlerReturns, vars, loop
    <2>4. /\ DOMAIN expected = 1 .. Len(expected) /\ pos \in Nat
          /\ \A n \in 1 .. Len(expected) : /\ End(expected[n]) \in Nat
                                           /\ expected[n] \in frames
      BY FramesTyped, FrameParts DEF TypeOK
    <2>5. ASSUME NEW n \in 1 .. Len(expected), pos' = pos + 1
          PROVE  End(expected[n]) # pos + 1
      <3>1. SUFFICES ASSUME End(expected[n]) = pos + 1 PROVE FALSE
        OBVIOUS
      <3>2. InData(expected[n])
        BY <2>4, <3>1, LastByte
      <3>3. /\ ReadingChannel /\ active_channel_buget = 1
            /\ active_channel \in Registered
        BY <2>4, <3>1, <3>2 DEF InData, Layout
      <3>4. pos' # pos
        BY <2>4, <2>5
      <3>5. ChannelByte
        BY <2>2, <3>3, <3>4
           DEF Next, Reads, Decode, Write, WriteChannel, OsWrite, Close,
               OsRead, OsReadEnd, HeaderByte, HeaderComplete, MatchByte,
               MismatchByte, RawByte, HandlerReturns, vars, loop,
               ReadingHeader, Searching
      <3>6. PICK input : channel_input' = Append(channel_input, input)
        BY <3>3, <3>5 DEF ChannelByte
      <3>7. Len(channel_input') = Len(channel_input) + 1
            /\ Len(channel_input) \in Nat
        BY <3>6 DEF TypeOK
      <3>8. QED
        BY <1>3, <3>7
    <2>6. FramesArriveWhole'
      <3>1. \A n \in 1 .. Len(expected) :
                End(expected[n]) <= pos' <=> End(expected[n]) <= pos
        BY <2>3, <2>4, <2>5
      <3>2. QED
        BY <1>3, <2>1, <2>4, <3>1 DEF FramesArriveWhole
    <2>7. QED
      BY <1>3, <2>1, <2>6 DEF Received
  <1>4. QED
    BY <1>1, <1>2, <1>3

\* What holds of the decoder, whatever frames contain.
InStep == Layout /\ PlainPairs /\ Reading /\ Locating /\ HeaderIsExact

LEMMA NextInStep ==
    /\ Separable /\ TypeOK /\ TypeOK' /\ InStep /\ [Next]_vars => InStep'
  <1>1. SUFFICES ASSUME Separable, TypeOK, TypeOK', InStep, [Next]_vars
                 PROVE  InStep'
    OBVIOUS
  <1> USE <1>1 DEF InStep
  <1>2. Layout' /\ PlainPairs'
    BY NextLayout, NextPairs
  <1>3. Reading' /\ Locating'
    BY MatchByteLocates, NextReading, NextLocating
  <1>4. HeaderIsExact'
    BY NoRefusal, HeaderStaysExact
  <1>5. QED
    BY <1>2, <1>3, <1>4

\* If text cannot be taken for a frame and every frame has data, the decoder
\* is where the writer was: outside frames it searches, in a frame it reads
\* the part it is at, and no header is ever refused.  Data may hold anything.
THEOREM DecoderIsInStep == Separable /\ Spec => []InStep
  <1>1. Init => InStep
    <2>1. SUFFICES ASSUME Init PROVE InStep
      OBVIOUS
    <2>2. stream = <<>> /\ header_buffer = <<>> /\ header_to_read = 0
          /\ header_magic_check_next = 0
      BY <2>1 DEF Init
    <2>3. HeaderIsExact
      BY <2>2 DEF HeaderIsExact
    <2>4. PlainPairs
      <3>1. 1 .. Len(stream) - 1 = {}
        BY <2>2
      <3>2. QED
        BY <3>1 DEF PlainPairs
    <2>5. QED
      BY <2>1, <2>3, <2>4, InitLayout, InitReading, InitLocating DEF InStep
  <1>2. Separable => Separable'
    BY DEF Separable
  <1>3. QED
    BY <1>1, <1>2, NextInStep, MuxTypeOK, PTL DEF Spec

LEMMA Arrivals == Separable /\ Spec => [](FramesArriveWhole /\ Received)
  <1>1. Init => FramesArriveWhole /\ Received
    <2>1. SUFFICES ASSUME Init PROVE FramesArriveWhole /\ Received
      OBVIOUS
    <2>2. expected = <<>> /\ channel_input = <<>>
      BY <2>1 DEF Init
    <2>3. QED
      BY <2>2 DEF FramesArriveWhole, Received
  <1>2. Separable => Separable'
    BY DEF Separable
  <1>3. /\ Separable /\ TypeOK /\ TypeOK' /\ InStep
        /\ FramesArriveWhole /\ Received /\ [Next]_vars
        => (FramesArriveWhole /\ Received)'
    BY NextWhole DEF InStep
  <1>4. QED
    BY <1>1, <1>2, <1>3, MuxTypeOK, DecoderIsInStep, PTL DEF Spec

\* Every frame is passed on with its last byte: not before, not later, and
\* none is missed, however its bytes are cut by os.write and os.read.
THEOREM CallbacksGetWholeFrames == Separable /\ Spec => []FramesArriveWhole
  BY Arrivals, PTL

\* Callbacks get exactly what was written for them, in its order, whatever the
\* data contains, the delimiter included.
THEOREM CallbacksGetIntactFrames == Separable /\ Spec => []FramesIntact
  <1>1. TypeOK /\ Received => FramesIntact
    <2>1. SUFFICES ASSUME TypeOK, Received PROVE FramesIntact
      OBVIOUS
    <2>2. DOMAIN expected = 1 .. Len(expected) /\ Len(expected) \in Nat
      BY <2>1, FramesTyped
    <2> DEFINE D == [channel : Byte, data : Seq(Byte)]
               k == Len(channel_input)
    <2>3. ASSUME NEW n \in 1 .. Len(expected)
          PROVE  [channel |-> expected[n].channel,
                  data    |-> expected[n].data] \in D
      <3>1. expected[n] \in FrameRecord
        BY <2>1, <2>2, FramesTyped
      <3>2. expected[n].channel \in Byte /\ expected[n].data \in Seq(Byte)
        BY <3>1, FrameParts
      <3>3. QED
        BY <3>2
    <2>4. channel_input \in Seq(D)
      <3>1. [channel : Registered, data : Seq(Byte)] \subseteq D
        BY ChannelAssumption
      <3> HIDE DEF D
      <3>2. QED
        BY <2>1, <3>1, SeqMonotonic DEF TypeOK
    <2> HIDE DEF D
    <2>5. Expected \in Seq(D) /\ Len(Expected) = Len(expected)
          /\ \A n \in 1 .. Len(expected) :
                 Expected[n] = [channel |-> expected[n].channel,
                                data    |-> expected[n].data]
      BY <2>2, <2>3 DEF Expected
    <2>6. k \in Nat /\ k <= Len(Expected)
          /\ \A n \in 1 .. k : channel_input[n] = Expected[n]
      <3>1. k \in Nat /\ k <= Len(expected)
        BY <2>1, <2>4 DEF Received
      <3>2. \A n \in 1 .. k : n \in 1 .. Len(expected)
        BY <2>2, <3>1
      <3>3. QED
        BY <2>1, <2>5, <3>1, <3>2 DEF Received
    <2>7. /\ SubSeq(Expected, 1, k) \in Seq(D)
          /\ Len(SubSeq(Expected, 1, k)) = k
          /\ \A n \in 1 .. k : SubSeq(Expected, 1, k)[n] = Expected[n]
      BY <2>5, <2>6
    <2>8. channel_input = SubSeq(Expected, 1, k)
      BY <2>4, <2>6, <2>7, SeqEqual
    <2>9. QED
      BY <2>6, <2>8 DEF FramesIntact, IsPrefixOf
  <1>2. QED
    BY <1>1, Arrivals, MuxTypeOK, PTL

\* If every channel that is written to has its callback, the end of the pty is
\* lost only with a frame whose writer was stopped in the middle of it, even
\* if data holds the delimiter.
THEOREM EndGetsThroughToo ==
    Registered = Channels /\ Separable /\ Spec => []EndIsReported
  <1>1. Init => (eof # "no" => ~open) /\ EndIsReported
    BY DEF Init, EndIsReported
  <1>2. Registered = Channels => (Registered = Channels)'
    OBVIOUS
  <1>3. /\ Registered = Channels
        /\ TypeOK /\ InStep /\ (eof # "no" => ~open)
        /\ EndIsReported /\ [Next]_vars
        => (eof # "no" => ~open)' /\ EndIsReported'
    BY NextEnd DEF InStep
  <1>4. QED
    BY <1>1, <1>2, <1>3, MuxTypeOK, DecoderIsInStep, PTL DEF Spec

-----------------------------------------------------------------------------
(* Raw output. *)

\* s is text of the stream, in its order, up to a position.
Traces(s, last) ==
    \E g \in [1 .. Len(s) -> 1 .. Len(stream)] :
        /\ \A m, n \in 1 .. Len(s) : m < n => g[m] < g[n]
        /\ \A n \in 1 .. Len(s) : /\ g[n] <= last /\ ~Inside(g[n])
                                  /\ s[n] = stream[g[n]]

LEMMA TracesLater ==
    ASSUME TypeOK, NEW s, NEW last \in Int, NEW next \in Int, last <= next,
           Traces(s, last)
    PROVE  Traces(s, next)
  <1>1. PICK g \in [1 .. Len(s) -> 1 .. Len(stream)] :
            /\ \A m, n \in 1 .. Len(s) : m < n => g[m] < g[n]
            /\ \A n \in 1 .. Len(s) : /\ g[n] <= last /\ ~Inside(g[n])
                                      /\ s[n] = stream[g[n]]
    BY DEF Traces
  <1>2. ASSUME NEW n \in 1 .. Len(s) PROVE g[n] <= next
    <2>1. g[n] \in Int /\ g[n] <= last
      BY <1>1
    <2>2. QED
      BY <2>1
  <1>3. QED
    BY <1>1, <1>2 DEF Traces

LEMMA TracesAppend ==
    ASSUME TypeOK, NEW s \in Seq(Byte), NEW last \in Int, Traces(s, last),
           NEW p \in 1 .. Len(stream), last < p, ~Inside(p)
    PROVE  Traces(Append(s, stream[p]), p)
  <1>1. PICK g \in [1 .. Len(s) -> 1 .. Len(stream)] :
            /\ \A m, n \in 1 .. Len(s) : m < n => g[m] < g[n]
            /\ \A n \in 1 .. Len(s) : /\ g[n] <= last /\ ~Inside(g[n])
                                      /\ s[n] = stream[g[n]]
    BY DEF Traces
  <1> DEFINE k == Len(s)
             t == Append(s, stream[p])
             h == [n \in 1 .. k + 1 |-> IF n <= k THEN g[n] ELSE p]
  <1>2. /\ k \in Nat /\ Len(t) = k + 1 /\ t[k + 1] = stream[p]
        /\ \A n \in 1 .. k : t[n] = s[n]
    <2>1. stream[p] \in Byte
      <3>1. stream \in Seq(Byte)
        BY Zenon DEF TypeOK
      <3>2. QED
        BY <3>1, ElementType, Zenon
    <2>2. QED
      BY <2>1, AppendProperties
  <1>3. ASSUME NEW n \in 1 .. k PROVE g[n] < p
    <2>1. g[n] \in Int /\ g[n] <= last
      BY <1>1
    <2>2. QED
      BY <2>1
  <1>4. /\ h \in [1 .. k + 1 -> 1 .. Len(stream)]
        /\ h[k + 1] = p /\ \A n \in 1 .. k : h[n] = g[n]
    BY <1>2
  <1> HIDE DEF h, t, k
  <1>5. \A n \in 1 .. k + 1 : n \in 1 .. k \/ n = k + 1
    BY <1>2
  <1>6. \A m, n \in 1 .. k + 1 : m < n => h[m] < h[n]
    BY <1>1, <1>2, <1>3, <1>4, <1>5 DEF k
  <1>7. ASSUME NEW n \in 1 .. k + 1
        PROVE  h[n] <= p /\ ~Inside(h[n]) /\ t[n] = stream[h[n]]
    <2>1. CASE n \in 1 .. k
      BY <1>1, <1>2, <1>3, <1>4, <2>1 DEF k
    <2>2. CASE n = k + 1
      BY <1>2, <1>4, <2>2
    <2>3. QED
      BY <1>5, <2>1, <2>2
  <1>8. Traces(t, p)
    <2>1. Len(t) = k + 1
      BY <1>2
    <2>2. QED
      BY <1>4, <1>6, <1>7, <2>1, Zenon DEF Traces
  <1>9. QED
    BY <1>8 DEF t

LEMMA TracesPrefix ==
    ASSUME NEW s \in Seq(Byte), NEW t \in Seq(Byte), NEW last,
           Traces(s \o t, last)
    PROVE  Traces(s, last)
  <1> DEFINE st == s \o t
  <1>1. /\ Len(s) \in Nat /\ Len(t) \in Nat /\ Len(st) = Len(s) + Len(t)
        /\ \A n \in 1 .. Len(s) : st[n] = s[n]
    BY ConcatProperties
  <1>2. Traces(st, last)
    OBVIOUS
  <1> HIDE DEF st
  <1>3. PICK g \in [1 .. Len(st) -> 1 .. Len(stream)] :
            /\ \A m, n \in 1 .. Len(st) : m < n => g[m] < g[n]
            /\ \A n \in 1 .. Len(st) : /\ g[n] <= last /\ ~Inside(g[n])
                                       /\ st[n] = stream[g[n]]
    BY <1>2 DEF Traces
  <1> DEFINE h == [n \in 1 .. Len(s) |-> g[n]]
  <1>4. \A n \in 1 .. Len(s) : n \in 1 .. Len(st)
    BY <1>1
  <1>5. h \in [1 .. Len(s) -> 1 .. Len(stream)]
        /\ \A n \in 1 .. Len(s) : h[n] = g[n]
    BY <1>4
  <1> HIDE DEF h
  <1>6. \A m, n \in 1 .. Len(s) : m < n => h[m] < h[n]
    BY <1>3, <1>4, <1>5
  <1>7. \A n \in 1 .. Len(s) : /\ h[n] <= last /\ ~Inside(h[n])
                               /\ s[n] = stream[h[n]]
    BY <1>1, <1>3, <1>4, <1>5
  <1>8. QED
    BY <1>5, <1>6, <1>7 DEF Traces

LEMMA TracesStays ==
    ASSUME TypeOK, NEW s, NEW last, Traces(s, last),
           \A f \in frames' : f \in frames \/ f.at = Len(stream),
           Len(stream) <= Len(stream'), Len(stream') \in Nat,
           \A p \in 1 .. Len(stream) : stream'[p] = stream[p]
    PROVE  Traces(s, last)'
  <1>1. PICK g \in [1 .. Len(s) -> 1 .. Len(stream)] :
            /\ \A m, n \in 1 .. Len(s) : m < n => g[m] < g[n]
            /\ \A n \in 1 .. Len(s) : /\ g[n] <= last /\ ~Inside(g[n])
                                      /\ s[n] = stream[g[n]]
    BY DEF Traces
  <1>2. \A p \in 1 .. Len(stream) : ~Inside(p) => ~Inside(p)'
    <2>1. ASSUME NEW p \in 1 .. Len(stream), Inside(p)' PROVE Inside(p)
      BY <2>1, InsideStays
    <2>2. QED
      BY <2>1
  <1>3. g \in [1 .. Len(s) -> 1 .. Len(stream')]
    BY FramesTyped
  <1>4. \A n \in 1 .. Len(s) : /\ ~Inside(g[n])'
                               /\ s[n] = stream'[g[n]]
    BY <1>1, <1>2
  <1>5. QED
    BY <1>1, <1>3, <1>4 DEF Traces

\* What the handler has to pass on, or has passed on, lies behind what it
\* holds back.
RawTraced == Traces(raw_input \o raw_out, pos - header_magic_check_next)

LEMMA ConcatOne ==
    ASSUME NEW s \in Seq(Byte), NEW t \in Seq(Byte), NEW b \in Byte
    PROVE  /\ s \o <<>> = s
           /\ s \o Append(t, b) = Append(s \o t, b)
           /\ t \o <<b>> = Append(t, b)
           /\ <<b>> \in Seq(Byte) /\ Append(t, b) \in Seq(Byte)
  OBVIOUS

LEMMA Concats ==
    ASSUME NEW s \in Seq(Byte), NEW t \in Seq(Byte), NEW b \in Byte
    PROVE  /\ s \o <<>> = s
           /\ s \o Append(t, b) = Append(s \o t, b)
           /\ s \o (t \o <<b>>) = Append(s \o t, b)
  BY ConcatOne

LEMMA ConcatTwo ==
    ASSUME NEW s \in Seq(Byte), NEW t \in Seq(Byte), NEW b \in Byte,
           NEW c \in Byte
    PROVE  s \o (t \o Append(<<b>>, c)) = Append(Append(s \o t, b), c)
  <1>1. <<b>> \in Seq(Byte) /\ Append(t, b) \in Seq(Byte)
        /\ t \o <<b>> = Append(t, b) /\ s \o Append(t, b) = Append(s \o t, b)
    BY ConcatOne
  <1>2. t \o Append(<<b>>, c) = Append(Append(t, b), c)
    BY <1>1, ConcatOne
  <1>3. s \o Append(Append(t, b), c) = Append(s \o Append(t, b), c)
    BY <1>1, ConcatOne
  <1>4. QED
    BY <1>1, <1>2, <1>3, Zenon

LEMMA TracedNext ==
    ASSUME NEW s, NEW last, Traces(s, last)', s = raw_input' \o raw_out',
           last = pos' - header_magic_check_next'
    PROVE  RawTraced'
  BY DEF RawTraced, Traces

LEMMA TracedBy ==
    ASSUME NEW s, NEW last, Traces(s, last), UNCHANGED <<stream, frames>>,
           s = raw_input' \o raw_out', last = pos' - header_magic_check_next'
    PROVE  RawTraced'
  <1>1. Traces(s, last)'
    <2>1. \A p : Inside(p)' <=> Inside(p)
      BY DEF Inside
    <2>2. QED
      BY <2>1 DEF Traces
  <1>2. QED
    BY <1>1, TracedNext

LEMMA TracedStays ==
    ASSUME TypeOK, TypeOK', RawTraced,
           UNCHANGED <<stream, frames, raw_input, raw_out>>,
           pos - header_magic_check_next <= pos' - header_magic_check_next'
    PROVE  RawTraced'
  <1>1. /\ pos - header_magic_check_next \in Int
        /\ pos' - header_magic_check_next' \in Int
    <2>1. /\ pos \in Nat /\ header_magic_check_next \in 0 .. Len(Magic) - 1
          /\ pos' \in Nat /\ header_magic_check_next' \in 0 .. Len(Magic) - 1
      BY Zenon DEF TypeOK
    <2>2. QED
      BY <2>1, MagicLength
  <1>2. Traces(raw_input \o raw_out, pos' - header_magic_check_next')
    BY <1>1, TracesLater DEF RawTraced
  <1>3. raw_input' \o raw_out' = raw_input \o raw_out
    OBVIOUS
  <1>4. QED
    BY <1>2, <1>3, TracedBy

\* raw_out is passed on, dropped, or begun anew.
LEMMA TracedReturns ==
    ASSUME TypeOK, RawTraced, raw_out' = <<>>,
           raw_input' \in {raw_input, raw_input \o raw_out},
           UNCHANGED <<stream, frames, pos, header_magic_check_next>>
    PROVE  RawTraced'
  <1>1. raw_input \in Seq(Byte) /\ raw_out \in Seq(Byte)
        /\ raw_input \o raw_out \in Seq(Byte)
    BY DEF TypeOK
  <1>2. Traces(raw_input', pos - header_magic_check_next)
    BY <1>1, TracesPrefix DEF RawTraced
  <1>3. raw_input' \o raw_out' = raw_input'
    BY <1>1
  <1>4. QED
    BY <1>2, <1>3, TracedBy

LEMMA TracedGrows ==
    ASSUME TypeOK, RawTraced,
           UNCHANGED <<raw_input, raw_out, pos, header_magic_check_next>>,
           \A f \in frames' : f \in frames \/ f.at = Len(stream),
           Len(stream) <= Len(stream'), Len(stream') \in Nat,
           \A p \in 1 .. Len(stream) : stream'[p] = stream[p]
    PROVE  RawTraced'
  <1>1. PICK s, last : /\ s = raw_input \o raw_out
                       /\ last = pos - header_magic_check_next
    OBVIOUS
  <1>2. Traces(s, last)'
    BY <1>1, TracesStays DEF RawTraced
  <1>3. /\ s = raw_input' \o raw_out'
        /\ last = pos' - header_magic_check_next'
    BY <1>1
  <1>4. QED
    BY <1>2, <1>3, TracedNext

LEMMA RawByteTraced ==
    ASSUME TypeOK, Layout, Separable, Locating, RawTraced, RawByte
    PROVE  RawTraced'
  <1>1. /\ raw_out' = Append(raw_out, NextByte) /\ NextByte \in Byte
        /\ header_magic_check_next = 0 /\ header_magic_check_next' = 0
        /\ pos' = pos + 1 /\ pos \in Nat /\ pos + 1 \in 1 .. Len(stream)
        /\ UNCHANGED <<stream, frames, raw_input>>
        /\ raw_input \in Seq(Byte) /\ raw_out \in Seq(Byte)
    BY NextByteType
       DEF RawByte, Advance, search, writer, delivered, TypeOK
  <1>2. raw_input \o raw_out \in Seq(Byte) /\ ~Inside(pos + 1)
    BY <1>1, RawByteLocates
  <1>3. Traces(raw_input \o raw_out, pos)
    BY <1>1 DEF RawTraced
  <1>4. Traces(Append(raw_input \o raw_out, NextByte), pos + 1)
    <2>1. pos \in Int /\ pos < pos + 1
      BY <1>1
    <2>2. QED
      BY <1>1, <1>2, <1>3, <2>1, TracesAppend DEF NextByte
  <1>5. raw_input' \o raw_out' = Append(raw_input \o raw_out, NextByte)
    BY <1>1, Concats
  <1>6. pos' - header_magic_check_next' = pos + 1
    BY <1>1
  <1>7. QED
    BY <1>1, <1>4, <1>5, <1>6, TracedBy

LEMMA MismatchByteTraced ==
    ASSUME TypeOK, Layout, Separable, Locating, RawTraced, MismatchByte
    PROVE  RawTraced'
  <1>1. AtText
    BY Mismatches
  <1>2. /\ header_magic_check_next = 1 /\ header_buffer = <<stream[pos]>>
        /\ pos \in 1 .. Len(stream) /\ ~Inside(pos)
    BY <1>1 DEF AtText, MismatchByte
  <1>3. /\ pos' = pos + 1 /\ pos \in Nat /\ pos + 1 \in 1 .. Len(stream)
        /\ NextByte \in Byte /\ stream[pos] \in Byte
        /\ UNCHANGED <<stream, frames, raw_input>>
        /\ raw_input \in Seq(Byte) /\ raw_out \in Seq(Byte)
    BY <1>2, NextByteType
       DEF MismatchByte, Advance, writer, delivered, TypeOK
  <1>4. raw_input \o raw_out \in Seq(Byte)
        /\ Append(raw_input \o raw_out, stream[pos]) \in Seq(Byte)
    BY <1>3
  <1>5. Traces(Append(raw_input \o raw_out, stream[pos]), pos)
    <2>1. Traces(raw_input \o raw_out, pos - 1) /\ pos - 1 \in Int
          /\ pos - 1 < pos
      BY <1>2, <1>3 DEF RawTraced
    <2>2. QED
      BY <1>2, <1>4, <2>1, TracesAppend
  <1>6. CASE NextByte = Magic[1]
    <2>1. raw_out' = raw_out \o <<stream[pos]>>
          /\ header_magic_check_next' = 1
      BY <1>2, <1>6 DEF MismatchByte
    <2>2. raw_input' \o raw_out' = Append(raw_input \o raw_out, stream[pos])
      BY <1>3, <2>1, Concats
    <2>3. pos' - header_magic_check_next' = pos
      BY <1>3, <2>1
    <2>4. QED
      BY <1>3, <1>5, <2>2, <2>3, TracedBy
  <1>7. CASE NextByte # Magic[1]
    <2>1. raw_out' = raw_out \o Append(<<stream[pos]>>, NextByte)
          /\ header_magic_check_next' = 0
      BY <1>2, <1>7 DEF MismatchByte
    <2>2. raw_input' \o raw_out'
              = Append(Append(raw_input \o raw_out, stream[pos]), NextByte)
      <3>1. raw_input \o (raw_out \o Append(<<stream[pos]>>, NextByte))
                = Append(Append(raw_input \o raw_out, stream[pos]), NextByte)
        <4>1. PICK r \in Seq(Byte), o \in Seq(Byte), b \in Byte, c \in Byte :
                  /\ r = raw_input /\ o = raw_out
                  /\ b = stream[pos] /\ c = NextByte
          BY <1>3
        <4>2. r \o (o \o Append(<<b>>, c)) = Append(Append(r \o o, b), c)
          BY ConcatTwo, Zenon
        <4>3. QED
          BY <4>1, <4>2
      <3>2. QED
        BY <1>3, <2>1, <3>1, Zenon
    <2>3. pos' - header_magic_check_next' = pos + 1 /\ pos < pos + 1
          /\ pos \in Int
      BY <1>3, <2>1
    <2>4. ~Inside(pos + 1)
      BY <1>1, <1>7, NextOfText DEF AtText
    <2>5. Traces(Append(Append(raw_input \o raw_out, stream[pos]), NextByte),
                 pos + 1)
      BY <1>3, <1>4, <1>5, <2>3, <2>4, TracesAppend DEF NextByte
    <2>6. QED
      BY <1>3, <2>2, <2>3, <2>5, TracedBy
  <1>8. QED
    BY <1>6, <1>7

LEMMA NextTraced ==
    ASSUME TypeOK, TypeOK', Separable, InStep, RawTraced, [Next]_vars
    PROVE  RawTraced'
  <1> USE DEF InStep
  <1>1. ASSUME NEW text \in Texts, Write(text) PROVE RawTraced'
    <2>1. /\ stream' = stream \o text /\ text \in Seq(Byte)
          /\ UNCHANGED <<frames, raw_input, raw_out, pos,
                         header_magic_check_next>>
      BY <1>1, DataAssumption DEF Write, loop, delivered, search
    <2>2. /\ \A p \in 1 .. Len(stream) : stream'[p] = stream[p]
          /\ Len(stream) <= Len(stream') /\ Len(stream') \in Nat
      BY <2>1, AppendedStream, FramesTyped
    <2>3. QED
      BY <2>1, <2>2, TracedGrows
  <1>2. ASSUME NEW c \in Channels, NEW d \in Payloads, WriteChannel(c, d)
        PROVE  RawTraced'
    <2>1. PICK new : new = [at |-> Len(stream), channel |-> c, data |-> d]
      OBVIOUS
    <2>2. /\ stream' = stream \o Frame(c, d) /\ Frame(c, d) \in Seq(Byte)
          /\ frames' = frames \union {new} /\ new.at = Len(stream)
          /\ UNCHANGED <<raw_input, raw_out, pos, header_magic_check_next>>
      BY <1>2, <2>1, FrameBytes DEF WriteChannel, loop, delivered, search
    <2>3. /\ \A p \in 1 .. Len(stream) : stream'[p] = stream[p]
          /\ Len(stream) <= Len(stream') /\ Len(stream') \in Nat
      BY <2>2, AppendedStream, FramesTyped
    <2>4. QED
      BY <2>2, <2>3, TracedGrows
  <1>3. CASE OsWrite \/ Close \/ OsReadEnd \/ UNCHANGED vars
    <2>1. UNCHANGED <<stream, frames, raw_input, raw_out, pos,
                      header_magic_check_next>>
      BY <1>3 DEF OsWrite, Close, OsReadEnd, writer, loop, delivered, search,
         vars
    <2>2. pos - header_magic_check_next <= pos' - header_magic_check_next'
      <3>1. pos \in Nat /\ header_magic_check_next \in Nat
        BY MagicLength DEF TypeOK
      <3>2. QED
        BY <2>1, <3>1
    <2>3. QED
      BY <2>1, <2>2, TracedStays
  <1>4. CASE HandlerReturns \/ \E n \in 1 .. ReadSize : OsRead(n)
    <2>1. /\ raw_out' = <<>>
          /\ raw_input' \in {raw_input, raw_input \o raw_out}
          /\ UNCHANGED <<stream, frames, pos, header_magic_check_next>>
      BY <1>4 DEF HandlerReturns, OsRead, writer, delivered, search
    <2>2. QED
      BY <2>1, TracedReturns
  <1>5. CASE ChannelByte \/ HeaderByte \/ HeaderComplete
    <2>1. ~Searching
      BY <1>5 DEF ChannelByte, HeaderByte, HeaderComplete, Searching,
         ReadingHeader
    <2>2. header_magic_check_next = 0 /\ header_magic_check_next' = 0
      BY <1>5, <2>1, Modes DEF ChannelByte, HeaderByte, HeaderComplete, search
    <2>3. pos' = pos + 1 /\ pos \in Nat
          /\ UNCHANGED <<stream, frames, raw_input, raw_out>>
      BY <1>5 DEF ChannelByte, HeaderByte, HeaderComplete, Advance, writer,
         delivered, TypeOK
    <2>4. QED
      BY <2>2, <2>3, TracedStays
  <1>6. CASE MatchByte
    <2>1. /\ pos' = pos + 1 /\ pos \in Nat
          /\ UNCHANGED <<stream, frames, raw_input, raw_out>>
          /\ header_magic_check_next \in Nat
          /\ header_magic_check_next' \in {0, header_magic_check_next + 1}
      BY <1>6, MagicLength DEF MatchByte, Advance, writer, delivered, TypeOK
    <2>2. pos - header_magic_check_next <= pos' - header_magic_check_next'
      <3>1. CASE header_magic_check_next' = 0
        BY <2>1, <3>1
      <3>2. CASE header_magic_check_next' = header_magic_check_next + 1
        BY <2>1, <3>2
      <3>3. QED
        BY <2>1, <3>1, <3>2
    <2>3. QED
      BY <2>1, <2>2, TracedStays
  <1>7. QED
    BY <1>1, <1>2, <1>3, <1>4, <1>5, <1>6, NoRefusal, RawByteTraced,
       MismatchByteTraced DEF Next, Reads, Decode

\* Text in the stream is in plain, in its order.
PlainPlaced ==
    \E h \in [1 .. Len(stream) -> 0 .. Len(plain)] :
        /\ \A p \in 1 .. Len(stream) :
               ~Inside(p) => h[p] > 0 /\ plain[h[p]] = stream[p]
        /\ \A p, q \in 1 .. Len(stream) :
               p < q /\ ~Inside(p) /\ ~Inside(q) => h[p] < h[q]

LEMMA WritePlaced ==
    ASSUME TypeOK, PlainPlaced, NEW text \in Texts, Write(text)
    PROVE  PlainPlaced'
  <1>1. /\ stream' = stream \o text /\ text \in Seq(Byte)
        /\ plain' = plain \o text /\ plain \in Seq(Byte)
        /\ frames' = frames /\ Len(stream) \in Nat /\ Len(plain) \in Nat
    <2>1. /\ stream' = stream \o text /\ text \in Seq(Byte)
          /\ plain' = plain \o text /\ frames' = frames
      BY DataAssumption DEF Write
    <2>2. plain \in Seq(Byte)
      BY Zenon DEF TypeOK
    <2>3. QED
      BY <2>1, <2>2, LenProperties, FramesTyped
  <1>2. /\ Len(stream') = Len(stream) + Len(text) /\ Len(text) \in Nat
        /\ \A p \in 1 .. Len(stream) : stream'[p] = stream[p]
        /\ \A i \in 1 .. Len(text) : stream'[Len(stream) + i] = text[i]
    BY <1>1, AppendedStream
  <1>3. /\ Len(plain') = Len(plain) + Len(text)
        /\ \A i \in 1 .. Len(plain) : plain'[i] = plain[i]
        /\ \A i \in 1 .. Len(text) : plain'[Len(plain) + i] = text[i]
    BY <1>1, <1>2, ConcatProperties
  <1>4. \A p : Inside(p)' <=> Inside(p)
    BY <1>1 DEF Inside
  <1>5. PICK h \in [1 .. Len(stream) -> 0 .. Len(plain)] :
            /\ \A p \in 1 .. Len(stream) :
                   ~Inside(p) => h[p] > 0 /\ plain[h[p]] = stream[p]
            /\ \A p, q \in 1 .. Len(stream) :
                   p < q /\ ~Inside(p) /\ ~Inside(q) => h[p] < h[q]
    BY DEF PlainPlaced
  <1>6. PICK k \in Nat, l \in Nat, m \in Nat :
            k = Len(stream) /\ l = Len(plain) /\ m = Len(text)
    BY <1>1, <1>2
  <1> DEFINE j == [p \in 1 .. k + m |-> IF p <= k THEN h[p] ELSE l + (p - k)]
  <1>7. ASSUME NEW p \in 1 .. k PROVE j[p] = h[p] /\ h[p] \in 0 .. l
    BY <1>5, <1>6
  <1>8. ASSUME NEW p \in k + 1 .. k + m
        PROVE  j[p] = l + (p - k) /\ p - k \in 1 .. m /\ k + (p - k) = p
    BY <1>6
  <1>9. \A p \in 1 .. k + m : p \in 1 .. k \/ p \in k + 1 .. k + m
    BY <1>6
  <1>10. j \in [1 .. k + m -> 0 .. l + m]
    <2>1. ASSUME NEW p \in 1 .. k + m PROVE j[p] \in 0 .. l + m
      <3>1. CASE p \in 1 .. k
        <4>1. j[p] \in 0 .. l
          BY <1>7, <3>1
        <4>2. QED
          BY <4>1
      <3>2. CASE p \in k + 1 .. k + m
        <4>1. j[p] = l + (p - k) /\ p - k \in 1 .. m
          BY <1>8, <3>2
        <4>2. QED
          BY <4>1
      <3>3. QED
        BY <1>9, <3>1, <3>2
    <2>2. QED
      BY <2>1
  <1> HIDE DEF j
  <1>11. ASSUME NEW p \in 1 .. k + m, ~Inside(p)
         PROVE  j[p] > 0 /\ plain'[j[p]] = stream'[p]
    <2>1. CASE p \in 1 .. k
      <3>1. j[p] = h[p] /\ h[p] > 0 /\ plain[h[p]] = stream[p]
        BY <1>5, <1>6, <1>7, <1>11, <2>1
      <3>2. h[p] \in 1 .. l
        BY <1>7, <2>1, <3>1
      <3>3. QED
        BY <1>2, <1>3, <1>6, <2>1, <3>1, <3>2
    <2>2. CASE p \in k + 1 .. k + m
      <3>1. j[p] = l + (p - k) /\ p - k \in 1 .. m /\ k + (p - k) = p
        BY <1>8, <2>2
      <3>2. plain'[l + (p - k)] = text[p - k]
            /\ stream'[k + (p - k)] = text[p - k]
        BY <1>2, <1>3, <1>6, <3>1
      <3>3. QED
        BY <3>1, <3>2
    <2>3. QED
      BY <1>9, <2>1, <2>2
  <1>12. ASSUME NEW p \in 1 .. k + m, NEW q \in 1 .. k + m, p < q,
                ~Inside(p), ~Inside(q)
         PROVE  j[p] < j[q]
    <2>1. CASE q \in 1 .. k
      <3>1. p \in 1 .. k
        BY <1>12, <2>1
      <3>2. QED
        BY <1>5, <1>6, <1>7, <1>12, <2>1, <3>1
    <2>2. CASE q \in k + 1 .. k + m
      <3>1. j[q] = l + (q - k) /\ q - k \in 1 .. m
        BY <1>8, <2>2
      <3>2. CASE p \in 1 .. k
        <4>1. j[p] \in 0 .. l
          BY <1>7, <3>2
        <4>2. QED
          BY <3>1, <4>1
      <3>3. CASE p \in k + 1 .. k + m
        <4>1. j[p] = l + (p - k)
          BY <1>8, <3>3
        <4>2. QED
          BY <1>12, <3>1, <4>1
      <3>4. QED
        BY <1>9, <3>2, <3>3
    <2>3. QED
      BY <1>9, <2>1, <2>2
  <1>13. Len(stream') = k + m /\ Len(plain') = l + m
    BY <1>2, <1>3, <1>6
  <1>14. QED
    BY <1>4, <1>10, <1>11, <1>12, <1>13 DEF PlainPlaced

LEMMA WriteChannelPlaced ==
    ASSUME TypeOK, PlainPlaced, NEW c \in Channels, NEW d \in Payloads,
           WriteChannel(c, d)
    PROVE  PlainPlaced'
  <1>1. PICK new : new = [at |-> Len(stream), channel |-> c, data |-> d]
    OBVIOUS
  <1>2. /\ stream' = stream \o Frame(c, d) /\ Frame(c, d) \in Seq(Byte)
        /\ frames' = frames \union {new} /\ new.at = Len(stream)
        /\ plain' = plain /\ Len(stream) \in Nat /\ Len(plain) \in Nat
    <2>1. /\ stream' = stream \o Frame(c, d) /\ Frame(c, d) \in Seq(Byte)
          /\ frames' = frames \union {new} /\ plain' = plain
      BY <1>1, FrameBytes DEF WriteChannel
    <2>2. new.at = Len(stream)
      BY <1>1
    <2>3. plain \in Seq(Byte)
      BY Zenon DEF TypeOK
    <2>4. QED
      BY <2>1, <2>2, <2>3, LenProperties, FramesTyped
  <1>3. /\ Len(stream') = Len(stream) + HeaderSize + Len(d)
        /\ End(new) = Len(stream') /\ Len(stream') \in Nat
        /\ Len(stream) <= Len(stream')
        /\ \A p \in 1 .. Len(stream) : stream'[p] = stream[p]
    <2>1. Len(Frame(c, d)) = HeaderSize + Len(d) /\ Len(d) \in Nat
          /\ HeaderSize \in Nat
      BY FrameBytes, DataParts, HeaderLength, MagicLength
    <2>2. Len(stream') = Len(stream) + Len(Frame(c, d))
          /\ \A p \in 1 .. Len(stream) : stream'[p] = stream[p]
      BY <1>2, AppendedStream
    <2>3. End(new) = Len(stream) + HeaderSize + Len(d)
      BY <1>1 DEF End, Body
    <2>4. QED
      <3>1. PICK l \in Nat, h \in Nat, n \in Nat :
                l = Len(stream) /\ h = HeaderSize /\ n = Len(d)
        BY <1>2, <2>1
      <3>2. Len(stream') = l + h + n /\ End(new) = l + h + n
        BY <2>1, <2>2, <2>3, <3>1
      <3>3. l + h + n \in Nat /\ l <= l + h + n
        OBVIOUS
      <3>4. QED
        BY <2>1, <2>2, <3>1, <3>2, <3>3
  <1>4. ASSUME NEW p \in 1 .. Len(stream'), ~Inside(p)'
        PROVE  p \in 1 .. Len(stream) /\ ~Inside(p)
    <2>1. ~(Len(stream) < p /\ p <= Len(stream'))
      BY <1>2, <1>3, <1>4 DEF Inside
    <2>2. p \in 1 .. Len(stream)
      BY <1>2, <1>3, <2>1
    <2>3. ~Inside(p)
      BY <1>2, <1>4 DEF Inside
    <2>4. QED
      BY <2>2, <2>3
  <1>5. PICK h \in [1 .. Len(stream) -> 0 .. Len(plain)] :
            /\ \A p \in 1 .. Len(stream) :
                   ~Inside(p) => h[p] > 0 /\ plain[h[p]] = stream[p]
            /\ \A p, q \in 1 .. Len(stream) :
                   p < q /\ ~Inside(p) /\ ~Inside(q) => h[p] < h[q]
    BY DEF PlainPlaced
  <1>6. PICK j \in [1 .. Len(stream') -> 0 .. Len(plain')] :
            \A p \in 1 .. Len(stream) : j[p] = h[p]
    <2> DEFINE j == [p \in 1 .. Len(stream') |->
                       IF p <= Len(stream) THEN h[p] ELSE 0]
    <2>1. ASSUME NEW p \in 1 .. Len(stream') PROVE j[p] \in 0 .. Len(plain')
      BY <1>2, <1>3
    <2>2. j \in [1 .. Len(stream') -> 0 .. Len(plain')]
      BY <2>1
    <2>3. \A p \in 1 .. Len(stream) : j[p] = h[p]
      BY <1>2, <1>3
    <2>4. QED
      BY <2>2, <2>3
  <1>7. /\ \A p \in 1 .. Len(stream') :
               ~Inside(p)' => j[p] > 0 /\ plain'[j[p]] = stream'[p]
        /\ \A p, q \in 1 .. Len(stream') :
               p < q /\ ~Inside(p)' /\ ~Inside(q)' => j[p] < j[q]
    BY <1>2, <1>3, <1>4, <1>5, <1>6
  <1>8. QED
    BY <1>7 DEF PlainPlaced

LEMMA NextPlaced ==
    ASSUME TypeOK, PlainPlaced, [Next]_vars PROVE PlainPlaced'
  <1>1. CASE UNCHANGED <<stream, frames, expected, plain>>
    BY <1>1 DEF PlainPlaced, Inside
  <1>2. QED
    BY <1>1, StreamStays, WritePlaced, WriteChannelPlaced

\* The terminal gets text in the order it was written, and no byte of a frame
\* at all, as long as text cannot be taken for a frame; what data contains
\* does not matter.
THEOREM TerminalGetsTextInOrder == Separable /\ Spec => []RawInOrder
  <1>1. Init => RawTraced /\ PlainPlaced
    <2>1. SUFFICES ASSUME Init PROVE RawTraced /\ PlainPlaced
      OBVIOUS
    <2>2. /\ stream = <<>> /\ plain = <<>> /\ raw_input = <<>>
          /\ raw_out = <<>>
      BY <2>1 DEF Init
    <2>3. Len(stream) = 0 /\ raw_input \o raw_out = <<>>
          /\ Len(raw_input \o raw_out) = 0 /\ 1 .. 0 = {}
      BY <2>2
    <2> DEFINE none == [i \in {} |-> 0]
    <2>4. none \in [{} -> {}] /\ none \in [{} -> 0 .. Len(plain)]
      OBVIOUS
    <2> HIDE DEF none
    <2>5. RawTraced
      BY <2>3, <2>4 DEF RawTraced, Traces
    <2>6. PlainPlaced
      BY <2>3, <2>4 DEF PlainPlaced
    <2>7. QED
      BY <2>5, <2>6
  <1>2. Separable => Separable'
    BY DEF Separable
  <1>3. /\ Separable /\ TypeOK /\ TypeOK' /\ InStep
        /\ RawTraced /\ PlainPlaced /\ [Next]_vars
        => (RawTraced /\ PlainPlaced)'
    BY NextTraced, NextPlaced
  <1>4. TypeOK /\ RawTraced /\ PlainPlaced => RawInOrder
    <2>1. SUFFICES ASSUME TypeOK, RawTraced, PlainPlaced PROVE RawInOrder
      OBVIOUS
    <2>2. raw_input \in Seq(Byte) /\ raw_out \in Seq(Byte)
          /\ plain \in Seq(Byte)
      BY <2>1 DEF TypeOK
    <2>3. Traces(raw_input, pos - header_magic_check_next)
      BY <2>1, <2>2, TracesPrefix DEF RawTraced
    <2>4. PICK g \in [1 .. Len(raw_input) -> 1 .. Len(stream)] :
              /\ \A m, n \in 1 .. Len(raw_input) : m < n => g[m] < g[n]
              /\ \A n \in 1 .. Len(raw_input) :
                     ~Inside(g[n]) /\ raw_input[n] = stream[g[n]]
      BY <2>3 DEF Traces
    <2>5. PICK h \in [1 .. Len(stream) -> 0 .. Len(plain)] :
              /\ \A p \in 1 .. Len(stream) :
                     ~Inside(p) => h[p] > 0 /\ plain[h[p]] = stream[p]
              /\ \A p, q \in 1 .. Len(stream) :
                     p < q /\ ~Inside(p) /\ ~Inside(q) => h[p] < h[q]
      BY <2>1 DEF PlainPlaced
    <2> DEFINE e == [n \in 1 .. Len(raw_input) |-> h[g[n]]]
    <2>6. ASSUME NEW n \in 1 .. Len(raw_input)
          PROVE  /\ e[n] = h[g[n]] /\ e[n] \in 1 .. Len(plain)
                 /\ raw_input[n] = plain[e[n]]
      <3>1. g[n] \in 1 .. Len(stream) /\ ~Inside(g[n])
            /\ raw_input[n] = stream[g[n]]
        BY <2>4
      <3>2. h[g[n]] \in 0 .. Len(plain) /\ h[g[n]] > 0
            /\ plain[h[g[n]]] = stream[g[n]]
        BY <2>5, <3>1
      <3>3. h[g[n]] \in 1 .. Len(plain)
        BY <3>2
      <3>4. QED
        BY <3>1, <3>2, <3>3
    <2>7. e \in [1 .. Len(raw_input) -> 1 .. Len(plain)]
      BY <2>6
    <2> HIDE DEF e
    <2>8. ASSUME NEW m \in 1 .. Len(raw_input), NEW n \in 1 .. Len(raw_input),
                 m < n
          PROVE  e[m] < e[n]
      <3>1. /\ g[m] \in 1 .. Len(stream) /\ ~Inside(g[m])
            /\ g[n] \in 1 .. Len(stream) /\ ~Inside(g[n]) /\ g[m] < g[n]
        BY <2>4, <2>8
      <3>2. h[g[m]] < h[g[n]]
        BY <2>5, <3>1
      <3>3. QED
        BY <2>6, <3>2
    <2>9. \A n \in 1 .. Len(raw_input) : raw_input[n] = plain[e[n]]
      BY <2>6
    <2>10. Len(raw_input) \in Nat /\ Len(plain) \in Nat
      BY <2>2
    <2>11. IsPartOf(raw_input, plain)
      <3>1. /\ e \in [1 .. Len(raw_input) -> 1 .. Len(plain)]
            /\ \A i, j \in 1 .. Len(raw_input) : i < j => e[i] < e[j]
            /\ Len(raw_input) \in Nat /\ Len(plain) \in Nat
        BY <2>7, <2>8, <2>10
      <3>2. QED
        BY <2>9, <3>1, EmbeddedIsPart, SMTT(20)
    <2>12. QED
      BY <2>11 DEF RawInOrder
  <1>5. QED
    BY <1>1, <1>2, <1>3, <1>4, MuxTypeOK, DecoderIsInStep, PTL DEF Spec


-----------------------------------------------------------------------------
(* Frames as a queue. *)

\* Only the last frame can be unfinished, and nothing happens in the pty once
\* its end has been read.
Closing ==
    /\ \A n \in DOMAIN expected :
           n < Len(expected) => End(expected[n]) <= written
    /\ eof # "no" => ~open /\ ~handling /\ read = written

LEMMA WriteChannelClosing ==
    ASSUME TypeOK, TypeOK', Layout, Closing, NEW c \in Channels,
           NEW d \in Payloads, WriteChannel(c, d)
    PROVE  Closing'
  <1>1. /\ open /\ written = Len(stream)
        /\ UNCHANGED <<open, handling, read, written, eof>>
    BY DEF WriteChannel, WriterIdle, loop, delivered
  <1>2. PICK new :
            /\ new = [at |-> Len(stream), channel |-> c, data |-> d]
            /\ \/ expected' = Append(expected, new)
               \/ expected' = expected
    BY DEF WriteChannel
  <1>3. /\ DOMAIN expected = 1 .. Len(expected) /\ Len(expected) \in Nat
        /\ \A n \in DOMAIN expected : End(expected[n]) <= written
    BY <1>1, FramesTyped DEF Layout, Written
  <1>4. ASSUME NEW n \in DOMAIN expected', n < Len(expected')
        PROVE  End(expected'[n]) <= written'
    <2>1. CASE expected' = expected
      BY <1>1, <1>3, <1>4, <2>1
    <2>2. CASE expected' = Append(expected, new)
      <3>1. expected \in Seq(frames) /\ expected' \in Seq(frames')
        BY DEF TypeOK
      <3>2. /\ Len(expected') = Len(expected) + 1
            /\ DOMAIN expected' = 1 .. Len(expected) + 1
            /\ \A m \in 1 .. Len(expected) : expected'[m] = expected[m]
        BY <1>3, <2>2, <3>1
      <3>3. n \in 1 .. Len(expected)
        BY <1>3, <1>4, <3>2
      <3>4. QED
        BY <1>1, <1>3, <3>2, <3>3
    <2>3. QED
      BY <1>2, <2>1, <2>2
  <1>5. QED
    BY <1>1, <1>4 DEF Closing

LEMMA NextClosing ==
    ASSUME TypeOK, TypeOK', Layout, Closing, [Next]_vars
    PROVE  Closing'
  <1>1. CASE \E c \in Channels, d \in Payloads : WriteChannel(c, d)
    BY <1>1, WriteChannelClosing
  <1>2. CASE \A c \in Channels, d \in Payloads : ~WriteChannel(c, d)
    <2>1. expected' = expected
      <3>1. ASSUME NEW text \in Texts, Write(text) PROVE expected' = expected
        BY <3>1 DEF Write
      <3>2. QED
        BY <1>2, <3>1, StreamStays
    <2>2. written <= written' /\ (~open => ~open' /\ written' = written)
      <3>1. CASE OsWrite
        <4>1. open /\ \E n : /\ n = Least(Capacity - (written - read),
                                          Len(stream) - written)
                             /\ n > 0 /\ written' = written + n
          BY <3>1 DEF OsWrite
        <4>2. PICK w \in Nat, r \in Nat, l \in Nat :
                  w = written /\ r = read /\ l = Len(stream)
          BY FramesTyped DEF TypeOK
        <4>3. PICK n : /\ n = Least(Capacity - (w - r), l - w)
                       /\ n > 0 /\ written' = w + n
          BY <4>1, <4>2
        <4>4. n \in Int
          BY <4>3, BoundAssumption DEF Least
        <4>5. w <= w + n
          BY <4>3, <4>4
        <4>6. QED
          BY <4>1, <4>2, <4>3, <4>5
      <3>2. CASE ~OsWrite
        <4>1. written' = written
          BY <1>2, <3>2
             DEF Next, Reads, Decode, Write, Close, OsRead, OsReadEnd,
                 ChannelByte, HeaderByte, HeaderComplete, HeaderBroken,
                 MatchByte, MismatchByte, RawByte, HandlerReturns, vars,
                 writer
        <4>2. ~open => ~open'
          BY <1>2, <3>2
             DEF Next, Reads, Decode, Write, WriterIdle, Close, OsRead,
                 OsReadEnd, ChannelByte, HeaderByte, HeaderComplete,
                 HeaderBroken, MatchByte, MismatchByte, RawByte,
                 HandlerReturns, vars, writer
        <4>3. QED
          BY <4>1, <4>2 DEF TypeOK
      <3>3. QED
        BY <3>1, <3>2
    <2>3. \A n \in DOMAIN expected' :
              n < Len(expected') => End(expected'[n]) <= written'
      <3>1. \A n \in DOMAIN expected : End(expected[n]) \in Nat
        BY FramesTyped, FrameParts
      <3>2. written \in Nat /\ written' \in Nat
        BY DEF TypeOK
      <3>3. QED
        BY <2>1, <2>2, <3>1, <3>2 DEF Closing
    <2>4. eof' # "no" => ~open' /\ ~handling' /\ read' = written'
      <3>1. CASE OsReadEnd
        BY <3>1 DEF OsReadEnd, writer, loop
      <3>2. CASE \E n \in 1 .. ReadSize : OsRead(n)
        <4>1. read # written
          <5>1. PICK n \in Nat : n > 0 /\ read + n <= written
            BY <3>2, BoundAssumption DEF OsRead
          <5>2. QED
            BY <5>1 DEF TypeOK
        <4>2. eof' = eof
          BY <3>2 DEF OsRead, delivered
        <4>3. QED
          BY <4>1, <4>2 DEF Closing
      <3>3. CASE ~OsReadEnd /\ \A n \in 1 .. ReadSize : ~OsRead(n)
        <4>1. eof' = eof /\ read' = read
          BY <1>2, <3>3
             DEF Next, Reads, Decode, Write, OsWrite, Close, ChannelByte,
                 HeaderByte, HeaderComplete, HeaderBroken, MatchByte,
                 MismatchByte, RawByte, HandlerReturns, Advance, vars, loop,
                 delivered
        <4>2. ~handling => ~handling'
          BY <1>2, <3>3
             DEF Next, Reads, Decode, Write, OsWrite, Close, ChannelByte,
                 HeaderByte, HeaderComplete, HeaderBroken, MatchByte,
                 MismatchByte, RawByte, HandlerReturns, Advance, vars, loop
        <4>3. QED
          BY <2>2, <4>1, <4>2 DEF Closing
      <3>4. QED
        BY <3>1, <3>2, <3>3
    <2>5. QED
      BY <2>3, <2>4 DEF Closing
  <1>3. QED
    BY <1>1, <1>2

\* The messages of a sequence of frames.
LEMMA MessagesTyped ==
    ASSUME NEW e \in Seq(FrameRecord)
    PROVE  LET messages == [n \in DOMAIN e |-> [channel |-> e[n].channel,
                                                data    |-> e[n].data]]
           IN  /\ messages \in Seq([channel : Byte, data : Seq(Byte)])
               /\ Len(messages) = Len(e) /\ Len(e) \in Nat
               /\ \A n \in 1 .. Len(e) :
                      messages[n] = [channel |-> e[n].channel,
                                     data    |-> e[n].data]
  <1> DEFINE D == [channel : Byte, data : Seq(Byte)]
  <1>1. DOMAIN e = 1 .. Len(e) /\ Len(e) \in Nat
    OBVIOUS
  <1>2. ASSUME NEW n \in 1 .. Len(e)
        PROVE  [channel |-> e[n].channel, data |-> e[n].data] \in D
    <2>1. e[n] \in FrameRecord
      BY <1>1
    <2>2. e[n].channel \in Byte /\ e[n].data \in Seq(Byte)
      BY <2>1, FrameParts
    <2>3. QED
      BY <2>2
  <1> HIDE DEF D
  <1>3. QED
    BY <1>1, <1>2 DEF D

LEMMA ExpectedTyped ==
    ASSUME TypeOK
    PROVE  /\ Expected \in Seq([channel : Byte, data : Seq(Byte)])
           /\ Len(Expected) = Len(expected)
           /\ \A n \in 1 .. Len(expected) :
                  Expected[n] = [channel |-> expected[n].channel,
                                 data    |-> expected[n].data]
  <1>1. expected \in Seq(FrameRecord)
    <2>1. expected \in Seq(frames) /\ frames \subseteq FrameRecord
      BY FramesTyped DEF TypeOK
    <2>2. QED
      BY <2>1, SeqMonotonic
  <1>2. QED
    BY <1>1, MessagesTyped DEF Expected

shown == <<Expected, channel_input, Sender, eof # "no">>

\* A write for a callback joins the queue.
LEMMA WriteChannelSends ==
    ASSUME TypeOK, TypeOK', NEW c \in Channels, NEW d \in Payloads,
           WriteChannel(c, d)
    PROVE  Queue!Next \/ UNCHANGED shown
  <1>1. PICK new : new = [at |-> Len(stream), channel |-> c, data |-> d]
    OBVIOUS
  <1>2. /\ open /\ UNCHANGED <<open, channel_input, eof>>
        /\ expected' = IF c \in Registered THEN Append(expected, new)
                                           ELSE expected
    BY <1>1 DEF WriteChannel, WriterIdle, delivered
  <1>3. Sender = "there" /\ Sender' = "there"
    BY <1>2 DEF Sender
  <1>4. CASE c \notin Registered
    <2>1. Expected' = Expected
      BY <1>2, <1>4 DEF Expected
    <2>2. QED
      BY <1>2, <1>3, <2>1 DEF shown
  <1>5. CASE c \in Registered
    <2> DEFINE D == [channel : Byte, data : Seq(Byte)]
               message == [channel |-> c, data |-> d]
    <2>1. /\ Expected \in Seq(D) /\ Len(Expected) = Len(expected)
          /\ \A n \in 1 .. Len(expected) :
                 Expected[n] = [channel |-> expected[n].channel,
                                data    |-> expected[n].data]
      BY ExpectedTyped
    <2>2. /\ Expected' \in Seq(D) /\ Len(Expected') = Len(expected')
          /\ \A n \in 1 .. Len(expected') :
                 Expected'[n] = [channel |-> expected'[n].channel,
                                 data    |-> expected'[n].data]
      <3>1. expected' \in Seq(FrameRecord)
        <4>1. expected' \in Seq(frames') /\ frames' \subseteq FrameRecord
          BY DEF TypeOK, FrameRecord
        <4>2. QED
          BY <4>1, SeqMonotonic
      <3>2. QED
        BY <3>1, MessagesTyped DEF Expected
    <2>3. /\ Len(expected') = Len(expected) + 1 /\ Len(expected) \in Nat
          /\ \A n \in 1 .. Len(expected) : expected'[n] = expected[n]
          /\ expected'[Len(expected) + 1] = new
      <3>1. expected \in Seq(frames) /\ expected' \in Seq(frames')
            /\ expected' = Append(expected, new)
        BY <1>2, <1>5 DEF TypeOK
      <3>2. QED
        BY <3>1
    <2>4. message \in D /\ message \in [channel : Registered, data : Payloads]
      BY <1>5, DataParts
    <2>5. new.channel = c /\ new.data = d
      BY <1>1
    <2> HIDE DEF D
    <2>6. /\ Append(Expected, message) \in Seq(D)
          /\ Len(Append(Expected, message)) = Len(Expected) + 1
          /\ \A n \in 1 .. Len(Expected) :
                 Append(Expected, message)[n] = Expected[n]
          /\ Append(Expected, message)[Len(Expected) + 1] = message
      <3> HIDE DEF message
      <3>1. QED
        BY <2>1, <2>4, AppendProperties
    <2>7. \A n \in 1 .. Len(expected) + 1 :
              Expected'[n] = Append(Expected, message)[n]
      <3>1. ASSUME NEW n \in 1 .. Len(expected)
            PROVE  Expected'[n] = Append(Expected, message)[n]
        BY <2>1, <2>2, <2>3, <2>6
      <3>2. Expected'[Len(expected) + 1]
                = Append(Expected, message)[Len(expected) + 1]
        BY <2>1, <2>2, <2>3, <2>5, <2>6
      <3>3. PICK l \in Nat : l = Len(expected)
        BY <2>3
      <3>4. \A n \in 1 .. l + 1 : n \in 1 .. l \/ n = l + 1
        BY <3>3
      <3>5. QED
        BY <3>1, <3>2, <3>3, <3>4
    <2>8. Expected' = Append(Expected, message)
      <3> HIDE DEF message
      <3>1. QED
        BY <2>1, <2>2, <2>3, <2>6, <2>7, SeqEqual
    <2>9. Queue!Sends(message)
      BY <1>2, <1>3, <2>8 DEF Queue!Sends
    <2>10. QED
      BY <2>4, <2>9 DEF Queue!Next
  <1>6. QED
    BY <1>4, <1>5


\* A callback takes the oldest message that has not been received.
LEMMA ChannelByteDequeues ==
    ASSUME TypeOK, TypeOK', Layout, Separable, Reading, FramesArriveWhole,
           Received, Closing, ChannelByte
    PROVE  Queue!Next \/ UNCHANGED shown
  <1>1. /\ handling /\ UNCHANGED <<open, written, stream, expected, eof>>
    BY DEF ChannelByte, Advance, writer
  <1>2. eof = "no"
    BY <1>1 DEF Closing
  <1>3. Expected' = Expected /\ Sender' = Sender
    BY <1>1 DEF Expected, Sender
  <1>4. CASE channel_input' = channel_input
    BY <1>1, <1>3, <1>4 DEF shown
  <1>5. CASE channel_input' # channel_input
    <2> DEFINE k == Len(channel_input)
    <2>1. Received'
      BY <1>5, DeliveryIsNext
    <2>2. PICK input : channel_input' = Append(channel_input, input)
      BY <1>5 DEF ChannelByte
    <2>3. k \in Nat /\ Len(channel_input') = k + 1
          /\ channel_input'[k + 1] = input
      <3>1. k \in Nat /\ Len(channel_input') = k + 1
        BY <2>2 DEF TypeOK
      <3>2. QED
        BY <2>2, <3>1 DEF TypeOK
    <2>4. /\ k + 1 <= Len(expected) /\ k + 1 \in 1 .. Len(expected)
          /\ input = [channel |-> expected[k + 1].channel,
                      data    |-> expected[k + 1].data]
      <3>1. Len(expected) \in Nat
        BY FramesTyped
      <3>2. QED
        BY <1>1, <2>1, <2>3, <3>1 DEF Received
    <2>5. Len(Expected) = Len(expected) /\ Expected[k + 1] = input
      BY <2>4, ExpectedTyped
    <2>6. k < Len(Expected)
      BY <2>3, <2>4, <2>5, FramesTyped
    <2>7. Queue!Delivers
      BY <1>1, <1>2, <1>3, <2>2, <2>5, <2>6 DEF Queue!Delivers
    <2>8. QED
      BY <2>7 DEF Queue!Next
  <1>6. QED
    BY <1>4, <1>5

\* When the end is read, what has been written has been read and decoded.
LEMMA OsReadEndEnds ==
    ASSUME TypeOK, Layout, FramesArriveWhole, Received, Closing, OsReadEnd
    PROVE  Queue!Next
  <1>1. /\ ~handling /\ ~open /\ read = written /\ pos = read
        /\ eof = "no" /\ eof' # "no"
        /\ UNCHANGED <<open, written, stream, expected, channel_input>>
    BY DEF OsReadEnd, TypeOK, writer
  <1>2. Expected' = Expected /\ Sender' = Sender
    BY <1>1 DEF Expected, Sender
  <1>3. /\ Len(Expected) = Len(expected) /\ Len(expected) \in Nat
        /\ Len(channel_input) \in Nat /\ Len(channel_input) <= Len(expected)
        /\ DOMAIN expected = 1 .. Len(expected)
    BY ExpectedTyped, FramesTyped DEF Received, TypeOK
  <1>4. \A n \in 1 .. Len(expected) :
            End(expected[n]) <= written => n <= Len(channel_input)
    BY <1>1, <1>3 DEF FramesArriveWhole
  <1>5. CASE written < Len(stream)
    <2>1. Len(expected) <= Len(channel_input) + 1
      <3>1. CASE Len(expected) > 1
        <4>1. Len(expected) - 1 \in 1 .. Len(expected)
              /\ Len(expected) - 1 < Len(expected)
          BY <1>3, <3>1
        <4>2. End(expected[Len(expected) - 1]) <= written
          BY <1>3, <4>1 DEF Closing
        <4>3. QED
          BY <1>3, <1>4, <4>1, <4>2
      <3>2. QED
        BY <1>3, <3>1
    <2>2. Sender = "stopped"
      BY <1>1, <1>5 DEF Sender
    <2>3. Queue!Ends
      BY <1>1, <1>2, <1>3, <2>1, <2>2 DEF Queue!Ends
    <2>4. QED
      BY <2>3 DEF Queue!Next
  <1>6. CASE written >= Len(stream)
    <2>1. Len(expected) = Len(channel_input)
      <3>1. CASE Len(expected) > 0
        <4>1. Len(expected) \in 1 .. Len(expected)
              /\ expected[Len(expected)] \in frames
          BY <1>3, <3>1, FramesTyped
        <4>2. End(expected[Len(expected)]) <= Len(stream)
              /\ End(expected[Len(expected)]) \in Nat
          BY <4>1, FramesTyped, FrameParts DEF Layout, Written
        <4>3. End(expected[Len(expected)]) <= written
          BY <1>6, <4>2, FramesTyped DEF TypeOK
        <4>4. QED
          BY <1>3, <1>4, <4>1, <4>3
      <3>2. QED
        BY <1>3, <3>1
    <2>2. Sender = "gone"
      BY <1>1, <1>6, FramesTyped DEF Sender, TypeOK
    <2>3. Queue!Ends
      BY <1>1, <1>2, <1>3, <2>1, <2>2 DEF Queue!Ends
    <2>4. QED
      BY <2>3 DEF Queue!Next
  <1>7. QED
    BY <1>5, <1>6, FramesTyped DEF TypeOK

LEMMA NextQueues ==
    ASSUME TypeOK, TypeOK', Layout, Separable, Reading, FramesArriveWhole,
           Received, Closing, [Next]_vars
    PROVE  Queue!Next \/ UNCHANGED shown
  <1>1. CASE \E c \in Channels, d \in Payloads : WriteChannel(c, d)
    BY <1>1, WriteChannelSends
  <1>2. CASE \E text \in Texts : Write(text)
    <2>1. open /\ UNCHANGED <<open, expected, channel_input, eof>>
      BY <1>2 DEF Write, WriterIdle, delivered
    <2>2. QED
      BY <2>1 DEF shown, Expected, Sender
  <1>3. CASE OsWrite
    <2>1. open /\ UNCHANGED <<open, expected, channel_input, eof>>
      BY <1>3 DEF OsWrite, delivered
    <2>2. QED
      BY <2>1 DEF shown, Expected, Sender
  <1>4. CASE Close
    <2>1. /\ open /\ ~open' /\ UNCHANGED <<expected, channel_input, eof>>
      BY <1>4 DEF Close, delivered
    <2>2. Expected' = Expected
      BY <2>1 DEF Expected
    <2>3. Sender = "there" /\ Sender' \in {"gone", "stopped"}
      BY <2>1 DEF Sender
    <2>4. Queue!Leaves
      BY <2>1, <2>2, <2>3 DEF Queue!Leaves
    <2>5. QED
      BY <2>4 DEF Queue!Next
  <1>5. CASE OsReadEnd
    BY <1>5, OsReadEndEnds
  <1>6. CASE ChannelByte
    BY <1>6, ChannelByteDequeues
  <1>7. ASSUME \/ \E n \in 1 .. ReadSize : OsRead(n)
               \/ HeaderByte \/ HeaderComplete \/ HeaderBroken
               \/ MatchByte \/ MismatchByte \/ RawByte \/ HandlerReturns
               \/ UNCHANGED vars
        PROVE  UNCHANGED shown
    <2>1. UNCHANGED <<open, written, stream, expected, channel_input, eof>>
      BY <1>7 DEF OsRead, HeaderByte, HeaderComplete, HeaderBroken, MatchByte,
         MismatchByte, RawByte, HandlerReturns, vars, writer, delivered
    <2>2. QED
      BY <2>1 DEF shown, Expected, Sender
  <1>8. QED
    BY <1>1, <1>2, <1>3, <1>4, <1>5, <1>6, <1>7 DEF Next, Reads, Decode

\* For frames the pty is a queue from write_channel to the callbacks that ends
\* after its last message, whatever text runs through it, whatever the frames
\* contain and however the kernel cuts them.
THEOREM FramesAreQueued == Separable /\ Spec => ImplementsQueue
  <1>1. Init => Queue!Init
    <2>1. SUFFICES ASSUME Init PROVE Queue!Init
      OBVIOUS
    <2>2. expected = <<>> /\ channel_input = <<>> /\ open /\ eof = "no"
      BY <2>1 DEF Init
    <2>3. Expected = <<>>
      BY <2>2 DEF Expected
    <2>4. QED
      BY <2>2, <2>3 DEF Queue!Init, Sender
  <1>2. Init => Closing
    <2>1. SUFFICES ASSUME Init PROVE Closing
      OBVIOUS
    <2>2. DOMAIN expected = {} /\ eof = "no"
      BY <2>1 DEF Init
    <2>3. QED
      BY <2>2 DEF Closing
  <1>3. TypeOK /\ TypeOK' /\ Layout /\ Closing /\ [Next]_vars => Closing'
    BY NextClosing
  <1>4. Spec => []Closing
    BY <1>2, <1>3, MuxTypeOK, StreamIsLaidOut, PTL DEF Spec
  <1>5. Separable => Separable'
    BY DEF Separable
  <1>6. /\ Separable /\ TypeOK /\ TypeOK' /\ InStep /\ FramesArriveWhole
        /\ Received /\ Closing /\ [Next]_vars
        => [Queue!Next]_<<Expected, channel_input, Sender, eof # "no">>
    BY NextQueues DEF InStep, shown
  <1>7. QED
    BY <1>1, <1>4, <1>5, <1>6, MuxTypeOK, DecoderIsInStep, Arrivals, PTL
       DEF Spec, ImplementsQueue, Queue!Spec
=============================================================================
