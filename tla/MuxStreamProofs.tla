-------------------------- MODULE MuxStreamProofs --------------------------
(***************************************************************************)
(* Theorems about MuxFDIO that relate the state of the decoder to the      *)
(* stream it reads: where frames lie in the stream, and what the decoder   *)
(* collects as long as the delimiter is written by write_channel only.     *)
(***************************************************************************)
EXTENDS MuxFDIOProofs, WellFoundedInduction

-----------------------------------------------------------------------------
(* Induction on natural numbers, as a fact about sets. *)

Below == OpToRel(<, Nat)

LEMMA LeastElement ==
    ASSUME NEW T \in SUBSET Nat, T # {}
    PROVE  \E x \in T : \A y \in T : x <= y
  <1>1. IsWellFoundedOn(Below, Nat)
    BY NatLessThanWellFounded DEF Below
  <1>2. PICK x \in T : \A y \in T : ~(<<y, x>> \in Below)
    BY <1>1, WFMin
  <1>3. \A i, j \in Nat : i < j => <<i, j>> \in Below
    BY DEF Below, OpToRel
  <1>4. ASSUME NEW y \in T PROVE x <= y
    <2>1. x \in Nat /\ y \in Nat
      OBVIOUS
    <2>2. ~(y < x)
      BY <1>2, <1>3, <2>1, Zenon
    <2>3. QED
      BY <2>1, <2>2
  <1>5. QED
    BY <1>4

LEMMA Induction ==
    ASSUME NEW S \in SUBSET Nat, 0 \in S, \A n \in S : n + 1 \in S
    PROVE  S = Nat
  <1>1. SUFFICES ASSUME Nat \ S # {} PROVE FALSE
    OBVIOUS
  <1>2. PICK x \in Nat \ S : \A y \in Nat \ S : x <= y
    BY <1>1, LeastElement
  <1>3. x - 1 \in Nat /\ x - 1 \notin Nat \ S
    BY <1>2
  <1>4. QED
    BY <1>3

-----------------------------------------------------------------------------
(* What IsPartOf computes. *)

\* f is the function that IsPartOf defines, up to m.
Counts(s, t, f, m) ==
    f = [i \in 0 .. m |->
           IF i = 0 THEN 0
           ELSE LET n == f[i - 1] IN
                IF n < Len(s) /\ s[n + 1] = t[i] THEN n + 1 ELSE n]

LEMMA CountsExists ==
    ASSUME NEW s, NEW t, NEW k \in Nat PROVE \E f : Counts(s, t, f, k)
  <1> DEFINE S == {m \in Nat : \E f : Counts(s, t, f, m)}
  <1>1. 0 \in S
    <2>1. Counts(s, t, [i \in 0 .. 0 |-> 0], 0)
      BY DEF Counts
    <2>2. QED
      BY <2>1
  <1>2. ASSUME NEW m \in S PROVE m + 1 \in S
    <2>1. PICK f : Counts(s, t, f, m)
      OBVIOUS
    <2> DEFINE n == f[m]
               next == IF n < Len(s) /\ s[n + 1] = t[m + 1] THEN n + 1 ELSE n
               h == [i \in 0 .. m + 1 |-> IF i <= m THEN f[i] ELSE next]
    <2>2. ASSUME NEW i \in 0 .. m + 1
          PROVE  h[i] = IF i = 0 THEN 0
                        ELSE LET c == h[i - 1] IN
                             IF c < Len(s) /\ s[c + 1] = t[i] THEN c + 1 ELSE c
      <3>1. CASE i <= m
        <4>1. i \in 0 .. m /\ h[i] = f[i] /\ (i # 0 => h[i - 1] = f[i - 1])
          BY <3>1
        <4>2. f[i] = IF i = 0 THEN 0
                     ELSE LET c == f[i - 1] IN
                          IF c < Len(s) /\ s[c + 1] = t[i] THEN c + 1 ELSE c
          BY <2>1, <4>1 DEF Counts
        <4>3. QED
          <5> HIDE DEF h
          <5>1. QED
            BY <4>1, <4>2
      <3>2. CASE i = m + 1
        BY <3>2
      <3>3. QED
        BY <3>1, <3>2
    <2>3. Counts(s, t, h, m + 1)
      <3> HIDE DEF next
      <3>1. QED
        BY <2>2 DEF Counts
    <2>4. QED
      BY <2>3
  <1>3. S = Nat
    <2> HIDE DEF S
    <2>1. S \in SUBSET Nat
      BY DEF S
    <2>2. QED
      BY <1>1, <1>2, <2>1, Induction
  <1>4. QED
    BY <1>3

\* Counting greedily finds as much of s as any embedding of s in t does.
LEMMA EmbeddingCounts ==
    ASSUME NEW s, NEW t, Len(s) \in Nat, Len(t) \in Nat,
           NEW g \in [1 .. Len(s) -> 1 .. Len(t)],
           \A i, j \in 1 .. Len(s) : i < j => g[i] < g[j],
           \A i \in 1 .. Len(s) : s[i] = t[g[i]],
           NEW f, Counts(s, t, f, Len(t))
    PROVE  f[Len(t)] = Len(s)
  <1> DEFINE Found(m) == /\ f[m] \in 0 .. Len(s)
                         /\ \A n \in 1 .. Len(s) : g[n] <= m => n <= f[m]
             S == {m \in Nat : m <= Len(t) => Found(m)}
  <1>1. 0 \in S
    BY DEF Counts
  <1>2. ASSUME NEW m \in S PROVE m + 1 \in S
    <2>1. SUFFICES ASSUME m + 1 <= Len(t) PROVE Found(m + 1)
      OBVIOUS
    <2> DEFINE c == f[m]
    <2>2. Found(m) /\ c \in Nat
      BY <2>1
    <2>3. f[m + 1] = IF c < Len(s) /\ s[c + 1] = t[m + 1] THEN c + 1 ELSE c
      BY <2>1 DEF Counts
    <2>4. f[m + 1] \in 0 .. Len(s) /\ c <= f[m + 1]
      BY <2>2, <2>3
    <2>5. ASSUME NEW n \in 1 .. Len(s), g[n] <= m + 1 PROVE n <= f[m + 1]
      <3>1. CASE g[n] <= m
        BY <2>2, <2>4, <3>1
      <3>2. CASE g[n] = m + 1
        <4>1. n - 1 <= c
          <5>1. CASE n = 1
            BY <2>2, <5>1
          <5>2. CASE n > 1
            <6>1. n - 1 \in 1 .. Len(s) /\ g[n - 1] < g[n]
              BY <5>2
            <6>2. g[n - 1] <= m
              BY <3>2, <6>1
            <6>3. QED
              BY <2>2, <6>1, <6>2
          <5>3. QED
            BY <5>1, <5>2
        <4>2. CASE n <= c
          BY <2>2, <2>4, <4>2
        <4>3. CASE n = c + 1
          <5>1. c < Len(s) /\ s[c + 1] = t[m + 1]
            BY <2>2, <3>2, <4>3
          <5>2. QED
            BY <2>3, <4>3, <5>1
        <4>4. QED
          BY <2>2, <4>1, <4>2, <4>3
      <3>3. QED
        BY <2>5, <3>1, <3>2
    <2>6. QED
      BY <2>4, <2>5
  <1>3. S = Nat
    <2> HIDE DEF S
    <2>1. S \in SUBSET Nat
      BY DEF S
    <2>2. QED
      BY <1>1, <1>2, <2>1, Induction
  <1>4. Found(Len(t))
    BY <1>3
  <1>5. CASE Len(s) = 0
    BY <1>4, <1>5
  <1>6. CASE Len(s) > 0
    <2>1. Len(s) \in 1 .. Len(s) /\ g[Len(s)] <= Len(t)
      BY <1>6
    <2>2. QED
      BY <1>4, <2>1
  <1>7. QED
    BY <1>5, <1>6

\* A sequence that can be embedded in another is part of it.
LEMMA EmbeddedIsPart ==
    ASSUME NEW s, NEW t, Len(s) \in Nat, Len(t) \in Nat,
           NEW g \in [1 .. Len(s) -> 1 .. Len(t)],
           \A i, j \in 1 .. Len(s) : i < j => g[i] < g[j],
           \A i \in 1 .. Len(s) : s[i] = t[g[i]]
    PROVE  IsPartOf(s, t)
  <1> DEFINE f == CHOOSE f : Counts(s, t, f, Len(t))
  <1>1. Counts(s, t, f, Len(t))
    BY CountsExists
  <1>2. f[Len(t)] = Len(s)
    <2> HIDE DEF f
    <2>1. QED
      BY <1>1, EmbeddingCounts
  <1>3. QED
    BY <1>2 DEF IsPartOf, Counts

-----------------------------------------------------------------------------
(* Where frames lie in the stream. *)

FrameRecord == [at : Nat, channel : Channels, data : Payloads]

\* The bytes of a frame are where it says.
Written(f) ==
    /\ End(f) <= Len(stream)
    /\ \A i \in 1 .. Len(Magic) : stream[f.at + i] = Magic[i]
    /\ stream[Body(f) - 1] = f.channel
    /\ stream[Body(f)] = Len(f.data)
    /\ \A i \in 1 .. Len(f.data) : stream[Body(f) + i] = f.data[i]

\* Frames do not overlap, and `expected' has those for callbacks in order.
Layout ==
    /\ \A f \in frames : Written(f)
    /\ \A f, g \in frames : f = g \/ End(f) <= g.at \/ End(g) <= f.at
    /\ \A n \in DOMAIN expected : expected[n].channel \in Registered
    /\ \A f \in frames : f.channel \in Registered =>
                             \E n \in DOMAIN expected : expected[n] = f
    /\ \A m, n \in DOMAIN expected :
           m < n => End(expected[m]) <= expected[n].at

LEMMA MagicType == Magic \in Seq(Byte)
  BY MagicAssumption

LEMMA HeaderLength == HeaderSize = Len(Magic) + 2
  BY DEF HeaderSize, HeaderRest

LEMMA DataParts ==
    ASSUME NEW c \in Channels, NEW d \in Payloads
    PROVE  /\ c \in Byte /\ c # 0
           /\ d \in Seq(Byte) /\ Len(d) \in Byte /\ Len(d) \in Nat
  <1>1. c \in Byte \ {0}
    BY ChannelAssumption
  <1>2. d \in Seq(Byte) /\ Len(d) \in Byte
    BY DataAssumption
  <1>3. QED
    BY <1>1, <1>2, ByteIsNat

LEMMA FrameParts ==
    ASSUME NEW f \in FrameRecord
    PROVE  /\ f.at \in Nat /\ f.channel \in Byte /\ f.channel # 0
           /\ f.data \in Seq(Byte) /\ Len(f.data) \in Byte
           /\ Len(f.data) \in Nat
           /\ Body(f) \in Nat /\ End(f) \in Nat
           /\ f.at + Len(Magic) + 2 = Body(f)
           /\ Body(f) + Len(f.data) = End(f)
           /\ f.at < Body(f) /\ Body(f) <= End(f)
  <1>1. f.at \in Nat /\ f.channel \in Channels /\ f.data \in Payloads
    BY DEF FrameRecord
  <1>2. /\ f.channel \in Byte /\ f.channel # 0 /\ f.data \in Seq(Byte)
        /\ Len(f.data) \in Byte /\ Len(f.data) \in Nat
    BY <1>1, DataParts
  <1>3. QED
    BY <1>1, <1>2, MagicLength DEF Body, End, HeaderSize, HeaderRest

LEMMA FramePositions ==
    ASSUME NEW f \in FrameRecord, NEW n \in Nat, End(f) <= n
    PROVE  /\ \A i \in 1 .. Len(Magic) : f.at + i \in 1 .. n
           /\ Body(f) - 1 \in 1 .. n /\ Body(f) \in 1 .. n
           /\ \A i \in 1 .. Len(f.data) : Body(f) + i \in 1 .. n
  <1>1. PICK at \in Nat, size \in Nat, body \in Nat, length \in Nat :
            /\ at = f.at /\ size = Len(Magic) /\ body = Body(f)
            /\ length = Len(f.data)
    BY FrameParts, MagicLength
  <1>2. at + size + 2 = body /\ body + length <= n
    BY <1>1, FrameParts
  <1>3. \A i \in 1 .. size : at + i \in 1 .. n
    BY <1>2
  <1>4. body - 1 \in 1 .. n /\ body \in 1 .. n
    BY <1>2
  <1>5. \A i \in 1 .. length : body + i \in 1 .. n
    BY <1>2
  <1>6. QED
    BY <1>1, <1>3, <1>4, <1>5

LEMMA FramesTyped ==
    ASSUME TypeOK
    PROVE  /\ frames \subseteq FrameRecord
           /\ DOMAIN expected = 1 .. Len(expected) /\ Len(expected) \in Nat
           /\ \A n \in DOMAIN expected : expected[n] \in frames
           /\ DOMAIN stream = 1 .. Len(stream) /\ Len(stream) \in Nat
  BY DEF TypeOK, FrameRecord

LEMMA FrameBytes ==
    ASSUME NEW c \in Channels, NEW d \in Payloads
    PROVE  LET bytes == Frame(c, d) IN
           /\ bytes \in Seq(Byte)
           /\ Len(bytes) = HeaderSize + Len(d)
           /\ \A i \in 1 .. Len(Magic) : bytes[i] = Magic[i]
           /\ bytes[HeaderSize - 1] = c
           /\ bytes[HeaderSize] = Len(d)
           /\ \A i \in 1 .. Len(d) : bytes[HeaderSize + i] = d[i]
  <1> DEFINE rest == <<c, Len(d)>>
             head == Magic \o rest
  <1>1. c \in Byte /\ Len(d) \in Byte /\ d \in Seq(Byte) /\ Len(d) \in Nat
    BY DataParts
  <1>2. rest \in Seq(Byte) /\ Len(rest) = 2 /\ rest[1] = c /\ rest[2] = Len(d)
    BY <1>1
  <1>3. /\ head \in Seq(Byte) /\ Len(head) = Len(Magic) + 2
        /\ \A i \in 1 .. Len(Magic) + 2 :
               head[i] = IF i <= Len(Magic) THEN Magic[i]
                                            ELSE rest[i - Len(Magic)]
    <2> HIDE DEF rest
    <2>1. Magic \in Seq(Byte)
      BY MagicType
    <2>2. rest \in Seq(Byte)
      BY <1>2
    <2>3. /\ head \in Seq(Byte) /\ Len(head) = Len(Magic) + Len(rest)
          /\ \A i \in 1 .. Len(Magic) + Len(rest) :
                 head[i] = IF i <= Len(Magic) THEN Magic[i]
                                              ELSE rest[i - Len(Magic)]
      BY <2>1, <2>2, ConcatProperties, Zenon
    <2> HIDE DEF head
    <2>4. QED
      BY <1>2, <2>3
  <1>4. HeaderSize = Len(Magic) + 2
    BY DEF HeaderSize, HeaderRest
  <1>5. head[HeaderSize - 1] = c /\ head[HeaderSize] = Len(d)
    <2>1. head[Len(Magic) + 1] = rest[1] /\ head[Len(Magic) + 2] = rest[2]
      <3> HIDE DEF head, rest
      <3>1. QED
        BY <1>3, MagicLength
    <2> HIDE DEF head
    <2>2. QED
      BY <1>2, <1>4, <2>1, MagicLength
  <1>6. /\ head \o d \in Seq(Byte) /\ Len(head \o d) = HeaderSize + Len(d)
        /\ \A i \in 1 .. HeaderSize + Len(d) :
               (head \o d)[i] = IF i <= HeaderSize THEN head[i]
                                                   ELSE d[i - HeaderSize]
    <2> HIDE DEF head
    <2>1. Len(head) = HeaderSize /\ head \in Seq(Byte)
      BY <1>3, <1>4
    <2>2. QED
      BY <1>1, <2>1, ConcatProperties
  <1>7. Frame(c, d) = head \o d
    BY DEF Frame
  <1> DEFINE bytes == head \o d
  <1> HIDE DEF head, bytes
  <1>8. /\ bytes \in Seq(Byte) /\ Len(bytes) = HeaderSize + Len(d)
        /\ \A i \in 1 .. HeaderSize + Len(d) :
               bytes[i] = IF i <= HeaderSize THEN head[i]
                                             ELSE d[i - HeaderSize]
    BY <1>6 DEF bytes
  <1>9. \A i \in 1 .. Len(Magic) : bytes[i] = Magic[i]
    BY <1>1, <1>3, <1>4, <1>8, MagicLength
  <1>10. bytes[HeaderSize - 1] = c /\ bytes[HeaderSize] = Len(d)
    BY <1>1, <1>4, <1>5, <1>8, MagicLength
  <1>11. \A i \in 1 .. Len(d) : bytes[HeaderSize + i] = d[i]
    BY <1>1, <1>4, <1>8, MagicLength
  <1>12. QED
    BY <1>7, <1>8, <1>9, <1>10, <1>11 DEF bytes

\* What is appended leaves what is there where it is.
LEMMA AppendedStream ==
    ASSUME TypeOK, NEW data \in Seq(Byte), stream' = stream \o data
    PROVE  /\ Len(stream') = Len(stream) + Len(data) /\ Len(data) \in Nat
           /\ \A p \in 1 .. Len(stream) : stream'[p] = stream[p]
           /\ \A i \in 1 .. Len(data) : stream'[Len(stream) + i] = data[i]
  <1>1. stream \in Seq(Byte) /\ Len(stream) \in Nat /\ Len(data) \in Nat
    BY LenProperties, Zenon DEF TypeOK
  <1>2. /\ Len(stream') = Len(stream) + Len(data)
        /\ \A i \in 1 .. Len(stream) + Len(data) :
               stream'[i] = IF i <= Len(stream) THEN stream[i]
                                                ELSE data[i - Len(stream)]
    BY <1>1, ConcatProperties, Zenon
  <1>3. QED
    BY <1>1, <1>2

LEMMA WrittenStays ==
    ASSUME TypeOK, NEW data \in Seq(Byte), stream' = stream \o data,
           NEW f \in frames, Written(f)
    PROVE  Written(f)'
  <1>1. f \in FrameRecord
    BY FramesTyped
  <1>2. \A p \in 1 .. Len(stream) : stream'[p] = stream[p]
    BY AppendedStream
  <1>3. Len(stream) <= Len(stream') /\ Len(stream') \in Nat
    BY AppendedStream, FramesTyped
  <1>4. /\ \A i \in 1 .. Len(Magic) : f.at + i \in 1 .. Len(stream)
        /\ Body(f) - 1 \in 1 .. Len(stream) /\ Body(f) \in 1 .. Len(stream)
        /\ \A i \in 1 .. Len(f.data) : Body(f) + i \in 1 .. Len(stream)
    <2>1. Len(stream) \in Nat /\ End(f) <= Len(stream)
      BY FramesTyped DEF Written
    <2>2. QED
      BY <1>1, <2>1, FramePositions
  <1>5. End(f) <= Len(stream')
    BY <1>1, <1>3, FrameParts, FramesTyped DEF Written
  <1>6. QED
    BY <1>2, <1>4, <1>5 DEF Written

LEMMA InitLayout == Init => Layout
  BY DEF Init, Layout

LEMMA WriteLayout ==
    ASSUME TypeOK, Layout, NEW text \in Texts, Write(text)
    PROVE  Layout'
  <1>1. stream' = stream \o text /\ text \in Seq(Byte)
        /\ UNCHANGED <<frames, expected>>
    BY DataAssumption DEF Write
  <1>2. \A f \in frames : Written(f)'
    BY <1>1, WrittenStays DEF Layout
  <1>3. QED
    BY <1>1, <1>2 DEF Layout

LEMMA NewFrameWritten ==
    ASSUME TypeOK, NEW c \in Channels, NEW d \in Payloads,
           stream' = stream \o Frame(c, d),
           NEW new, new = [at |-> Len(stream), channel |-> c, data |-> d]
    PROVE  Written(new)'
  <1>1. /\ new \in FrameRecord
        /\ new.at = Len(stream) /\ new.channel = c /\ new.data = d
    BY FramesTyped DEF FrameRecord
  <1>2. /\ Body(new) = Len(stream) + HeaderSize
        /\ End(new) = Len(stream) + HeaderSize + Len(d)
        /\ Len(stream) \in Nat /\ Len(d) \in Nat
    BY <1>1, FramesTyped, DataParts DEF Body, End
  <1>3. HeaderSize = Len(Magic) + 2 /\ Len(Magic) \in Nat /\ Len(Magic) > 0
    BY HeaderLength, MagicLength
  <1> DEFINE bytes == Frame(c, d)
  <1>4. /\ bytes \in Seq(Byte) /\ Len(bytes) = HeaderSize + Len(d)
        /\ \A i \in 1 .. Len(Magic) : bytes[i] = Magic[i]
        /\ bytes[HeaderSize - 1] = c
        /\ bytes[HeaderSize] = Len(d)
        /\ \A i \in 1 .. Len(d) : bytes[HeaderSize + i] = d[i]
    BY FrameBytes
  <1>5. stream' = stream \o bytes
    OBVIOUS
  <1> HIDE DEF bytes
  <1>6. /\ Len(stream') = Len(stream) + Len(bytes)
        /\ \A i \in 1 .. Len(bytes) : stream'[Len(stream) + i] = bytes[i]
    BY <1>4, <1>5, AppendedStream
  <1>7. End(new) <= Len(stream')
    BY <1>2, <1>3, <1>4, <1>6
  <1>8. \A i \in 1 .. Len(Magic) : stream'[new.at + i] = Magic[i]
    <2>1. \A i \in 1 .. Len(Magic) : i \in 1 .. Len(bytes)
      BY <1>2, <1>3, <1>4
    <2>2. QED
      BY <1>1, <1>4, <1>6, <2>1, Zenon
  <1>9. stream'[Body(new) - 1] = new.channel
        /\ stream'[Body(new)] = Len(new.data)
    <2>1. HeaderSize - 1 \in 1 .. Len(bytes) /\ HeaderSize \in 1 .. Len(bytes)
          /\ Len(stream) + (HeaderSize - 1) = Body(new) - 1
      BY <1>2, <1>3, <1>4
    <2>2. QED
      BY <1>1, <1>2, <1>4, <1>6, <2>1
  <1>10. ASSUME NEW i \in 1 .. Len(d) PROVE stream'[Body(new) + i] = d[i]
    <2>1. HeaderSize + i \in 1 .. Len(bytes)
          /\ Len(stream) + (HeaderSize + i) = Body(new) + i
      BY <1>2, <1>3, <1>4
    <2>2. QED
      BY <1>4, <1>6, <2>1
  <1>11. QED
    BY <1>1, <1>7, <1>8, <1>9, <1>10 DEF Written

LEMMA WriteChannelLayout ==
    ASSUME TypeOK, Layout, NEW c \in Channels, NEW d \in Payloads,
           WriteChannel(c, d)
    PROVE  Layout'
  <1>1. PICK new : new = [at |-> Len(stream), channel |-> c, data |-> d]
    OBVIOUS
  <1>2. /\ stream' = stream \o Frame(c, d)
        /\ frames' = frames \union {new}
        /\ expected' = IF c \in Registered THEN Append(expected, new)
                                           ELSE expected
    BY <1>1 DEF WriteChannel
  <1>3. new \in FrameRecord /\ new.at = Len(stream) /\ new.channel = c
    BY <1>1, FramesTyped DEF FrameRecord
  <1>4. \A f \in frames : Written(f)'
    <2>1. Frame(c, d) \in Seq(Byte)
      BY FrameBytes
    <2>2. QED
      BY <1>2, <2>1, WrittenStays DEF Layout
  <1>5. Written(new)'
    BY <1>1, <1>2, NewFrameWritten
  <1>6. \A f \in frames : f \in FrameRecord /\ End(f) <= new.at
    BY <1>3, FramesTyped DEF Layout, Written
  <1>7. \A f, g \in frames' : f = g \/ End(f) <= g.at \/ End(g) <= f.at
    BY <1>2, <1>6 DEF Layout
  <1>8. CASE c \notin Registered
    <2>1. expected' = expected
      BY <1>2, <1>8
    <2>2. QED
      <3>1. /\ \A n \in DOMAIN expected : expected[n].channel \in Registered
            /\ \A f \in frames' : f.channel \in Registered =>
                                     \E n \in DOMAIN expected : expected[n] = f
            /\ \A m, n \in DOMAIN expected :
                   m < n => End(expected[m]) <= expected[n].at
        BY <1>2, <1>3, <1>8 DEF Layout
      <3>2. QED
        BY <1>2, <1>4, <1>5, <1>7, <2>1, <3>1 DEF Layout
  <1>9. CASE c \in Registered
    <2>1. expected' = Append(expected, new)
      BY <1>2, <1>9
    <2>2. /\ DOMAIN expected' = 1 .. Len(expected) + 1
          /\ \A n \in DOMAIN expected : expected'[n] = expected[n]
          /\ expected'[Len(expected) + 1] = new
      <3>1. expected \in Seq(frames) /\ frames \subseteq frames'
            /\ new \in frames'
        BY <1>2 DEF TypeOK
      <3>2. expected \in Seq(frames')
        BY <3>1, SeqMonotonic
      <3>3. QED
        BY <2>1, <3>1, <3>2, AppendProperties
    <2>3. /\ DOMAIN expected = 1 .. Len(expected) /\ Len(expected) \in Nat
          /\ \A n \in DOMAIN expected : expected[n] \in frames
      BY FramesTyped
    <2>4. \A n \in DOMAIN expected' : expected'[n].channel \in Registered
      BY <1>3, <1>9, <2>2, <2>3 DEF Layout
    <2>5. \A f \in frames' : f.channel \in Registered =>
                                 \E n \in DOMAIN expected' : expected'[n] = f
      BY <1>2, <2>2, <2>3 DEF Layout
    <2>6. ASSUME NEW m \in DOMAIN expected', NEW n \in DOMAIN expected', m < n
          PROVE  End(expected'[m]) <= expected'[n].at
      <3>1. m \in DOMAIN expected /\ expected'[m] = expected[m]
        BY <2>2, <2>3, <2>6
      <3>2. CASE n \in DOMAIN expected
        BY <2>2, <2>6, <3>1, <3>2 DEF Layout
      <3>3. CASE n = Len(expected) + 1
        BY <1>6, <2>2, <2>3, <3>1, <3>3
      <3>4. QED
        BY <2>2, <2>3, <3>2, <3>3
    <2>7. QED
      BY <1>2, <1>4, <1>5, <1>7, <2>4, <2>5, <2>6 DEF Layout
  <1>10. QED
    BY <1>8, <1>9

\* Everything else leaves the stream and its history alone.
LEMMA StreamStays ==
    ASSUME [Next]_vars, \A text \in Texts : ~Write(text),
           \A c \in Channels, d \in Payloads : ~WriteChannel(c, d)
    PROVE  UNCHANGED <<stream, frames, expected, plain>>
  BY DEF Next, vars, writer, Reads, Decode, OsWrite, Close, OsRead, OsReadEnd,
         ChannelByte, HeaderByte, HeaderComplete, HeaderBroken, MatchByte,
         MismatchByte, RawByte, HandlerReturns

LEMMA NextLayout == TypeOK /\ Layout /\ [Next]_vars => Layout'
  <1> SUFFICES ASSUME TypeOK, Layout, [Next]_vars PROVE Layout'
    OBVIOUS
  <1>1. CASE \E text \in Texts : Write(text)
    BY <1>1, WriteLayout
  <1>2. CASE \E c \in Channels, d \in Payloads : WriteChannel(c, d)
    BY <1>2, WriteChannelLayout
  <1>3. CASE UNCHANGED <<stream, frames, expected, plain>>
    BY <1>3 DEF Layout, Written
  <1>4. QED
    BY <1>1, <1>2, <1>3, StreamStays

\* Every frame lies in the stream as it was written, no two overlap, and those
\* for callbacks are in the order in which they were written.
THEOREM StreamIsLaidOut == Spec => []Layout
  BY InitLayout, NextLayout, MuxTypeOK, PTL DEF Spec
-----------------------------------------------------------------------------
(* What the decoder's position in the stream has to do with the frame it is *)
(* reading.                                                                 *)

\* No callback is owed data.
Unread == active_channel \in {0} \union (Channels \ Registered)

\* The decoder has the delimiter of f and reads the rest of its header.
InHeader(f) ==
    /\ ReadingHeader /\ header_magic_check_next = 0
    /\ header_to_read = Body(f) - pos
    /\ header_to_read = 1 => /\ header_buffer # <<>>
                             /\ header_buffer[Len(header_buffer)] = f.channel

\* It reads the data of f, and holds what it has seen of it.
InData(f) ==
    /\ ReadingChannel /\ header_to_read = 0 /\ header_magic_check_next = 0
    /\ active_channel = f.channel
    /\ active_channel_buget = End(f) - pos
    /\ Len(active_channel_buffer) = pos - Body(f)
    /\ \A i \in 1 .. pos - Body(f) : active_channel_buffer[i] = f.data[i]

Reading ==
    \/ Unread /\ Searching
    \/ Unread /\ \E f \in frames : InHeader(f)
    \/ \E f \in frames : InData(f)

\* Some frame's delimiter is complete with the next byte.
Opens == \E f \in frames : f.at + Len(Magic) = pos + 1

LEMMA InitReading == Init => Reading
  BY DEF Init, Reading, Unread, Searching, ReadingChannel

LEMMA ReadingStays ==
    ASSUME Reading, frames \subseteq frames', UNCHANGED <<pos, search, payload>>
    PROVE  Reading'
  <1>1. CASE Unread /\ Searching
    BY <1>1 DEF Reading, Unread, Searching, ReadingChannel, search, payload
  <1>2. ASSUME Unread, NEW f \in frames, InHeader(f) PROVE Reading'
    <2>1. Unread' /\ InHeader(f)'
      BY <1>2 DEF Unread, InHeader, ReadingHeader, ReadingChannel, search,
         payload
    <2>2. QED
      BY <2>1 DEF Reading
  <1>3. ASSUME NEW f \in frames, InData(f) PROVE Reading'
    <2>1. InData(f)'
      BY <1>3 DEF InData, ReadingChannel, search, payload
    <2>2. QED
      BY <2>1 DEF Reading
  <1>4. QED
    BY <1>1, <1>2, <1>3 DEF Reading

LEMMA Modes ==
    ASSUME Reading
    PROVE  /\ Searching => Unread
           /\ ReadingHeader => Unread /\ \E f \in frames : InHeader(f)
           /\ ReadingChannel => \E f \in frames : InData(f)
           /\ ~Searching => header_magic_check_next = 0
  BY DEF Reading, InHeader, InData, Searching, ReadingHeader

\* The next byte of a frame's header or data.
LEMMA HeaderBytes ==
    ASSUME TypeOK, Layout, NEW f \in frames, InHeader(f)
    PROVE  /\ header_to_read = 2 => NextByte = f.channel
           /\ header_to_read = 1 => NextByte = Len(f.data) /\ pos + 1 = Body(f)
           /\ header_to_read \in {1, 2}
  <1>1. f \in FrameRecord /\ Written(f) /\ Body(f) \in Nat
    BY FramesTyped, FrameParts DEF Layout
  <1>2. /\ header_to_read \in {1, 2} /\ pos \in Nat
        /\ header_to_read = Body(f) - pos
    BY DEF InHeader, ReadingHeader, TypeOK, HeaderRest
  <1>3. CASE header_to_read = 2
    <2>1. pos + 1 = Body(f) - 1
      BY <1>1, <1>2, <1>3
    <2>2. QED
      BY <1>1, <1>3, <2>1 DEF NextByte, Written
  <1>4. CASE header_to_read = 1
    <2>1. pos + 1 = Body(f)
      BY <1>1, <1>2, <1>4
    <2>2. QED
      BY <1>1, <1>4, <2>1 DEF NextByte, Written
  <1>5. QED
    BY <1>2, <1>3, <1>4

LEMMA DataBytes ==
    ASSUME TypeOK, Layout, NEW f \in frames, InData(f)
    PROVE  LET n == pos - Body(f)
               buffer == Append(active_channel_buffer, NextByte)
           IN  /\ n \in Nat /\ n < Len(f.data) /\ pos < End(f)
               /\ Len(buffer) = n + 1
               /\ \A i \in 1 .. n + 1 : buffer[i] = f.data[i]
               /\ active_channel_buget = 1 =>
                      End(f) = pos + 1 /\ buffer = f.data
  <1> DEFINE n == pos - Body(f)
             buffer == Append(active_channel_buffer, NextByte)
  <1>0. /\ active_channel_buget \in Nat /\ active_channel_buget > 0
        /\ active_channel_buget = End(f) - pos
    <2>1. active_channel_buget \in Byte
      BY Zenon DEF TypeOK
    <2>2. QED
      BY <2>1, ByteIsNat DEF InData, ReadingChannel
  <1>1. /\ Written(f) /\ pos \in Nat /\ Body(f) \in Nat /\ End(f) \in Nat
        /\ Len(f.data) \in Nat /\ Body(f) + Len(f.data) = End(f)
        /\ f.data \in Seq(Byte)
    BY FramesTyped, FrameParts DEF Layout, TypeOK
  <1>2. /\ active_channel_buget \in Nat /\ active_channel_buget > 0
        /\ active_channel_buffer \in Seq(Byte) /\ NextByte \in Byte
    <2>1. pos + 1 \in 1 .. Len(stream)
      <3>1. active_channel_buget \in Nat /\ active_channel_buget > 0
            /\ active_channel_buget = End(f) - pos
        BY <1>0
      <3>2. Len(stream) \in Nat /\ End(f) <= Len(stream)
        BY <1>1, FramesTyped DEF Written
      <3>3. QED
        BY <1>1, <3>1, <3>2
    <2>2. QED
      <3>1. stream \in Seq(Byte) /\ active_channel_buffer \in Seq(Byte)
        BY DEF TypeOK
      <3>2. stream[pos + 1] \in Byte
        BY <2>1, <3>1
      <3>3. active_channel_buget \in Nat /\ active_channel_buget > 0
        BY <1>0
      <3>4. QED
        BY <3>1, <3>2, <3>3 DEF NextByte
  <1>3. active_channel_buget = End(f) - pos /\ Len(active_channel_buffer) = n
    BY DEF InData
  <1>4. n \in Nat /\ n < Len(f.data) /\ pos < End(f)
    <2>1. Len(active_channel_buffer) \in Nat
      BY <1>2
    <2>2. QED
      BY <1>1, <1>2, <1>3, <2>1
  <1>5. NextByte = f.data[n + 1]
    <2>1. n + 1 \in 1 .. Len(f.data) /\ Body(f) + (n + 1) = pos + 1
      BY <1>1, <1>4
    <2>2. stream[Body(f) + (n + 1)] = f.data[n + 1]
      <3> HIDE DEF n
      <3>1. QED
        BY <1>1, <2>1 DEF Written
    <2> HIDE DEF n
    <2>3. QED
      BY <2>1, <2>2 DEF NextByte
  <1>6. \A i \in 1 .. n : active_channel_buffer[i] = f.data[i]
    BY DEF InData
  <1> HIDE DEF n
  <1>7. /\ buffer \in Seq(Byte) /\ Len(buffer) = n + 1
        /\ \A i \in 1 .. n : buffer[i] = active_channel_buffer[i]
        /\ buffer[n + 1] = NextByte
    BY <1>2, <1>3, AppendProperties
  <1> HIDE DEF buffer
  <1>8. \A i \in 1 .. n + 1 : buffer[i] = f.data[i]
    BY <1>4, <1>5, <1>6, <1>7
  <1>9. ASSUME active_channel_buget = 1
        PROVE  End(f) = pos + 1 /\ buffer = f.data
    <2>1. End(f) = pos + 1 /\ Len(f.data) = n + 1
      <3>1. End(f) - pos = 1 /\ n = pos - Body(f)
        BY <1>3, <1>9 DEF n
      <3>2. QED
        BY <1>1, <3>1
    <2>2. QED
      BY <1>1, <1>4, <1>7, <1>8, <2>1, SeqEqual
  <1>10. QED
    BY <1>4, <1>7, <1>8, <1>9 DEF n, buffer

LEMMA HeaderByteReads ==
    ASSUME TypeOK, Layout, NEW f \in frames, InHeader(f), HeaderByte
    PROVE  InHeader(f)'
  <1>1. header_to_read = 2 /\ header_to_read' = 1 /\ pos' = pos + 1
        /\ header_to_read = Body(f) - pos
    BY HeaderBytes DEF HeaderByte, Advance, InHeader
  <1>2. NextByte = f.channel /\ NextByte \in Byte /\ header_buffer \in Seq(Byte)
    BY <1>1, HeaderBytes, NextByteType DEF HeaderByte, Advance, TypeOK
  <1>3. /\ header_buffer' # <<>>
        /\ header_buffer'[Len(header_buffer')] = f.channel
    <2>1. header_buffer' = Append(header_buffer, NextByte)
      BY DEF HeaderByte
    <2>2. QED
      BY <1>2, <2>1, AppendProperties
  <1>4. header_to_read' = Body(f) - pos'
    <2>1. f \in FrameRecord /\ Body(f) \in Nat /\ pos \in Nat
      BY FramesTyped, FrameParts DEF TypeOK
    <2>2. QED
      BY <1>1, <2>1
  <1>5. ReadingHeader' /\ header_magic_check_next' = 0
    BY <1>1 DEF InHeader, HeaderByte, ReadingHeader, ReadingChannel, payload
  <1>6. QED
    BY <1>3, <1>4, <1>5 DEF InHeader

\* What struct.unpack gets.
LEMMA HeaderEnds ==
    ASSUME TypeOK, Layout, NEW f \in frames, InHeader(f), header_to_read = 1,
           pos < read
    PROVE  LET header == Append(header_buffer, NextByte)
           IN  Len(header) = HeaderSize =>
                   /\ header[HeaderSize - 1] = f.channel
                   /\ header[HeaderSize] = Len(f.data)
  <1> DEFINE header == Append(header_buffer, NextByte)
  <1>1. NextByte = Len(f.data) /\ NextByte \in Byte
    BY HeaderBytes, NextByteType
  <1>2. header_buffer \in Seq(Byte) /\ header_buffer # <<>>
        /\ header_buffer[Len(header_buffer)] = f.channel
    BY DEF TypeOK, InHeader
  <1>3. Len(header_buffer) \in Nat /\ Len(header_buffer) > 0
    BY <1>2, EmptySeq
  <1>4. /\ Len(header) = Len(header_buffer) + 1
        /\ \A i \in 1 .. Len(header_buffer) : header[i] = header_buffer[i]
        /\ header[Len(header_buffer) + 1] = NextByte
    BY <1>1, <1>2, AppendProperties
  <1> HIDE DEF header
  <1>5. SUFFICES ASSUME Len(header) = HeaderSize
                 PROVE  /\ header[HeaderSize - 1] = f.channel
                        /\ header[HeaderSize] = Len(f.data)
    BY DEF header
  <1>6. HeaderSize - 1 = Len(header_buffer)
        /\ HeaderSize = Len(header_buffer) + 1
    BY <1>3, <1>4, <1>5
  <1>7. QED
    BY <1>1, <1>2, <1>3, <1>4, <1>6

LEMMA HeaderCompleteReads ==
    ASSUME TypeOK, Layout, NEW f \in frames, InHeader(f), HeaderComplete
    PROVE  InData(f)'
  <1> DEFINE header == Append(header_buffer, NextByte)
  <1>1. header_to_read = 1 /\ pos < read /\ Unpacks(header)
    BY DEF HeaderComplete, Advance
  <1>2. header[HeaderSize - 1] = f.channel /\ header[HeaderSize] = Len(f.data)
    BY <1>1, HeaderEnds DEF Unpacks
  <1>3. /\ active_channel' = f.channel /\ active_channel_buget' = Len(f.data)
        /\ active_channel_buffer' = <<>>
        /\ header_to_read' = 0 /\ header_magic_check_next' = 0
        /\ pos' = pos + 1
    BY <1>2 DEF HeaderComplete, Advance
  <1>4. pos' = Body(f)
    BY <1>1, <1>3, HeaderBytes
  <1>5. f \in FrameRecord /\ f.channel # 0 /\ Len(f.data) \in Nat
        /\ Len(f.data) # 0 /\ Body(f) + Len(f.data) = End(f) /\ Body(f) \in Nat
    BY <1>1, <1>2, FramesTyped, FrameParts DEF Unpacks
  <1>6. ReadingChannel'
    BY <1>3, <1>5 DEF ReadingChannel
  <1>7. /\ Len(active_channel_buffer') = pos' - Body(f)
        /\ 1 .. pos' - Body(f) = {}
        /\ active_channel_buget' = End(f) - pos'
    BY <1>3, <1>4, <1>5
  <1>8. QED
    BY <1>3, <1>6, <1>7 DEF InData

LEMMA ChannelByteReads ==
    ASSUME TypeOK, Layout, NEW f \in frames, InData(f), ChannelByte
    PROVE  \/ InData(f)'
           \/ Unread' /\ Searching' /\ pos' = End(f)
  <1>1. /\ pos' = pos + 1 /\ pos \in Nat /\ Body(f) \in Nat /\ End(f) \in Nat
        /\ active_channel_buget' = active_channel_buget - 1
        /\ active_channel_buget = End(f) - pos
        /\ active_channel = f.channel /\ f.channel \in Channels
        /\ header_to_read' = 0 /\ header_magic_check_next' = 0
        /\ active_channel # 0
    BY FramesTyped, FrameParts
       DEF ChannelByte, Advance, InData, TypeOK, search, FrameRecord,
           ReadingChannel
  <1>2. CASE active_channel_buget = 1
    <2>1. active_channel' \in {0, f.channel}
          /\ (f.channel \in Registered => active_channel' = 0)
      BY <1>1, <1>2 DEF ChannelByte
    <2>2. active_channel_buget' = 0 /\ pos' = End(f)
      BY <1>1, <1>2
    <2>3. QED
      BY <1>1, <2>1, <2>2 DEF Unread, Searching, ReadingChannel
  <1>3. CASE active_channel_buget # 1
    <2>1. /\ active_channel' = f.channel
          /\ active_channel_buffer' = Append(active_channel_buffer, NextByte)
      BY <1>1, <1>3 DEF ChannelByte
    <2>2. active_channel_buget > 0
      BY DEF InData, ReadingChannel
    <2>3. active_channel_buget' = End(f) - pos' /\ active_channel_buget' > 0
      BY <1>1, <1>3, <2>2
    <2>4. pos' - Body(f) = (pos - Body(f)) + 1
      BY <1>1
    <2>5. /\ Len(active_channel_buffer') = pos' - Body(f)
          /\ \A i \in 1 .. pos' - Body(f) : active_channel_buffer'[i] = f.data[i]
      BY <2>1, <2>4, DataBytes
    <2>6. InData(f)'
      BY <1>1, <2>1, <2>3, <2>5 DEF InData, ReadingChannel
    <2>7. QED
      BY <2>6
  <1>4. QED
    BY <1>2, <1>3

LEMMA MatchByteOpens ==
    ASSUME TypeOK, Layout, MatchByte, header_magic_check_next + 1 = Len(Magic),
           NEW f \in frames, f.at + Len(Magic) = pos + 1
    PROVE  InHeader(f)'
  <1>1. pos' = pos + 1 /\ header_to_read' = 2 /\ header_magic_check_next' = 0
        /\ UNCHANGED payload /\ ~ReadingChannel
    BY DEF MatchByte, Advance, HeaderRest, Searching
  <1>2. f.at \in Nat /\ f.at + Len(Magic) + 2 = Body(f) /\ Len(Magic) \in Nat
        /\ pos \in Nat
    BY FramesTyped, FrameParts, MagicLength DEF TypeOK
  <1>3. header_to_read' = Body(f) - pos'
    BY <1>1, <1>2
  <1>4. QED
    BY <1>1, <1>3 DEF InHeader, ReadingHeader, ReadingChannel, payload

LEMMA NextReading ==
    ASSUME TypeOK, Layout, Reading, [Next]_vars,
           MatchByte /\ header_magic_check_next + 1 = Len(Magic) => Opens
    PROVE  Reading'
  <1>1. ASSUME NEW text \in Texts, Write(text) PROVE Reading'
    BY <1>1, ReadingStays DEF Write, loop
  <1>2. ASSUME NEW c \in Channels, NEW d \in Payloads, WriteChannel(c, d)
        PROVE  Reading'
    <2>1. frames \subseteq frames' /\ UNCHANGED <<pos, search, payload>>
      BY <1>2 DEF WriteChannel, loop
    <2>2. QED
      BY <2>1, ReadingStays
  <1>3. CASE \/ OsWrite \/ Close \/ OsReadEnd \/ HandlerReturns
             \/ \E n \in 1 .. ReadSize : OsRead(n)
    <2>1. frames \subseteq frames' /\ UNCHANGED <<pos, search, payload>>
      BY <1>3 DEF OsWrite, Close, OsReadEnd, HandlerReturns, OsRead, writer,
         loop
    <2>2. QED
      BY <2>1, ReadingStays
  <1>4. CASE ChannelByte
    <2>1. PICK f \in frames : InData(f)
      BY <1>4, Modes DEF ChannelByte
    <2>2. f \in frames'
      BY <1>4 DEF ChannelByte, writer
    <2>3. QED
      BY <1>4, <2>1, <2>2, ChannelByteReads DEF Reading
  <1>5. CASE HeaderByte
    <2>1. PICK f \in frames : Unread /\ InHeader(f)
      BY <1>5, Modes DEF HeaderByte
    <2>2. f \in frames' /\ Unread'
      BY <1>5, <2>1 DEF HeaderByte, writer, payload, Unread
    <2>3. QED
      BY <1>5, <2>1, <2>2, HeaderByteReads DEF Reading
  <1>6. CASE HeaderComplete
    <2>1. PICK f \in frames : InHeader(f)
      BY <1>6, Modes DEF HeaderComplete
    <2>2. f \in frames'
      BY <1>6 DEF HeaderComplete, writer
    <2>3. QED
      BY <1>6, <2>1, <2>2, HeaderCompleteReads DEF Reading
  <1>7. CASE HeaderBroken
    <2>1. Unread /\ ~ReadingChannel
      BY <1>7, Modes DEF HeaderBroken, ReadingHeader
    <2>2. header_to_read' = 0 /\ UNCHANGED payload
      BY <1>7 DEF HeaderBroken
    <2>3. QED
      BY <2>1, <2>2 DEF Reading, Unread, Searching, ReadingChannel, payload
  <1>8. CASE MatchByte
    <2>1. Unread /\ Searching /\ UNCHANGED <<payload, frames>>
      BY <1>8, Modes DEF MatchByte, writer
    <2>2. Unread'
      BY <2>1 DEF Unread, payload
    <2>3. CASE header_magic_check_next + 1 = Len(Magic)
      <3>1. PICK f \in frames : f.at + Len(Magic) = pos + 1
        BY <1>8, <2>3 DEF Opens
      <3>2. InHeader(f)'
        BY <1>8, <2>3, <3>1, MatchByteOpens
      <3>3. QED
        BY <2>1, <2>2, <3>2 DEF Reading
    <2>4. CASE header_magic_check_next + 1 # Len(Magic)
      <3>1. header_to_read' = 0
        BY <1>8, <2>4 DEF MatchByte
      <3>2. QED
        BY <2>1, <2>2, <3>1 DEF Reading, Searching, ReadingChannel, payload
    <2>5. QED
      BY <2>3, <2>4
  <1>9. CASE MismatchByte \/ RawByte
    <2>1. Unread /\ Searching /\ UNCHANGED <<payload, header_to_read>>
      BY <1>9, Modes DEF MismatchByte, RawByte, search
    <2>2. QED
      BY <2>1 DEF Reading, Unread, Searching, ReadingChannel, payload
  <1>10. CASE UNCHANGED vars
    BY <1>10, ReadingStays DEF vars, writer, loop
  <1>11. QED
    BY <1>1, <1>2, <1>3, <1>4, <1>5, <1>6, <1>7, <1>8, <1>9, <1>10
       DEF Next, Reads, Decode

-----------------------------------------------------------------------------
(* The decoder when the delimiter is in the stream only where write_channel *)
(* put it.                                                                  *)

\* Nobody else writes the delimiter, whole or in pieces that join up.  It is a
\* condition on what is written: binaries and serial output may break it.
OwnDelimiters ==
    \A p \in 0 .. Len(stream) - Len(Magic) :
        (\A i \in 1 .. Len(Magic) : stream[p + i] = Magic[i]) =>
            \E f \in frames : f.at = p

\* As much of the delimiter as the decoder counts is what it just passed.
Matching ==
    /\ header_magic_check_next <= pos
    /\ \A i \in 1 .. header_magic_check_next :
           stream[pos - header_magic_check_next + i] = Magic[i]

LEMMA NothingMatches ==
    ASSUME TypeOK', header_magic_check_next' = 0 PROVE Matching'
  BY DEF TypeOK, Matching

LEMMA MatchingStays ==
    ASSUME TypeOK, Matching, UNCHANGED <<pos, search>>,
           \A p \in 1 .. Len(stream) : stream'[p] = stream[p]
    PROVE  Matching'
  <1>1. /\ pos \in Nat /\ header_magic_check_next \in Nat
        /\ header_magic_check_next <= pos
        /\ pos <= Len(stream) /\ Len(stream) \in Nat
    BY MagicLength DEF TypeOK, Matching
  <1>2. \A i \in 1 .. header_magic_check_next :
            pos - header_magic_check_next + i \in 1 .. Len(stream)
    BY <1>1
  <1>3. QED
    BY <1>2 DEF Matching, search

LEMMA NextMatching ==
    ASSUME TypeOK, TypeOK', Reading, Matching, [Next]_vars
    PROVE  Matching'
  <1>1. ASSUME NEW text \in Texts, Write(text) PROVE Matching'
    <2>1. stream' = stream \o text /\ text \in Seq(Byte)
      BY <1>1, DataAssumption DEF Write
    <2>2. \A p \in 1 .. Len(stream) : stream'[p] = stream[p]
      BY <2>1, AppendedStream
    <2>3. QED
      BY <1>1, <2>2, MatchingStays DEF Write, loop
  <1>2. ASSUME NEW c \in Channels, NEW d \in Payloads, WriteChannel(c, d)
        PROVE  Matching'
    <2>1. stream' = stream \o Frame(c, d) /\ Frame(c, d) \in Seq(Byte)
      BY <1>2, FrameBytes DEF WriteChannel
    <2>2. \A p \in 1 .. Len(stream) : stream'[p] = stream[p]
      BY <2>1, AppendedStream
    <2>3. UNCHANGED <<pos, search>>
      BY <1>2 DEF WriteChannel, loop
    <2>4. QED
      BY <2>2, <2>3, MatchingStays
  <1>3. CASE \/ OsWrite \/ Close \/ OsReadEnd \/ HandlerReturns
             \/ \E n \in 1 .. ReadSize : OsRead(n)
             \/ UNCHANGED vars
    <2>1. UNCHANGED <<stream, pos, search>>
      BY <1>3 DEF OsWrite, Close, OsReadEnd, HandlerReturns, OsRead, writer,
         loop, vars
    <2>2. QED
      BY <2>1, MatchingStays
  <1>4. CASE ChannelByte \/ HeaderByte \/ HeaderComplete \/ HeaderBroken
    <2>1. ~Searching => header_magic_check_next = 0
      BY Modes
    <2>2. ~Searching
      BY <1>4 DEF ChannelByte, HeaderByte, HeaderComplete, HeaderBroken,
         Searching, ReadingHeader
    <2>3. header_magic_check_next' \in {0, header_magic_check_next}
      BY <1>4 DEF ChannelByte, HeaderByte, HeaderComplete, HeaderBroken, search
    <2>4. QED
      BY <2>1, <2>2, <2>3, NothingMatches
  <1>5. CASE MatchByte /\ header_magic_check_next + 1 # Len(Magic)
    <2>1. /\ header_magic_check_next' = header_magic_check_next + 1
          /\ pos' = pos + 1 /\ stream' = stream
          /\ stream[pos + 1] = Magic[header_magic_check_next + 1]
      BY <1>5 DEF MatchByte, Advance, Matches, NextByte, writer
    <2>2. pos \in Nat /\ header_magic_check_next \in Nat
          /\ header_magic_check_next <= pos
      BY MagicLength DEF TypeOK, Matching
    <2>3. /\ header_magic_check_next' <= pos'
          /\ pos' - header_magic_check_next' = pos - header_magic_check_next
      BY <2>1, <2>2
    <2>4. ASSUME NEW i \in 1 .. header_magic_check_next'
          PROVE  stream[pos - header_magic_check_next + i] = Magic[i]
      <3>1. CASE i \in 1 .. header_magic_check_next
        BY <3>1 DEF Matching
      <3>2. CASE i = header_magic_check_next + 1
        <4>1. pos - header_magic_check_next + i = pos + 1
          BY <2>2, <3>2
        <4>2. QED
          BY <2>1, <3>2, <4>1
      <3>3. QED
        BY <2>1, <2>2, <3>1, <3>2
    <2>5. QED
      BY <2>1, <2>3, <2>4 DEF Matching
  <1>6. CASE MatchByte /\ header_magic_check_next + 1 = Len(Magic)
    BY <1>6, NothingMatches DEF MatchByte
  <1>7. CASE MismatchByte
    <2>1. CASE header_magic_check_next' = 0
      BY <2>1, NothingMatches
    <2>2. CASE header_magic_check_next' # 0
      <3>1. /\ header_magic_check_next' = 1 /\ stream[pos + 1] = Magic[1]
            /\ pos' = pos + 1 /\ stream' = stream
        BY <1>7, <2>2 DEF MismatchByte, NextByte, Advance, writer
      <3>2. pos \in Nat /\ pos' - 1 + 1 = pos + 1
        BY <3>1 DEF TypeOK
      <3>3. QED
        BY <3>1, <3>2 DEF Matching
    <2>3. QED
      BY <2>1, <2>2
  <1>8. CASE RawByte
    BY <1>8, NothingMatches DEF RawByte, search
  <1>9. QED
    BY <1>1, <1>2, <1>3, <1>4, <1>5, <1>6, <1>7, <1>8 DEF Next, Reads, Decode

\* A full match is the delimiter of a frame.
LEMMA MatchOpens ==
    ASSUME TypeOK, OwnDelimiters, Matching, MatchByte,
           header_magic_check_next + 1 = Len(Magic)
    PROVE  Opens
  <1> DEFINE p == pos - header_magic_check_next
  <1>1. /\ pos \in Nat /\ header_magic_check_next \in Nat
        /\ header_magic_check_next <= pos
        /\ pos + 1 <= Len(stream) /\ Len(stream) \in Nat
        /\ stream[pos + 1] = Magic[header_magic_check_next + 1]
    <2>1. /\ header_magic_check_next <= pos /\ pos < read
          /\ stream[pos + 1] = Magic[header_magic_check_next + 1]
      BY DEF Matching, MatchByte, Advance, Matches, NextByte
    <2>2. /\ pos \in Nat /\ read \in Nat /\ written \in Nat
          /\ read <= written /\ written <= Len(stream)
          /\ header_magic_check_next \in 0 .. Len(Magic) - 1
      BY Zenon DEF TypeOK
    <2>3. QED
      BY <2>1, <2>2, MagicLength, FramesTyped
  <1>2. p \in 0 .. Len(stream) - Len(Magic) /\ p + Len(Magic) = pos + 1
    BY <1>1
  <1>3. ASSUME NEW i \in 1 .. Len(Magic) PROVE stream[p + i] = Magic[i]
    <2>1. CASE i \in 1 .. header_magic_check_next
      BY <2>1 DEF Matching
    <2>2. CASE i = header_magic_check_next + 1
      <3>1. p + i = pos + 1
        BY <1>1, <2>2
      <3>2. QED
        BY <1>1, <2>2, <3>1
    <2>3. QED
      BY <1>1, <2>1, <2>2
  <1>4. PICK f \in frames : f.at = p
    BY <1>2, <1>3 DEF OwnDelimiters
  <1>5. QED
    BY <1>2, <1>4 DEF Opens

\* While the delimiter is written by write_channel only, the decoder that
\* takes itself to be in a frame is in one, at the byte it takes itself to be
\* at, and holds that much of the frame's data, whatever is refused meanwhile.
THEOREM DecoderKnowsItsFrame == Spec /\ []OwnDelimiters => []Reading
  <1>1. Init => Reading /\ Matching
    <2>1. Init => Matching
      BY DEF Init, Matching
    <2>2. QED
      BY <2>1, InitReading
  <1>2. /\ TypeOK /\ TypeOK' /\ Layout /\ OwnDelimiters
        /\ Reading /\ Matching /\ [Next]_vars
        => (Reading /\ Matching)'
    BY MatchOpens, NextReading, NextMatching
  <1>3. QED
    BY <1>1, <1>2, MuxTypeOK, StreamIsLaidOut, PTL DEF Spec

-----------------------------------------------------------------------------
(* What callbacks get. *)

\* What has been delivered can be found in what was written, in its order,
\* and lies behind the decoder.
Delivered ==
    \E g \in [1 .. Len(channel_input) -> 1 .. Len(expected)] :
        /\ \A i, j \in 1 .. Len(channel_input) : i < j => g[i] < g[j]
        /\ \A i \in 1 .. Len(channel_input) :
               /\ channel_input[i] = [channel |-> expected[g[i]].channel,
                                      data    |-> expected[g[i]].data]
               /\ End(expected[g[i]]) <= pos

LEMMA DeliveredStays ==
    ASSUME TypeOK, TypeOK', Delivered, channel_input' = channel_input,
           pos <= pos', Len(expected) <= Len(expected'),
           \A n \in 1 .. Len(expected) : expected'[n] = expected[n]
    PROVE  Delivered'
  <1>1. PICK g \in [1 .. Len(channel_input) -> 1 .. Len(expected)] :
            /\ \A i, j \in 1 .. Len(channel_input) : i < j => g[i] < g[j]
            /\ \A i \in 1 .. Len(channel_input) :
                   /\ channel_input[i] = [channel |-> expected[g[i]].channel,
                                          data    |-> expected[g[i]].data]
                   /\ End(expected[g[i]]) <= pos
    BY DEF Delivered
  <1>2. Len(expected) \in Nat /\ Len(expected') \in Nat
    <2>1. expected \in Seq(frames) /\ expected' \in Seq(frames')
      BY DEF TypeOK
    <2>2. QED
      BY <2>1
  <1>3. g \in [1 .. Len(channel_input) -> 1 .. Len(expected')]
    BY <1>2
  <1>4. ASSUME NEW i \in 1 .. Len(channel_input)
        PROVE  /\ channel_input[i] = [channel |-> expected'[g[i]].channel,
                                      data    |-> expected'[g[i]].data]
               /\ End(expected'[g[i]]) <= pos'
    <2>1. expected'[g[i]] = expected[g[i]] /\ expected[g[i]] \in FrameRecord
      BY FramesTyped
    <2>2. End(expected[g[i]]) \in Nat /\ pos \in Nat /\ pos' \in Nat
      BY <2>1, FrameParts DEF TypeOK
    <2>3. QED
      BY <1>1, <2>1, <2>2
  <1>5. QED
    BY <1>1, <1>3, <1>4 DEF Delivered

\* A callback is called with a frame that ends with this byte.
LEMMA ChannelByteDelivers ==
    ASSUME TypeOK, TypeOK', Layout, Reading, ChannelByte,
           channel_input' # channel_input
    PROVE  \E m \in 1 .. Len(expected) :
               /\ End(expected[m]) = pos + 1 /\ pos' = pos + 1
               /\ channel_input' =
                      Append(channel_input,
                             [channel |-> expected[m].channel,
                              data    |-> expected[m].data])
  <1>1. PICK f \in frames : InData(f)
    BY Modes DEF ChannelByte
  <1>2. /\ active_channel_buget = 1 /\ active_channel \in Registered
        /\ channel_input' =
               Append(channel_input,
                      [channel |-> active_channel,
                       data |-> Append(active_channel_buffer, NextByte)])
        /\ pos' = pos + 1
    BY DEF ChannelByte, Advance
  <1>3. /\ End(f) = pos + 1 /\ f.channel = active_channel
        /\ Append(active_channel_buffer, NextByte) = f.data
    BY <1>1, <1>2, DataBytes DEF InData
  <1>4. PICK m \in 1 .. Len(expected) : expected[m] = f
    BY <1>2, <1>3, FramesTyped DEF Layout
  <1>5. QED
    BY <1>2, <1>3, <1>4

LEMMA NextDelivered ==
    ASSUME TypeOK, TypeOK', Layout, Reading, Delivered, [Next]_vars
    PROVE  Delivered'
  <1>1. CASE channel_input' # channel_input
    <2>1. ChannelByte /\ UNCHANGED expected
      BY <1>1 DEF Next, Reads, Decode, Write, WriteChannel, OsWrite, Close,
         OsRead, OsReadEnd, ChannelByte, HeaderByte, HeaderComplete,
         HeaderBroken, MatchByte, MismatchByte, RawByte, HandlerReturns,
         delivered, vars, writer
    <2>2. PICK m \in 1 .. Len(expected) :
               /\ End(expected[m]) = pos + 1 /\ pos' = pos + 1
               /\ channel_input' =
                      Append(channel_input,
                             [channel |-> expected[m].channel,
                              data    |-> expected[m].data])
      BY <1>1, <2>1, ChannelByteDelivers
    <2>3. PICK g \in [1 .. Len(channel_input) -> 1 .. Len(expected)] :
              /\ \A i, j \in 1 .. Len(channel_input) : i < j => g[i] < g[j]
              /\ \A i \in 1 .. Len(channel_input) :
                     /\ channel_input[i] = [channel |-> expected[g[i]].channel,
                                            data    |-> expected[g[i]].data]
                     /\ End(expected[g[i]]) <= pos
      BY DEF Delivered
    <2> DEFINE input == [channel |-> expected[m].channel,
                         data    |-> expected[m].data]
               k == Len(channel_input)
               h == [i \in 1 .. k + 1 |-> IF i <= k THEN g[i] ELSE m]
    <2>4. /\ k \in Nat /\ Len(channel_input') = k + 1
          /\ \A i \in 1 .. k : channel_input'[i] = channel_input[i]
          /\ channel_input'[k + 1] = input
      <3>1. channel_input' = Append(channel_input, input)
        BY <2>2
      <3> HIDE DEF input
      <3>2. Len(channel_input') = k + 1 /\ k \in Nat
        BY <3>1 DEF TypeOK
      <3>3. QED
        BY <3>1, <3>2 DEF TypeOK
    <2>5. \A i \in 1 .. k : g[i] < m
      <3>1. ASSUME NEW i \in 1 .. k PROVE g[i] < m
        <4>1. End(expected[g[i]]) <= pos /\ g[i] \in 1 .. Len(expected)
          BY <2>3
        <4>2. /\ expected[g[i]] \in FrameRecord /\ expected[m] \in FrameRecord
              /\ pos \in Nat /\ DOMAIN expected = 1 .. Len(expected)
          BY <4>1, FramesTyped DEF TypeOK
        <4>3. /\ End(expected[g[i]]) \in Nat /\ expected[m].at \in Nat
              /\ expected[g[i]].at \in Nat
              /\ expected[g[i]].at < Body(expected[g[i]])
              /\ Body(expected[g[i]]) <= End(expected[g[i]])
              /\ Body(expected[g[i]]) \in Nat
          BY <4>2, FrameParts
        <4>4. ~(m < g[i])
          <5>1. g[i] \in DOMAIN expected /\ m \in DOMAIN expected
            BY <4>1, <4>2
          <5>2. m < g[i] => End(expected[m]) <= expected[g[i]].at
            BY <5>1, Zenon DEF Layout
          <5>3. End(expected[m]) = pos + 1
            BY <2>2
          <5>4. QED
            BY <4>1, <4>2, <4>3, <5>2, <5>3
        <4>5. m # g[i]
          BY <2>2, <4>1, <4>2
        <4>6. QED
          BY <4>1, <4>4, <4>5
      <3>2. QED
        BY <3>1
    <2>6. h \in [1 .. k + 1 -> 1 .. Len(expected)]
      BY <2>3
    <2>7. \A i, j \in 1 .. k + 1 : i < j => h[i] < h[j]
      BY <2>3, <2>4, <2>5
    <2>8. ASSUME NEW i \in 1 .. k + 1
          PROVE  /\ channel_input'[i] = [channel |-> expected[h[i]].channel,
                                         data    |-> expected[h[i]].data]
                 /\ End(expected[h[i]]) <= pos + 1
      <3>1. CASE i <= k
        <4>1. i \in 1 .. k /\ h[i] = g[i]
          BY <3>1
        <4>2. End(expected[g[i]]) \in Nat /\ pos \in Nat
          BY <4>1, FramesTyped, FrameParts DEF TypeOK
        <4>3. channel_input'[i] = channel_input[i]
              /\ End(expected[g[i]]) <= pos
          BY <2>3, <2>4, <4>1
        <4>4. End(expected[g[i]]) <= pos + 1
          BY <4>2, <4>3
        <4> HIDE DEF h
        <4>5. QED
          BY <2>3, <4>1, <4>3, <4>4
      <3>2. CASE i = k + 1
        <4>1. h[i] = m
          BY <2>4, <3>2
        <4>2. pos \in Nat
          BY DEF TypeOK
        <4> HIDE DEF h
        <4>3. QED
          BY <2>2, <2>4, <3>2, <4>1, <4>2
      <3>3. QED
        BY <2>4, <3>1, <3>2
    <2> HIDE DEF h, k
    <2>9. QED
      <3>1. Len(channel_input') = k + 1 /\ expected' = expected
            /\ pos' = pos + 1
        BY <2>1, <2>2, <2>4
      <3>2. QED
        BY <2>6, <2>7, <2>8, <3>1, Zenon DEF Delivered
  <1>2. CASE channel_input' = channel_input
    <2>1. pos <= pos'
      <3>1. pos' \in {pos, pos + 1, read}
        BY DEF Next, Reads, Decode, Write, WriteChannel, OsWrite, Close,
           OsRead, OsReadEnd, ChannelByte, HeaderByte, HeaderComplete,
           HeaderBroken, MatchByte, MismatchByte, RawByte, HandlerReturns,
           Advance, vars, loop
      <3>2. pos \in Nat /\ read \in Nat /\ pos <= read
        BY DEF TypeOK
      <3>3. QED
        BY <3>1, <3>2
    <2>2. \/ expected' = expected
          \/ \E f \in frames' : expected' = Append(expected, f)
      <3>1. ASSUME NEW c \in Channels, NEW d \in Payloads, WriteChannel(c, d),
                   expected' # expected
            PROVE  \E f \in frames' : expected' = Append(expected, f)
        <4>1. PICK new : new = [at |-> Len(stream), channel |-> c, data |-> d]
          OBVIOUS
        <4>2. new \in frames' /\ expected' = Append(expected, new)
          BY <3>1, <4>1 DEF WriteChannel
        <4>3. QED
          BY <4>2
      <3>2. ASSUME NEW text \in Texts, Write(text) PROVE expected' = expected
        BY <3>2 DEF Write
      <3>3. QED
        BY <3>1, <3>2, StreamStays
    <2>3. expected \in Seq(frames) /\ expected' \in Seq(frames')
      BY DEF TypeOK
    <2>4. CASE expected' = expected
      BY <1>2, <2>1, <2>3, <2>4, DeliveredStays
    <2>5. ASSUME NEW f \in frames', expected' = Append(expected, f)
          PROVE  Delivered'
      <3>1. Len(expected) <= Len(expected')
            /\ \A n \in 1 .. Len(expected) : expected'[n] = expected[n]
        BY <2>3, <2>5
      <3>2. QED
        BY <1>2, <2>1, <3>1, DeliveredStays
    <2>6. QED
      BY <2>2, <2>4, <2>5
  <1>3. QED
    BY <1>1, <1>2

\* While the delimiter is written by write_channel only, callbacks get frames
\* that were written for them, unaltered and in order, at most once each, even
\* if headers are refused in between.
THEOREM NothingIsInvented == Spec /\ []OwnDelimiters => []NoInventedFrames
  <1>1. Init => Delivered
    <2>1. SUFFICES ASSUME Init PROVE Delivered
      OBVIOUS
    <2>2. Len(channel_input) = 0 /\ 1 .. 0 = {}
      <3>1. channel_input = <<>>
        BY <2>1 DEF Init
      <3>2. QED
        BY <3>1
    <2>3. [i \in {} |-> 0] \in [1 .. Len(channel_input) -> 1 .. Len(expected)]
      BY <2>2
    <2>4. QED
      BY <2>2, <2>3 DEF Delivered
  <1>2. TypeOK /\ TypeOK' /\ Layout /\ Reading /\ Delivered /\ [Next]_vars
        => Delivered'
    BY NextDelivered
  <1>3. TypeOK /\ Delivered => NoInventedFrames
    <2>1. SUFFICES ASSUME TypeOK, Delivered PROVE NoInventedFrames
      OBVIOUS
    <2>2. PICK g \in [1 .. Len(channel_input) -> 1 .. Len(expected)] :
              /\ \A i, j \in 1 .. Len(channel_input) : i < j => g[i] < g[j]
              /\ \A i \in 1 .. Len(channel_input) :
                     /\ channel_input[i] = [channel |-> expected[g[i]].channel,
                                            data    |-> expected[g[i]].data]
                     /\ End(expected[g[i]]) <= pos
      BY <2>1 DEF Delivered
    <2>3. DOMAIN expected = 1 .. Len(expected) /\ Len(expected) \in Nat
          /\ Len(channel_input) \in Nat
      BY FramesTyped DEF TypeOK
    <2>4. Len(Expected) = Len(expected)
      BY <2>3 DEF Expected
    <2>5. \A i \in 1 .. Len(channel_input) : channel_input[i] = Expected[g[i]]
      BY <2>2, <2>3 DEF Expected
    <2>6. QED
      <3>1. /\ g \in [1 .. Len(channel_input) -> 1 .. Len(Expected)]
            /\ \A i, j \in 1 .. Len(channel_input) : i < j => g[i] < g[j]
            /\ Len(channel_input) \in Nat /\ Len(Expected) \in Nat
        BY <2>2, <2>3, <2>4
      <3>2. IsPartOf(channel_input, Expected)
        BY <2>5, <3>1, EmbeddedIsPart
      <3>3. QED
        BY <3>2 DEF NoInventedFrames
  <1>4. QED
    BY <1>1, <1>2, <1>3, MuxTypeOK, StreamIsLaidOut, DecoderKnowsItsFrame, PTL
       DEF Spec

-----------------------------------------------------------------------------
(* The end of the pty. *)

LEMMA NextEnd ==
    ASSUME TypeOK, Layout, Reading, Registered = Channels,
           eof # "no" => ~open, EndIsReported, [Next]_vars
    PROVE  (eof' # "no" => ~open') /\ EndIsReported'
  <1>1. CASE OsReadEnd
    <2>1. /\ ~handling /\ ~open /\ read = written
          /\ eof' = IF active_channel = 0 THEN "reported" ELSE "lost"
          /\ UNCHANGED <<open, written, stream>>
      BY <1>1 DEF OsReadEnd, writer
    <2>2. CASE active_channel = 0
      BY <2>1, <2>2 DEF EndIsReported
    <2>3. CASE active_channel # 0
      <3>1. PICK f \in frames : InData(f)
        BY <2>3 DEF Reading, Unread
      <3>2. pos < End(f)
        BY <3>1, DataBytes
      <3>3. End(f) <= Len(stream) /\ End(f) \in Nat /\ Len(stream) \in Nat
        BY FramesTyped, FrameParts DEF Layout, Written
      <3>4. written = pos /\ pos \in Nat
        BY <2>1 DEF TypeOK
      <3>5. written' < Len(stream')
        BY <2>1, <3>2, <3>3, <3>4
      <3>6. QED
        BY <2>1, <3>5 DEF EndIsReported
    <2>4. QED
      BY <2>2, <2>3
  <1>2. CASE ~OsReadEnd
    <2>1. eof' = eof
      BY <1>2 DEF Next, Reads, Decode, Write, WriteChannel, OsWrite, Close,
         OsRead, ChannelByte, HeaderByte, HeaderComplete, HeaderBroken,
         MatchByte, MismatchByte, RawByte, HandlerReturns, delivered, vars
    <2>2. ~open => ~open' /\ UNCHANGED <<written, stream>>
      BY <1>2 DEF Next, Reads, Decode, Write, WriteChannel, WriterIdle,
         OsWrite, Close, OsRead, ChannelByte, HeaderByte, HeaderComplete,
         HeaderBroken, MatchByte, MismatchByte, RawByte, HandlerReturns,
         writer, vars
    <2>3. QED
      BY <2>1, <2>2 DEF EndIsReported
  <1>3. QED
    BY <1>1, <1>2

\* If every channel that is written to has its callback, the end of the pty is
\* lost only with a frame whose writer was stopped in the middle of it.
THEOREM EndGetsThrough ==
    Registered = Channels /\ Spec /\ []OwnDelimiters => []EndIsReported
  <1>1. Init => (eof # "no" => ~open) /\ EndIsReported
    BY DEF Init, EndIsReported
  <1>2. Registered = Channels => (Registered = Channels)'
    OBVIOUS
  <1>3. /\ Registered = Channels
        /\ TypeOK /\ Layout /\ Reading /\ (eof # "no" => ~open)
        /\ EndIsReported /\ [Next]_vars
        => (eof # "no" => ~open)' /\ EndIsReported'
    BY NextEnd
  <1>4. QED
    BY <1>1, <1>2, <1>3, MuxTypeOK, StreamIsLaidOut, DecoderKnowsItsFrame, PTL
       DEF Spec

=============================================================================
