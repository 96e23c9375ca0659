-------------------------- MODULE FrameDecoderProofs --------------------------
(***************************************************************************)
(* Proofs about FrameDecoder for every base, header, limit and read size:   *)
(* the types, the bound of what the two readers keep, that a header reads   *)
(* as it was written, and that framing is a channel of whole messages.      *)
(***************************************************************************)
EXTENDS FrameDecoder, FiniteSetTheorems, SequenceTheorems, TLAPS

\* A stretch of a sequence of bytes is a sequence of bytes of its own length.
LEMMA Stretch ==
    ASSUME NEW S, NEW s \in Seq(S), NEW m \in Nat \ {0}, NEW n \in Nat, n <= Len(s), m <= n + 1
    PROVE  /\ SubSeq(s, m, n) \in [1..(n - m + 1) -> S]
           /\ SubSeq(s, m, n) \in Seq(S)
           /\ Len(SubSeq(s, m, n)) = n - m + 1
<1>1. SubSeq(s, m, n) = [i \in 1..(n - m + 1) |-> s[i + m - 1]]
    BY SubSeqProperties
<1>2. \A i \in 1..(n - m + 1) : s[i + m - 1] \in S
    BY LenProperties, ElementOfSeq
<1>3. n - m + 1 \in Nat
    OBVIOUS
<1> QED
    BY <1>1, <1>2, <1>3, IsASeq, LenProperties

\* write_u32_be puts out bytes.
LEMMA HeaderIsBytes == \A n \in Nat : WriteBE(n) \in Seq(Byte)
<1> SUFFICES ASSUME NEW n \in Nat PROVE WriteBE(n) \in Seq(Byte)
    OBVIOUS
<1>1. ASSUME NEW i \in 1..HeaderBytes PROVE (n \div Base^(HeaderBytes - i)) % Base \in Byte
    <2>1. HeaderBytes - i \in 0..HeaderBytes
        BY FrameAssumption
    <2>2. Base^(HeaderBytes - i) \in Nat \ {0}
        BY <2>1, FrameAssumption
    <2>3. n \div Base^(HeaderBytes - i) \in Int
        BY <2>2
    <2> QED
        BY <2>3, FrameAssumption DEF Byte
<1>2. WriteBE(n) \in [1..HeaderBytes -> Byte]
    BY <1>1 DEF WriteBE
<1> QED
    BY <1>2, FrameAssumption, IsASeq

\* gm_control_encode_frame puts out bytes.
LEMMA FrameIsBytes == \A payload \in AnyPayload : Frame(payload) \in Seq(Byte)
<1> SUFFICES ASSUME NEW payload \in AnyPayload PROVE Frame(payload) \in Seq(Byte)
    OBVIOUS
<1>1. payload \in Seq(Byte)
    <2>1. PICK n \in 0..(Base^HeaderBytes - 1) : payload \in [1..n -> Byte]
        BY DEF AnyPayload, OfLength
    <2>2. n \in Nat
        BY FrameAssumption
    <2> QED
        BY <2>1, <2>2, IsASeq
<1>2. Len(payload) \in Nat
    BY <1>1
<1> QED
    BY <1>1, <1>2, HeaderIsBytes DEF Frame

\* gm_control_peek_frame accepts no length outside the limits.
LEMMA PeekedSize ==
    ASSUME NEW input \in Seq(Byte), HasHeader(input), ~Bad(input)
    PROVE  /\ ReadBE(input) \in Lengths
           /\ FrameSize(input) \in Nat
           /\ FrameSize(input) > HeaderBytes \/ FrameSize(input) = HeaderBytes
           /\ FrameSize(input) <= HeaderBytes + MaxPayload
<1>1. ReadBE(input) \in MinPayload..MaxPayload
    BY DEF Bad, Lengths
<1> QED
    BY <1>1, FrameAssumption DEF FrameSize, Lengths

-------------------------------------------------------------------------------
\* Bytes stay bytes and what reaches the protocol has a legal length: gm_core.cpp:74-129,
\* for every base and every limit.
THEOREM TypeCorrect == Spec => []TypeOK
<1>1. Init => TypeOK
    <2>1. <<>> \in Seq(AnyPayload) /\ <<>> \in Seq(Byte) /\ <<>> \in Seq(Payloads)
        BY EmptySeq
    <2>2. Len(<<>>) <= MaxMessages
        BY FrameAssumption
    <2> QED
        BY <2>1, <2>2 DEF Init, TypeOK
<1>2. TypeOK /\ [Next]_vars => TypeOK'
    <2> SUFFICES ASSUME TypeOK, [Next]_vars PROVE TypeOK'
        OBVIOUS
    <2> USE DEF TypeOK
    <2>1. ASSUME NEW payload \in AnyPayload, Send(payload) PROVE TypeOK'
        <3>1. wire' \in Seq(Byte)
            BY <2>1, FrameIsBytes DEF Send
        <3>2. sent' \in Seq(AnyPayload) /\ Len(sent') <= MaxMessages
            BY <2>1, FrameAssumption DEF Send
        <3> QED
            BY <2>1, <3>1, <3>2 DEF Send
    <2>2. CASE Close
        <3>1. PICK n \in 0..Len(wire) : wire' = SubSeq(wire, 1, n)
            BY <2>2 DEF Close
        <3>2. wire' \in Seq(Byte)
            BY <3>1, Stretch, LenProperties
        <3> QED
            BY <2>2, <3>2 DEF Close
    <2>3. CASE Receive
        <3>1. PICK n \in 1..Len(wire) :
                  /\ buffer' = buffer \o SubSeq(wire, 1, n)
                  /\ wire' = SubSeq(wire, n + 1, Len(wire))
            BY <2>3 DEF Receive
        <3>2. SubSeq(wire, 1, n) \in Seq(Byte) /\ SubSeq(wire, n + 1, Len(wire)) \in Seq(Byte)
            BY Stretch, LenProperties
        <3> QED
            BY <2>3, <3>1, <3>2 DEF Receive
    <2>4. CASE NextPayload
        <3>1. HasHeader(buffer) /\ ~Bad(buffer) /\ Len(buffer) >= FrameSize(buffer)
            BY <2>4 DEF NextPayload, Complete
        <3>2. /\ ReadBE(buffer) \in Lengths
              /\ FrameSize(buffer) \in Nat
              /\ FrameSize(buffer) >= HeaderBytes
            BY <3>1, PeekedSize, FrameAssumption
        <3>3. Rest(buffer) \in Seq(Byte)
            BY <3>1, <3>2, Stretch, LenProperties DEF Rest
        <3>4. SubSeq(buffer, HeaderBytes + 1, FrameSize(buffer)) \in OfLength(ReadBE(buffer))
            <4>1. ReadBE(buffer) = FrameSize(buffer) - (HeaderBytes + 1) + 1
                BY <3>2, FrameAssumption DEF FrameSize, Lengths
            <4> QED
                BY <3>1, <3>2, <4>1, Stretch, FrameAssumption DEF OfLength
        <3>5. received' \in Seq(Payloads)
            BY <2>4, <3>2, <3>4 DEF NextPayload, Payloads
        <3> QED
            BY <2>4, <3>3, <3>5 DEF NextPayload
    <2>5. CASE Throw
        BY <2>5 DEF Throw
    <2>6. CASE UNCHANGED vars
        BY <2>6 DEF vars
    <2> QED
        BY <2>1, <2>2, <2>3, <2>4, <2>5, <2>6 DEF Next, Reader
<1> QED
    BY <1>1, <1>2, PTL DEF Spec

\* The decoder never holds a whole frame and a whole read, the probe never more than a frame:
\* ProtocolCore.swift:128-142 and main.cpp:474-487, for every limit and every read size.
THEOREM BufferAlwaysBounded == Spec => []BufferBounded
<1>1. Init => BufferBounded
    BY FrameAssumption DEF Init, BufferBounded
<1>2. TypeOK /\ BufferBounded /\ [Next]_vars => BufferBounded'
    <2> SUFFICES ASSUME TypeOK, BufferBounded, [Next]_vars PROVE BufferBounded'
        OBVIOUS
    <2>0. buffer \in Seq(Byte) /\ wire \in Seq(Byte) /\ Len(buffer) \in Nat /\ exact \in BOOLEAN
        BY DEF TypeOK
    <2>1. ASSUME NEW payload \in AnyPayload, Send(payload) PROVE BufferBounded'
        BY <2>1 DEF Send, BufferBounded
    <2>2. CASE Close
        BY <2>2 DEF Close, BufferBounded
    <2>3. CASE Receive
        <3>1. PICK n \in 1..Len(wire) :
                  /\ n <= ReadLimit(buffer)
                  /\ buffer' = buffer \o SubSeq(wire, 1, n)
            BY <2>3 DEF Receive
        <3>2. Len(SubSeq(wire, 1, n)) = n /\ SubSeq(wire, 1, n) \in Seq(Byte)
            BY <2>0, Stretch, LenProperties
        <3>3. Len(buffer') = Len(buffer) + n
            BY <2>0, <3>1, <3>2
        <3>4. exact' = exact /\ NeedsMoreData(buffer) /\ n \in Nat
            BY <2>0, <2>3 DEF Receive
        <3>5. CASE ~HasHeader(buffer)
            <4>1. Len(buffer) < HeaderBytes
                BY <2>0, <3>5, FrameAssumption DEF HasHeader
            <4>2. CASE exact
                <5>1. n <= HeaderBytes - Len(buffer)
                    BY <3>1, <3>5, <4>2 DEF ReadLimit, Missing
                <5> QED
                    BY <2>0, <3>3, <3>4, <4>2, <5>1, FrameAssumption DEF BufferBounded
            <4>3. CASE ~exact
                <5>1. n <= ReadSize
                    BY <3>1, <4>3 DEF ReadLimit
                <5> QED
                    BY <2>0, <3>3, <3>4, <4>1, <4>3, <5>1, FrameAssumption DEF BufferBounded
            <4> QED
                BY <4>2, <4>3
        <3>6. CASE HasHeader(buffer)
            <4>1. /\ FrameSize(buffer) \in Nat
                  /\ FrameSize(buffer) <= HeaderBytes + MaxPayload
                  /\ Len(buffer) < FrameSize(buffer)
                <5>1. ~Bad(buffer)
                    BY <3>4 DEF NeedsMoreData
                <5>2. ~(Len(buffer) >= FrameSize(buffer))
                    BY <3>4, <3>6, <5>1 DEF NeedsMoreData, Complete
                <5> QED
                    BY <2>0, <3>6, <5>1, <5>2, PeekedSize
            <4>2. CASE exact
                <5>1. n <= FrameSize(buffer) - Len(buffer)
                    BY <3>1, <3>6, <4>2 DEF ReadLimit, Missing
                <5> QED
                    BY <2>0, <3>3, <3>4, <4>1, <4>2, <5>1, FrameAssumption DEF BufferBounded
            <4>3. CASE ~exact
                <5>1. n <= ReadSize
                    BY <3>1, <4>3 DEF ReadLimit
                <5> QED
                    BY <2>0, <3>3, <3>4, <4>1, <4>3, <5>1, FrameAssumption DEF BufferBounded
            <4> QED
                BY <4>2, <4>3
        <3> QED
            BY <3>5, <3>6
    <2>4. CASE NextPayload
        <3>1. HasHeader(buffer) /\ ~Bad(buffer) /\ Len(buffer) >= FrameSize(buffer)
            BY <2>4 DEF NextPayload, Complete
        <3>2. FrameSize(buffer) \in Nat
            BY <2>0, <3>1, PeekedSize
        <3>3. Len(Rest(buffer)) = Len(buffer) - FrameSize(buffer)
            BY <2>0, <3>1, <3>2, Stretch DEF Rest
        <3> QED
            BY <2>0, <2>4, <3>1, <3>2, <3>3, FrameAssumption DEF NextPayload, BufferBounded
    <2>5. CASE Throw
        BY <2>5 DEF Throw, BufferBounded
    <2>6. CASE UNCHANGED vars
        BY <2>6 DEF vars, BufferBounded
    <2> QED
        BY <2>1, <2>2, <2>3, <2>4, <2>5, <2>6 DEF Next, Reader
<1> QED
    BY <1>1, <1>2, TypeCorrect, PTL DEF Spec

-------------------------------------------------------------------------------
(* What read_u32_be reads is what write_u32_be wrote. *)

\* Induction up to a number: were b missing, taking one away would map the numbers missing up
\* to b one-to-one into themselves, and yet never to b.
LEMMA UpTo ==
    ASSUME NEW n \in Nat, NEW A, 0 \in A, \A i \in 1..n : i - 1 \in A => i \in A
    PROVE  0..n \subseteq A
<1> SUFFICES ASSUME NEW b \in 0..n, b \notin A
             PROVE  FALSE
    OBVIOUS
<1> DEFINE missing == {x \in 0..b : x \notin A}
           before == [x \in missing |-> x - 1]
<1>1. IsFiniteSet(missing)
    <2>1. IsFiniteSet(0..b)
        BY FS_Interval
    <2> QED
        BY <2>1, FS_Subset
<1>2. \A x \in missing : x - 1 \in missing
    OBVIOUS
<1>3. before \in Injection(missing, missing)
    BY <1>2 DEF Injection, IsInjective
<1>4. b \in missing /\ \A x \in missing : x <= b /\ x \in Nat /\ before[x] = x - 1
    OBVIOUS
<1> HIDE DEF missing, before
<1>5. before \in Surjection(missing, missing)
    BY <1>1, <1>3, FS_Injection
<1>6. \E x \in missing : before[x] = b
    BY <1>4, <1>5 DEF Surjection
<1> QED
    BY <1>4, <1>6

\* Quotient and remainder.
LEMMA Division ==
    ASSUME NEW n \in Nat, NEW d \in Nat \ {0}
    PROVE  /\ n = ((n \div d) * d) + (n % d)
           /\ n \div d \in Nat
OBVIOUS

\* Reading one digit more.
LEMMA NextDigit ==
    ASSUME NEW n \in Nat, NEW i \in 1..HeaderBytes
    PROVE  n \div Base^(HeaderBytes - i)
               = (n \div Base^(HeaderBytes - (i - 1))) * Base
                     + ((n \div Base^(HeaderBytes - i)) % Base)
<1> DEFINE d == Base^(HeaderBytes - i)
           e == Base^(HeaderBytes - (i - 1))
<1>1. d \in Nat \ {0} /\ e = Base * d /\ Base \in Nat \ {0}
    <2>1. HeaderBytes - i \in 0..HeaderBytes /\ HeaderBytes - (i - 1) \in 1..HeaderBytes
        BY FrameAssumption
    <2>2. HeaderBytes - (i - 1) - 1 = HeaderBytes - i
        BY FrameAssumption
    <2> QED
        BY <2>1, <2>2, FrameAssumption
<1> HIDE DEF d, e
<1>2. n \div e = (n \div d) \div Base
    BY <1>1
<1>3. n \div d \in Nat
    BY <1>1
<1>4. n \div d = (((n \div d) \div Base) * Base) + ((n \div d) % Base)
    BY <1>1, <1>3, Division
<1> QED
    BY <1>2, <1>4 DEF d, e

\* A length comes back out of the header it was written to: gm_core.cpp, for every base and
\* every number of digits.
THEOREM HeaderIsRead ==
    ASSUME NEW n \in 0..(Base^HeaderBytes - 1), NEW bytes,
           \A i \in 1..HeaderBytes : bytes[i] = WriteBE(n)[i]
    PROVE  ReadBE(bytes) = n
<1> DEFINE q == [i \in 0..HeaderBytes |-> n \div Base^(HeaderBytes - i)]
           Reads(v) == v = [i \in 0..HeaderBytes |->
                                IF i = 0 THEN 0 ELSE v[i - 1] * Base + bytes[i]]
           value == CHOOSE v : Reads(v)
<1>1. n \in Nat /\ HeaderBytes \in Nat
    BY FrameAssumption
<1>2. q[0] = 0 /\ q[HeaderBytes] = n
    <2>1. n \div Base^HeaderBytes = 0
        BY <1>1, FrameAssumption
    <2>2. n \div Base^0 = n
        BY <1>1, FrameAssumption
    <2> QED
        BY <2>1, <2>2, FrameAssumption
<1>3. \A i \in 1..HeaderBytes : q[i] = q[i - 1] * Base + bytes[i]
    <2> TAKE i \in 1..HeaderBytes
    <2>1. bytes[i] = (n \div Base^(HeaderBytes - i)) % Base
        BY DEF WriteBE
    <2>2. i \in 0..HeaderBytes /\ i - 1 \in 0..HeaderBytes
        BY <1>1
    <2> QED
        BY <1>1, <2>1, <2>2, NextDigit
<1>4. Reads(q)
    <2>1. q = [i \in 0..HeaderBytes |-> q[i]]
        OBVIOUS
    <2> HIDE DEF q
    <2>2. \A i \in 0..HeaderBytes : q[i] = IF i = 0 THEN 0 ELSE q[i - 1] * Base + bytes[i]
        BY <1>1, <1>2, <1>3
    <2> QED
        BY <2>1, <2>2
<1>5. Reads(value)
    <2> HIDE DEF Reads
    <2> QED
        BY <1>4
<1>6. ReadBE(bytes) = value[HeaderBytes]
    BY Zenon DEF ReadBE
<1>7. \A i \in 0..HeaderBytes :
          value[i] = IF i = 0 THEN 0 ELSE value[i - 1] * Base + bytes[i]
    <2> HIDE DEF value
    <2> QED
        BY <1>5
<1> DEFINE same == {i \in 0..HeaderBytes : value[i] = q[i]}
<1> HIDE DEF value, q, Reads
<1>8. 0 \in same
    BY <1>1, <1>2, <1>7
<1>9. ASSUME NEW i \in 1..HeaderBytes, i - 1 \in same
      PROVE  i \in same
    <2>1. i \in 0..HeaderBytes /\ i # 0
        BY <1>1
    <2> QED
        BY <1>3, <1>7, <1>9, <2>1
<1>10. 0..HeaderBytes \subseteq same
    <2> HIDE DEF same
    <2> QED
        BY <1>1, <1>8, <1>9, UpTo
<1> QED
    BY <1>1, <1>2, <1>6, <1>10

-------------------------------------------------------------------------------
(* The bytes that are not yet taken are those of the messages not yet handed out. *)

left == buffer \o wire

\* at[i] counts the bytes of the first i messages.
Ends(at) ==
    /\ at \in [0..Len(sent) -> Nat]
    /\ \A i \in 1..Len(sent) :
           /\ at[i] = at[i - 1] + HeaderBytes + Len(sent[i])
           /\ at[i] <= at[Len(sent)]

\* Byte j of frame i, if it is left, is at its place.
InPlace(at) ==
    \A i \in 1..Len(sent) : \A j \in 1..(HeaderBytes + Len(sent[i])) :
        (at[i - 1] + j) - at[Len(received)] \in 1..Len(left) =>
            left[(at[i - 1] + j) - at[Len(received)]] = Frame(sent[i])[j]

\* Nothing follows the last frame, and nothing of it is missing unless the sender is gone.
Whole(at) ==
    /\ Len(left) <= at[Len(sent)] - at[Len(received)]
    /\ ~closed => Len(left) = at[Len(sent)] - at[Len(received)]

\* The inductive invariant behind the framing theorems.
InStep ==
    /\ Len(received) <= Len(sent)
    /\ \E at : Ends(at) /\ InPlace(at) /\ Whole(at)

\* The parts of two joined sequences.
LEMMA Joined ==
    ASSUME NEW S, NEW s \in Seq(S), NEW t \in Seq(S)
    PROVE  /\ s \o t \in Seq(S) /\ Len(s \o t) = Len(s) + Len(t)
           /\ Len(s) \in Nat /\ Len(t) \in Nat
           /\ \A i \in 1..Len(s) : (s \o t)[i] = s[i]
           /\ \A i \in 1..Len(t) : (s \o t)[Len(s) + i] = t[i]
<1> DEFINE joined == s \o t
<1>1. /\ joined \in Seq(S) /\ Len(joined) = Len(s) + Len(t) /\ Len(s) \in Nat /\ Len(t) \in Nat
      /\ \A i \in 1..(Len(s) + Len(t)) :
             joined[i] = IF i <= Len(s) THEN s[i] ELSE t[i - Len(s)]
    BY ConcatProperties
<1> HIDE DEF joined
<1>2. \A i \in 1..Len(s) : joined[i] = s[i]
    BY <1>1
<1>3. \A i \in 1..Len(t) : joined[Len(s) + i] = t[i]
    <2> TAKE i \in 1..Len(t)
    <2>1. /\ Len(s) + i \in 1..(Len(s) + Len(t)) /\ ~(Len(s) + i <= Len(s))
          /\ (Len(s) + i) - Len(s) = i
        BY <1>1
    <2> QED
        BY <1>1, <2>1
<1> QED
    BY <1>1, <1>2, <1>3 DEF joined

\* A payload and its frame.
LEMMA FrameIs ==
    ASSUME NEW payload \in AnyPayload
    PROVE  /\ payload \in Seq(Byte) /\ Len(payload) \in 0..(Base^HeaderBytes - 1)
           /\ Len(payload) \in Nat /\ payload \in OfLength(Len(payload))
           /\ Frame(payload) \in Seq(Byte)
           /\ Len(Frame(payload)) = HeaderBytes + Len(payload)
           /\ \A i \in 1..HeaderBytes : Frame(payload)[i] = WriteBE(Len(payload))[i]
           /\ \A i \in 1..Len(payload) : Frame(payload)[HeaderBytes + i] = payload[i]
<1>1. PICK n \in 0..(Base^HeaderBytes - 1) : payload \in [1..n -> Byte]
    BY DEF AnyPayload, OfLength
<1>2. n \in Nat
    BY FrameAssumption
<1>3. payload \in Seq(Byte) /\ Len(payload) = n
    BY <1>1, <1>2, IsASeq
<1> DEFINE header == WriteBE(n)
<1>4. /\ header \in Seq(Byte) /\ Len(header) = HeaderBytes /\ HeaderBytes \in Nat
      /\ Frame(payload) = header \o payload
    <2>1. header \in Seq(Byte)
        BY <1>2, HeaderIsBytes
    <2>2. DOMAIN header = 1..HeaderBytes /\ HeaderBytes \in Nat
        BY FrameAssumption DEF WriteBE
    <2> HIDE DEF header
    <2>3. DOMAIN header = 1..Len(header) /\ Len(header) \in Nat
        BY <2>1, LenProperties
    <2>4. Len(header) = HeaderBytes
        BY <2>2, <2>3
    <2> QED
        BY <1>3, <2>1, <2>2, <2>4 DEF Frame, header
<1> HIDE DEF header
<1>5. /\ Frame(payload) \in Seq(Byte) /\ Len(Frame(payload)) = HeaderBytes + n
      /\ \A i \in 1..HeaderBytes : Frame(payload)[i] = header[i]
      /\ \A i \in 1..n : Frame(payload)[HeaderBytes + i] = payload[i]
    <2>1. /\ header \o payload \in Seq(Byte) /\ Len(header \o payload) = Len(header) + Len(payload)
          /\ \A i \in 1..Len(header) : (header \o payload)[i] = header[i]
          /\ \A i \in 1..Len(payload) : (header \o payload)[Len(header) + i] = payload[i]
        <3>1. header \in Seq(Byte) /\ payload \in Seq(Byte)
            BY <1>3, <1>4
        <3> QED
            BY <3>1, Joined
    <2> QED
        BY <1>3, <1>4, <2>1
<1> QED
    BY <1>1, <1>2, <1>3, <1>5 DEF OfLength, header

\* Where a complete header is buffered there is a message it belongs to, the next one, and it
\* reads as its length; so far as the frame is buffered, it is that of this message.
LEMMA NextMessage ==
    ASSUME TypeOK, InStep, HasHeader(buffer)
    PROVE  /\ Len(received) + 1 \in 1..Len(sent)
           /\ sent[Len(received) + 1] \in AnyPayload
           /\ ReadBE(buffer) = Len(sent[Len(received) + 1])
           /\ \A j \in 1..(HeaderBytes + Len(sent[Len(received) + 1])) :
                  j <= Len(buffer) => buffer[j] = Frame(sent[Len(received) + 1])[j]
<1> DEFINE r == Len(received)
           n == Len(sent)
<1>1. PICK at : Ends(at) /\ InPlace(at) /\ Whole(at)
    BY DEF InStep
<1>2. /\ r \in Nat /\ n \in Nat /\ r <= n /\ buffer \in Seq(Byte) /\ wire \in Seq(Byte)
      /\ Len(buffer) \in Nat /\ Len(wire) \in Nat /\ Len(buffer) >= HeaderBytes
    BY DEF TypeOK, InStep, HasHeader
<1>3. /\ Len(left) = Len(buffer) + Len(wire)
      /\ \A j \in 1..Len(buffer) : left[j] = buffer[j] /\ j \in 1..Len(left)
    <2>1. /\ Len(left) = Len(buffer) + Len(wire)
          /\ \A j \in 1..Len(buffer) : left[j] = buffer[j]
        BY <1>2, Joined DEF left
    <2> QED
        BY <1>2, <2>1
<1>4. r + 1 \in 1..n
    <2>1. Len(left) <= at[n] - at[r] /\ at[n] \in Nat /\ at[r] \in Nat
        BY <1>1, <1>2 DEF Whole, Ends
    <2>2. Len(left) > 0
        BY <1>2, <1>3, FrameAssumption
    <2> HIDE DEF r, n
    <2>3. r # n
        BY <1>2, <1>3, <2>1, <2>2
    <2> QED
        BY <1>2, <2>3
<1>5. sent[r + 1] \in AnyPayload
    BY <1>4 DEF TypeOK
<1>6. ASSUME NEW j \in 1..(HeaderBytes + Len(sent[r + 1])), j <= Len(buffer)
      PROVE  buffer[j] = Frame(sent[r + 1])[j]
    <2>1. Len(sent[r + 1]) \in Nat
        BY <1>5, FrameIs
    <2>2. j \in 1..Len(buffer)
        BY <1>2, <1>6, <2>1, FrameAssumption
    <2>3. at[r] \in Nat /\ (r + 1) - 1 = r
        BY <1>1, <1>2 DEF Ends
    <2>4. (at[r] + j) - at[r] = j
        BY <2>2, <2>3
    <2> QED
        BY <1>1, <1>3, <1>4, <1>6, <2>2, <2>3, <2>4 DEF InPlace
<1>7. ReadBE(buffer) = Len(sent[r + 1])
    <2>1. \A j \in 1..HeaderBytes : buffer[j] = WriteBE(Len(sent[r + 1]))[j]
        <3> TAKE j \in 1..HeaderBytes
        <3>1. j \in 1..(HeaderBytes + Len(sent[r + 1])) /\ j <= Len(buffer)
            BY <1>2, <1>5, FrameIs, FrameAssumption
        <3> QED
            BY <1>5, <1>6, <3>1, FrameIs
    <2> QED
        BY <1>5, <2>1, FrameIs, HeaderIsRead
<1> QED
    BY <1>4, <1>5, <1>6, <1>7

\* The frame of a message is added behind all others.
LEMMA SendInStep ==
    ASSUME TypeOK, InStep, NEW payload \in AnyPayload, Send(payload)
    PROVE  InStep'
<1>1. PICK at : Ends(at) /\ InPlace(at) /\ Whole(at)
    BY DEF InStep
<1>2. PICK r, n, length, size :
          r = Len(received) /\ n = Len(sent) /\ length = Len(left) /\ size = HeaderBytes + Len(payload)
    OBVIOUS
<1>3. /\ r \in Nat /\ n \in Nat /\ r <= n /\ buffer \in Seq(Byte) /\ wire \in Seq(Byte)
      /\ sent \in Seq(AnyPayload) /\ size \in Nat /\ ~closed /\ HeaderBytes \in Nat
    BY <1>2, FrameIs, FrameAssumption DEF TypeOK, InStep, Send
<1>4. /\ Len(sent') = n + 1 /\ sent'[n + 1] = payload
      /\ \A i \in 1..n : sent'[i] = sent[i] /\ sent[i] \in AnyPayload
      /\ received' = received /\ Len(received') = r
    BY <1>2, <1>3 DEF Send
<1>5. left \in Seq(Byte) /\ left' = left \o Frame(payload)
    <2>1. wire' = wire \o Frame(payload) /\ buffer' = buffer
        BY DEF Send
    <2>2. Frame(payload) \in Seq(Byte)
        BY FrameIs
    <2> DEFINE frame == Frame(payload)
    <2> HIDE DEF frame
    <2>3. frame \in Seq(Byte)
        BY <2>2 DEF frame
    <2>4. (buffer \o wire) \o frame = buffer \o (wire \o frame)
        BY <1>3, <2>3, ConcatAssociative
    <2> QED
        BY <1>3, <2>1, <2>4, Joined DEF left, frame
<1>6. /\ length \in Nat /\ Len(left') = length + size
      /\ \A x \in 1..length : left'[x] = left[x]
      /\ \A j \in 1..size : left'[length + j] = Frame(payload)[j]
    <2>1. Frame(payload) \in Seq(Byte) /\ Len(Frame(payload)) = size
        BY <1>2, FrameIs
    <2> DEFINE frame == Frame(payload)
    <2>2. left' = left \o frame /\ frame \in Seq(Byte) /\ Len(frame) = size
        BY <1>5, <2>1
    <2> HIDE DEF frame
    <2>3. /\ Len(left \o frame) = Len(left) + Len(frame) /\ Len(left) \in Nat
          /\ \A x \in 1..Len(left) : (left \o frame)[x] = left[x]
          /\ \A j \in 1..Len(frame) : (left \o frame)[Len(left) + j] = frame[j]
        <3>1. left \in Seq(Byte) /\ frame \in Seq(Byte)
            BY <1>5, <2>2
        <3> QED
            BY <3>1, Joined
    <2>4. /\ length \in Nat /\ Len(left') = length + size
          /\ \A x \in 1..length : left'[x] = left[x]
          /\ \A j \in 1..size : left'[length + j] = frame[j]
        BY <1>2, <2>2, <2>3
    <2> QED
        BY <2>4 DEF frame
<1>7. /\ at \in [0..n -> Nat] /\ length = at[n] - at[r] /\ at[n] \in Nat /\ at[r] \in Nat
      /\ \A i \in 1..n : at[i] = at[i - 1] + HeaderBytes + Len(sent[i]) /\ at[i] <= at[n]
    BY <1>1, <1>2, <1>3 DEF Ends, Whole
<1>8. PICK new : new = [i \in 0..(n + 1) |-> IF i = n + 1 THEN at[n] + size ELSE at[i]]
    OBVIOUS
<1>9. /\ new \in [0..(n + 1) -> Nat] /\ new[n + 1] = at[n] + size /\ new[r] = at[r]
      /\ \A i \in 0..n : new[i] = at[i] /\ at[i] \in Nat
    BY <1>3, <1>7, <1>8
<1>10. \A i \in 1..(n + 1) : i \in 1..n \/ i = n + 1
    BY <1>3
<1>11. (n + 1) - 1 = n /\ n \in 0..n
    BY <1>3
<1>12. Ends(new)'
    <2>1. ASSUME NEW i \in 1..n
          PROVE  new[i] = new[i - 1] + HeaderBytes + Len(sent'[i]) /\ new[i] <= new[n + 1]
        <3>1. i \in 0..n /\ i - 1 \in 0..n
            BY <1>3
        <3>2. at[i] = at[i - 1] + HeaderBytes + Len(sent[i]) /\ at[i] <= at[n] /\ at[i] \in Nat
            BY <1>7, <1>9, <3>1
        <3>3. at[i] <= at[n] + size
            BY <1>3, <1>7, <3>2
        <3> QED
            BY <1>4, <1>9, <3>1, <3>2, <3>3
    <2>2. new[n + 1] = new[n] + HeaderBytes + Len(sent'[n + 1]) /\ new[n + 1] <= new[n + 1]
        <3>1. Len(payload) \in Nat
            BY FrameIs
        <3>2. at[n] + size = at[n] + HeaderBytes + Len(payload) /\ at[n] + size <= at[n] + size
            BY <1>2, <1>3, <1>7, <3>1
        <3> QED
            BY <1>4, <1>9, <1>11, <3>2
    <2> QED
        BY <1>4, <1>9, <1>10, <1>11, <2>1, <2>2 DEF Ends
<1>13. InPlace(new)'
    <2>1. ASSUME NEW i \in 1..n, NEW j \in 1..(HeaderBytes + Len(sent'[i])),
                 (new[i - 1] + j) - new[r] \in 1..Len(left')
          PROVE  left'[(new[i - 1] + j) - new[r]] = Frame(sent'[i])[j]
        <3>1. i - 1 \in 0..n /\ i \in 0..n /\ sent'[i] = sent[i] /\ sent[i] \in AnyPayload
            BY <1>3, <1>4
        <3>2. PICK m \in Nat : m = HeaderBytes + Len(sent[i])
            BY <1>3, <3>1, FrameIs
        <3>3. new[i - 1] = at[i - 1] /\ at[i - 1] \in Nat /\ at[i] \in Nat
            BY <1>9, <3>1
        <3>4. at[i] = at[i - 1] + m /\ at[i] <= at[n] /\ j \in 1..m
            <4>1. Len(sent[i]) \in Nat /\ j \in 1..m
                BY <2>1, <3>1, <3>2, FrameIs
            <4>2. at[i] = at[i - 1] + HeaderBytes + Len(sent[i]) /\ at[i] <= at[n]
                BY <1>7
            <4>3. at[i] = at[i - 1] + m
                BY <1>3, <3>2, <3>3, <4>1, <4>2
            <4> QED
                BY <4>1, <4>2, <4>3
        <3>5. (at[i - 1] + j) - at[r] \in 1..length
            <4>1. PICK a, b, c, d : a = at[i - 1] /\ b = at[i] /\ c = at[n] /\ d = at[r]
                OBVIOUS
            <4>2. /\ a \in Nat /\ b \in Nat /\ c \in Nat /\ d \in Nat /\ j \in Nat /\ j <= m
                  /\ b = a + m /\ b <= c /\ length = c - d
                BY <1>7, <3>2, <3>3, <3>4, <4>1
            <4>3. (a + j) - d >= 1
                BY <1>6, <1>9, <2>1, <3>3, <4>1
            <4>4. (a + j) - d \in 1..length
                BY <3>2, <4>2, <4>3
            <4> QED
                BY <4>1, <4>4
        <3>6. left[(at[i - 1] + j) - at[r]] = Frame(sent[i])[j]
            BY <1>1, <1>2, <2>1, <3>1, <3>5 DEF InPlace
        <3> QED
            BY <1>6, <1>9, <3>1, <3>3, <3>5, <3>6
    <2>2. ASSUME NEW j \in 1..(HeaderBytes + Len(sent'[n + 1]))
          PROVE  left'[(new[n] + j) - new[r]] = Frame(sent'[n + 1])[j]
        <3>1. j \in 1..size
            BY <1>2, <1>4, <2>2
        <3>2. (at[n] + j) - at[r] = length + j
            BY <1>3, <1>6, <1>7, <3>1
        <3> QED
            BY <1>4, <1>6, <1>9, <1>11, <3>1, <3>2
    <2> QED
        BY <1>4, <1>10, <1>11, <2>1, <2>2 DEF InPlace
<1>14. Whole(new)'
    <2>1. PICK c, d : c = at[n] /\ d = at[r] /\ c \in Nat /\ d \in Nat /\ length = c - d
        BY <1>7
    <2>2. length + size = (c + size) - d /\ length + size <= (c + size) - d
        <3>1. length \in Nat /\ size \in Nat /\ c \in Nat /\ d \in Nat
            BY <1>3, <1>6, <2>1
        <3>2. \A a, b, e \in Nat : (a - b) + e = (a + e) - b
            OBVIOUS
        <3>3. length + size = (c + size) - d
            BY <2>1, <3>1, <3>2
        <3>4. length + size <= length + size
            BY <3>1
        <3> QED
            BY <3>3, <3>4
    <2>3. Len(left') = new[n + 1] - new[r] /\ Len(left') <= new[n + 1] - new[r]
        BY <1>6, <1>9, <2>1, <2>2
    <2> QED
        BY <1>4, <2>3 DEF Whole
<1>15. Len(received') <= Len(sent')
    BY <1>3, <1>4
<1> QED
    BY <1>12, <1>13, <1>14, <1>15 DEF InStep

\* A receive moves bytes from one place to the other, and the sender's end cuts the last ones.
LEMMA PrefixInStep ==
    ASSUME InStep, UNCHANGED <<sent, received>>, left \in Seq(Byte), left' \in Seq(Byte),
           Len(left') <= Len(left), \A x \in 1..Len(left') : left'[x] = left[x],
           closed' \/ (Len(left') = Len(left) /\ closed' = closed)
    PROVE  InStep'
<1>1. PICK at : Ends(at) /\ InPlace(at) /\ Whole(at)
    BY DEF InStep
<1>2. /\ Len(left) \in Nat /\ Len(left') \in Nat
      /\ \A x \in 1..Len(left') : x \in 1..Len(left)
    OBVIOUS
<1>3. Ends(at)'
    BY <1>1 DEF Ends
<1>4. InPlace(at)'
    BY <1>1, <1>2 DEF InPlace
<1>5. Whole(at)'
    <2>1. PICK rest : rest = at[Len(sent)] - at[Len(received)]
        OBVIOUS
    <2>2. rest \in Int
        <3>1. at[Len(sent)] \in Nat /\ at[Len(received)] \in Nat
            <4>1. Len(sent) \in 0..Len(sent) /\ Len(received) \in 0..Len(sent)
                BY DEF InStep
            <4> QED
                BY <1>1, <4>1 DEF Ends
        <3> QED
            BY <2>1, <3>1
    <2>3. Len(left) <= rest /\ (~closed => Len(left) = rest)
        BY <1>1, <2>1 DEF Whole
    <2>4. Len(left') <= rest /\ (~closed' => Len(left') = rest)
        BY <1>2, <2>2, <2>3
    <2> QED
        BY <2>1, <2>4 DEF Whole
<1> QED
    BY <1>3, <1>4, <1>5 DEF InStep

\* The sender goes away.
LEMMA CloseInStep ==
    ASSUME TypeOK, InStep, Close
    PROVE  InStep'
<1>1. PICK n \in 0..Len(wire) : wire' = SubSeq(wire, 1, n)
    BY DEF Close
<1>2. /\ UNCHANGED <<sent, received>> /\ buffer' = buffer /\ closed'
      /\ buffer \in Seq(Byte) /\ wire \in Seq(Byte)
    BY DEF Close, TypeOK
<1>3. /\ wire' \in Seq(Byte) /\ Len(wire') = n /\ n <= Len(wire) /\ Len(wire) \in Nat
      /\ \A i \in 1..n : wire'[i] = wire[i]
    <2>1. \A i \in 1..n : wire[i] \in Byte
        BY <1>2
    <2> QED
        BY <1>1, <1>2, <2>1, SubSeqProperties
<1>4. /\ left \in Seq(Byte) /\ Len(left) = Len(buffer) + Len(wire) /\ Len(buffer) \in Nat
      /\ \A i \in 1..Len(buffer) : left[i] = buffer[i]
      /\ \A i \in 1..Len(wire) : left[Len(buffer) + i] = wire[i]
    BY <1>2, Joined DEF left
<1>5. /\ left' \in Seq(Byte) /\ Len(left') = Len(buffer) + n
      /\ \A i \in 1..Len(buffer) : left'[i] = buffer[i]
      /\ \A i \in 1..n : left'[Len(buffer) + i] = wire'[i]
    <2>1. left' = buffer \o wire'
        BY <1>2 DEF left
    <2> DEFINE shorter == wire'
    <2>2. shorter \in Seq(Byte) /\ Len(shorter) = n /\ left' = buffer \o shorter
        BY <1>3, <2>1
    <2> HIDE DEF shorter
    <2>3. /\ buffer \o shorter \in Seq(Byte) /\ Len(buffer \o shorter) = Len(buffer) + Len(shorter)
          /\ \A i \in 1..Len(buffer) : (buffer \o shorter)[i] = buffer[i]
          /\ \A i \in 1..Len(shorter) : (buffer \o shorter)[Len(buffer) + i] = shorter[i]
        <3>1. buffer \in Seq(Byte) /\ shorter \in Seq(Byte)
            BY <1>2, <2>2
        <3> QED
            BY <3>1, Joined
    <2> QED
        BY <2>2, <2>3 DEF shorter
<1>6. ASSUME NEW x \in 1..Len(left')
      PROVE  left'[x] = left[x]
    <2>1. CASE x <= Len(buffer)
        BY <1>4, <1>5, <2>1
    <2>2. CASE ~(x <= Len(buffer))
        <3>1. PICK i \in 1..n : x = Len(buffer) + i
            <4>1. x - Len(buffer) \in 1..n /\ x = Len(buffer) + (x - Len(buffer))
                BY <1>4, <1>5, <2>2
            <4> QED
                BY <4>1
        <3> QED
            BY <1>3, <1>4, <1>5, <3>1
    <2> QED
        BY <2>1, <2>2
<1>7. Len(left') <= Len(left)
    BY <1>3, <1>4, <1>5
<1> QED
    BY <1>2, <1>4, <1>5, <1>6, <1>7, PrefixInStep

\* A receive takes bytes off the wire and puts them behind those it has.
LEMMA ReceiveInStep ==
    ASSUME TypeOK, InStep, Receive
    PROVE  InStep'
<1>1. PICK n \in 1..Len(wire) :
          buffer' = buffer \o SubSeq(wire, 1, n) /\ wire' = SubSeq(wire, n + 1, Len(wire))
    BY DEF Receive
<1>2. UNCHANGED <<sent, received, closed>> /\ buffer \in Seq(Byte) /\ wire \in Seq(Byte)
    BY DEF Receive, TypeOK
<1>3. SubSeq(wire, 1, n) \in Seq(Byte) /\ SubSeq(wire, n + 1, Len(wire)) \in Seq(Byte)
    BY <1>2, Stretch, LenProperties
<1>4. SubSeq(wire, 1, n) \o SubSeq(wire, n + 1, Len(wire)) = wire
    <2>1. Len(wire) \in Nat /\ 1 \in 1..(Len(wire) + 1) /\ n \in (1 - 1)..Len(wire)
          /\ Len(wire) \in n..Len(wire)
        BY <1>2
    <2> QED
        BY <1>2, <2>1, ConcatAdjacentSubSeq, SubSeqFull
<1>5. left' = left /\ left \in Seq(Byte)
    <2>1. left' = (buffer \o SubSeq(wire, 1, n)) \o SubSeq(wire, n + 1, Len(wire))
        BY <1>1 DEF left
    <2> DEFINE first == SubSeq(wire, 1, n)
               second == SubSeq(wire, n + 1, Len(wire))
    <2>2. /\ buffer \in Seq(Byte) /\ first \in Seq(Byte) /\ second \in Seq(Byte)
          /\ left' = (buffer \o first) \o second /\ first \o second = wire
        BY <1>2, <1>3, <1>4, <2>1
    <2> HIDE DEF first, second
    <2>3. (buffer \o first) \o second = buffer \o (first \o second)
        <3>1. \A s, t, u \in Seq(Byte) : (s \o t) \o u = s \o (t \o u)
            BY ConcatAssociative
        <3> QED
            BY <2>2, <3>1
    <2>4. left' = left
        BY <2>2, <2>3 DEF left
    <2>5. left \in Seq(Byte)
        <3>1. buffer \o wire \in Seq(Byte)
            BY <1>2, Joined
        <3> QED
            BY <3>1 DEF left
    <2> QED
        BY <2>4, <2>5
<1>6. Len(left') <= Len(left)
    BY <1>5
<1> QED
    BY <1>2, <1>5, <1>6, PrefixInStep

\* A reader hands out the next message, whole, and leaves the bytes of those that follow it.
LEMMA NextPayloadInStep ==
    ASSUME TypeOK, InStep, NextPayload
    PROVE  InStep' /\ Channel!Deliver
<1>1. PICK at : Ends(at) /\ InPlace(at) /\ Whole(at)
    BY DEF InStep
<1>2. PICK r, n, size : r = Len(received) /\ n = Len(sent) /\ size = FrameSize(buffer)
    OBVIOUS
<1>3. /\ HasHeader(buffer) /\ ~Bad(buffer) /\ Len(buffer) >= size
      /\ received' = Append(received, SubSeq(buffer, HeaderBytes + 1, size))
      /\ buffer' = Rest(buffer) /\ UNCHANGED <<sent, wire, closed>>
    BY <1>2 DEF NextPayload, Complete
<1>4. /\ r \in Nat /\ n \in Nat /\ HeaderBytes \in Nat /\ buffer \in Seq(Byte) /\ wire \in Seq(Byte)
      /\ received \in Seq(Payloads)
    BY <1>2, FrameAssumption DEF TypeOK
<1>5. /\ r + 1 \in 1..n /\ sent[r + 1] \in AnyPayload /\ ReadBE(buffer) = Len(sent[r + 1])
      /\ \A j \in 1..(HeaderBytes + Len(sent[r + 1])) :
             j <= Len(buffer) => buffer[j] = Frame(sent[r + 1])[j]
    BY <1>2, <1>3, NextMessage
<1>6. PICK length : length = Len(sent[r + 1])
    OBVIOUS
<1>7. length \in Nat /\ size = HeaderBytes + length /\ size \in Nat /\ Len(buffer) \in Nat
    BY <1>2, <1>4, <1>5, <1>6, FrameIs DEF FrameSize
<1>8. SubSeq(buffer, HeaderBytes + 1, size) = sent[r + 1]
    <2>1. SubSeq(buffer, HeaderBytes + 1, size) \in Seq(Byte)
          /\ Len(SubSeq(buffer, HeaderBytes + 1, size)) = length
        <3>1. HeaderBytes + 1 \in Nat \ {0} /\ HeaderBytes + 1 <= size + 1 /\ size <= Len(buffer)
              /\ size - (HeaderBytes + 1) + 1 = length
            BY <1>3, <1>4, <1>7
        <3> QED
            BY <1>4, <1>7, <3>1, Stretch
    <2>2. ASSUME NEW i \in 1..length
          PROVE  SubSeq(buffer, HeaderBytes + 1, size)[i] = sent[r + 1][i]
        <3>1. /\ HeaderBytes + i \in 1..size /\ HeaderBytes + i <= Len(buffer)
              /\ HeaderBytes + 1 + i - 1 = HeaderBytes + i
              /\ i \in 1..(size - (HeaderBytes + 1) + 1)
            BY <1>3, <1>4, <1>7
        <3>2. buffer[HeaderBytes + i] = sent[r + 1][i]
            BY <1>5, <1>6, <1>7, <3>1, FrameIs
        <3>3. \A k \in (HeaderBytes + 1)..size : buffer[k] \in Byte
            BY <1>3, <1>4, <1>7
        <3>4. HeaderBytes + 1 \in Int /\ size \in Int
            BY <1>4, <1>7
        <3> QED
            BY <3>1, <3>2, <3>3, <3>4, SubSeqProperties
    <2>3. sent[r + 1] \in Seq(Byte)
        BY <1>5, FrameIs
    <2> QED
        BY <1>6, <2>1, <2>2, <2>3, SeqEqual
<1>9. sent[r + 1] \in Payloads
    <2>1. length \in Lengths
        BY <1>3, <1>5, <1>6 DEF Bad
    <2>2. sent[r + 1] \in OfLength(length)
        BY <1>5, <1>6, FrameIs
    <2> QED
        BY <2>1, <2>2 DEF Payloads
<1>10. Channel!Deliver
    <2>1. Len(received) < Len(sent)
        BY <1>2, <1>4, <1>5
    <2>2. sent[Len(received) + 1] \in Payloads
        BY <1>2, <1>9
    <2>3. received' = Append(received, sent[Len(received) + 1])
        BY <1>2, <1>3, <1>8
    <2> QED
        BY <1>3, <2>1, <2>2, <2>3 DEF Channel!Deliver
<1>11. Len(received') = r + 1 /\ Len(received') <= Len(sent') /\ Len(sent') = n /\ sent' = sent
    BY <1>2, <1>3, <1>4, <1>5, <1>8, <1>9
<1>12. /\ Len(left) \in Nat /\ Len(left') \in Nat /\ Len(left) = Len(left') + size
       /\ \A x \in 1..Len(left') : left'[x] = left[x + size]
    <2> DEFINE rest == SubSeq(buffer, size + 1, Len(buffer))
    <2>1. left' = rest \o wire
        BY <1>2, <1>3 DEF left, Rest
    <2>2. rest \in Seq(Byte) /\ Len(rest) = Len(buffer) - size
        <3>1. PICK b : b = Len(buffer)
            OBVIOUS
        <3>2. /\ size + 1 \in Nat \ {0} /\ size + 1 <= b + 1 /\ b \in Nat
              /\ b <= Len(buffer) /\ b - (size + 1) + 1 = b - size
            BY <1>3, <1>7, <3>1
        <3>3. /\ SubSeq(buffer, size + 1, b) \in Seq(Byte)
              /\ Len(SubSeq(buffer, size + 1, b)) = b - (size + 1) + 1
            BY <1>4, <3>2, Stretch
        <3> QED
            BY <3>1, <3>2, <3>3
    <2>3. \A i \in 1..(Len(buffer) - size) : rest[i] = buffer[size + i]
        <3> TAKE i \in 1..(Len(buffer) - size)
        <3>1. size + 1 + i - 1 = size + i /\ i \in 1..(Len(buffer) - (size + 1) + 1)
              /\ size + 1 \in Int /\ Len(buffer) \in Int
            BY <1>7
        <3>2. \A k \in (size + 1)..Len(buffer) : buffer[k] \in Byte
            BY <1>4, <1>7
        <3> QED
            BY <3>1, <3>2, SubSeqProperties
    <2> HIDE DEF rest
    <2>4. /\ Len(left') = Len(rest) + Len(wire) /\ Len(rest) \in Nat /\ Len(wire) \in Nat
          /\ \A i \in 1..Len(rest) : left'[i] = rest[i]
          /\ \A i \in 1..Len(wire) : left'[Len(rest) + i] = wire[i]
        <3>1. rest \in Seq(Byte) /\ wire \in Seq(Byte)
            BY <1>4, <2>2
        <3>2. /\ Len(rest \o wire) = Len(rest) + Len(wire) /\ Len(rest) \in Nat /\ Len(wire) \in Nat
              /\ \A i \in 1..Len(rest) : (rest \o wire)[i] = rest[i]
              /\ \A i \in 1..Len(wire) : (rest \o wire)[Len(rest) + i] = wire[i]
            BY <3>1, Joined
        <3> QED
            BY <2>1, <3>2
    <2>5. /\ Len(left) = Len(buffer) + Len(wire)
          /\ \A i \in 1..Len(buffer) : left[i] = buffer[i]
          /\ \A i \in 1..Len(wire) : left[Len(buffer) + i] = wire[i]
        BY <1>4, Joined DEF left
    <2>6. ASSUME NEW x \in 1..Len(left')
          PROVE  left'[x] = left[x + size]
        <3>1. CASE x <= Len(rest)
            <4>1. x \in 1..Len(rest) /\ x \in 1..(Len(buffer) - size) /\ x + size = size + x
                  /\ x + size \in 1..Len(buffer)
                BY <1>7, <2>2, <2>4, <3>1
            <4> QED
                BY <2>3, <2>4, <2>5, <4>1
        <3>2. CASE ~(x <= Len(rest))
            <4>1. PICK i \in 1..Len(wire) : x = Len(rest) + i
                <5>1. x - Len(rest) \in 1..Len(wire) /\ x = Len(rest) + (x - Len(rest))
                    BY <2>4, <3>2
                <5> QED
                    BY <5>1
            <4>2. x + size = Len(buffer) + i
                BY <1>7, <2>2, <2>4, <4>1
            <4> QED
                BY <2>4, <2>5, <4>1, <4>2
        <3> QED
            BY <3>1, <3>2
    <2>7. PICK b, c, w : b = Len(buffer) /\ c = Len(rest) /\ w = Len(wire)
        OBVIOUS
    <2>8. b \in Nat /\ c \in Nat /\ w \in Nat /\ c = b - size
        BY <1>7, <2>2, <2>4, <2>7
    <2>9. Len(left) = b + w /\ Len(left') = c + w
        BY <2>4, <2>5, <2>7
    <2>10. b + w = (c + w) + size /\ b + w \in Nat /\ c + w \in Nat
        BY <1>7, <2>8
    <2> QED
        BY <2>6, <2>9, <2>10
<1>13. /\ \A i \in 0..n : at[i] \in Nat
       /\ at[r + 1] = at[r] + size
    <2>1. /\ \A i \in 0..n : at[i] \in Nat
          /\ \A i \in 1..n : at[i] = at[i - 1] + HeaderBytes + Len(sent[i])
        BY <1>1, <1>2 DEF Ends
    <2>2. (r + 1) - 1 = r /\ r \in 0..n
        BY <1>4, <1>5
    <2>3. at[r + 1] = at[r] + HeaderBytes + length
        BY <1>5, <1>6, <2>1, <2>2
    <2>4. \A a \in Nat : a + HeaderBytes + length = a + size
        BY <1>4, <1>7
    <2> QED
        BY <2>1, <2>2, <2>3, <2>4
<1>14. Ends(at)'
    BY <1>1, <1>11 DEF Ends
<1>15. InPlace(at)'
    <2> SUFFICES ASSUME NEW i \in 1..n, NEW j \in 1..(HeaderBytes + Len(sent[i])),
                        (at[i - 1] + j) - at[r + 1] \in 1..Len(left')
                 PROVE  left'[(at[i - 1] + j) - at[r + 1]] = Frame(sent[i])[j]
        BY <1>11 DEF InPlace
    <2>1. i - 1 \in 0..n /\ r \in 0..n /\ sent[i] \in AnyPayload
        BY <1>2, <1>4, <1>5 DEF TypeOK
    <2>2. PICK a, d : a = at[i - 1] /\ d = at[r]
        OBVIOUS
    <2>3. a \in Nat /\ d \in Nat /\ at[r + 1] = d + size
        BY <1>13, <2>1, <2>2
    <2>4. j \in Nat
        BY <1>4, <2>1, FrameIs
    <2>5. (a + j) - (d + size) \in 1..Len(left')
        BY <2>2, <2>3
    <2>6. /\ ((a + j) - (d + size)) + size = (a + j) - d
          /\ (a + j) - d \in 1..Len(left)
        <3>1. PICK k, l : k = Len(left') /\ l = Len(left)
            OBVIOUS
        <3>2. k \in Nat /\ l = k + size /\ (a + j) - (d + size) \in 1..k
            BY <1>12, <2>5, <3>1
        <3>3. ((a + j) - (d + size)) + size = (a + j) - d
            BY <1>7, <2>3, <2>4
        <3>4. (a + j) - d \in 1..l
            BY <1>7, <2>3, <2>4, <3>2
        <3> QED
            BY <3>1, <3>3, <3>4
    <2>7. left'[(a + j) - (d + size)] = left[(a + j) - d]
        BY <1>12, <2>5, <2>6
    <2>8. left[(a + j) - d] = Frame(sent[i])[j]
        BY <1>1, <1>2, <2>2, <2>6 DEF InPlace
    <2> QED
        BY <2>2, <2>3, <2>7, <2>8
<1>16. Whole(at)'
    <2>1. PICK c, d : c = at[n] /\ d = at[r]
        OBVIOUS
    <2>2. c \in Nat /\ d \in Nat /\ at[r + 1] = d + size
        <3>1. n \in 0..n /\ r \in 0..n
            BY <1>4, <1>5
        <3> QED
            BY <1>13, <2>1, <3>1
    <2>3. Len(left) <= c - d /\ (~closed => Len(left) = c - d)
        BY <1>1, <1>2, <2>1 DEF Whole
    <2>4. Len(left') <= c - (d + size) /\ (~closed => Len(left') = c - (d + size))
        BY <1>7, <1>12, <2>2, <2>3
    <2> QED
        BY <1>3, <1>11, <2>1, <2>2, <2>4 DEF Whole
<1>17. InStep'
    BY <1>11, <1>14, <1>15, <1>16 DEF InStep
<1> QED
    BY <1>10, <1>17

\* Giving up changes nothing of what the invariant speaks of.
LEMMA StutterInStep ==
    ASSUME InStep, UNCHANGED <<sent, wire, closed, buffer, received>>
    PROVE  InStep'
<1>1. left' = left
    BY DEF left
<1>2. PICK at : Ends(at) /\ InPlace(at) /\ Whole(at)
    BY DEF InStep
<1>3. Ends(at)'
    BY <1>2 DEF Ends
<1>4. InPlace(at)'
    BY <1>1, <1>2 DEF InPlace
<1>5. Whole(at)'
    BY <1>1, <1>2 DEF Whole
<1> QED
    BY <1>3, <1>4, <1>5 DEF InStep

\* A fresh connection is in step.
LEMMA InitInStep == Init => InStep
<1> SUFFICES ASSUME Init PROVE InStep
    OBVIOUS
<1>1. /\ sent = <<>> /\ received = <<>> /\ Len(sent) = 0 /\ Len(received) = 0
      /\ wire = <<>> /\ buffer = <<>>
    BY DEF Init
<1>2. Len(left) = 0
    <2>1. <<>> \in Seq(Byte) /\ left = <<>> \o <<>>
        BY <1>1 DEF left
    <2>2. Len(<<>> \o <<>>) = Len(<<>>) + Len(<<>>)
        BY <2>1, Joined
    <2> QED
        BY <2>1, <2>2
<1>3. PICK at : at = [i \in 0..0 |-> 0]
    OBVIOUS
<1>4. at \in [0..0 -> Nat] /\ at[0] = 0
    BY <1>3
<1>5. Ends(at) /\ InPlace(at) /\ Whole(at)
    BY <1>1, <1>2, <1>4 DEF Ends, InPlace, Whole
<1> QED
    BY <1>1, <1>5 DEF InStep

\* Every byte that is left is a byte of a frame, and the buffer begins with one.
LEMMA AlwaysInStep == Spec => [](TypeOK /\ InStep)
<1>1. Init => InStep
    BY InitInStep
<1>2. TypeOK /\ InStep /\ [Next]_vars => InStep'
    <2> SUFFICES ASSUME TypeOK, InStep, [Next]_vars PROVE InStep'
        OBVIOUS
    <2>1. ASSUME NEW payload \in AnyPayload, Send(payload) PROVE InStep'
        BY <2>1, SendInStep
    <2>2. CASE Close
        BY <2>2, CloseInStep
    <2>3. CASE Receive
        BY <2>3, ReceiveInStep
    <2>4. CASE NextPayload
        BY <2>4, NextPayloadInStep
    <2>5. CASE Throw
        BY <2>5, StutterInStep DEF Throw
    <2>6. CASE UNCHANGED vars
        BY <2>6, StutterInStep DEF vars
    <2> QED
        BY <2>1, <2>2, <2>3, <2>4, <2>5, <2>6 DEF Next, Reader
<1> QED
    BY <1>1, <1>2, TypeCorrect, PTL DEF Spec

\* gm_core.cpp:117-126: whatever the limits and however the bytes are cut, a reader gives up
\* only on a peer that announced an illegal length or went away.
THEOREM NeverFalseAlarm == Spec => []NoFalseAlarm
<1>1. Init => NoFalseAlarm
    BY DEF Init, NoFalseAlarm
<1>2. TypeOK /\ InStep /\ NoFalseAlarm /\ [Next]_vars => NoFalseAlarm'
    <2> SUFFICES ASSUME TypeOK, InStep, NoFalseAlarm, [Next]_vars PROVE NoFalseAlarm'
        OBVIOUS
    <2>1. ASSUME NEW payload \in AnyPayload, Send(payload) PROVE NoFalseAlarm'
        <3>1. /\ sent \in Seq(AnyPayload) /\ sent' = Append(sent, payload)
              /\ failed' = failed /\ closed' = closed
            BY <2>1 DEF TypeOK, Send
        <3>2. \A i \in 1..Len(sent) : sent'[i] = sent[i] /\ i \in 1..Len(sent')
            BY <3>1
        <3> QED
            BY <3>1, <3>2 DEF NoFalseAlarm
    <2>2. CASE Close
        BY <2>2 DEF Close, NoFalseAlarm
    <2>3. CASE Receive
        BY <2>3 DEF Receive, NoFalseAlarm
    <2>4. CASE NextPayload
        BY <2>4 DEF NextPayload, NoFalseAlarm
    <2>5. CASE Throw
        <3>1. UNCHANGED <<sent, closed>>
            BY <2>5 DEF Throw
        <3>2. CASE closed
            BY <3>1, <3>2 DEF NoFalseAlarm
        <3>3. CASE ~closed
            <4>1. HasHeader(buffer) /\ ReadBE(buffer) \notin Lengths
                BY <2>5, <3>3 DEF Throw, Bad
            <4>2. PICK i \in 1..Len(sent) :
                      sent[i] \in AnyPayload /\ Len(sent[i]) = ReadBE(buffer)
                BY <4>1, NextMessage
            <4>3. sent[i] \notin Payloads
                <5> SUFFICES ASSUME sent[i] \in Payloads PROVE FALSE
                    OBVIOUS
                <5>1. PICK n \in Lengths : sent[i] \in [1..n -> Byte]
                    BY DEF Payloads, OfLength
                <5>2. n \in Nat
                    BY <5>1, FrameAssumption DEF Lengths
                <5>3. Len(sent[i]) = n
                    BY <5>1, <5>2, IsASeq
                <5> QED
                    BY <4>1, <4>2, <5>1, <5>3
            <4> QED
                BY <3>1, <4>3 DEF NoFalseAlarm
        <3> QED
            BY <3>2, <3>3
    <2>6. CASE UNCHANGED vars
        BY <2>6 DEF vars, NoFalseAlarm
    <2> QED
        BY <2>1, <2>2, <2>3, <2>4, <2>5, <2>6 DEF Next, Reader
<1> QED
    BY <1>1, <1>2, AlwaysInStep, PTL DEF Spec

\* docs/03:45, ProtocolCore.swift:132-142: for every base, header, limit and read size, framing
\* is a channel of messages that come out whole and in order up to the first illegal one.
THEOREM FramesImplementChannel == Spec => ImplementsMessageChannel
<1>1. Init => Channel!Init
    BY DEF Init, Channel!Init
<1>2. TypeOK /\ InStep /\ [Next]_vars => [Channel!Next]_<<sent, received>>
    <2> SUFFICES ASSUME TypeOK, InStep, [Next]_vars PROVE [Channel!Next]_<<sent, received>>
        OBVIOUS
    <2>1. ASSUME NEW payload \in AnyPayload, Send(payload) PROVE Channel!Next
        BY <2>1 DEF Send, Channel!Next, Channel!Send
    <2>2. CASE Close
        BY <2>2 DEF Close
    <2>3. CASE Receive
        BY <2>3 DEF Receive
    <2>4. CASE NextPayload
        BY <2>4, NextPayloadInStep DEF Channel!Next
    <2>5. CASE Throw
        BY <2>5 DEF Throw
    <2>6. CASE UNCHANGED vars
        BY <2>6 DEF vars
    <2> QED
        BY <2>1, <2>2, <2>3, <2>4, <2>5, <2>6 DEF Next, Reader
<1> QED
    BY <1>1, <1>2, AlwaysInStep, PTL DEF Spec, ImplementsMessageChannel, Channel!Spec, Channel!vars
================================================================================
