----------------------------- MODULE FrameDecoder -----------------------------
(***************************************************************************)
(* Control frames on one direction of a connection: gm_control_encode_frame *)
(* and gm_control_peek_frame (gm_core.cpp), and their two readers.  The     *)
(* Apple harness appends whatever a receive returns to a                    *)
(* ControlFrameDecoder (ProtocolCore.swift, main.swift receiveMessage); the *)
(* Windows probe receives exactly a header and then exactly the rest of its *)
(* frame (main.cpp receive_control_message).                                *)
(*                                                                          *)
(* A byte is a digit of a small base, a header HeaderBytes digits; the text *)
(* of a payload is not looked at.                                           *)
(***************************************************************************)
EXTENDS Naturals, Sequences

CONSTANTS
    Base,           \* how many values a byte has
    HeaderBytes,    \* GM_CONTROL_FRAME_HEADER_BYTES
    MinPayload,     \* GM_CONTROL_FRAME_MIN_PAYLOAD_BYTES
    MaxPayload,     \* GM_CONTROL_FRAME_MAX_PAYLOAD_BYTES
    ReadSize,       \* the array receiveMessage reads into
    MaxMessages     \* bound on the messages of a run

\* The last two lines say what a power is: the provers know no exponentiation.
ASSUME FrameAssumption ==
    /\ Base \in Nat /\ Base > 1
    /\ HeaderBytes \in Nat \ {0} /\ ReadSize \in Nat \ {0} /\ MaxMessages \in Nat
    /\ MinPayload \in Nat /\ MaxPayload \in Nat
    /\ MinPayload <= MaxPayload /\ MaxPayload < Base^HeaderBytes
    /\ \A i \in 0..HeaderBytes : Base^i \in Nat \ {0}
    /\ Base^0 = 1 /\ \A i \in 1..HeaderBytes : Base^i = Base * Base^(i - 1)

VARIABLES
    exact,      \* the reader is the probe's, which never receives past a frame
    sent,       \* the payloads sent
    wire,       \* the bytes sent and not yet received
    closed,     \* the sender's end is closed, in the middle of a frame perhaps
    buffer,     \* bufferedBytes, or the probe's frame
    received,   \* the payloads handed to the protocol
    failed      \* the reader has thrown

vars == <<exact, sent, wire, closed, buffer, received, failed>>

Byte == 0..(Base - 1)
Lengths == MinPayload..MaxPayload
OfLength(n) == [1..n -> Byte]
Payloads == UNION {OfLength(n) : n \in Lengths}

\* What a peer may send: a header announces no more than its digits can say.
AnyPayload == UNION {OfLength(n) : n \in 0..(Base^HeaderBytes - 1)}

-------------------------------------------------------------------------------
(* The frame format. *)

\* write_u32_be
WriteBE(n) == [i \in 1..HeaderBytes |-> (n \div Base^(HeaderBytes - i)) % Base]

\* fault: the first byte of the header counts least
ReadLE(bytes) ==
    LET value[i \in 0..HeaderBytes] ==
            IF i = 0 THEN 0 ELSE value[i - 1] + bytes[i] * Base^(i - 1)
    IN  value[HeaderBytes]

\* read_u32_be
ReadBE(bytes) ==
    LET value[i \in 0..HeaderBytes] ==
            IF i = 0 THEN 0 ELSE value[i - 1] * Base + bytes[i]
    IN  value[HeaderBytes]

\* gm_control_encode_frame
Frame(payload) == WriteBE(Len(payload)) \o payload

\* The fields and statuses of gm_control_peek_frame.
FrameSize(input) == HeaderBytes + ReadBE(input)
HasHeader(input) == Len(input) >= HeaderBytes

BadBelow(input) == HasHeader(input) /\ ReadBE(input) \notin 0..MaxPayload
                                            \* fault: an empty payload passes
BadAtLimit(input) == HasHeader(input) /\ ReadBE(input) \notin MinPayload..(MaxPayload - 1)
                                            \* fault: the longest payload is refused
Bad(input) == HasHeader(input) /\ ReadBE(input) \notin Lengths

Complete(input) == HasHeader(input) /\ ~Bad(input) /\ Len(input) >= FrameSize(input)
NeedsMoreData(input) == ~Bad(input) /\ ~Complete(input)

-------------------------------------------------------------------------------
Init ==
    /\ exact \in BOOLEAN
    /\ sent = <<>> /\ wire = <<>> /\ closed = FALSE
    /\ buffer = <<>> /\ received = <<>> /\ failed = FALSE

\* The sender, this code or not: every peer can announce an illegal length.
Send(payload) ==
    /\ ~closed /\ Len(sent) < MaxMessages
    /\ sent' = Append(sent, payload)
    /\ wire' = wire \o Frame(payload)
    /\ UNCHANGED <<exact, closed, buffer, received, failed>>

\* The sender goes away; bytes that have not left it are lost.
Close ==
    /\ ~closed
    /\ closed' = TRUE
    /\ \E n \in 0..Len(wire) : wire' = SubSeq(wire, 1, n)
    /\ UNCHANGED <<exact, sent, buffer, received, failed>>

\* How many bytes the probe still waits for.
Missing(input) ==
    (IF HasHeader(input) THEN FrameSize(input) ELSE HeaderBytes) - Len(input)

ReadLimitAny(input) == ReadSize             \* fault: the probe, too, takes what it gets
ReadLimit(input) == IF exact THEN Missing(input) ELSE ReadSize

\* A receive returns some of the bytes there are, at least one.
Receive ==
    /\ ~failed /\ NeedsMoreData(buffer)
    /\ \E n \in 1..Len(wire) :
           /\ n <= ReadLimit(buffer)
           /\ buffer' = buffer \o SubSeq(wire, 1, n)
           /\ wire' = SubSeq(wire, n + 1, Len(wire))
    /\ UNCHANGED <<exact, sent, closed, received, failed>>

RestCleared(input) == <<>>                  \* fault: what follows the frame is dropped
Rest(input) == SubSeq(input, FrameSize(input) + 1, Len(input))

\* nextPayload returns a payload and removes its frame.
NextPayload ==
    /\ ~failed /\ Complete(buffer)
    /\ received' = Append(received, SubSeq(buffer, HeaderBytes + 1, FrameSize(buffer)))
    /\ buffer' = Rest(buffer)
    /\ UNCHANGED <<exact, sent, wire, closed, failed>>

\* GM_BAD_MESSAGE, or the end of the stream where more was expected.
Throw ==
    /\ ~failed
    /\ Bad(buffer) \/ (NeedsMoreData(buffer) /\ wire = <<>> /\ closed)
    /\ failed' = TRUE
    /\ UNCHANGED <<exact, sent, wire, closed, buffer, received>>

Reader == Receive \/ NextPayload \/ Throw
Next == (\E payload \in AnyPayload : Send(payload)) \/ Close \/ Reader

\* receiveMessage and recv_all loop until they have their bytes.
Spec == Init /\ [][Next]_vars /\ WF_vars(Reader)

-------------------------------------------------------------------------------
\* Bytes stay bytes, and what reaches the protocol has a length the protocol allows.
TypeOK ==
    /\ exact \in BOOLEAN /\ closed \in BOOLEAN /\ failed \in BOOLEAN
    /\ sent \in Seq(AnyPayload) /\ Len(sent) <= MaxMessages
    /\ wire \in Seq(Byte) /\ buffer \in Seq(Byte)
    /\ received \in Seq(Payloads)

\* ProtocolCore.swift:128-142, main.cpp:474-487: a decoder that stores whatever comes still
\* holds less than one frame and one read, whatever lengths the peer announces; the probe
\* holds one frame and leaves every byte of the next one where it is.  The decoder's bound is the
\* code's own: docs/03:20-21 speaks of one fixed buffer of 65,536 bytes.
BufferBounded ==
    Len(buffer) <= HeaderBytes + MaxPayload + (IF exact THEN 0 ELSE ReadSize - 1)

\* gm_core.cpp:117-126: the reader gives up only on a peer that announced an illegal length or
\* went away: no split of legal frames makes a payload pass for a header.
NoFalseAlarm ==
    failed => closed \/ \E i \in 1..Len(sent) : sent[i] \notin Payloads

Channel == INSTANCE MessageChannel WITH Messages <- AnyPayload, Legal <- Payloads

\* docs/03:45, ProtocolCore.swift:132-142: however the bytes are cut and joined, the payloads
\* come out whole and in order, a truncated one never, and none after an illegal frame.
ImplementsMessageChannel == Channel!Spec

\* main.swift:557-582, main.cpp:451-458: every message comes out unless the reader gives up.
EveryMessageArrives ==
    \A n \in 1..MaxMessages :
        Len(sent) >= n ~> (Len(received) >= n \/ failed)
================================================================================
