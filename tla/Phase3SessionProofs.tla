-------------------------- MODULE Phase3SessionProofs --------------------------
(***************************************************************************)
(* The two programs of the two-host test, for every number of packets and   *)
(* every number of faults: no nonce is used twice, the session refuses      *)
(* nothing, audio flows on the proven path only, and it is played in order. *)
(* Before that, the datagrams: what is written is read back, and a datagram *)
(* opens with its own key only, for every header, payload and key.          *)
(***************************************************************************)
EXTENDS Phase3Session, FiniteSetTheorems, SequenceTheorems, TLAPS

\* The fields of gm_media_header, whatever their widths.
MediaHeaders ==
    [kind : {"AUDIO", "PATH_CHALLENGE", "PATH_RESPONSE", "FEEDBACK"}, session_id : STRING,
     stream_id : Nat, direction : {"WIN_TO_APPLE", "APPLE_TO_WIN"}, key_epoch : Nat,
     sequence : Nat, media_timestamp : Nat, payload_length : Nat]

\* The parts of a written field.
LEMMA TripleParts ==
    ASSUME NEW triple, NEW first, NEW second, NEW third, triple = <<first, second, third>>
    PROVE  triple[1] = first /\ triple[2] = second /\ triple[3] = third
OBVIOUS

\* Every field of an encoded header is at a place of its own.
LEMMA EncodedFields ==
    ASSUME NEW h, NEW f \in EncodeHeader(h)
    PROVE  \/ f = <<0, 4, "GMA1">> /\ f[1] = 0 /\ f[2] = 4
           \/ f = <<4, 1, 1>> /\ f[1] = 4 /\ f[2] = 1
           \/ f = <<5, 1, h.kind>> /\ f[1] = 5 /\ f[2] = 1
           \/ f = <<6, 2, 0>> /\ f[1] = 6 /\ f[2] = 2
           \/ f = <<8, 16, h.session_id>> /\ f[1] = 8 /\ f[2] = 16
           \/ f = <<24, 4, h.stream_id>> /\ f[1] = 24 /\ f[2] = 4
           \/ f = <<28, 1, h.direction>> /\ f[1] = 28 /\ f[2] = 1
           \/ f = <<32, 4, h.key_epoch>> /\ f[1] = 32 /\ f[2] = 4
           \/ f = <<36, 8, h.sequence>> /\ f[1] = 36 /\ f[2] = 8
           \/ f = <<44, 8, h.media_timestamp>> /\ f[1] = 44 /\ f[2] = 8
           \/ f = <<52, 4, h.payload_length>> /\ f[1] = 52 /\ f[2] = 4
<1>1. \/ f = <<0, 4, "GMA1">> \/ f = <<4, 1, 1>> \/ f = <<5, 1, h.kind>> \/ f = <<6, 2, 0>>
      \/ f = <<8, 16, h.session_id>> \/ f = <<24, 4, h.stream_id>>
      \/ f = <<28, 1, h.direction>> \/ f = <<32, 4, h.key_epoch>> \/ f = <<36, 8, h.sequence>>
      \/ f = <<44, 8, h.media_timestamp>> \/ f = <<52, 4, h.payload_length>>
  BY DEF EncodeHeader
<1> QED BY <1>1, TripleParts

\* A field that alone touches its place is read back.
LEMMA FieldIsRead ==
    ASSUME NEW bytes, NEW offset, NEW width, NEW value, NEW field,
           field = <<offset, width, value>>, field \in bytes, Touches(field, offset, width),
           \A f \in bytes : Touches(f, offset, width) => f = field
    PROVE  Field(bytes, offset, width) = value
<1> DEFINE touching == {f \in bytes : Touches(f, offset, width)}
           whole == {f \in touching : f[1] = offset /\ f[2] = width}
<1>1. touching = {field}
  OBVIOUS
<1>2. field[1] = offset /\ field[2] = width /\ field[3] = value
  BY TripleParts
<1>3. whole = {field}
  BY <1>1, <1>2
<1>4. Cardinality(touching) = 1
  BY <1>1, FS_Singleton
<1>5. Field(bytes, offset, width) = (CHOOSE f \in whole : TRUE)[3]
  BY <1>1, <1>3, <1>4 DEF Field
<1>6. (CHOOSE f \in whole : TRUE) = field
  BY <1>3
<1> QED BY <1>2, <1>5, <1>6

\* gm_media_decode_header reads what gm_media_encode_header wrote, field by field.
LEMMA HeaderIsRead ==
    ASSUME NEW h
    PROVE  LET read == HeaderOf(EncodeHeader(h)) IN
           /\ read.kind = h.kind /\ read.session_id = h.session_id
           /\ read.stream_id = h.stream_id /\ read.direction = h.direction
           /\ read.key_epoch = h.key_epoch /\ read.sequence = h.sequence
           /\ read.media_timestamp = h.media_timestamp
           /\ read.payload_length = h.payload_length
           /\ Field(EncodeHeader(h), 0, 4) = "GMA1" /\ Field(EncodeHeader(h), 4, 1) = 1
           /\ Field(EncodeHeader(h), 6, 2) = 0
           /\ \A f \in EncodeHeader(h) : ~Touches(f, 29, 3) /\ ~Touches(f, 56, 8)
<1> DEFINE bytes == EncodeHeader(h)
<1>1. ASSUME NEW offset, NEW width, NEW value, <<offset, width, value>> \in bytes,
             <<offset, width>> \in {<<0, 4>>, <<4, 1>>, <<5, 1>>, <<6, 2>>, <<8, 16>>, <<24, 4>>,
                                    <<28, 1>>, <<32, 4>>, <<36, 8>>, <<44, 8>>, <<52, 4>>}
      PROVE  Field(bytes, offset, width) = value
  <2> DEFINE field == <<offset, width, value>>
  <2>1. field[1] = offset /\ field[2] = width
    BY TripleParts
  <2>2. \/ (offset = 0 /\ width = 4) \/ (offset = 4 /\ width = 1) \/ (offset = 5 /\ width = 1)
        \/ (offset = 6 /\ width = 2) \/ (offset = 8 /\ width = 16) \/ (offset = 24 /\ width = 4)
        \/ (offset = 28 /\ width = 1) \/ (offset = 32 /\ width = 4) \/ (offset = 36 /\ width = 8)
        \/ (offset = 44 /\ width = 8) \/ (offset = 52 /\ width = 4)
    BY <1>1
  <2>3. Touches(field, offset, width)
    BY <2>1, <2>2 DEF Touches
  <2>4. ASSUME NEW f \in bytes, Touches(f, offset, width)
        PROVE  f = field
    <3>1. f[1] = offset /\ f[2] = width
      BY <2>2, <2>4, EncodedFields DEF Touches
    <3> QED BY <1>1, <2>1, <3>1, EncodedFields
  <2> QED BY <1>1, <2>3, <2>4, FieldIsRead
<1> QED BY <1>1, EncodedFields DEF HeaderOf, EncodeHeader, Touches

\* gm_media_encode_header, gm_media_decode_header: no field is lost or written across another.
THEOREM HeaderRoundTrips == \A h \in MediaHeaders : HeaderOf(EncodeHeader(h)) = h
BY HeaderIsRead DEF MediaHeaders, HeaderOf

\* sealMedia and openMedia, seal_media_datagram and open_media_datagram: a legal datagram that
\* arrives as it was sealed opens with the key it was sealed with, and with no other.
THEOREM OpensWithItsKey ==
    ASSUME NEW h \in MediaHeaders, Legal(h), NEW payload, NEW key, NEW other
    PROVE  Opens(Seal(h, payload, key), other) <=> other = key
<1> DEFINE datagram == Seal(h, payload, key)
<1>1. HeaderOf(datagram.header) = h /\ datagram.header = EncodeHeader(h)
  BY HeaderRoundTrips DEF Seal
<1>2. datagram.size = HeaderBytes + h.payload_length + TagBytes /\ datagram.key = key
      /\ datagram.nonce = Nonce(h.key_epoch, h.sequence)
  BY DEF Seal
<1>3. /\ h.payload_length \in Nat /\ h.payload_length <= MaxPayload
  BY DEF MediaHeaders, Legal
<1>4. datagram.size \in (HeaderBytes + TagBytes)..(HeaderBytes + MaxPayload + TagBytes)
  BY <1>2, <1>3, DatagramAssumption DEF HeaderBytes, TagBytes
<1>5. Decodes(datagram.header, datagram.size)
  BY <1>1, <1>2, <1>4, HeaderIsRead DEF Decodes
<1> QED BY <1>1, <1>2, <1>5 DEF Opens

-------------------------------------------------------------------------------
(* The two programs. *)

ClientSteps ==
    {<<"ask", k>> : k \in Requests} \cup {<<"await", k>> : k \in Requests}
        \cup {<<"challenge", 3>>, <<"prove", 3>>, <<"audio", 4>>, Done, Failed}
ServerSteps ==
    {<<"await", k>> : k \in Requests} \cup {<<"reply", k>> : k \in Requests}
        \cup {<<"path", 3>>, <<"respond", 3>>, <<"mark", 3>>, <<"play", 4>>, Done, Failed}

Replying == server[1] = "reply"

\* The harness's session stands where the last request left it, and refused none.
SessionIs ==
    /\ lastRequestId \in 0..4 /\ stream \in Control!StreamType /\ nextStreamId = 1
    /\ metrics \in [Control!Counters -> Nat] /\ metrics["rejected_requests"] = 0
    /\ lastRequestId = 0 => state = "TLS_READY"
    /\ lastRequestId = 1 => state = "HELLO"
    /\ lastRequestId = 2 => state = "BOUND"
    /\ lastRequestId = 3 => state = "STREAM_OPEN"
    /\ lastRequestId = 4 => state = "STREAMING" /\ stream.validated
    /\ lastRequestId >= 1 => windowsUdpPort = "port"
    /\ lastRequestId >= 3 => stream.id = 1 /\ stream.epoch = 1
    /\ stream.validated => <<1, 1>> \in proven

\* A request follows the last one served, and its result is the last one served.
WiresAre ==
    /\ \/ toServer = <<>>
       \/ toServer = <<lastRequestId + 1>> /\ lastRequestId < 4 /\ toClient = <<>> /\ ~Replying
    /\ \/ toClient = <<>>
       \/ toClient = <<lastRequestId>> /\ toServer = <<>> /\ ~Replying

ServerIs ==
    /\ server \in ServerSteps
    /\ \A k \in Requests :
           /\ server = <<"await", k>> => lastRequestId = k - 1 /\ (k = 4 => stream.validated)
           /\ server = <<"reply", k>> => lastRequestId = k
    /\ server \in {<<"path", 3>>, <<"respond", 3>>, <<"mark", 3>>} => lastRequestId = 3
    /\ server \in {<<"play", 4>>, Done} => lastRequestId = 4

ClientIs ==
    /\ client \in ClientSteps
    /\ \A k \in Requests :
           /\ client = <<"ask", k>> => /\ lastRequestId = k - 1 /\ ~Replying
                                       /\ toServer = <<>> /\ toClient = <<>>
           /\ client = <<"await", k>> => \/ lastRequestId = k - 1 /\ toServer = <<k>>
                                         \/ lastRequestId = k /\ toServer = <<>>
    /\ client \in {<<"challenge", 3>>, <<"prove", 3>>} =>
           lastRequestId = 3 /\ ~Replying /\ toServer = <<>> /\ toClient = <<>>
    /\ client \in {<<"audio", 4>>, Done} \/ sent > 0 => lastRequestId = 4

\* No audio packet is on its way or played before it was sent.
AudioIs ==
    /\ sent \in 0..Packets /\ (sent > 0 => client \in {<<"audio", 4>>, Done, Failed})
    /\ client = Done => sent = Packets
    /\ up \in Seq(Names) /\ down \in Seq(Names)
    /\ \A n \in 1..Packets : <<"audio", "now", n>> \in Range(up) => n <= sent
    /\ played \in Seq(Nat) /\ Len(played) <= sent
    /\ \A i \in 1..Len(played) : played[i] = i
    /\ server = Done => Len(played) = Packets

\* What was sealed, the programs are past sealing; each datagram took a nonce of its own.
NowNames == {d \in Names : d[2] = "now"}
SealedIs ==
    /\ sealed \in Seq(NowNames)
    /\ <<"challenge", "now", 1>> \in Range(sealed) =>
           client \in {<<"prove", 3>>, <<"ask", 4>>, <<"await", 4>>, <<"audio", 4>>, Done, Failed}
    /\ <<"response", "now", 1>> \in Range(sealed) =>
           server \in {<<"mark", 3>>, <<"await", 4>>, <<"reply", 4>>, <<"play", 4>>, Done, Failed}
    /\ \A n \in 1..Packets : <<"audio", "now", n>> \in Range(sealed) => n <= sent
    /\ IsFiniteSet(NoncesOf(Range(sealed)))
    /\ Cardinality(NoncesOf(Range(sealed))) = Len(sealed)

Inv == SessionIs /\ WiresAre /\ ServerIs /\ ClientIs /\ AudioIs /\ SealedIs

-------------------------------------------------------------------------------
(* Tuples and queues *)

\* The parts of a pair.
LEMMA PairParts ==
    ASSUME NEW pair, NEW first, NEW second, pair = <<first, second>>
    PROVE  pair[1] = first /\ pair[2] = second
OBVIOUS

\* A queue with one message.
LEMMA OneMessage ==
    ASSUME NEW k
    PROVE  /\ Append(<<>>, k) = <<k>> /\ Head(<<k>>) = k /\ Tail(<<k>>) = <<>> /\ <<k>> # <<>>
           /\ \A j : <<k>> = <<j>> => k = j
OBVIOUS

\* What a sequence holds.
LEMMA HeldIs ==
    ASSUME NEW S, NEW queue \in Seq(S)
    PROVE  Range(queue) = {queue[i] : i \in 1..Len(queue)}
BY DEF Range

\* What a sequence holds after one more element, and after the loss of its head.
LEMMA HeldAfter ==
    ASSUME NEW S, NEW queue \in Seq(S)
    PROVE  /\ Range(queue) \subseteq S
           /\ \A d \in S : Append(queue, d) \in Seq(S) /\ Range(Append(queue, d)) = Range(queue) \cup {d}
           /\ queue # <<>> => /\ Head(queue) \in Range(queue) /\ Tail(queue) \in Seq(S)
                              /\ Range(Tail(queue)) \subseteq Range(queue)
<1>1. Range(queue) = {queue[i] : i \in 1..Len(queue)}
  BY HeldIs
<1>2. ASSUME NEW d \in S
      PROVE  Append(queue, d) \in Seq(S) /\ Range(Append(queue, d)) = Range(queue) \cup {d}
  <2>1. /\ Append(queue, d) \in Seq(S) /\ Len(Append(queue, d)) = Len(queue) + 1
        /\ \A i \in 1..Len(queue) : Append(queue, d)[i] = queue[i]
        /\ Append(queue, d)[Len(queue) + 1] = d
    OBVIOUS
  <2>2. Range(Append(queue, d)) = {Append(queue, d)[i] : i \in 1..(Len(queue) + 1)}
    BY <2>1, HeldIs
  <2> QED BY <1>1, <2>1, <2>2
<1>3. ASSUME queue # <<>>
      PROVE  /\ Head(queue) \in Range(queue) /\ Tail(queue) \in Seq(S)
             /\ Range(Tail(queue)) \subseteq Range(queue)
  <2>1. /\ Len(queue) >= 1 /\ Head(queue) = queue[1] /\ Tail(queue) \in Seq(S)
        /\ Len(Tail(queue)) = Len(queue) - 1
        /\ \A i \in 1..(Len(queue) - 1) : Tail(queue)[i] = queue[i + 1]
    BY <1>3
  <2>2. Range(Tail(queue)) = {Tail(queue)[i] : i \in 1..(Len(queue) - 1)}
    BY <2>1, HeldIs
  <2> QED BY <1>1, <2>1, <2>2
<1> QED BY <1>1, <1>2, <1>3

-------------------------------------------------------------------------------
(* The requests and their results *)

\* The probe sends its next request.
LEMMA AskSafe ==
    ASSUME Inv, NEW k \in Requests, Ask(k)
    PROVE  Inv'
<1>1. /\ client = <<"ask", k>> /\ client' = <<"await", k>> /\ toServer' = Append(toServer, k)
      /\ UNCHANGED <<server, toClient, up, down, sent, sealed, played, faults, session>>
  BY DEF Ask
<1>2. lastRequestId = k - 1 /\ ~Replying /\ toServer = <<>> /\ toClient = <<>> /\ k \in 1..4
  BY <1>1 DEF Inv, ClientIs, Requests
<1>3. toServer' = <<k>>
  BY <1>1, <1>2, OneMessage
<1>4. SessionIs' /\ ServerIs'
  BY <1>1 DEF Inv, SessionIs, ServerIs, session
<1>5. WiresAre'
  BY <1>1, <1>2, <1>3 DEF WiresAre, Replying, session
<1>6. ClientIs'
  BY <1>1, <1>2, <1>3 DEF Inv, ClientIs, AudioIs, ClientSteps, Done, Failed, session
<1>7. AudioIs' /\ SealedIs'
  BY <1>1 DEF Inv, AudioIs, SealedIs, Done, Failed
<1> QED BY <1>4, <1>5, <1>6, <1>7 DEF Inv

\* receive_result_for_id: the next result is that of the request it waits for.
LEMMA ResultSafe ==
    ASSUME Inv, NEW k \in Requests, Result(k)
    PROVE  Inv'
<1>1. /\ client = <<"await", k>> /\ toClient # <<>> /\ k \in 1..4
      /\ client' = IF Head(toClient) = k THEN AfterResult[k] ELSE Failed
      /\ toClient' = Tail(toClient)
      /\ UNCHANGED <<server, toServer, up, down, sent, sealed, played, faults, session>>
  BY DEF Result, Requests
<1>2. /\ lastRequestId = k /\ toServer = <<>> /\ toClient = <<k>> /\ ~Replying
      /\ lastRequestId \in 0..4
  BY <1>1, OneMessage DEF Inv, ClientIs, WiresAre, SessionIs
<1>3. toClient' = <<>> /\ client' = AfterResult[k]
  BY <1>1, <1>2, OneMessage
<1>4. /\ k = 1 => client' = <<"ask", 2>>
      /\ k = 2 => client' = <<"ask", 3>>
      /\ k = 3 => client' = <<"challenge", 3>>
      /\ k = 4 => client' = <<"audio", 4>>
  BY <1>1, <1>3 DEF AfterResult
<1>5. SessionIs' /\ ServerIs'
  BY <1>1 DEF Inv, SessionIs, ServerIs, session
<1>6. WiresAre'
  BY <1>1, <1>2, <1>3 DEF WiresAre, Replying, session
<1>7. ClientIs'
  BY <1>1, <1>2, <1>3, <1>4 DEF Inv, ClientIs, AudioIs, ClientSteps, Requests, Replying, Done,
                              Failed, session
<1>8. sent = 0 /\ client' # Done
  BY <1>1, <1>4 DEF Inv, AudioIs, Done, Failed
<1>9. AudioIs'
  BY <1>1, <1>8 DEF Inv, AudioIs
<1>10. SealedIs'
  <2>1. client' \in {<<"prove", 3>>, <<"ask", 4>>, <<"await", 4>>, <<"audio", 4>>, Done, Failed}
            \/ <<"challenge", "now", 1>> \notin Range(sealed)
    BY <1>1, <1>4 DEF Inv, SealedIs, Done, Failed
  <2> QED BY <1>1, <2>1 DEF Inv, SealedIs
<1> QED BY <1>5, <1>6, <1>7, <1>9, <1>10 DEF Inv

-------------------------------------------------------------------------------
(* The harness's session *)

\* An accepted call counts no rejection.
LEMMA CountedKeeps ==
    ASSUME metrics \in [Control!Counters -> Nat], NEW cs, "rejected_requests" \notin cs,
           metrics' = Control!Counted(cs)
    PROVE  /\ metrics' \in [Control!Counters -> Nat]
           /\ metrics'["rejected_requests"] = metrics["rejected_requests"]
BY DEF Control!Counted, Control!Counters

\* gm_control_session_ingest accepts the next request in its place, and answers in kind.
LEMMA HandleSafe ==
    ASSUME SessionIs, NEW k \in Requests, lastRequestId = k - 1, k = 4 => stream.validated,
           Handle(k)
    PROVE  SessionIs' /\ lastRequestId' = k /\ action'.kind = ReplyKind[k]
<1>1. /\ metrics \in [Control!Counters -> Nat] /\ metrics["rejected_requests"] = 0
      /\ stream \in Control!StreamType /\ nextStreamId = 1
  BY DEF SessionIs
<1>2. CASE k = 1
  <2>1. state = "TLS_READY" /\ Control!SessionHello(1, "port") /\ lastRequestId = 0
    BY <1>2 DEF Handle, SessionIs
  <2>2. /\ lastRequestId' = 1 /\ windowsUdpPort' = "port" /\ state' = "HELLO"
        /\ UNCHANGED <<stream, nextStreamId, proven>> /\ Control!Accept("HELLO_RESULT", {})
    BY <2>1 DEF Control!SessionHello, Control!Request, Control!bookkeeping
  <2>3. action'.kind = "HELLO_RESULT" /\ metrics' = Control!Counted({"valid_requests", "actions_emitted"} \cup {})
    BY <2>2 DEF Control!Accept
  <2>4. metrics' \in [Control!Counters -> Nat] /\ metrics'["rejected_requests"] = 0
    BY <1>1, <2>3, CountedKeeps
  <2> QED BY <1>2, <2>1, <2>2, <2>3, <2>4 DEF SessionIs, ReplyKind
<1>3. CASE k = 2
  <2>1. /\ state = "HELLO" /\ Control!TransportBind(2, "session", "port") /\ lastRequestId = 1
        /\ windowsUdpPort = "port"
    BY <1>3 DEF Handle, SessionIs
  <2>2. /\ lastRequestId' = 2 /\ windowsUdpPort' = "port" /\ state' = "BOUND"
        /\ UNCHANGED <<stream, nextStreamId, proven>> /\ Control!Accept("BIND_RESULT", {})
    BY <2>1 DEF Control!TransportBind, Control!CanBind, Control!Request, Control!bookkeeping
  <2>3. action'.kind = "BIND_RESULT" /\ metrics' = Control!Counted({"valid_requests", "actions_emitted"} \cup {})
    BY <2>2 DEF Control!Accept
  <2>4. metrics' \in [Control!Counters -> Nat] /\ metrics'["rejected_requests"] = 0
    BY <1>1, <2>3, CountedKeeps
  <2> QED BY <1>3, <2>1, <2>2, <2>3, <2>4 DEF SessionIs, ReplyKind
<1>4. CASE k = 3
  <2>1. /\ state = "BOUND" /\ Control!StreamOpen(3, "pcm") /\ lastRequestId = 2
        /\ windowsUdpPort = "port"
    BY <1>4 DEF Handle, SessionIs
  <2>2. /\ lastRequestId' = 3 /\ windowsUdpPort' = "port" /\ state' = "STREAM_OPEN"
        /\ stream' = Control!Opened("pcm")
        /\ UNCHANGED <<nextStreamId, proven>> /\ Control!Accept("OPEN_RESULT", {})
    BY <2>1 DEF Control!StreamOpen, Control!RepeatsOpen, Control!StreamStates, Control!Request
  <2>3. action'.kind = "OPEN_RESULT" /\ metrics' = Control!Counted({"valid_requests", "actions_emitted"} \cup {})
    BY <2>2 DEF Control!Accept
  <2>4. metrics' \in [Control!Counters -> Nat] /\ metrics'["rejected_requests"] = 0
    BY <1>1, <2>3, CountedKeeps
  <2>5. /\ stream' \in Control!StreamType /\ stream'.id = 1 /\ stream'.epoch = 1
        /\ stream'.validated = FALSE
    BY <1>1, <2>2 DEF Control!Opened, Control!StreamType, Control!U32
  <2> QED BY <1>4, <2>1, <2>2, <2>3, <2>4, <2>5 DEF SessionIs, ReplyKind
<1>5. CASE k = 4
  <2>1. /\ state = "STREAM_OPEN" /\ Control!StreamStart(4, 1, "first") /\ lastRequestId = 3
        /\ windowsUdpPort = "port" /\ stream.id = 1 /\ stream.epoch = 1 /\ stream.validated
    BY <1>5 DEF Handle, SessionIs
  <2>2. Control!CanStart(1, "first")
    BY <2>1 DEF Control!CanStart, Control!Active, Control!StreamStates
  <2>3. /\ lastRequestId' = 4 /\ windowsUdpPort' = "port" /\ state' = "STREAMING"
        /\ stream' = [stream EXCEPT !.timestamp = "first"]
        /\ UNCHANGED <<nextStreamId, proven>>
        /\ Control!Accept("START_RESULT", {"streams_started"})
    BY <2>1, <2>2 DEF Control!StreamStart, Control!Request, Control!bookkeeping
  <2>4. /\ action'.kind = "START_RESULT"
        /\ metrics' = Control!Counted({"valid_requests", "actions_emitted"} \cup {"streams_started"})
    BY <2>3 DEF Control!Accept
  <2>5. metrics' \in [Control!Counters -> Nat] /\ metrics'["rejected_requests"] = 0
    BY <1>1, <2>4, CountedKeeps
  <2>6. /\ stream' \in Control!StreamType /\ stream'.id = stream.id
        /\ stream'.epoch = stream.epoch /\ stream'.validated = stream.validated
    BY <1>1, <2>3 DEF Control!StreamType
  <2> QED BY <1>1, <1>5, <2>1, <2>3, <2>4, <2>5, <2>6 DEF SessionIs, ReplyKind
<1> QED BY <1>2, <1>3, <1>4, <1>5 DEF Requests

\* gm_control_session_mark_path_validated takes the proof of the open stream's first epoch.
LEMMA MarkAccepted ==
    ASSUME SessionIs, lastRequestId = 3, Control!MarkPathValidated(1, 1)
    PROVE  /\ SessionIs' /\ lastRequestId' = 3 /\ stream'.validated
           /\ action'.kind = "PATH_VALIDATED"
<1>1. /\ metrics \in [Control!Counters -> Nat] /\ metrics["rejected_requests"] = 0
      /\ stream \in Control!StreamType /\ state = "STREAM_OPEN" /\ stream.id = 1
      /\ stream.epoch = 1 /\ windowsUdpPort = "port" /\ nextStreamId = 1
  BY DEF SessionIs
<1>2. Control!ProofMatches(1, 1)
  BY <1>1 DEF Control!ProofMatches, Control!Active, Control!StreamStates
<1>3. /\ stream' = [stream EXCEPT !.validated = TRUE] /\ proven' = proven \cup {<<1, 1>>}
      /\ metrics' = Control!Counted({"actions_emitted"}) /\ action'.kind = "PATH_VALIDATED"
      /\ UNCHANGED <<lastRequestId, state, windowsUdpPort, nextStreamId>>
  BY <1>2 DEF Control!MarkPathValidated
<1>4. metrics' \in [Control!Counters -> Nat] /\ metrics'["rejected_requests"] = 0
  BY <1>1, <1>3, CountedKeeps
<1>5. /\ stream' \in Control!StreamType /\ stream'.id = stream.id
      /\ stream'.epoch = stream.epoch /\ stream'.validated
  BY <1>1, <1>3 DEF Control!StreamType
<1> QED BY <1>1, <1>3, <1>4, <1>5 DEF SessionIs

-------------------------------------------------------------------------------
(* The datagrams *)

\* The three parts of a datagram's name.
LEMMA NameParts ==
    ASSUME NEW d \in Names
    PROVE  /\ d = <<d[1], d[2], d[3]>> /\ d[1] \in {"challenge", "response", "audio"}
           /\ d[2] \in {"now", "earlier"} /\ d[3] \in 1..Packets
           /\ d[1] \in {"challenge", "response"} => d[3] = 1
<1>1. Packets \in Nat \ {0}
  BY Phase3Assumption
<1> QED BY <1>1 DEF Names

\* The exporter's contexts, one for each direction.
ForwardContext == ExporterContext("session", 1, "WIN_TO_APPLE", 1, "windows spki", "apple spki")
ReverseContext == ExporterContext("session", 1, "APPLE_TO_WIN", 1, "apple spki", "windows spki")

\* The keys are those of a connection, of a direction and of a half.
LEMMA KeysAre ==
    /\ ForwardContext # ReverseContext
    /\ \A run : /\ ForwardKeys(run).media_key = <<run, ForwardContext, "first half">>
                /\ ForwardKeys(run).path_key = <<run, ForwardContext, "second half">>
                /\ ReverseKeys(run).path_key = <<run, ReverseContext, "second half">>
<1>1. ForwardContext[4] = "WIN_TO_APPLE" /\ ReverseContext[4] = "APPLE_TO_WIN"
  BY DEF ExporterContext, ForwardContext, ReverseContext
<1>2. ForwardContext # ReverseContext
  BY <1>1
<1>3. \A run : /\ ForwardKeys(run).media_key = <<run, ForwardContext, "first half">>
              /\ ForwardKeys(run).path_key = <<run, ForwardContext, "second half">>
              /\ ReverseKeys(run).path_key = <<run, ReverseContext, "second half">>
  BY DEF ForwardKeys, ReverseKeys, Keys, DirectionalKeys, ForwardContext, ReverseContext
<1> QED BY <1>2, <1>3

\* What each datagram is sealed with.
LEMMA DatagramIs ==
    ASSUME NEW d \in Names
    PROVE  /\ d[1] = "challenge" => /\ Datagram[d].key = ForwardKeys(d[2]).path_key
                                    /\ Datagram[d].nonce = <<1, 1>>
           /\ d[1] = "response" => /\ Datagram[d].key = ReverseKeys(d[2]).path_key
                                   /\ Datagram[d].nonce = <<1, 1>>
           /\ d[1] = "audio" =>
                  /\ Datagram[d].key = ForwardKeys(d[2]).media_key
                  /\ Datagram[d].nonce = <<1, d[3] + 1>>
                  /\ HeaderOf(Datagram[d].header).media_timestamp
                         = FirstTimestamp + (d[3] - 1) * 240
<1>1. CASE d[1] = "challenge"
  <2>1. Datagram[d] = Challenge(d[2])
    BY <1>1 DEF Datagram
  <2> QED BY <1>1, <2>1 DEF Challenge, Seal, Nonce, Header
<1>2. CASE d[1] = "response"
  <2>1. Datagram[d] = Response(d[2], Challenge(d[2]).payload)
    BY <1>2 DEF Datagram
  <2> QED BY <1>2, <2>1 DEF Response, Seal, Nonce, Header
<1>3. CASE d[1] = "audio"
  <2> DEFINE h == Header("AUDIO", "WIN_TO_APPLE", d[3] + 1, FirstTimestamp + (d[3] - 1) * 240, 960)
  <2>1. Datagram[d] = Audio(d[2], d[3])
    BY <1>3 DEF Datagram
  <2>2. /\ Datagram[d].header = EncodeHeader(h) /\ Datagram[d].key = ForwardKeys(d[2]).media_key
        /\ Datagram[d].nonce = Nonce(h.key_epoch, h.sequence)
    BY <2>1 DEF Audio, Seal
  <2>3. /\ h.key_epoch = 1 /\ h.sequence = d[3] + 1
        /\ h.media_timestamp = FirstTimestamp + (d[3] - 1) * 240
    BY DEF Header
  <2> HIDE DEF h
  <2>4. HeaderOf(Datagram[d].header).media_timestamp = h.media_timestamp
    BY <2>2, HeaderIsRead
  <2> QED BY <1>3, <2>2, <2>3, <2>4 DEF Nonce
<1> QED BY <1>1, <1>2, <1>3, NameParts

\* Datagrams with the same key are of one kind and one run.
LEMMA KeysTell ==
    ASSUME NEW d \in Names, NEW e \in Names, Datagram[d].key = Datagram[e].key
    PROVE  d[1] = e[1] /\ d[2] = e[2]
<1> DEFINE context(n) == IF n[1] = "response" THEN ReverseContext ELSE ForwardContext
           half(n) == IF n[1] = "audio" THEN "first half" ELSE "second half"
<1>1. ASSUME NEW n \in Names
      PROVE  Datagram[n].key = <<n[2], context(n), half(n)>>
  <2>1. CASE n[1] = "challenge"
    BY <2>1, DatagramIs, KeysAre
  <2>2. CASE n[1] = "response"
    BY <2>2, DatagramIs, KeysAre
  <2>3. CASE n[1] = "audio"
    BY <2>3, DatagramIs, KeysAre
  <2> QED BY <2>1, <2>2, <2>3, NameParts
<1> HIDE DEF context, half
<1>2. \A a, b, c, x, y, z : <<a, b, c>> = <<x, y, z>> => a = x /\ b = y /\ c = z
  OBVIOUS
<1>3. d[2] = e[2] /\ context(d) = context(e) /\ half(d) = half(e)
  BY <1>1, <1>2
<1>4. (d[1] = "response" <=> e[1] = "response") /\ (d[1] = "audio" <=> e[1] = "audio")
  BY <1>3, KeysAre DEF context, half
<1> QED BY <1>3, <1>4, NameParts

\* What a datagram is sealed with.
NonceOf(d) == <<Datagram[d].key, Datagram[d].nonce>>

\* No two datagrams, of this run or an earlier one, have the same key and nonce.
LEMMA NoncesDiffer ==
    ASSUME NEW d \in Names, NEW e \in Names, NonceOf(d) = NonceOf(e)
    PROVE  d = e
<1>1. Datagram[d].key = Datagram[e].key /\ Datagram[d].nonce = Datagram[e].nonce
  BY DEF NonceOf
<1>2. d[1] = e[1] /\ d[2] = e[2]
  BY <1>1, KeysTell
<1>3. d[1] = "audio" => d[3] = e[3]
  <2>1. \A a, b \in 1..Packets : <<1, a + 1>> = <<1, b + 1>> => a = b
    BY Phase3Assumption
  <2> QED BY <1>1, <1>2, <2>1, DatagramIs, NameParts
<1> QED BY <1>2, <1>3, NameParts

\* A datagram that was not sealed before takes a nonce that was not used before.
LEMMA SealedOnce ==
    ASSUME SealedIs, NEW d \in NowNames, d \notin Range(sealed), Sealed(d)
    PROVE  /\ sealed' \in Seq(NowNames) /\ Range(sealed') = Range(sealed) \cup {d}
           /\ IsFiniteSet(NoncesOf(Range(sealed))')
           /\ Cardinality(NoncesOf(Range(sealed))') = Len(sealed')
<1> DEFINE nonces == NoncesOf(Range(sealed))
<1>1. /\ sealed \in Seq(NowNames) /\ sealed' = Append(sealed, d)
      /\ IsFiniteSet(nonces) /\ Cardinality(nonces) = Len(sealed)
  BY DEF SealedIs, Sealed
<1>2. /\ sealed' \in Seq(NowNames) /\ Range(sealed') = Range(sealed) \cup {d}
      /\ Len(sealed') = Len(sealed) + 1 /\ Range(sealed) \subseteq NowNames
  BY <1>1, HeldAfter
<1>3. nonces' = nonces \cup {NonceOf(d)}
  BY <1>2 DEF NoncesOf, NonceOf
<1>4. NonceOf(d) \notin nonces
  <2>1. \A e \in Range(sealed) : e \in Names /\ d \in Names /\ e # d
    BY <1>2 DEF NowNames
  <2>2. \A e \in Range(sealed) : NonceOf(e) # NonceOf(d)
    BY <2>1, NoncesDiffer
  <2> QED BY <2>2 DEF NoncesOf, NonceOf
<1> HIDE DEF nonces
<1>5. IsFiniteSet(nonces') /\ Cardinality(nonces') = Cardinality(nonces) + 1
  BY <1>1, <1>3, <1>4, FS_AddElement
<1> QED BY <1>1, <1>2, <1>5 DEF nonces

\* The only datagram that is the n-th packet to the harness is the n-th of this run.
LEMMA ExpectedIs ==
    ASSUME NEW d \in Names, NEW n \in 1..Packets, <<d, n>> \in Expected
    PROVE  d = <<"audio", "now", n>>
<1>1. /\ Datagram[d].key = ForwardKeys("now").media_key
      /\ HeaderOf(Datagram[d].header).media_timestamp = FirstTimestamp + (n - 1) * 240
  <2>1. <<d, n>>[1] = d /\ <<d, n>>[2] = n
    BY PairParts
  <2> QED BY <2>1 DEF Expected, Opens, TimestampOf
<1>2. d[1] = "audio" /\ d[2] = "now"
  <2> DEFINE packet == <<"audio", "now", n>>
  <2>1. packet \in Names /\ packet[1] = "audio" /\ packet[2] = "now"
    BY TripleParts DEF Names
  <2> HIDE DEF packet
  <2>2. Datagram[packet].key = ForwardKeys("now").media_key
    BY <2>1, DatagramIs
  <2> QED BY <1>1, <2>1, <2>2, KeysTell
<1>3. d[3] = n
  <2>1. FirstTimestamp + (d[3] - 1) * 240 = FirstTimestamp + (n - 1) * 240
    BY <1>1, <1>2, DatagramIs
  <2>2. d[3] \in Int /\ n \in Int
    BY NameParts, Phase3Assumption
  <2> QED BY <2>1, <2>2 DEF FirstTimestamp
<1> QED BY <1>2, <1>3, NameParts

\* The names of the datagrams of this run.
LEMMA NamesOfNow ==
    /\ <<"challenge", "now", 1>> \in NowNames /\ <<"response", "now", 1>> \in NowNames
    /\ \A n \in 1..Packets : <<"audio", "now", n>> \in NowNames
    /\ NowNames \subseteq Names /\ StraysUp \subseteq Names /\ StraysDown \subseteq Names
    /\ \A d \in StraysUp : d[2] = "earlier"
<1>1. 1 \in 1..Packets
  BY Phase3Assumption
<1>2. \A what \in {"challenge", "response"}, run \in {"now", "earlier"} :
          <<what, run, 1>> \in Names /\ <<what, run, 1>>[2] = run
  BY TripleParts DEF Names
<1>3. \A run \in {"now", "earlier"}, n \in 1..Packets :
          <<"audio", run, n>> \in Names /\ <<"audio", run, n>>[2] = run
  BY TripleParts DEF Names
<1> QED BY <1>1, <1>2, <1>3 DEF NowNames, StraysUp, StraysDown

-------------------------------------------------------------------------------
(* The steps of the harness *)

\* It serves the request it waits for.
LEMMA ServeSafe ==
    ASSUME Inv, NEW k \in Requests, Serve(k)
    PROVE  Inv'
<1>1. /\ server = <<"await", k>> /\ toServer # <<>> /\ toServer' = Tail(toServer)
      /\ Handle(Head(toServer))
      /\ server' = IF action'.kind = ReplyKind[k] THEN <<"reply", k>> ELSE Failed
      /\ UNCHANGED <<client, toClient, up, down, sent, sealed, played, faults>>
  BY DEF Serve
<1>2. lastRequestId = k - 1 /\ k \in 1..4 /\ (k = 4 => stream.validated)
  BY <1>1 DEF Inv, ServerIs, Requests
<1>3. toServer = <<k>> /\ toClient = <<>>
  BY <1>1, <1>2 DEF Inv, WiresAre
<1>4. toServer' = <<>> /\ Handle(k)
  BY <1>1, <1>3, OneMessage
<1>5. SessionIs' /\ lastRequestId' = k /\ server' = <<"reply", k>>
  BY <1>1, <1>2, <1>4, HandleSafe DEF Inv
<1>6. WiresAre'
  BY <1>1, <1>3, <1>4 DEF WiresAre
<1>7. ServerIs'
  BY <1>2, <1>5 DEF ServerIs, ServerSteps, Done, Failed, Requests
<1>8. ClientIs'
  <2>1. client \in ClientSteps /\ \A j \in Requests : client # <<"ask", j>>
    BY <1>3, OneMessage DEF Inv, ClientIs
  <2>2. client \notin {<<"challenge", 3>>, <<"prove", 3>>}
    BY <1>3, OneMessage DEF Inv, ClientIs
  <2>3. \A j \in Requests : client = <<"await", j>> => j = k
    BY <1>2, <1>3, OneMessage DEF Inv, ClientIs
  <2>4. client \notin {<<"audio", 4>>, Done} /\ ~(sent > 0)
    BY <1>2 DEF Inv, ClientIs
  <2> QED BY <1>1, <1>4, <1>5, <2>1, <2>2, <2>3, <2>4 DEF ClientIs
<1>9. server' # Done /\ server # <<"mark", 3>>
  BY <1>1, <1>5 DEF Done
<1>10. AudioIs'
  BY <1>1, <1>9 DEF Inv, AudioIs
<1>11. SealedIs'
  <2>1. <<"response", "now", 1>> \in Range(sealed) => server' = <<"reply", 4>>
    BY <1>1, <1>5, <1>2 DEF Inv, SealedIs, Done, Failed
  <2> QED BY <1>1, <2>1 DEF Inv, SealedIs
<1> QED BY <1>5, <1>6, <1>7, <1>8, <1>10, <1>11 DEF Inv

\* It answers the request it served; its result is the only one on its way.
LEMMA ReplySafe ==
    ASSUME Inv, NEW k \in Requests, Reply(k)
    PROVE  Inv'
<1>1. /\ server = <<"reply", k>> /\ toClient' = Append(toClient, k) /\ server' = AfterReply[k]
      /\ UNCHANGED <<client, toServer, up, down, sent, sealed, played, faults, session>>
  BY DEF Reply
<1>2. /\ lastRequestId = k /\ k \in 1..4 /\ Replying
  BY <1>1, PairParts DEF Inv, ServerIs, Requests, Replying
<1>3. toServer = <<>> /\ toClient' = <<k>>
  BY <1>1, <1>2, OneMessage DEF Inv, WiresAre
<1>4. /\ k = 1 => server' = <<"await", 2>>
      /\ k = 2 => server' = <<"await", 3>>
      /\ k = 3 => server' = <<"path", 3>>
      /\ k = 4 => server' = <<"play", 4>>
  BY <1>1, <1>2 DEF AfterReply
<1>5. ~Replying' /\ server' # Done /\ server' \in ServerSteps /\ server' # <<"await", 4>>
  BY <1>2, <1>4, PairParts DEF Replying, Done, ServerSteps, Requests
<1>6. SessionIs'
  BY <1>1 DEF Inv, SessionIs, session
<1>7. WiresAre'
  BY <1>1, <1>2, <1>3, <1>5 DEF WiresAre, session
<1>8. ServerIs'
  BY <1>1, <1>2, <1>4, <1>5 DEF ServerIs, session, Done, Failed, Requests
<1>9. ClientIs'
  <2>1. \A j \in Requests : client # <<"ask", j>>
    BY <1>2 DEF Inv, ClientIs
  <2>2. client \notin {<<"challenge", 3>>, <<"prove", 3>>}
    BY <1>2 DEF Inv, ClientIs
  <2> QED BY <1>1, <2>1, <2>2 DEF Inv, ClientIs, session
<1>10. AudioIs'
  BY <1>1, <1>5 DEF Inv, AudioIs
<1>11. SealedIs'
  <2>1. <<"response", "now", 1>> \in Range(sealed) => k = 4
    BY <1>1, <1>2 DEF Inv, SealedIs, Done, Failed
  <2> QED BY <1>1, <1>4, <2>1 DEF Inv, SealedIs
<1> QED BY <1>6, <1>7, <1>8, <1>9, <1>10, <1>11 DEF Inv

\* A step of the harness outside its session that touches no request.
LEMMA ServerMoves ==
    ASSUME Inv, NEW step \in ServerSteps, server' = step, step[1] # "reply",
           UNCHANGED <<client, toServer, toClient, sent, session>>,
           ~Replying,
           \A k \in Requests : step = <<"await", k>> => k = 4 /\ stream.validated /\ lastRequestId = 3,
           step \in {<<"path", 3>>, <<"respond", 3>>, <<"mark", 3>>} => lastRequestId = 3,
           step \in {<<"play", 4>>, Done} => lastRequestId = 4
    PROVE  SessionIs' /\ WiresAre' /\ ServerIs' /\ ClientIs'
<1>1. SessionIs' /\ WiresAre'
  BY DEF Inv, SessionIs, WiresAre, Replying, session
<1>2. ServerIs'
  <2>1. \A k \in Requests : step # <<"reply", k>>
    BY PairParts
  <2> QED BY <2>1 DEF ServerIs, session
<1>3. ClientIs'
  BY DEF Inv, ClientIs, Replying, session
<1> QED BY <1>1, <1>2, <1>3

\* It takes the one datagram that decides, and answers it.
LEMMA ReceiveChallengeSafe ==
    ASSUME Inv, ReceiveChallenge
    PROVE  Inv'
<1>1. /\ server = <<"path", 3>> /\ up # <<>> /\ up' = Tail(up)
      /\ server' \in {<<"respond", 3>>, Failed}
      /\ UNCHANGED <<client, toServer, toClient, down, sent, sealed, played, faults, session>>
  BY DEF ReceiveChallenge
<1>2. lastRequestId = 3 /\ ~Replying /\ server # Done /\ server # <<"mark", 3>>
  BY <1>1, PairParts DEF Inv, ServerIs, Replying, Done
<1>3. SessionIs' /\ WiresAre' /\ ServerIs' /\ ClientIs'
  <2>1. /\ server'[1] # "reply" /\ server' \in ServerSteps /\ server' \notin {<<"play", 4>>, Done}
        /\ \A k \in Requests : server' # <<"await", k>>
    BY <1>1, PairParts DEF ServerSteps, Done, Failed
  <2> QED BY <1>1, <1>2, <2>1, ServerMoves
<1>4. AudioIs'
  <2>1. up' \in Seq(Names) /\ Range(up') \subseteq Range(up)
    BY <1>1, HeldAfter DEF Inv, AudioIs
  <2> QED BY <1>1, <2>1 DEF Inv, AudioIs, Done, Failed
<1>5. SealedIs'
  <2>1. <<"response", "now", 1>> \notin Range(sealed)
    BY <1>1 DEF Inv, SealedIs, Done, Failed
  <2> QED BY <1>1, <2>1 DEF Inv, SealedIs
<1> QED BY <1>3, <1>4, <1>5 DEF Inv

\* With the one response it seals.
LEMMA SendResponseSafe ==
    ASSUME Inv, SendResponse
    PROVE  Inv'
<1> DEFINE response == <<"response", "now", 1>>
<1>1. /\ server = <<"respond", 3>> /\ down' = Append(down, response) /\ Sealed(response)
      /\ server' = <<"mark", 3>>
      /\ UNCHANGED <<client, toServer, toClient, up, sent, played, faults, session>>
  BY DEF SendResponse, AfterResponse
<1>2. lastRequestId = 3 /\ ~Replying
  BY <1>1, PairParts DEF Inv, ServerIs, Replying
<1>3. SessionIs' /\ WiresAre' /\ ServerIs' /\ ClientIs'
  <2>1. /\ server'[1] # "reply" /\ server' \in ServerSteps /\ server' \notin {<<"play", 4>>, Done}
        /\ \A k \in Requests : server' # <<"await", k>>
    BY <1>1, PairParts DEF ServerSteps, Done, Failed
  <2> QED BY <1>1, <1>2, <2>1, ServerMoves
<1>4. AudioIs'
  <2>1. down' \in Seq(Names)
    BY <1>1, HeldAfter, NamesOfNow DEF Inv, AudioIs
  <2> QED BY <1>1, <2>1 DEF Inv, AudioIs, Done, Failed
<1>5. SealedIs'
  <2>1. response \notin Range(sealed) /\ response \in NowNames /\ SealedIs
    BY <1>1, NamesOfNow DEF Inv, SealedIs, Done, Failed
  <2>2. /\ sealed' \in Seq(NowNames) /\ Range(sealed') = Range(sealed) \cup {response}
        /\ IsFiniteSet(NoncesOf(Range(sealed))')
        /\ Cardinality(NoncesOf(Range(sealed))') = Len(sealed')
    BY <1>1, <2>1, SealedOnce
  <2>3. /\ \A n : <<"audio", "now", n>> # response
        /\ <<"challenge", "now", 1>> # response
    BY TripleParts
  <2> QED BY <1>1, <2>1, <2>2, <2>3 DEF SealedIs
<1> QED BY <1>3, <1>4, <1>5 DEF Inv

\* It tells its session of the proven path.
LEMMA MarkSafe ==
    ASSUME Inv, Mark
    PROVE  Inv'
<1>1. /\ server = <<"mark", 3>> /\ Control!MarkPathValidated(1, 1)
      /\ server' = IF action'.kind = "PATH_VALIDATED" THEN <<"await", 4>> ELSE Failed
      /\ UNCHANGED <<client, wires, sent, sealed, played, faults>>
  BY DEF Mark
<1>2. lastRequestId = 3 /\ ~Replying
  BY <1>1, PairParts DEF Inv, ServerIs, Replying
<1>3. SessionIs' /\ lastRequestId' = 3 /\ stream'.validated /\ server' = <<"await", 4>>
  BY <1>1, <1>2, MarkAccepted DEF Inv
<1>4. ~Replying' /\ server' # Done /\ UNCHANGED <<toServer, toClient, up, down>>
  BY <1>1, <1>3, PairParts DEF Replying, Done, wires
<1>5. WiresAre' /\ ClientIs'
  BY <1>1, <1>2, <1>3, <1>4 DEF Inv, WiresAre, ClientIs
<1>6. ServerIs'
  BY <1>3 DEF ServerIs, ServerSteps, Done, Failed, Requests
<1>7. AudioIs' /\ SealedIs'
  BY <1>1, <1>3, <1>4 DEF Inv, AudioIs, SealedIs
<1> QED BY <1>3, <1>5, <1>6, <1>7 DEF Inv

\* It plays the packet it expects, or nothing.
LEMMA PlaySafe ==
    ASSUME Inv, Play
    PROVE  Inv'
<1>1. /\ server = <<"play", 4>> /\ Len(played) < Packets /\ up # <<>> /\ up' = Tail(up)
      /\ \/ /\ <<Head(up), Len(played) + 1>> \in Expected
            /\ played' = Append(played, Head(up)[3]) /\ server' = server
         \/ server' = Failed /\ played' = played
      /\ UNCHANGED <<client, toServer, toClient, down, sent, sealed, faults, session>>
  BY DEF Play
<1>2. lastRequestId = 4 /\ ~Replying
  BY <1>1, PairParts DEF Inv, ServerIs, Replying
<1>3. SessionIs' /\ WiresAre' /\ ServerIs' /\ ClientIs'
  <2>1. /\ server'[1] # "reply" /\ server' \in ServerSteps
        /\ \A k \in Requests : server' # <<"await", k>>
        /\ server' \notin {<<"path", 3>>, <<"respond", 3>>, <<"mark", 3>>}
    BY <1>1, PairParts DEF ServerSteps, Done, Failed
  <2> QED BY <1>1, <1>2, <2>1, ServerMoves
<1>4. /\ up' \in Seq(Names) /\ Range(up') \subseteq Range(up) /\ Head(up) \in Range(up)
      /\ Head(up) \in Names
  BY <1>1, HeldAfter DEF Inv, AudioIs
<1>5. /\ played' \in Seq(Nat) /\ Len(played') <= sent
      /\ \A i \in 1..Len(played') : played'[i] = i
  <2>1. /\ played \in Seq(Nat) /\ Len(played) <= sent /\ sent \in Nat /\ Len(played) \in Nat
        /\ \A i \in 1..Len(played) : played[i] = i
    BY Phase3Assumption DEF Inv, AudioIs
  <2>2. CASE /\ <<Head(up), Len(played) + 1>> \in Expected
             /\ played' = Append(played, Head(up)[3])
    <3>1. Len(played) + 1 \in 1..Packets
      BY <1>1, <2>1, Phase3Assumption
    <3>2. Head(up) = <<"audio", "now", Len(played) + 1>>
      BY <1>4, <2>2, <3>1, ExpectedIs
    <3>3. Len(played) + 1 <= sent
      BY <1>4, <3>1, <3>2 DEF Inv, AudioIs
    <3>4. played' = Append(played, Len(played) + 1)
      BY <2>2, <3>2, TripleParts
    <3> QED BY <2>1, <3>3, <3>4
  <2>3. CASE played' = played
    BY <2>1, <2>3
  <2> QED BY <1>1, <2>2, <2>3
<1>6. AudioIs'
  BY <1>1, <1>4, <1>5 DEF Inv, AudioIs, Done, Failed
<1>7. SealedIs'
  BY <1>1 DEF Inv, SealedIs
<1> QED BY <1>3, <1>6, <1>7 DEF Inv

\* It has played every packet and reports what its session's counters say.
LEMMA FinishSafe ==
    ASSUME Inv, Finish
    PROVE  Inv'
<1>1. /\ server = <<"play", 4>> /\ Len(played) = Packets /\ server' \in {Done, Failed}
      /\ UNCHANGED <<client, toServer, toClient, up, down, sent, sealed, played, session>>
  BY DEF Finish, wires
<1>2. lastRequestId = 4 /\ ~Replying
  BY <1>1, PairParts DEF Inv, ServerIs, Replying
<1>3. SessionIs' /\ WiresAre' /\ ServerIs' /\ ClientIs'
  <2>1. /\ server'[1] # "reply" /\ server' \in ServerSteps
        /\ \A k \in Requests : server' # <<"await", k>>
        /\ server' \notin {<<"path", 3>>, <<"respond", 3>>, <<"mark", 3>>}
    BY <1>1, PairParts DEF ServerSteps, Done, Failed
  <2> QED BY <1>1, <1>2, <2>1, ServerMoves
<1>4. AudioIs' /\ SealedIs'
  BY <1>1 DEF Inv, AudioIs, SealedIs
<1> QED BY <1>3, <1>4 DEF Inv

\* A program that fails or times out takes its end of everything with it.
LEMMA FailureSafe ==
    ASSUME Inv, \/ client' = Failed /\ server' = server
                \/ server' = Failed /\ client' = client,
           UNCHANGED <<wires, sent, sealed, played, session>>
    PROVE  Inv'
<1>1. UNCHANGED <<toServer, toClient, up, down>>
  BY DEF wires
<1>2. SessionIs'
  BY DEF Inv, SessionIs, session
<1>3. CASE client' = Failed /\ server' = server
  <2>1. WiresAre' /\ ServerIs'
    BY <1>1, <1>3 DEF Inv, WiresAre, ServerIs, Replying, session
  <2>2. ClientIs'
    BY <1>1, <1>3, PairParts DEF Inv, ClientIs, ClientSteps, Done, Failed, session
  <2>3. AudioIs' /\ SealedIs'
    BY <1>1, <1>3 DEF Inv, AudioIs, SealedIs, Done, Failed
  <2> QED BY <1>2, <2>1, <2>2, <2>3 DEF Inv
<1>4. CASE server' = Failed /\ client' = client
  <2>1. ~Replying' /\ Failed \in ServerSteps
    BY <1>4, PairParts DEF Replying, Failed, ServerSteps
  <2>2. WiresAre'
    BY <1>1, <2>1 DEF Inv, WiresAre, Replying, session
  <2>3. ServerIs'
    BY <1>4, <2>1 DEF ServerIs, Done, Failed
  <2>4. ClientIs'
    BY <1>1, <1>4, <2>1 DEF Inv, ClientIs, session
  <2>5. AudioIs' /\ SealedIs'
    BY <1>1, <1>4 DEF Inv, AudioIs, SealedIs, Done, Failed
  <2> QED BY <1>2, <2>2, <2>3, <2>4, <2>5 DEF Inv
<1> QED BY <1>3, <1>4

-------------------------------------------------------------------------------
(* The steps of the probe *)

\* A step of the probe that touches no request.
LEMMA ClientMoves ==
    ASSUME Inv, NEW step \in ClientSteps, client' = step,
           UNCHANGED <<server, toServer, toClient, session>>,
           \A k \in Requests :
               /\ step = <<"ask", k>> => /\ lastRequestId = k - 1 /\ ~Replying
                                         /\ toServer = <<>> /\ toClient = <<>>
               /\ step # <<"await", k>>,
           step \in {<<"challenge", 3>>, <<"prove", 3>>} =>
               lastRequestId = 3 /\ ~Replying /\ toServer = <<>> /\ toClient = <<>>,
           step \in {<<"audio", 4>>, Done} \/ sent' > 0 => lastRequestId = 4
    PROVE  SessionIs' /\ WiresAre' /\ ServerIs' /\ ClientIs'
<1>1. SessionIs' /\ WiresAre' /\ ServerIs'
  BY DEF Inv, SessionIs, WiresAre, ServerIs, Replying, session
<1>2. ClientIs'
  BY DEF Inv, ClientIs, Replying, session
<1> QED BY <1>1, <1>2

\* It sends its one challenge.
LEMMA SendChallengeSafe ==
    ASSUME Inv, SendChallenge
    PROVE  Inv'
<1> DEFINE challenge == <<"challenge", "now", 1>>
<1>1. /\ client = <<"challenge", 3>> /\ client' = <<"prove", 3>>
      /\ up' = Append(up, challenge) /\ Sealed(challenge)
      /\ UNCHANGED <<server, toServer, toClient, down, sent, played, faults, session>>
  BY DEF SendChallenge
<1>2. lastRequestId = 3 /\ ~Replying /\ toServer = <<>> /\ toClient = <<>>
  BY <1>1 DEF Inv, ClientIs
<1>3. sent = 0
  BY <1>1 DEF Inv, AudioIs, Done, Failed
<1>4. SessionIs' /\ WiresAre' /\ ServerIs' /\ ClientIs'
  <2>1. /\ client' \in ClientSteps /\ client' \notin {<<"audio", 4>>, Done}
        /\ \A k \in Requests : client' # <<"ask", k>> /\ client' # <<"await", k>>
    BY <1>1, PairParts DEF ClientSteps, Done
  <2>2. ~(sent' > 0)
    BY <1>1, <1>3
  <2> QED BY <1>1, <1>2, <2>1, <2>2, ClientMoves
<1>5. \A n : <<"audio", "now", n>> # challenge /\ <<"response", "now", 1>> # challenge
  BY TripleParts
<1>6. AudioIs'
  <2>1. up \in Seq(Names) /\ challenge \in Names
    BY NamesOfNow DEF Inv, AudioIs
  <2> HIDE DEF challenge
  <2>2. up' \in Seq(Names) /\ Range(up') = Range(up) \cup {challenge}
    BY <1>1, <2>1, HeldAfter
  <2>3. client' # Done
    BY <1>1 DEF Done
  <2> QED BY <1>1, <1>3, <1>5, <2>2, <2>3 DEF Inv, AudioIs
<1>7. SealedIs'
  <2>1. challenge \notin Range(sealed) /\ challenge \in NowNames /\ SealedIs
    BY <1>1, NamesOfNow DEF Inv, SealedIs, Done, Failed
  <2>2. /\ sealed' \in Seq(NowNames) /\ Range(sealed') = Range(sealed) \cup {challenge}
        /\ IsFiniteSet(NoncesOf(Range(sealed))')
        /\ Cardinality(NoncesOf(Range(sealed))') = Len(sealed')
    BY <1>1, <2>1, SealedOnce
  <2> QED BY <1>1, <1>5, <2>1, <2>2 DEF SealedIs
<1> QED BY <1>4, <1>6, <1>7 DEF Inv

\* It takes the datagram that decides whether the path is good.
LEMMA ReceiveResponseSafe ==
    ASSUME Inv, ReceiveResponse
    PROVE  Inv'
<1>1. /\ client = <<"prove", 3>> /\ down # <<>> /\ down' = Tail(down)
      /\ client' \in {<<"ask", 4>>, Failed}
      /\ UNCHANGED <<server, toServer, toClient, up, sent, sealed, played, faults, session>>
  BY DEF ReceiveResponse, AfterProof
<1>2. lastRequestId = 3 /\ ~Replying /\ toServer = <<>> /\ toClient = <<>>
  BY <1>1 DEF Inv, ClientIs
<1>3. sent = 0
  BY <1>1 DEF Inv, AudioIs, Done, Failed
<1>4. SessionIs' /\ WiresAre' /\ ServerIs' /\ ClientIs'
  <2>1. /\ client' \in ClientSteps
        /\ client' \notin {<<"challenge", 3>>, <<"prove", 3>>, <<"audio", 4>>, Done}
        /\ \A k \in Requests : client' # <<"await", k>> /\ (client' = <<"ask", k>> => k = 4)
    BY <1>1, PairParts DEF ClientSteps, Done, Failed, Requests
  <2>2. ~(sent' > 0)
    BY <1>1, <1>3
  <2> QED BY <1>1, <1>2, <2>1, <2>2, ClientMoves
<1>5. AudioIs'
  <2>1. down' \in Seq(Names)
    BY <1>1, HeldAfter DEF Inv, AudioIs
  <2>2. client' # Done
    BY <1>1 DEF Done, Failed
  <2> QED BY <1>1, <1>3, <2>1, <2>2 DEF Inv, AudioIs
<1>6. SealedIs'
  BY <1>1 DEF Inv, SealedIs
<1> QED BY <1>4, <1>5, <1>6 DEF Inv

\* It sends the next packet, or it has sent them all.
LEMMA SendAudioSafe ==
    ASSUME Inv, SendAudio
    PROVE  Inv'
<1>1. /\ client = <<"audio", 4>>
      /\ UNCHANGED <<server, toServer, toClient, down, played, faults, session>>
  BY DEF SendAudio
<1>2. lastRequestId = 4 /\ sent \in 0..Packets /\ Packets \in Nat
  BY <1>1, Phase3Assumption DEF Inv, ClientIs, AudioIs
<1>3. CASE sent < Packets
  <2> DEFINE packet == <<"audio", "now", sent + 1>>
  <2>1. /\ up' = Append(up, packet) /\ Sealed(packet) /\ sent' = sent + 1 /\ client' = client
    BY <1>3 DEF SendAudio, LastPacket
  <2>2. sent + 1 \in 1..Packets /\ packet \in NowNames /\ packet \in Names
    BY <1>2, <1>3, NamesOfNow
  <2>3. SessionIs' /\ WiresAre' /\ ServerIs' /\ ClientIs'
    <3>1. /\ client' \in ClientSteps /\ client' \notin {<<"challenge", 3>>, <<"prove", 3>>}
          /\ \A k \in Requests : client' # <<"ask", k>> /\ client' # <<"await", k>>
      BY <1>1, <2>1, PairParts DEF ClientSteps
    <3> QED BY <1>1, <1>2, <3>1, ClientMoves
  <2>4. \A n : <<"audio", "now", n>> = packet => n = sent + 1
    BY TripleParts
  <2>5. \A d \in {<<"challenge", "now", 1>>, <<"response", "now", 1>>} : d # packet
    BY TripleParts
  <2>6. AudioIs'
    <3>0. /\ up \in Seq(Names)
          /\ \A n \in 1..Packets : <<"audio", "now", n>> \in Range(up) => n <= sent
      BY DEF Inv, AudioIs
    <3> HIDE DEF packet
    <3>1. up' \in Seq(Names) /\ Range(up') = Range(up) \cup {packet}
      BY <2>1, <2>2, <3>0, HeldAfter
    <3>2. ASSUME NEW n \in 1..Packets, <<"audio", "now", n>> \in Range(up')
          PROVE  n <= sent'
      <4>1. n <= sent \/ n = sent + 1
        BY <2>4, <3>0, <3>1, <3>2
      <4> QED BY <1>2, <2>1, <4>1
    <3>3. Len(played) <= sent' /\ sent' \in 0..Packets
      BY <1>2, <1>3, <2>1 DEF Inv, AudioIs
    <3>4. client' = <<"audio", 4>> /\ client' # Done
      BY <1>1, <2>1 DEF Done
    <3> QED BY <1>1, <3>1, <3>2, <3>3, <3>4 DEF Inv, AudioIs
  <2>7. SealedIs'
    <3>1. packet \notin Range(sealed) /\ SealedIs
      BY <1>2, <2>2 DEF Inv, SealedIs
    <3>2. /\ sealed' \in Seq(NowNames) /\ Range(sealed') = Range(sealed) \cup {packet}
          /\ IsFiniteSet(NoncesOf(Range(sealed))')
          /\ Cardinality(NoncesOf(Range(sealed))') = Len(sealed')
      BY <2>1, <2>2, <3>1, SealedOnce
    <3>3. \A n \in 1..Packets : <<"audio", "now", n>> \in Range(sealed') => n <= sent'
      BY <1>2, <2>1, <2>4, <3>1, <3>2 DEF SealedIs
    <3> QED BY <1>1, <2>1, <2>5, <3>1, <3>2, <3>3 DEF SealedIs
  <2> QED BY <2>3, <2>6, <2>7 DEF Inv
<1>4. CASE ~(sent < Packets)
  <2>1. client' = Done /\ UNCHANGED <<up, sent, sealed>> /\ sent = Packets
    BY <1>2, <1>4 DEF SendAudio, LastPacket
  <2>2. SessionIs' /\ WiresAre' /\ ServerIs' /\ ClientIs'
    <3>1. /\ client' \in ClientSteps /\ client' \notin {<<"challenge", 3>>, <<"prove", 3>>}
          /\ \A k \in Requests : client' # <<"ask", k>> /\ client' # <<"await", k>>
      BY <2>1, PairParts DEF ClientSteps, Done
    <3> QED BY <1>1, <1>2, <3>1, ClientMoves
  <2>3. AudioIs' /\ SealedIs'
    BY <1>1, <2>1 DEF Inv, AudioIs, SealedIs
  <2> QED BY <2>2, <2>3 DEF Inv
<1> QED BY <1>3, <1>4

-------------------------------------------------------------------------------
(* The network *)

\* A lost, duplicated or overtaken datagram was on its way.
LEMMA DisturbedHolds ==
    ASSUME NEW S, NEW queue \in Seq(S), NEW changed \in Disturbed(queue)
    PROVE  changed \in Seq(S) /\ Range(changed) \subseteq Range(queue)
<1>1. ASSUME NEW i \in 1..Len(queue)
      PROVE  /\ Without(queue, i) \in Seq(S) /\ Range(Without(queue, i)) \subseteq Range(queue)
             /\ queue[i] \in S /\ queue[i] \in Range(queue)
  <2> DEFINE before == SubSeq(queue, 1, i - 1)
             after == SubSeq(queue, i + 1, Len(queue))
  <2>1. /\ before \in Seq(S) /\ Len(queue) \in Nat /\ i \in Nat
        /\ \A j \in 1..Len(before) : before[j] = queue[j] /\ j \in 1..Len(queue)
    BY SubSeqProperties
  <2>2. /\ after \in Seq(S)
        /\ \A j \in 1..Len(after) : after[j] = queue[i + j] /\ i + j \in 1..Len(queue)
    BY SubSeqProperties
  <2> HIDE DEF before, after
  <2>3. /\ before \o after \in Seq(S) /\ Len(before) \in Nat /\ Len(after) \in Nat
        /\ Len(before \o after) = Len(before) + Len(after)
        /\ \A j \in 1..(Len(before) + Len(after)) :
               (before \o after)[j] = IF j <= Len(before) THEN before[j] ELSE after[j - Len(before)]
    BY <2>1, <2>2, ConcatProperties
  <2>4. \A j \in 1..(Len(before) + Len(after)) : (before \o after)[j] \in Range(queue)
    <3>1. Range(queue) = {queue[j] : j \in 1..Len(queue)}
      BY HeldIs
    <3>2. ASSUME NEW j \in 1..(Len(before) + Len(after))
          PROVE  (before \o after)[j] \in Range(queue)
      <4>1. CASE j <= Len(before)
        <5>1. j \in 1..Len(before) /\ (before \o after)[j] = before[j]
          BY <2>3, <4>1
        <5> QED BY <2>1, <3>1, <5>1
      <4>2. CASE ~(j <= Len(before))
        <5>1. /\ j - Len(before) \in 1..Len(after)
              /\ (before \o after)[j] = after[j - Len(before)]
          BY <2>3, <4>2
        <5> QED BY <2>2, <3>1, <5>1
      <4> QED BY <4>1, <4>2
    <3> QED BY <3>2
  <2>5. Range(before \o after) \subseteq Range(queue)
    <3>1. Range(before \o after) = {(before \o after)[j] : j \in 1..Len(before \o after)}
      BY <2>3, HeldIs
    <3> QED BY <2>3, <2>4, <3>1
  <2> QED BY <2>3, <2>5, HeldIs DEF Without, before, after
<1>2. CASE \E i \in 1..Len(queue) : changed = Without(queue, i)
  BY <1>1, <1>2
<1>3. CASE \E i \in 1..Len(queue) : changed = Append(queue, queue[i])
  BY <1>1, <1>3, HeldAfter
<1>4. CASE \E i \in 1..Len(queue) : changed = Append(Without(queue, i), queue[i])
  <2>1. PICK i \in 1..Len(queue) : changed = Append(Without(queue, i), queue[i])
    BY <1>4
  <2>2. /\ Append(Without(queue, i), queue[i]) \in Seq(S)
        /\ Range(Append(Without(queue, i), queue[i])) = Range(Without(queue, i)) \cup {queue[i]}
    BY <1>1, HeldAfter
  <2> QED BY <1>1, <2>1, <2>2
<1> QED BY <1>2, <1>3, <1>4 DEF Disturbed

\* The network brings no audio of this run that was not sent.
LEMMA NetworkSafe ==
    ASSUME Inv, Network
    PROVE  Inv'
<1>1. UNCHANGED <<client, server, toServer, toClient, sent, sealed, played, session>>
  BY DEF Network
<1>2. SessionIs' /\ WiresAre' /\ ServerIs' /\ ClientIs' /\ SealedIs'
  BY <1>1 DEF Inv, SessionIs, WiresAre, ServerIs, ClientIs, SealedIs, Replying, session
<1>3. up \in Seq(Names) /\ down \in Seq(Names)
  BY DEF Inv, AudioIs
<1>4. up' \in Seq(Names) /\ down' \in Seq(Names)
  <2>1. /\ \A changed \in Disturbed(up) \cup Disturbed(down) : changed \in Seq(Names)
        /\ \A d \in StraysUp : Append(up, d) \in Seq(Names)
        /\ \A d \in StraysDown : Append(down, d) \in Seq(Names)
    BY <1>3, HeldAfter, DisturbedHolds, NamesOfNow
  <2> QED BY <1>3, <2>1 DEF Network
<1>5. \A n \in 1..Packets : <<"audio", "now", n>> \in Range(up') =>
                                <<"audio", "now", n>> \in Range(up)
  <2>1. CASE up' = up
    BY <2>1
  <2>2. CASE up' \in Disturbed(up)
    BY <1>3, <2>2, DisturbedHolds
  <2>3. ASSUME NEW d \in StraysUp, up' = Append(up, d)
        PROVE  \A n \in 1..Packets : <<"audio", "now", n>> \in Range(up') =>
                                         <<"audio", "now", n>> \in Range(up)
    <3>1. Range(up') = Range(up) \cup {d}
      BY <1>3, <2>3, HeldAfter, NamesOfNow
    <3>2. \A n : d # <<"audio", "now", n>>
      <4>1. d[2] = "earlier"
        BY NamesOfNow
      <4> QED BY <4>1, TripleParts
    <3> QED BY <3>1, <3>2
  <2> QED BY <2>1, <2>2, <2>3 DEF Network
<1>6. AudioIs'
  BY <1>1, <1>4, <1>5 DEF Inv, AudioIs
<1> QED BY <1>2, <1>6 DEF Inv

-------------------------------------------------------------------------------
(* Every reachable state *)

\* The programs start in it.
LEMMA StartsSafe == Init => Inv
<1> SUFFICES ASSUME Init
             PROVE  Inv
  OBVIOUS
<1>1. /\ client = <<"ask", 1>> /\ server = <<"await", 1>> /\ toServer = <<>> /\ toClient = <<>>
      /\ up = <<>> /\ down = <<>> /\ sent = 0 /\ sealed = <<>> /\ played = <<>>
  BY DEF Init
<1>2. /\ state = "TLS_READY" /\ lastRequestId = 0 /\ nextStreamId = 1 /\ stream = Control!NoStream
      /\ metrics = [c \in Control!Counters |-> 0]
  BY DEF Init, Control!Init
<1>3. ~Replying /\ server # Done /\ client # Done
  BY <1>1, PairParts DEF Replying, Done
<1>4. SessionIs
  <2>1. stream \in Control!StreamType /\ stream.validated = FALSE
    BY <1>2 DEF Control!NoStream, Control!StreamType, Control!U32
  <2>2. metrics \in [Control!Counters -> Nat] /\ metrics["rejected_requests"] = 0
    BY <1>2 DEF Control!Counters
  <2> QED BY <1>2, <2>1, <2>2 DEF SessionIs
<1>5. WiresAre
  BY <1>1 DEF WiresAre
<1>6. ServerIs
  <2>1. server \in ServerSteps /\ \A k \in Requests : server # <<"reply", k>>
    BY <1>1, PairParts DEF ServerSteps, Requests
  <2>2. \A k \in Requests : server = <<"await", k>> => k = 1
    BY <1>1, PairParts
  <2> QED BY <1>1, <1>2, <1>3, <2>1, <2>2, PairParts DEF ServerIs
<1>7. ClientIs
  <2>1. client \in ClientSteps /\ \A k \in Requests : client # <<"await", k>>
    BY <1>1, PairParts DEF ClientSteps, Requests
  <2>2. \A k \in Requests : client = <<"ask", k>> => k = 1
    BY <1>1, PairParts
  <2> QED BY <1>1, <1>2, <1>3, <2>1, <2>2, PairParts DEF ClientIs
<1>8. /\ up \in Seq(Names) /\ down \in Seq(Names) /\ sealed \in Seq(NowNames)
      /\ played \in Seq(Nat) /\ Len(played) = 0 /\ Len(sealed) = 0
  BY <1>1
<1>9. Range(up) = {} /\ Range(sealed) = {}
  <2>1. \A i : i \notin 1..0
    OBVIOUS
  <2>2. Range(up) = {up[i] : i \in 1..Len(up)} /\ Range(sealed) = {sealed[i] : i \in 1..Len(sealed)}
    BY <1>8, HeldIs
  <2>3. Len(up) = 0 /\ Len(sealed) = 0
    BY <1>1
  <2> QED BY <2>1, <2>2, <2>3
<1>10. AudioIs
  BY <1>1, <1>3, <1>8, <1>9, Phase3Assumption DEF AudioIs
<1>11. SealedIs
  <2>1. NoncesOf(Range(sealed)) = {}
    BY <1>9 DEF NoncesOf
  <2> QED BY <1>8, <1>9, <2>1, FS_EmptySet DEF SealedIs
<1> QED BY <1>4, <1>5, <1>6, <1>7, <1>10, <1>11 DEF Inv

\* Every step of a program or of the network keeps it.
LEMMA StepSafe == Inv /\ [Next]_vars => Inv'
<1> SUFFICES ASSUME Inv, [Next]_vars
             PROVE  Inv'
  OBVIOUS
<1>1. CASE UNCHANGED vars
  BY <1>1 DEF vars, wires, session, Inv, SessionIs, WiresAre, ServerIs, ClientIs, AudioIs, SealedIs,
              Replying
<1>2. ASSUME NEW k \in Requests, Ask(k) \/ Result(k)
      PROVE  Inv'
  BY <1>2, AskSafe, ResultSafe
<1>3. CASE SendChallenge \/ ReceiveResponse \/ SendAudio
  BY <1>3, SendChallengeSafe, ReceiveResponseSafe, SendAudioSafe
<1>4. CASE ClientTimeout \/ ServerTimeout \/ Breaks
  <2>1. /\ \/ client' = Failed /\ server' = server
           \/ server' = Failed /\ client' = client
        /\ UNCHANGED <<wires, sent, sealed, played, session>>
    BY <1>4 DEF ClientTimeout, ServerTimeout, Breaks
  <2> QED BY <2>1, FailureSafe
<1>5. ASSUME NEW k \in Requests, Serve(k) \/ Reply(k)
      PROVE  Inv'
  BY <1>5, ServeSafe, ReplySafe
<1>6. CASE ReceiveChallenge \/ SendResponse \/ Mark
  BY <1>6, ReceiveChallengeSafe, SendResponseSafe, MarkSafe
<1>7. CASE Play \/ Finish
  BY <1>7, PlaySafe, FinishSafe
<1>8. CASE Network
  BY <1>8, NetworkSafe
<1>9. CASE BothEnded
  BY <1>1, <1>9 DEF BothEnded
<1> QED BY <1>1, <1>2, <1>3, <1>4, <1>5, <1>6, <1>7, <1>8, <1>9 DEF Next, Client, Server

\* The parts of Inv hold in every reachable state, whatever the network and the programs do.
LEMMA InvariantHolds == Spec => []Inv
<1>1. Spec => Init /\ [][Next]_vars
  BY PTL DEF Spec
<1> QED BY <1>1, StartsSafe, StepSafe, PTL

\* For every number of packets, no two sealed datagrams share a key and a nonce, and none
\* shares them with a datagram of an earlier run (gm_media.cpp, gm_crypto.cpp).
THEOREM NoncesNeverRepeat == Spec => []NonceUsedOnce
<1>1. Inv => NonceUsedOnce
  <2> SUFFICES ASSUME Inv
               PROVE  NonceUsedOnce
    OBVIOUS
  <2>1. sealed \in Seq(NowNames) /\ Cardinality(NoncesOf(Range(sealed))) = Len(sealed)
    BY DEF Inv, SealedIs
  <2>2. Range(sealed) \subseteq NowNames
    BY <2>1, HeldAfter
  <2>3. ASSUME NEW d \in Range(sealed), NEW e \in {e \in Names : e[2] = "earlier"}
        PROVE  NonceOf(d) # NonceOf(e)
    <3>1. d \in Names /\ e \in Names /\ d[2] = "now" /\ e[2] = "earlier"
      BY <2>2 DEF NowNames
    <3> QED BY <3>1, NoncesDiffer
  <2>4. NoncesOf(Range(sealed)) \cap EarlierNonces = {}
    BY <2>3 DEF NoncesOf, EarlierNonces, NonceOf
  <2> QED BY <2>1, <2>4 DEF NonceUsedOnce
<1> QED BY <1>1, InvariantHolds, PTL

\* The harness's session refuses no request and no path proof of the probe's script, in any
\* order of the steps of both programs.
THEOREM SessionAcceptsAll == Spec => []SessionNeverRefuses
<1>1. Inv => SessionNeverRefuses
  BY DEF Inv, SessionIs, SessionNeverRefuses
<1> QED BY <1>1, InvariantHolds, PTL

\* When the probe streams, the harness's session is streaming on the path that was proven.
THEOREM AudioOnlyOnProvenPath == Spec => []AudioOnProvenPath
<1>1. Inv => AudioOnProvenPath
  BY DEF Inv, ClientIs, SessionIs, AudioOnProvenPath
<1> QED BY <1>1, InvariantHolds, PTL

\* Losses, duplicates, reorderings and late datagrams never make the harness play a packet
\* out of its place, and it reports success only after the whole stream.
THEOREM PlayedInOrder == Spec => []PlaysInOrder
<1>1. Inv => PlaysInOrder
  <2> SUFFICES ASSUME Inv
               PROVE  PlaysInOrder
    OBVIOUS
  <2>1. /\ \A i \in 1..Len(played) : played[i] = i
        /\ Len(played) <= sent /\ sent \in 0..Packets
        /\ server = Done => Len(played) = Packets
    BY DEF Inv, AudioIs
  <2>2. server = Done => sent = Packets
    BY <2>1, Phase3Assumption
  <2> QED BY <2>1, <2>2 DEF PlaysInOrder
<1> QED BY <1>1, InvariantHolds, PTL
================================================================================
