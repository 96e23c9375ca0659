----------------------------- MODULE Phase3Session -----------------------------
(***************************************************************************)
(* The secure two-host test: the Windows probe                             *)
(* (WinDevice/tools/control_probe/main.cpp, run_connect) and the Apple     *)
(* harness (GhostMediaAppleHarness/main.swift, runSecureListener) after    *)
(* their TLS handshake, when both have bound their UDP ports.  The harness *)
(* answers requests through a ControlSession.                              *)
(*                                                                         *)
(* The TLS connection delivers in order until an end closes it.  UDP may   *)
(* lose, duplicate and reorder datagrams.  Every failed call makes its     *)
(* program throw and exit, which closes its end of the connection.         *)
(*                                                                         *)
(* Abstracted: request k stands for its kind and its fixed fields.          *)
(***************************************************************************)
EXTENDS MediaDatagram, Sequences, Functions

CONSTANTS
    Packets,    \* phase3PacketCount and kPhase3PacketCount
    MaxFaults   \* bound on the losses, duplicates, swaps, strays and early failures of a run

ASSUME Phase3Assumption == Packets \in Nat \ {0} /\ MaxFaults \in Nat

VARIABLES
    host,       \* options.host of --connect: the harness's address in digits, or a name for it
    client,     \* where run_connect stands, as <<activity, last request>>
    server,     \* where runSecureListener stands
    toServer,   \* requests on the TLS connection
    toClient,   \* results on the TLS connection
    up,         \* UDP datagrams to the harness
    down,       \* UDP datagrams to the probe
    sent,       \* audio packets the probe has sent
    sealed,     \* history: every datagram the two programs sealed
    played,     \* audio packets the harness has accepted, in order
    faults      \* how much has gone wrong

\* The variables of the harness's ControlSession.
VARIABLES state, lastRequestId, windowsUdpPort, stream, nextStreamId, lastClosedStreamId,
          metrics, action, activated, proven

session == <<state, lastRequestId, windowsUdpPort, stream, nextStreamId, lastClosedStreamId,
             metrics, action, activated, proven>>
wires == <<toServer, toClient, up, down>>
vars == <<host, client, server, wires, sent, sealed, played, faults, session>>

Control == INSTANCE ControlSession WITH
    MaxU32 <- 7, FirstStreamId <- 1, FirstKeyEpoch <- 1, SessionIds <- {"session"},
    SessionId <- "session", Ports <- {"port"}, StreamParams <- {"pcm"},
    Timestamps <- {"first"}, None <- "none", MaxActions <- 99

\* The requests, by their IDs: session.hello, transport.bind, stream.open, stream.start.
Requests == 1..4
ReplyKind == <<"HELLO_RESULT", "BIND_RESULT", "OPEN_RESULT", "START_RESULT">>

\* The forward and reverse keys that both programs derive from their TLS connection.
Keys(connection, direction, sender, receiver) ==
    DirectionalKeys(connection, ExporterContext("session", 1, direction, 1, sender, receiver))
ForwardKeys(connection) == Keys(connection, "WIN_TO_APPLE", "windows spki", "apple spki")
ReverseKeys(connection) == Keys(connection, "APPLE_TO_WIN", "apple spki", "windows spki")

Header(kind, direction, sequence, timestamp, length) ==
    [kind |-> kind, session_id |-> "session", stream_id |-> 1, direction |-> direction,
     key_epoch |-> 1, sequence |-> sequence, media_timestamp |-> timestamp,
     payload_length |-> length]

\* The datagrams of a run of the two programs; the challenge is random.
FirstTimestamp == 48000
Challenge(run) ==
    Seal(Header("PATH_CHALLENGE", "WIN_TO_APPLE", 1, 0, PathPayload),
         <<"random", run>>, ForwardKeys(run).path_key)
Response(run, challenge) ==
    Seal(Header("PATH_RESPONSE", "APPLE_TO_WIN", 1, 0, PathPayload), challenge, ReverseKeys(run).path_key)
Audio(run, n) ==
    Seal(Header("AUDIO", "WIN_TO_APPLE", n + 1, FirstTimestamp + (n - 1) * 240, 960),
         <<"pcm", n>>, ForwardKeys(run).media_key)

\* A datagram travels by its name: <<what, run, number>>.
Names == ({"challenge", "response"} \X {"now", "earlier"} \X {1})
             \union ({"audio"} \X {"now", "earlier"} \X (1..Packets))
Datagram ==
    [d \in Names |->
        CASE d[1] = "challenge" -> Challenge(d[2])
          [] d[1] = "response"  -> Response(d[2], Challenge(d[2]).payload)
          [] d[1] = "audio"     -> Audio(d[2], d[3])]

\* gm_runtime_udp_receive_from tells where a datagram came from: an address in digits and a
\* port.  A name reaches its address, for TCP (gm_runtime_tcp_connect) and for UDP
\* (gm_runtime_udp_send_to).
Source(d) == IF d[1] = "response" THEN <<"apple_address", "apple_port">>
                                  ELSE <<"windows_address", "port">>

Done == <<"done", 4>>
Failed == <<"failed", 0>>
Ended(program) == program \in {Done, Failed}

Init ==
    /\ host \in {"apple_address", "apple_name"}
    /\ client = <<"ask", 1>>
    /\ server = <<"await", 1>>
    /\ toServer = <<>> /\ toClient = <<>> /\ up = <<>> /\ down = <<>>
    /\ sent = 0
    /\ sealed = <<>>
    /\ played = <<>>
    /\ faults = 0
    /\ Control!Init

-------------------------------------------------------------------------------
(* The probe. *)

\* What follows the result of each request.
AfterResult == <<<<"ask", 2>>, <<"ask", 3>>, <<"challenge", 3>>, <<"audio", 4>>>>

AfterProofAudio == <<"audio", 4>>           \* fault: streams without asking to start
AfterProof == <<"ask", 4>>

Sealed(d) == sealed' = Append(sealed, d)

\* A send on a connection whose other end has gone may still succeed.
Ask(k) ==
    /\ client = <<"ask", k>>
    /\ toServer' = Append(toServer, k)
    /\ client' = <<"await", k>>
    /\ UNCHANGED <<server, toClient, up, down, sent, sealed, played, faults, session>>

\* receive_result_for_id
Result(k) ==
    /\ client = <<"await", k>> /\ toClient # <<>>
    /\ client' = IF Head(toClient) = k THEN AfterResult[k] ELSE Failed
    /\ toClient' = Tail(toClient)
    /\ UNCHANGED <<server, toServer, up, down, sent, sealed, played, faults, session>>

SendChallenge ==
    /\ client = <<"challenge", 3>>
    /\ up' = Append(up, <<"challenge", "now", 1>>) /\ Sealed(<<"challenge", "now", 1>>)
    /\ client' = <<"prove", 3>>
    /\ UNCHANGED <<server, toServer, toClient, down, sent, played, faults, session>>

\* The host is compared as it was typed.
Proofs ==
    {d \in Names :
        /\ Source(d) = <<host, "apple_port">>
        /\ Opens(Datagram[d], ReverseKeys("now").path_key)
        /\ LET h == HeaderOf(Datagram[d].header)
           IN  h.kind = "PATH_RESPONSE" /\ h.stream_id = 1 /\ h.key_epoch = 1
        /\ Datagram[d].payload = Challenge("now").payload}

\* The one receive that decides whether the path is good.
ReceiveResponse ==
    /\ client = <<"prove", 3>> /\ down # <<>>
    /\ client' = IF Head(down) \in Proofs THEN AfterProof ELSE Failed
    /\ down' = Tail(down)
    /\ UNCHANGED <<server, toServer, toClient, up, sent, sealed, played, faults, session>>

LastPacketShort == Packets - 1              \* fault: the loop ends one packet early
LastPacket == Packets

SendAudio ==
    /\ client = <<"audio", 4>>
    /\ IF sent < LastPacket
       THEN /\ up' = Append(up, <<"audio", "now", sent + 1>>) /\ Sealed(<<"audio", "now", sent + 1>>)
            /\ sent' = sent + 1
            /\ UNCHANGED client
       ELSE /\ client' = Done
            /\ UNCHANGED <<up, sent, sealed>>
    /\ UNCHANGED <<server, toServer, toClient, down, played, faults, session>>

-------------------------------------------------------------------------------
(* The harness. *)

\* What follows the reply to each request.
AfterReply == <<<<"await", 2>>, <<"await", 3>>, <<"path", 3>>, <<"play", 4>>>>

Handle(k) ==
    \/ k = 1 /\ Control!SessionHello(1, "port")
    \/ k = 2 /\ Control!TransportBind(2, "session", "port")
    \/ k = 3 /\ Control!StreamOpen(3, "pcm")
    \/ k = 4 /\ Control!StreamStart(4, 1, "first")

\* receiveMessage: the session ingests the payload; any status but OK throws.
Serve(k) ==
    /\ server = <<"await", k>> /\ toServer # <<>>
    /\ toServer' = Tail(toServer)
    /\ Handle(Head(toServer))
    /\ server' = IF action'.kind = ReplyKind[k] THEN <<"reply", k>> ELSE Failed
    /\ UNCHANGED <<client, toClient, up, down, sent, sealed, played, faults>>

Reply(k) ==
    /\ server = <<"reply", k>>
    /\ toClient' = Append(toClient, k)
    /\ server' = AfterReply[k]
    /\ UNCHANGED <<client, toServer, up, down, sent, sealed, played, faults, session>>

\* From the host of the TLS connection and the port that its hello names.
Challenges ==
    {d \in Names :
        /\ Source(d) = <<"windows_address", "port">>
        /\ Opens(Datagram[d], ForwardKeys("now").path_key)
        /\ LET h == HeaderOf(Datagram[d].header)
           IN  /\ h.kind = "PATH_CHALLENGE" /\ h.direction = "WIN_TO_APPLE"
               /\ h.session_id = "session" /\ h.stream_id = 1 /\ h.key_epoch = 1
               /\ h.payload_length = PathPayload}

ReceiveChallenge ==
    /\ server = <<"path", 3>> /\ up # <<>>
    /\ server' = IF Head(up) \in Challenges THEN <<"respond", 3>> ELSE Failed
    /\ up' = Tail(up)
    /\ UNCHANGED <<client, toServer, toClient, down, sent, sealed, played, faults, session>>

AfterResponseStart == <<"await", 4>>        \* fault: the session is never told
AfterResponse == <<"mark", 3>>

\* With the payload of the one challenge that opens.
SendResponse ==
    /\ server = <<"respond", 3>>
    /\ down' = Append(down, <<"response", "now", 1>>) /\ Sealed(<<"response", "now", 1>>)
    /\ server' = AfterResponse
    /\ UNCHANGED <<client, toServer, toClient, up, sent, played, faults, session>>

Mark ==
    /\ server = <<"mark", 3>>
    /\ Control!MarkPathValidated(1, 1)
    /\ server' = IF action'.kind = "PATH_VALIDATED" THEN <<"await", 4>> ELSE Failed
    /\ UNCHANGED <<client, wires, sent, sealed, played, faults>>

\* Packet n carries the n-th timestamp from the first on.
TimestampAnyAudio(h, n) == TRUE                    \* fault: no timestamp check
TimestampOf(h, n) == h.media_timestamp = FirstTimestamp + (n - 1) * 240

\* An audio packet that carries the expected timestamp; the replay window sees every
\* packet at most once and in order, so it never refuses one that gets this far.
Expected ==
    {e \in Names \X (1..Packets) :
        LET d == Datagram[e[1]]
            h == HeaderOf(d.header)
        IN  /\ Source(e[1]) = Source(<<"challenge", "now", 1>>)
            /\ Opens(d, ForwardKeys("now").media_key)
            /\ h.kind = "AUDIO" /\ h.direction = "WIN_TO_APPLE" /\ h.session_id = "session"
            /\ h.stream_id = 1 /\ h.key_epoch = 1 /\ h.payload_length = 960
            /\ TimestampOf(h, e[2])}

Play ==
    /\ server = <<"play", 4>> /\ Len(played) < Packets /\ up # <<>>
    /\ up' = Tail(up)
    /\ IF <<Head(up), Len(played) + 1>> \in Expected
       THEN played' = Append(played, Head(up)[3]) /\ UNCHANGED server
       ELSE server' = Failed /\ UNCHANGED played
    /\ UNCHANGED <<client, toServer, toClient, down, sent, sealed, faults, session>>

\* The closing check of the session's metrics.
Finish ==
    /\ server = <<"play", 4>> /\ Len(played) = Packets
    /\ server' = IF metrics["valid_requests"] = 4 /\ metrics["streams_started"] = 1
                 THEN Done ELSE Failed
    /\ UNCHANGED <<client, wires, sent, sealed, played, faults, session>>

-------------------------------------------------------------------------------
(* Blocking calls end: with an error when the other end has closed the TLS     *)
(* connection, with a timeout when nothing comes any more.                      *)

ClientWaits ==
    \/ client[1] = "await" /\ toClient = <<>>
    \/ client[1] = "prove" /\ down = <<>>
ServerWaits ==
    \/ server[1] = "await" /\ toServer = <<>>
    \/ server[1] = "path" /\ up = <<>>
    \/ server[1] = "play" /\ up = <<>> /\ Len(played) < Packets

TimesOutNever(waits, peer, peerWaits) == FALSE     \* fault: the receive has no timeout

\* A receive with nothing to take gives up: the peer has ended, or waits itself.
TimesOut(waits, peer, peerWaits) == waits /\ (Ended(peer) \/ peerWaits)

ClientTimeout ==
    /\ TimesOut(ClientWaits, server, ServerWaits)
    /\ client' = Failed
    /\ UNCHANGED <<server, wires, sent, sealed, played, faults, session>>

ServerTimeout ==
    /\ TimesOut(ServerWaits, client, ClientWaits)
    /\ server' = Failed
    /\ UNCHANGED <<client, wires, sent, sealed, played, faults, session>>

-------------------------------------------------------------------------------
(* What may go wrong, at most MaxFaults times. *)

Without(queue, i) == SubSeq(queue, 1, i - 1) \o SubSeq(queue, i + 1, Len(queue))

Disturbed(queue) ==
    {Without(queue, i) : i \in 1..Len(queue)}                       \* lost
    \union {Append(queue, queue[i]) : i \in 1..Len(queue)}          \* duplicated
    \union {Append(Without(queue, i), queue[i]) : i \in 1..Len(queue)}  \* overtaken

\* Datagrams of an earlier run between the same ports, with the same headers.
StraysUp == {<<"challenge", "earlier", 1>>, <<"audio", "earlier", 1>>}
StraysDown == {<<"response", "earlier", 1>>}

\* A datagram is lost, delivered twice, or overtaken by all that follow it, or a late one comes.
Network ==
    /\ faults < MaxFaults
    /\ faults' = faults + 1
    /\ \/ up' \in Disturbed(up) \union {Append(up, d) : d \in StraysUp} /\ UNCHANGED down
       \/ down' \in Disturbed(down) \union {Append(down, d) : d \in StraysDown} /\ UNCHANGED up
    /\ UNCHANGED <<client, server, toServer, toClient, sent, sealed, played, session, host>>

\* Any call of a running program fails: a timeout before a slow answer, a broken
\* connection, no memory.
Breaks ==
    /\ faults < MaxFaults
    /\ faults' = faults + 1
    /\ \/ ~Ended(client) /\ client' = Failed /\ UNCHANGED server
       \/ ~Ended(server) /\ server' = Failed /\ UNCHANGED client
    /\ UNCHANGED <<wires, sent, sealed, played, session, host>>

-------------------------------------------------------------------------------
Client ==
    /\ \/ \E k \in Requests : Ask(k) \/ Result(k)
       \/ SendChallenge \/ ReceiveResponse \/ SendAudio \/ ClientTimeout
    /\ UNCHANGED host

Server ==
    /\ \/ \E k \in Requests : Serve(k) \/ Reply(k)
       \/ ReceiveChallenge \/ SendResponse \/ Mark \/ Play \/ Finish \/ ServerTimeout
    /\ UNCHANGED host

BothEnded == Ended(client) /\ Ended(server) /\ UNCHANGED vars

Next == Client \/ Server \/ Network \/ Breaks \/ BothEnded

\* Each program runs on, and its blocking calls carry a timeout; nothing has to go wrong.
Fairness == WF_vars(Client) /\ WF_vars(Server)

Spec == Init /\ [][Next]_vars /\ Fairness

-------------------------------------------------------------------------------
\* The keys and nonces of some datagrams.
NoncesOf(names) == {<<Datagram[d].key, Datagram[d].nonce>> : d \in names}
EarlierNonces == NoncesOf({d \in Names : d[2] = "earlier"})

\* main.cpp:796,824-828, main.swift:497-505, gm_media.cpp:190-207, gm_crypto.cpp:275-324: the two
\* programs never seal two datagrams with the same key and nonce: path and audio, the two
\* directions and the packets of a stream keep apart, in this run and in an earlier one.
NonceUsedOnce ==
    LET nonces == NoncesOf(Range(sealed))
    IN  Cardinality(nonces) = Len(sealed) /\ nonces \intersect EarlierNonces = {}

\* main.swift:502-512: the harness answers the challenge before it tells its session, so the
\* probe may ask to start at once; in no order of the steps of both does the session
\* refuse a request or a path proof.
SessionNeverRefuses == metrics["rejected_requests"] = 0

\* main.cpp:818-837, main.swift:506-521: when the probe sends audio, the harness's
\* session is streaming on the very path that was proven.
AudioOnProvenPath ==
    (sent > 0 \/ client \in {<<"audio", 4>>, Done}) =>
        state = "STREAMING" /\ stream.validated /\ <<1, 1>> \in proven

\* main.swift:523-547: whatever UDP did, the harness plays a prefix of the packets in their
\* order, and reports success only for all of them, from a probe that sent them all.
PlaysInOrder ==
    /\ \A i \in 1..Len(played) : played[i] = i
    /\ Len(played) <= sent
    /\ server = Done => (Len(played) = Packets /\ sent = Packets)

\* main.cpp:22,497-513,801-806, main.swift:13: no loss leaves a program waiting for ever.
BothEnd == <>(Ended(client) /\ Ended(server))

\* main.cpp:703-849, main.swift:417-550: the scripts of the two programs fit: given the harness's
\* address in digits, as PHASE3_TEST.md:29 has it, and when nothing goes wrong, both report success.
\* Given a name, which the usage text (main.cpp:149) allows, the probe always refuses the response.
CleanRunSucceeds ==
    (host = "apple_address" /\ [](faults = 0)) => <>(client = Done /\ server = Done)
================================================================================
