----------------------------- MODULE SecureTransport -----------------------------
(***************************************************************************)
(* The TLS session of tls_provider.cpp over those sockets, from its         *)
(* creation to the first answer of the control session, in the probe        *)
(* (client) and the harness (server).  OpenSSL is what it does to this code:*)
(* flights of a few pieces, an alert when a certificate or the ALPN does    *)
(* not suit, and the request to read more.  A flight fits the send buffer.  *)
(***************************************************************************)
EXTENDS TcpSockets

CONSTANTS
    Chunk,              \* pieces that one receive takes at most (16 KiB)
    MaxReceived,        \* kMaximumPreHandshakeBytes
    MaxIterations,      \* bound of the loops of handshake and receive
    ShortFlight,        \* how many pieces a certificate flight has,
    LongFlight          \* and one that is too long, or the hello

ASSUME TransportAssumption ==
    Chunk \in Nat \ {0} /\ MaxReceived \in Nat /\ MaxIterations \in Nat
        /\ ShortFlight \in Nat \ {0} /\ LongFlight \in Nat \ {0}

VARIABLES
    wire,       \* what is on its way to each program
    tls,        \* where OpenSSL stands: "start", "wait", "done", "failed"
    got,        \* the flights it has received whole
    iteration,  \* of the loop the program is in
    received,   \* encrypted_bytes_received
    secured,    \* the programs whose handshake returned GM_OK
    pinned,     \* those whose pin and profile the other's certificate meets
    speaks,     \* the ALPN of each: another program may be at the other end
    flights     \* how many pieces its certificate flight has

tlsVars == <<wire, tls, got, iteration, received, secured, pinned, speaks, flights>>
vars == <<socketVars, tlsVars>>

Ours == "ghostmedia/1"

Pieces(of, n) == [i \in 1..n |-> [of |-> of, last |-> i = n]]
Whole(pieces) == {pieces[i].of : i \in {j \in DOMAIN pieces : pieces[j].last}}

-------------------------------------------------------------------------------
(* OpenSSL with the callbacks and options of make_context *)

\* fault: any certificate will do
AnyCertificate(s) == TRUE
\* verify_peer_certificate
VerifyPeerCertificate(s) == s \in pinned

\* select_alpn, which is not asked when the client offers nothing.
SelectAlpn == speaks["server"] # Ours \/ speaks["client"] \in {Ours, "none"}
\* negotiated_required_alpn
NegotiatedRequiredAlpn == \A s \in Sides : speaks[s] = Ours

Outcome(state, out, result) == [state |-> state, out |-> out, result |-> result]
WantRead(s) == Outcome(tls[s], <<>>, "want read")
Refuse == Outcome("failed", Pieces("alert", 1), "error")

\* SSL_do_handshake
DoHandshake(s) ==
    IF "alert" \in got[s] THEN Outcome("failed", <<>>, "error") ELSE
    CASE s = "client" /\ tls[s] = "start" ->
            Outcome("wait", Pieces("client hello", 1), "want read")
      [] s = "client" /\ tls[s] = "wait" /\ "server flight" \in got[s] ->
            IF VerifyPeerCertificate(s)
            THEN Outcome("done", Pieces("client flight", flights[s]), "done") ELSE Refuse
      [] s = "server" /\ tls[s] = "start" /\ "client hello" \in got[s] ->
            IF SelectAlpn
            THEN Outcome("wait", Pieces("server flight", flights[s]), "want read") ELSE Refuse
      [] s = "server" /\ tls[s] = "wait" /\ "client flight" \in got[s] ->
            IF VerifyPeerCertificate(s) THEN Outcome("done", <<>>, "done") ELSE Refuse
      [] OTHER -> WantRead(s)

-------------------------------------------------------------------------------
(* TlsSession *)

\* create
Create(s) ==
    /\ at[s] = "create"
    /\ \/ Throw(s) /\ UNCHANGED <<tls, iteration, received>>
       \/ /\ tls' = [tls EXCEPT ![s] = "start"]
          /\ iteration' = [iteration EXCEPT ![s] = 0] /\ received' = [received EXCEPT ![s] = 0]
          /\ Goto(s, "handshake") /\ UNCHANGED <<open, handles>>
    /\ UNCHANGED <<budget, ioTimeout, next, addresses, link, broken>>
    /\ UNCHANGED <<wire, got, secured, pinned, speaks, flights>>

Send(s, pieces) == wire' = [wire EXCEPT ![Peer(s)] = @ \o pieces]

\* fault: the loop has no bound of its own
NoBound(n) == FALSE
TooMany(n) == n >= MaxIterations

\* One round of handshake: the deadline, OpenSSL, what it wants sent, and the result; after an
\* error of OpenSSL, or if send or setsockopt fails, the program throws.
Handshake(s) ==
    LET ssl == DoHandshake(s) IN
    /\ at[s] = "handshake"
    /\ \/ (TooMany(iteration[s]) \/ budget[s] = 0) /\ Throw(s)
          /\ UNCHANGED <<ioTimeout, wire, tls, secured>>
       \/ /\ ~TooMany(iteration[s]) /\ budget[s] > 0
          /\ tls' = [tls EXCEPT ![s] = ssl.state]
          /\ \/ ssl.out # <<>> /\ Throw(s) /\ UNCHANGED <<ioTimeout, wire, secured>>
             \/ /\ Send(s, ssl.out)
                /\ \/ Throw(s) /\ UNCHANGED <<ioTimeout, secured>>
                   \/ /\ ssl.result = "done" /\ ioTimeout' = [ioTimeout EXCEPT ![s] = Timeout]
                      /\ \/ ~NegotiatedRequiredAlpn /\ Throw(s) /\ UNCHANGED secured
                         \/ /\ NegotiatedRequiredAlpn /\ secured' = secured \cup {s}
                            /\ Goto(s, "udp") /\ UNCHANGED <<open, handles>>
                   \/ /\ ssl.result = "want read" /\ Wait(s, "receiving", budget[s])
                      /\ ioTimeout' = [ioTimeout EXCEPT ![s] = budget[s]]
                      /\ UNCHANGED <<open, handles, secured>>
    /\ UNCHANGED <<budget, next, addresses, link, broken>>
    /\ UNCHANGED <<got, iteration, received, pinned, speaks, flights>>

\* fault: a receive whose time is up is tried again
NoTimeout(s) == Gone(s)
\* recv gives no more
RecvFails(s) == timer[s] = 0 \/ Gone(s)

\* receive_encrypted_input: in the handshake, under its cap.
Receive(s) ==
    /\ at[s] \in {"receiving", "awaiting"}
    /\ \/ \E n \in 1..Chunk :
           /\ n <= Len(wire[s]) /\ wire' = [wire EXCEPT ![s] = SubSeq(@, n + 1, Len(@))]
           /\ received' = [received EXCEPT ![s] = @ + (IF at[s] = "receiving" THEN n ELSE 0)]
           /\ iteration' = [iteration EXCEPT ![s] = @ + 1]
           /\ \/ received'[s] > MaxReceived /\ Throw(s) /\ UNCHANGED got
              \/ /\ received'[s] <= MaxReceived
                 /\ got' = [got EXCEPT ![s] = @ \cup Whole(SubSeq(wire[s], 1, n))]
                 /\ Goto(s, IF at[s] = "receiving" THEN "handshake" ELSE "reading")
                 /\ UNCHANGED <<open, handles>>
       \/ RecvFails(s) /\ Throw(s) /\ UNCHANGED <<wire, received, iteration, got>>
    /\ UNCHANGED <<budget, ioTimeout, next, addresses, link, broken>>
    /\ UNCHANGED <<tls, secured, pinned, speaks, flights>>

-------------------------------------------------------------------------------
(* The first messages of the control session *)

\* The client's session.hello; the server turns to reading it.
Hello(s) ==
    /\ at[s] = "hello"
    /\ \/ s = "client" /\ Gone(s) /\ Throw(s) /\ UNCHANGED <<wire, iteration>>
       \/ /\ IF s = "client" THEN Send(s, Pieces("hello", LongFlight)) ELSE UNCHANGED wire
          /\ iteration' = [iteration EXCEPT ![s] = 0]
          /\ Goto(s, "reading") /\ UNCHANGED <<open, handles>>
    /\ UNCHANGED <<budget, ioTimeout, next, addresses, link, broken>>
    /\ UNCHANGED <<tls, got, received, secured, pinned, speaks, flights>>

Wanted(s) == IF s = "client" THEN "answer" ELSE "hello"

\* One round of TlsSession::receive; the server answers what it read.
Read(s) ==
    /\ at[s] = "reading"
    /\ \/ /\ "alert" \notin got[s] /\ Wanted(s) \in got[s]
          /\ \/ /\ IF s = "server" THEN Send(s, Pieces("answer", 1)) ELSE UNCHANGED wire
                /\ Goto(s, "session") /\ UNCHANGED <<open, handles>>
             \/ s = "server" /\ Gone(s) /\ Throw(s) /\ UNCHANGED wire
       \/ /\ "alert" \in got[s] \/ (Wanted(s) \notin got[s] /\ TooMany(iteration[s]))
          /\ Throw(s) /\ UNCHANGED wire
       \/ /\ got[s] \cap {"alert", Wanted(s)} = {} /\ ~TooMany(iteration[s])
          /\ Wait(s, "awaiting", ioTimeout[s]) /\ UNCHANGED <<open, handles, wire>>
    /\ UNCHANGED <<budget, ioTimeout, next, addresses, link, broken>>
    /\ UNCHANGED <<tls, got, iteration, received, secured, pinned, speaks, flights>>

-------------------------------------------------------------------------------
\* Two programs that suit each other; and what may be wrong, one thing at a time: the pins or the
\* certificates, another program at one end, a long flight.
Pairings ==
    LET usual == [s \in Sides |-> Ours]
        short == [s \in Sides |-> ShortFlight]
    IN  {<<p, usual, short>> : p \in SUBSET Sides}
        \cup {<<Sides, [usual EXCEPT ![s] = a], short>> : s \in Sides, a \in {"none", "other"}}
        \cup {<<Sides, usual, [short EXCEPT ![s] = LongFlight]>> : s \in Sides}

Init ==
    /\ SocketInit
    /\ wire = [s \in Sides |-> <<>>] /\ tls = [s \in Sides |-> "start"]
    /\ got = [s \in Sides |-> {}] /\ iteration = [s \in Sides |-> 0] /\ received = iteration
    /\ secured = {}
    /\ \E p \in Pairings : pinned = p[1] /\ speaks = p[2] /\ flights = p[3]

Step(s) ==
    \/ SocketStep(s) /\ UNCHANGED tlsVars
    \/ Create(s) \/ Handshake(s) \/ Receive(s) \/ Hello(s) \/ Read(s)

Next ==
    \/ \E s \in Sides : Step(s) \/ (Stall(s) /\ UNCHANGED tlsVars)
    \/ (Tick \/ Cut) /\ UNCHANGED tlsVars

\* A program that has not hung goes on, and a wait comes to its end.
Spec ==
    /\ Init /\ [][Next]_vars
    /\ \A s \in Sides : WF_vars(Step(s))
    /\ WF_vars(Tick /\ UNCHANGED tlsVars)

-------------------------------------------------------------------------------
Steps == Waiting \cup {"resolve", "address", "candidate", "connected", "listen", "listening",
    "create", "handshake", "udp", "hello", "reading", "session", "ended", "stalled"}
Names == {"client hello", "server flight", "client flight", "alert", "hello", "answer"}

\* The bounds of tls_provider.cpp:305,32 hold in every round: what has been counted never
\* exceeds them but by the one receive that breaks off.
TypeOK ==
    /\ at \in [Sides -> Steps] /\ link \in {"none", "pending", "accepted"} /\ broken \in BOOLEAN
    /\ timer \in [Sides -> 0..(Timeout + HandshakeTimeout)]
    /\ budget \in [Sides -> 0..(Timeout + HandshakeTimeout)]
    /\ ioTimeout \in [Sides -> 0..(Timeout + HandshakeTimeout)]
    /\ next \in 1..(Len(addresses) + 1)
    /\ \A s \in Sides : \A i \in DOMAIN wire[s] : wire[s][i].of \in Names
    /\ tls \in [Sides -> {"start", "wait", "done", "failed"}] /\ got \in [Sides -> SUBSET Names]
    /\ iteration \in [Sides -> 0..MaxIterations] /\ received \in [Sides -> 0..(MaxReceived + Chunk)]
    /\ secured \subseteq Sides

\* tls_provider.cpp:133-150,321-329: the two programs' waits keep to their deadlines and they own
\* every descriptor that is open; a program past its handshake has its whole timeout back.
CallsEndClean ==
    /\ SocketsAccountedFor
    /\ \A s \in secured : ioTimeout[s] = Timeout
    /\ \A s \in Sides : at[s] = "session" =>
           handles[s] \ {Listener} = {Udp, IF s = "server" THEN Accepted ELSE Candidate(next)}

\* tls_provider.cpp:35-62,303-352, docs/11-phase-checklist.md:127-128: a server that went on
\* pinned its client, was pinned by it, and the client had completed; a client that went on may
\* yet be turned down, and it learns so before it takes the session for established; and neither
\* goes on with a program that does not speak this protocol.
PeersAgree ==
    /\ \A s \in secured : s \in pinned /\ tls[s] = "done" /\ \A p \in Sides : speaks[p] = Ours
    /\ "server" \in secured => "client" \in pinned /\ tls["client"] = "done"
    /\ at["client"] = "session" => secured = Sides

\* socket_provider.cpp:134-183, tls_provider.cpp:303-352: whatever the other program does, or does
\* not do, each program comes to its session or to its end.
EveryCallReturns == \A s \in Sides : <>(at[s] \in {"session", "ended", "stalled"})
================================================================================
