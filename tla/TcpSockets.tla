------------------------------- MODULE TcpSockets -------------------------------
(***************************************************************************)
(* The TCP and UDP sockets of socket_provider.cpp as the two programs use   *)
(* them: the probe connects, trying one address after another under one     *)
(* deadline, the harness listens and accepts once.  Every call of the       *)
(* operating system may fail.  Times are what is left of them: a deadline   *)
(* minus the clock, a timeout minus the time waited.                        *)
(***************************************************************************)
EXTENDS Integers, Sequences, FiniteSets

CONSTANTS
    Timeout,            \* the timeout_ms of every call
    HandshakeTimeout    \* kHandshakeTimeout

ASSUME TimeAssumption == Timeout \in Nat \ {0} /\ HandshakeTimeout \in Nat \ {0}

VARIABLES
    at,         \* the step each program takes next, "session", "ended" or "stalled"
    open,       \* its open descriptors
    handles,    \* those that a handle of the program owns
    timer,      \* while it waits: what is left of the wait
    budget,     \* what is left until the deadline: of connect, then of the handshake
    ioTimeout,  \* SO_RCVTIMEO and SO_SNDTIMEO of its connection
    next,       \* connect: the address it is at
    addresses,  \* what getaddrinfo answers the client
    link,       \* the TCP connection: "none", "pending" in the backlog, "accepted"
    broken      \* the network cut it

socketVars == <<at, open, handles, timer, budget, ioTimeout, next, addresses, link, broken>>

Sides == {"client", "server"}
Peer(s) == IF s = "client" THEN "server" ELSE "client"

Candidate(i) == <<"candidate", i>>
Listener == <<"listener", 0>>
Accepted == <<"accepted", 0>>
Udp == <<"udp", 0>>

Waiting == {"connecting", "accept", "receiving", "awaiting"}

\* fault: a descriptor is forgotten, not closed
Forgotten(descriptors, d) == descriptors
\* close_socket
Without(descriptors, d) == descriptors \ {d}

Goto(s, step) == at' = [at EXCEPT ![s] = step] /\ UNCHANGED timer
Wait(s, step, time) == at' = [at EXCEPT ![s] = step] /\ timer' = [timer EXCEPT ![s] = time]

\* The program throws, and its handles close what they own.
Unwind(s, descriptors) ==
    /\ open' = [open EXCEPT ![s] = descriptors \ handles[s]]
    /\ handles' = [handles EXCEPT ![s] = {}]
    /\ Goto(s, "ended")
Throw(s) == Unwind(s, open[s])

\* A new handle on d, or none for want of memory.
MakeHandle(s, d, step) ==
    \/ /\ handles' = [handles EXCEPT ![s] = @ \cup {d}] /\ open' = [open EXCEPT ![s] = @ \cup {d}]
       /\ Goto(s, step)
    \/ Unwind(s, Without(open[s] \cup {d}, d))

\* make_handle of a connection: its five seconds begin.
MakeConnection(s, d, step) ==
    /\ MakeHandle(s, d, step)
    /\ budget' = [budget EXCEPT ![s] = HandshakeTimeout]
    /\ ioTimeout' = [ioTimeout EXCEPT ![s] = Timeout]

\* The other program gave its end up, or the network did.
Gone(s) ==
    \/ broken
    \/ s = "server" /\ \A i \in DOMAIN addresses :
                          addresses[i] = "server" => Candidate(i) \notin open["client"]
    \/ s = "client" /\ link = "accepted" /\ Accepted \notin open["server"]
    \/ s = "client" /\ link = "pending" /\ Listener \notin open["server"]

-------------------------------------------------------------------------------
(* gm_runtime_tcp_connect *)

Resolve ==
    /\ at["client"] = "resolve"
    /\ \/ Throw("client") /\ UNCHANGED budget
       \/ /\ budget' = [budget EXCEPT !["client"] = Timeout] /\ Goto("client", "address")
          /\ UNCHANGED <<open, handles>>
    /\ UNCHANGED <<ioTimeout, next, addresses, link, broken>>

\* The head of the loop: the deadline, then a socket for the next address.
OpenCandidate ==
    /\ at["client"] = "address"
    /\ \/ (next > Len(addresses) \/ budget["client"] = 0) /\ Throw("client") /\ UNCHANGED next
       \/ /\ next <= Len(addresses) /\ budget["client"] > 0
          /\ \/ Goto("client", "address") /\ next' = next + 1 /\ UNCHANGED open
             \/ /\ open' = [open EXCEPT !["client"] = @ \cup {Candidate(next)}]
                /\ Goto("client", "candidate") /\ UNCHANGED next
          /\ UNCHANGED handles
    /\ UNCHANGED <<budget, ioTimeout, addresses, link, broken>>

GiveUpCandidate ==
    /\ open' = [open EXCEPT !["client"] = Without(@, Candidate(next))]
    /\ next' = next + 1 /\ Goto("client", "address") /\ UNCHANGED <<handles, link>>

\* The handshake of TCP ends with a connection in the listener's backlog.
Reach ==
    /\ addresses[next] = "server" /\ Listener \in open["server"] /\ link = "none"
    /\ link' = "pending" /\ Goto("client", "connected") /\ UNCHANGED <<open, handles, next>>

\* fault: every address has the whole timeout to itself
WholeTimeout == Timeout
\* what wait_for_socket is given
ConnectTime == budget["client"]

\* set_nonblocking and connect
StartConnect ==
    /\ at["client"] = "candidate"
    /\ \/ GiveUpCandidate
       \/ Reach
       \/ Wait("client", "connecting", ConnectTime) /\ UNCHANGED <<open, handles, next, link>>
    /\ UNCHANGED <<budget, ioTimeout, addresses, broken>>

\* wait_for_socket and SO_ERROR
FinishConnect ==
    /\ at["client"] = "connecting"
    /\ \/ Reach
       \/ GiveUpCandidate
       \/ /\ timer["client"] = 0 /\ Unwind("client", Without(open["client"], Candidate(next)))
          /\ UNCHANGED <<next, link>>
    /\ UNCHANGED <<budget, ioTimeout, addresses, broken>>

KeepCandidate ==
    /\ at["client"] = "connected"
    /\ \/ GiveUpCandidate /\ UNCHANGED <<budget, ioTimeout>>
       \/ MakeConnection("client", Candidate(next), "create") /\ UNCHANGED <<next, link>>
    /\ UNCHANGED <<addresses, broken>>

-------------------------------------------------------------------------------
(* gm_runtime_tcp_listen_ipv4, gm_runtime_tcp_accept, gm_runtime_udp_bind_ipv4 *)

Listen ==
    /\ at["server"] = "listen"
    /\ \/ MakeHandle("server", Listener, "listening")
       \/ Unwind("server", Without(open["server"] \cup {Listener}, Listener))
    /\ UNCHANGED <<budget, ioTimeout, next, addresses, link, broken>>

StartAccept ==
    /\ at["server"] = "listening"
    /\ \/ Throw("server")
       \/ Wait("server", "accept", Timeout) /\ UNCHANGED <<open, handles>>
    /\ UNCHANGED <<budget, ioTimeout, next, addresses, link, broken>>

FinishAccept ==
    /\ at["server"] = "accept"
    /\ \/ /\ link = "pending" /\ link' = "accepted"
          /\ \/ MakeConnection("server", Accepted, "create")
             \/ /\ Unwind("server", Without(open["server"] \cup {Accepted}, Accepted))
                /\ UNCHANGED <<budget, ioTimeout>>
       \/ timer["server"] = 0 /\ Throw("server") /\ UNCHANGED <<budget, ioTimeout, link>>
    /\ UNCHANGED <<next, addresses, broken>>

BindUdp(s) ==
    /\ at[s] = "udp"
    /\ \/ MakeHandle(s, Udp, "hello") \/ Unwind(s, Without(open[s] \cup {Udp}, Udp))
    /\ UNCHANGED <<budget, ioTimeout, next, addresses, link, broken>>

-------------------------------------------------------------------------------
\* Time passes, but not past the end of a wait.
Passed(time) == IF time = 0 THEN 0 ELSE time - 1
Tick ==
    /\ \A s \in Sides : at[s] \in Waiting => timer[s] > 0
    /\ timer' = [s \in Sides |-> IF at[s] \in Waiting THEN Passed(timer[s]) ELSE 0]
    /\ budget' = [s \in Sides |-> Passed(budget[s])]
    /\ UNCHANGED <<at, open, handles, ioTimeout, next, addresses, link, broken>>

Under == {s \in Sides : at[s] \notin {"session", "ended", "stalled"}}

\* A program that answers no more and keeps its sockets: one, and then the network holds.
Stall(s) ==
    /\ Under = Sides /\ ~broken
    /\ Goto(s, "stalled")
    /\ UNCHANGED <<open, handles, budget, ioTimeout, next, addresses, link, broken>>

Cut ==
    /\ link # "none" /\ Under = Sides /\ broken' = TRUE
    /\ UNCHANGED <<at, open, handles, timer, budget, ioTimeout, next, addresses, link>>

SocketInit ==
    /\ at = [s \in Sides |-> IF s = "client" THEN "resolve" ELSE "listen"]
    /\ open = [s \in Sides |-> {}] /\ handles = open
    /\ timer = [s \in Sides |-> 0] /\ budget = timer /\ ioTimeout = timer
    /\ next = 1 /\ link = "none" /\ broken = FALSE
    /\ addresses \in {<<"other", "server">>, <<"server", "other">>}

SocketStep(s) ==
    \/ /\ s = "client"
       /\ Resolve \/ OpenCandidate \/ StartConnect \/ FinishConnect \/ KeepCandidate
    \/ s = "server" /\ (Listen \/ StartAccept \/ FinishAccept)
    \/ BindUdp(s)

-------------------------------------------------------------------------------
\* socket_provider.cpp:332-441: whatever fails, at whichever address, a call leaves no descriptor
\* open that nobody owns: besides the handles there is at most the candidate being tried; and no
\* wait outlasts the deadline of its call, however many waits came before it.
SocketsAccountedFor ==
    \A s \in Sides :
        /\ handles[s] \subseteq open[s]
        /\ at[s] # "stalled" =>
               open[s] \ handles[s] = IF at[s] \in {"candidate", "connecting", "connected"}
                                      THEN {Candidate(next)} ELSE {}
        /\ at[s] \in {"connecting", "receiving"} => timer[s] <= budget[s]
================================================================================
