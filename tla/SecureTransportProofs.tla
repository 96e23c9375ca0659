------------------------- MODULE SecureTransportProofs -------------------------
(***************************************************************************)
(* What holds of the two programs' sockets and TLS handshake for every      *)
(* timeout, every bound of the handshake and every length of its flights:   *)
(* no descriptor is forgotten, no wait outlasts its deadline, and a program *)
(* that goes on was accepted by the other.                                  *)
(***************************************************************************)
EXTENDS SecureTransport, SequenceTheorems, TLAPS

Span == 0..(Timeout + HandshakeTimeout)
PieceSet == [of : Names, last : BOOLEAN]

Trying == {"candidate", "connecting", "connected"}
InTls == {"create", "handshake", "receiving"}
AfterTls == {"udp", "hello", "reading", "awaiting", "session"}
Over == {"ended", "stalled"}

Typed ==
    /\ at \in [Sides -> Steps] /\ link \in {"none", "pending", "accepted"} /\ broken \in BOOLEAN
    /\ timer \in [Sides -> Span] /\ budget \in [Sides -> Span] /\ ioTimeout \in [Sides -> Span]
    /\ DOMAIN open = Sides /\ DOMAIN handles = Sides
    /\ next \in 1..(Len(addresses) + 1) /\ addresses \in Seq({"other", "server"})
    /\ wire \in [Sides -> Seq(PieceSet)] /\ got \in [Sides -> SUBSET Names]
    /\ tls \in [Sides -> {"start", "wait", "done", "failed"}]
    /\ iteration \in [Sides -> 0..MaxIterations] /\ received \in [Sides -> 0..(MaxReceived + Chunk)]
    /\ secured \subseteq Sides /\ flights \in [Sides -> Nat]

-------------------------------------------------------------------------------
(* Sockets *)

\* What the handles of a program own at a step, and what it tries besides.
Owned(s, step) ==
    (IF s = "server" /\ step # "listen" THEN {Listener} ELSE {})
    \cup (IF step \in InTls \cup AfterTls
          THEN {IF s = "server" THEN Accepted ELSE Candidate(next)} ELSE {})
    \cup (IF step \in AfterTls \ {"udp"} THEN {Udp} ELSE {})
Tried(step) == IF step \in Trying THEN {Candidate(next)} ELSE {}

Owns(s) ==
    /\ handles[s] \subseteq open[s]
    /\ at[s] = "ended" => open[s] = {}
    /\ at[s] \notin Over => handles[s] = Owned(s, at[s]) /\ open[s] = handles[s] \cup Tried(at[s])
    /\ s = "server" => at[s] \notin Trying \cup {"resolve", "address"}
    /\ s = "client" => at[s] \notin {"listen", "listening", "accept"}

InTime(s) ==
    /\ at[s] \in {"connecting", "receiving"} => timer[s] <= budget[s]
    /\ at[s] \in Trying => next <= Len(addresses)

-------------------------------------------------------------------------------
(* TLS *)

\* The flights on their way to a program or there.
On(pieces) == {pieces[i].of : i \in DOMAIN pieces}
Carried(s) == got[s] \cup On(wire[s])

\* A receive does not begin when a bound of its loop is reached.
Bounded(s) ==
    /\ at[s] \in {"handshake", "receiving", "awaiting"} \cup AfterTls =>
           received[s] <= MaxReceived
    /\ at[s] \in {"receiving", "awaiting"} => iteration[s] < MaxIterations

Secure(s) ==
    /\ at[s] \in AfterTls => s \in secured
    /\ s \in secured \/ tls[s] = "done" => at[s] \in AfterTls \cup Over
    /\ s \in secured => /\ ioTimeout[s] = Timeout /\ s \in pinned /\ tls[s] = "done"
                        /\ \A p \in Sides : speaks[p] = Ours

\* What a program has received, the other one sent when it could.
Chain ==
    /\ "client flight" \in Carried("server") => "client" \in pinned /\ tls["client"] = "done"
    /\ "server" \in secured => "client flight" \in got["server"]
    /\ "answer" \in Carried("client") => "server" \in secured
    /\ at["client"] = "session" => "answer" \in got["client"]

Inv ==
    /\ Typed /\ \A s \in Sides : Owns(s) /\ InTime(s) /\ Bounded(s) /\ Secure(s)
    /\ Chain

-------------------------------------------------------------------------------
(* Steps of the sockets *)

\* Every time the programs set or count down is one of Span.
LEMMA TimesInSpan ==
    /\ 0 \in Span /\ Timeout \in Span /\ HandshakeTimeout \in Span
    /\ \A time \in Span : time \in Int /\ time >= 0 /\ Passed(time) \in Span
BY TimeAssumption DEF Span, Passed

\* A step of program s changes nothing of the other.
Alone(s) ==
    \A p \in Sides : p # s =>
        /\ at'[p] = at[p] /\ open'[p] = open[p] /\ handles'[p] = handles[p]
        /\ timer'[p] = timer[p] /\ budget'[p] = budget[p] /\ ioTimeout'[p] = ioTimeout[p]

\* Where a step outside the TLS session may lead, as the session sees it.
Leads(from, to) ==
    \/ to \in Over
    \/ to \notin AfterTls \cup Over \cup {"handshake", "receiving", "awaiting"}
           /\ from \notin AfterTls \cup Over
    \/ from = "udp" /\ to = "hello"

\* The other program's sockets stay its own.
LEMMA OtherOwns ==
    ASSUME Inv, NEW s \in Sides, Alone(s), UNCHANGED addresses,
           next' = next \/ s = "client", NEW p \in Sides, p # s
    PROVE  Owns(p)' /\ InTime(p)'
<1>1. p = "server" \/ next' = next
  BY DEF Sides
<1>2. Owns(p) /\ InTime(p) /\ p = "server" => at[p] \notin Trying
  BY DEF Inv, Owns
<1> QED BY <1>1, <1>2 DEF Inv, Owns, InTime, Owned, Tried, Alone

\* A step of the sockets keeps the invariant if its own program's sockets stay in order.
LEMMA SocketSafe ==
    ASSUME Inv, NEW s \in Sides, UNCHANGED <<tlsVars, addresses>>, Typed', Alone(s),
           Owns(s)', InTime(s)', next' = next \/ s = "client", Leads(at[s], at'[s]),
           ioTimeout'[s] = ioTimeout[s] \/ s \notin secured
    PROVE  Inv'
<1>1. UNCHANGED <<wire, tls, got, iteration, received, secured, pinned, speaks, flights>>
  BY DEF tlsVars
<1>2. ASSUME NEW p \in Sides
      PROVE  (Owns(p) /\ InTime(p))'
  BY OtherOwns
<1>3. ASSUME NEW p \in Sides
      PROVE  (Bounded(p) /\ Secure(p))'
  <2>1. CASE p = s
    BY <1>1, <2>1 DEF Inv, Bounded, Secure, Leads, AfterTls, Over
  <2>2. CASE p # s
    BY <1>1, <2>2 DEF Inv, Bounded, Secure, Alone
  <2> QED BY <2>1, <2>2
<1>4. Chain'
  <2>1. at'["client"] = "session" => at["client"] = "session"
    BY DEF Leads, Alone, Sides, AfterTls, Over
  <2> QED BY <1>1, <2>1 DEF Inv, Chain, Carried, On
<1> QED BY <1>2, <1>3, <1>4 DEF Inv

\* A program that throws closes what it owns and, if that is all that is open, leaves nothing.
LEMMA UnwindIs ==
    ASSUME Typed, NEW s \in Sides, NEW descriptors, Unwind(s, descriptors)
    PROVE  /\ at' = [at EXCEPT ![s] = "ended"] /\ at'[s] = "ended" /\ timer' = timer
           /\ open'[s] = descriptors \ handles[s] /\ handles'[s] = {}
           /\ DOMAIN open' = Sides /\ DOMAIN handles' = Sides /\ at' \in [Sides -> Steps]
           /\ \A p \in Sides : p # s =>
                  at'[p] = at[p] /\ open'[p] = open[p] /\ handles'[p] = handles[p]
BY DEF Typed, Unwind, Goto, Steps

\* A step that waits for nothing.
LEMMA GotoIs ==
    ASSUME Typed, NEW s \in Sides, NEW step \in Steps, Goto(s, step)
    PROVE  /\ at'[s] = step /\ timer' = timer /\ at' \in [Sides -> Steps]
           /\ \A p \in Sides : p # s => at'[p] = at[p]
BY DEF Typed, Goto

\* A step that waits.
LEMMA WaitIs ==
    ASSUME Typed, NEW s \in Sides, NEW step \in Steps, NEW time \in Span, Wait(s, step, time)
    PROVE  /\ at'[s] = step /\ timer'[s] = time /\ at' \in [Sides -> Steps]
           /\ timer' \in [Sides -> Span]
           /\ \A p \in Sides : p # s => at'[p] = at[p] /\ timer'[p] = timer[p]
BY DEF Typed, Wait

\* A program that ends in a socket call, with nothing open that it does not own.
LEMMA SocketEnds ==
    ASSUME Inv, NEW s \in Sides, NEW descriptors, Unwind(s, descriptors),
           descriptors \subseteq handles[s], link' \in {"none", "pending", "accepted"},
           UNCHANGED <<tlsVars, addresses, broken, budget, ioTimeout, next>>
    PROVE  Inv'
<1>1. Typed
  BY DEF Inv
<1>2. /\ at'[s] = "ended" /\ timer' = timer /\ open'[s] = {} /\ handles'[s] = {}
      /\ DOMAIN open' = Sides /\ DOMAIN handles' = Sides /\ at' \in [Sides -> Steps]
      /\ \A p \in Sides : p # s =>
             at'[p] = at[p] /\ open'[p] = open[p] /\ handles'[p] = handles[p]
  BY <1>1, UnwindIs
<1>3. Typed'
  BY <1>1, <1>2 DEF Typed, tlsVars
<1>4. Owns(s)' /\ InTime(s)'
  <2>1. (s = "server" => at'[s] \notin Trying) /\ at'[s] \in Over
    BY <1>2 DEF Trying, Over
  <2> QED BY <1>2, <2>1 DEF Owns, InTime, Trying
<1>5. Alone(s) /\ Leads(at[s], at'[s])
  BY <1>2 DEF Alone, Leads, Over
<1> QED BY <1>3, <1>4, <1>5, SocketSafe

\* A program that gets a new handle, or ends without.
LEMMA SocketHandle ==
    ASSUME Inv, NEW s \in Sides, NEW d, NEW step \in Steps, MakeHandle(s, d, step),
           at[s] \notin Over, Tried(at[s]) \subseteq {d},
           UNCHANGED <<tlsVars, addresses, broken, next>>,
           link' \in {"none", "pending", "accepted"},
           \/ UNCHANGED <<budget, ioTimeout>>
           \/ /\ budget' = [budget EXCEPT ![s] = HandshakeTimeout]
              /\ ioTimeout' = [ioTimeout EXCEPT ![s] = Timeout],
           Owned(s, step)' = Owned(s, at[s]) \cup {d}, Tried(step) = {},
           step \notin Waiting \cup Trying \cup Over \cup {"resolve", "address"},
           step = "listening" => s = "server", step # "listen",
           Leads(at[s], step)
    PROVE  Inv'
<1>1. Typed /\ handles[s] = Owned(s, at[s]) /\ open[s] = handles[s] \cup Tried(at[s])
  BY DEF Inv, Owns
<1>2. /\ budget' \in [Sides -> Span] /\ ioTimeout' \in [Sides -> Span]
      /\ \A p \in Sides : p # s => budget'[p] = budget[p] /\ ioTimeout'[p] = ioTimeout[p]
  <2>1. CASE UNCHANGED <<budget, ioTimeout>>
    BY <1>1, <2>1 DEF Typed
  <2>2. CASE /\ budget' = [budget EXCEPT ![s] = HandshakeTimeout]
             /\ ioTimeout' = [ioTimeout EXCEPT ![s] = Timeout]
    BY <1>1, <2>2, TimesInSpan DEF Typed
  <2> QED BY <2>1, <2>2
<1>3. ioTimeout'[s] = ioTimeout[s] \/ s \notin secured
  <2>1. CASE UNCHANGED <<budget, ioTimeout>>
    BY <2>1
  <2>2. CASE ioTimeout' = [ioTimeout EXCEPT ![s] = Timeout]
    BY <1>1, <2>2 DEF Inv, Secure, Typed
  <2> QED BY <2>1, <2>2
<1>4. CASE /\ handles' = [handles EXCEPT ![s] = @ \cup {d}]
           /\ open' = [open EXCEPT ![s] = @ \cup {d}] /\ Goto(s, step)
  <2>1. /\ at'[s] = step /\ timer' = timer /\ at' \in [Sides -> Steps]
        /\ \A p \in Sides : p # s => at'[p] = at[p]
    BY <1>1, <1>4, GotoIs
  <2>2. /\ handles'[s] = handles[s] \cup {d} /\ open'[s] = open[s] \cup {d}
        /\ DOMAIN open' = Sides /\ DOMAIN handles' = Sides
        /\ \A p \in Sides : p # s => open'[p] = open[p] /\ handles'[p] = handles[p]
    BY <1>1, <1>4 DEF Typed
  <2>3. Typed'
    BY <1>1, <1>2, <2>1, <2>2 DEF Typed, tlsVars
  <2>4. Tried(step)' = {}
    BY DEF Tried
  <2>5. Owns(s)' /\ InTime(s)'
    BY <1>1, <2>1, <2>2, <2>4 DEF Owns, InTime, Waiting, Over, Trying
  <2>6. Alone(s)
    BY <1>2, <2>1, <2>2 DEF Alone
  <2> QED BY <1>3, <2>1, <2>3, <2>5, <2>6, SocketSafe
<1>5. CASE Unwind(s, Without(open[s] \cup {d}, d))
  <2>1. /\ at'[s] = "ended" /\ timer' = timer /\ handles'[s] = {}
        /\ open'[s] = ((open[s] \cup {d}) \ {d}) \ handles[s]
        /\ DOMAIN open' = Sides /\ DOMAIN handles' = Sides /\ at' \in [Sides -> Steps]
        /\ \A p \in Sides : p # s =>
               at'[p] = at[p] /\ open'[p] = open[p] /\ handles'[p] = handles[p]
    BY <1>1, <1>5, UnwindIs DEF Without
  <2>2. open'[s] = {}
    BY <1>1, <2>1
  <2>3. Typed'
    BY <1>1, <1>2, <2>1 DEF Typed, tlsVars
  <2>4. Owns(s)' /\ InTime(s)'
    BY <2>1, <2>2 DEF Owns, InTime, Trying, Over
  <2>5. Alone(s) /\ Leads(at[s], at'[s])
    BY <1>2, <2>1 DEF Alone, Leads, Over
  <2> QED BY <1>3, <2>3, <2>4, <2>5, SocketSafe
<1> QED BY <1>4, <1>5 DEF MakeHandle

\* gm_runtime_tcp_connect: its start and the head of its loop.
LEMMA ResolveSafe == Inv /\ Resolve /\ UNCHANGED tlsVars => Inv'
<1> SUFFICES ASSUME Inv, Resolve, UNCHANGED tlsVars
             PROVE  Inv'
  OBVIOUS
<1>1. /\ Typed /\ at["client"] = "resolve" /\ "client" \in Sides
      /\ UNCHANGED <<ioTimeout, next, addresses, link, broken>>
  BY DEF Inv, Resolve, Sides
<1>2. handles["client"] = {} /\ open["client"] = {}
  BY <1>1 DEF Inv, Owns, Owned, Tried, Over, InTls, AfterTls, Trying
<1>3. CASE Throw("client") /\ UNCHANGED budget
  <2>1. open["client"] \subseteq handles["client"] /\ link' \in {"none", "pending", "accepted"}
    BY <1>1, <1>2 DEF Typed
  <2> QED BY <1>1, <1>3, <2>1, SocketEnds DEF Throw
<1>4. CASE /\ budget' = [budget EXCEPT !["client"] = Timeout] /\ Goto("client", "address")
           /\ UNCHANGED <<open, handles>>
  <2>1. "address" \in Steps /\ "address" \notin Trying \cup Over
    BY DEF Steps, Trying, Over
  <2>2. /\ at'["client"] = "address" /\ timer' = timer /\ at' \in [Sides -> Steps]
        /\ \A p \in Sides : p # "client" => at'[p] = at[p]
    BY <1>1, <1>4, <2>1, GotoIs
  <2>3. /\ budget' \in [Sides -> Span]
        /\ \A p \in Sides : p # "client" => budget'[p] = budget[p]
    BY <1>1, <1>4, TimesInSpan DEF Typed
  <2>4. Typed'
    BY <1>1, <1>4, <2>2, <2>3 DEF Typed, tlsVars
  <2>5. Owns("client")' /\ InTime("client")'
    BY <1>2, <1>4, <2>2 DEF Owns, Owned, Tried, InTime, Over, InTls, AfterTls, Trying
  <2>6. Alone("client") /\ Leads(at["client"], at'["client"])
    BY <1>1, <1>4, <2>2, <2>3 DEF Alone, Leads, AfterTls, Over
  <2> QED BY <1>1, <2>4, <2>5, <2>6, SocketSafe
<1> QED BY <1>3, <1>4 DEF Resolve

\* What a client that tries an address has open.
LEMMA ClientTries ==
    ASSUME Inv, at["client"] \in Trying \cup {"address"}
    PROVE  /\ Typed /\ handles["client"] = {} /\ open["client"] = Tried(at["client"])
           /\ at["client"] \in Trying => next <= Len(addresses)
           /\ "client" \in Sides /\ next \in Nat /\ Len(addresses) \in Nat
<1>1. Typed /\ "client" \in Sides /\ Owns("client") /\ InTime("client")
  BY DEF Inv, Sides
<1>2. Owned("client", at["client"]) = {} /\ at["client"] \notin Over
  BY DEF Owned, Over, InTls, AfterTls, Trying
<1>3. handles["client"] = {} /\ open["client"] = Tried(at["client"])
  BY <1>1, <1>2 DEF Owns
<1>4. Len(addresses) \in Nat /\ next \in Nat
  BY <1>1 DEF Typed
<1> QED BY <1>1, <1>3, <1>4 DEF InTime

\* A candidate that is given up is closed, and the next address is due.
LEMMA GiveUpSafe ==
    ASSUME Inv, at["client"] \in Trying, GiveUpCandidate,
           UNCHANGED <<tlsVars, budget, ioTimeout, addresses, broken>>
    PROVE  Inv'
<1>1. /\ Typed /\ handles["client"] = {} /\ open["client"] = {Candidate(next)}
      /\ next <= Len(addresses) /\ "client" \in Sides /\ next \in Nat /\ Len(addresses) \in Nat
  BY ClientTries DEF Tried
<1>2. "address" \in Steps /\ "address" \notin Trying \cup Over
  BY DEF Steps, Trying, Over
<1>3. /\ at'["client"] = "address" /\ timer' = timer /\ at' \in [Sides -> Steps]
      /\ \A p \in Sides : p # "client" => at'[p] = at[p]
  BY <1>1, <1>2, GotoIs DEF GiveUpCandidate
<1>4. /\ open'["client"] = {} /\ DOMAIN open' = Sides
      /\ \A p \in Sides : p # "client" => open'[p] = open[p]
      /\ next' = next + 1 /\ UNCHANGED <<handles, link>>
  BY <1>1 DEF GiveUpCandidate, Without, Typed
<1>5. next' \in 1..(Len(addresses) + 1)
  BY <1>1, <1>4 DEF Typed
<1>6. Typed'
  BY <1>1, <1>3, <1>4, <1>5 DEF Typed, tlsVars
<1>7. Owns("client")' /\ InTime("client")'
  BY <1>1, <1>3, <1>4 DEF Owns, Owned, Tried, InTime, Over, InTls, AfterTls, Trying
<1>8. Alone("client") /\ Leads(at["client"], at'["client"])
  BY <1>3, <1>4 DEF Alone, Leads, AfterTls, Over, Trying
<1> QED BY <1>1, <1>6, <1>7, <1>8, SocketSafe

\* A candidate that is still tried keeps its descriptor; its wait is no longer than its deadline.
LEMMA TryingSafe ==
    ASSUME Inv, at["client"] \in Trying \cup {"address"}, NEW step \in Trying,
           at' = [at EXCEPT !["client"] = step],
           \/ timer' = timer /\ step # "connecting"
           \/ timer' = [timer EXCEPT !["client"] = budget["client"]],
           UNCHANGED <<tlsVars, handles, budget, ioTimeout, next, addresses, broken>>,
           open'["client"] = {Candidate(next)}, DOMAIN open' = Sides,
           \A p \in Sides : p # "client" => open'[p] = open[p],
           next <= Len(addresses), link' \in {"none", "pending", "accepted"}
    PROVE  Inv'
<1>1. Typed /\ handles["client"] = {} /\ "client" \in Sides
  BY ClientTries
<1>2. /\ at'["client"] = step /\ at' \in [Sides -> Steps] /\ timer' \in [Sides -> Span]
      /\ step = "connecting" => timer'["client"] = budget["client"]
      /\ \A p \in Sides : p # "client" => at'[p] = at[p] /\ timer'[p] = timer[p]
  <2>1. /\ at'["client"] = step /\ at' \in [Sides -> Steps]
        /\ \A p \in Sides : p # "client" => at'[p] = at[p]
    BY <1>1 DEF Typed, Steps, Trying, Waiting
  <2>2. timer \in [Sides -> Span] /\ budget["client"] \in Span
    BY <1>1 DEF Typed
  <2>3. CASE timer' = timer /\ step # "connecting"
    BY <2>1, <2>2, <2>3
  <2>4. CASE timer' = [timer EXCEPT !["client"] = budget["client"]]
    BY <1>1, <2>1, <2>2, <2>4
  <2> QED BY <2>3, <2>4
<1>3. Typed'
  BY <1>1, <1>2 DEF Typed, tlsVars
<1>4. Owns("client")'
  BY <1>1, <1>2 DEF Owns, Owned, Tried, Over, InTls, AfterTls, Trying
<1>5. InTime("client")'
  <2>1. budget["client"] \in Int
    BY <1>1, TimesInSpan DEF Typed
  <2> QED BY <1>2, <2>1 DEF InTime, Trying
<1>6. Alone("client") /\ Leads(at["client"], at'["client"])
  BY <1>2 DEF Alone, Leads, AfterTls, Over, Trying
<1> QED BY <1>1, <1>3, <1>4, <1>5, <1>6, SocketSafe

\* The head of the loop gives up, passes an address over, or opens a socket for it.
LEMMA OpenCandidateSafe == Inv /\ OpenCandidate /\ UNCHANGED tlsVars => Inv'
<1> SUFFICES ASSUME Inv, OpenCandidate, UNCHANGED tlsVars
             PROVE  Inv'
  OBVIOUS
<1>1. at["client"] = "address" /\ UNCHANGED <<budget, ioTimeout, addresses, link, broken>>
  BY DEF OpenCandidate
<1>2. /\ Typed /\ handles["client"] = {} /\ open["client"] = {} /\ "client" \in Sides
      /\ next \in Nat /\ Len(addresses) \in Nat /\ link' \in {"none", "pending", "accepted"}
  BY <1>1, ClientTries DEF Tried, Trying, Typed
<1>3. CASE Throw("client") /\ UNCHANGED next
  BY <1>1, <1>2, <1>3, SocketEnds DEF Throw
<1>4. CASE /\ next <= Len(addresses) /\ Goto("client", "address") /\ next' = next + 1
           /\ UNCHANGED <<open, handles>>
  <2>1. "address" \in Steps
    BY DEF Steps
  <2>2. /\ at'["client"] = "address" /\ timer' = timer /\ at' \in [Sides -> Steps]
        /\ \A p \in Sides : p # "client" => at'[p] = at[p]
    BY <1>2, <1>4, <2>1, GotoIs
  <2>3. next' \in 1..(Len(addresses) + 1)
    BY <1>2, <1>4
  <2>4. Typed'
    BY <1>1, <1>2, <1>4, <2>2, <2>3 DEF Typed, tlsVars
  <2>5. Owns("client")' /\ InTime("client")'
    BY <1>2, <1>4, <2>2 DEF Owns, Owned, Tried, InTime, Over, InTls, AfterTls, Trying
  <2>6. Alone("client") /\ Leads(at["client"], at'["client"])
    BY <1>1, <1>4, <2>2 DEF Alone, Leads, AfterTls, Over
  <2> QED BY <1>1, <1>2, <2>4, <2>5, <2>6, SocketSafe
<1>5. CASE /\ next <= Len(addresses) /\ Goto("client", "candidate")
           /\ open' = [open EXCEPT !["client"] = @ \cup {Candidate(next)}]
           /\ UNCHANGED <<next, handles>>
  <2>1. /\ open'["client"] = {Candidate(next)} /\ DOMAIN open' = Sides /\ timer' = timer
        /\ \A p \in Sides : p # "client" => open'[p] = open[p]
        /\ at' = [at EXCEPT !["client"] = "candidate"] /\ "candidate" \in Trying
    BY <1>2, <1>5 DEF Goto, Trying, Typed
  <2> QED BY <1>1, <1>2, <1>5, <2>1, TryingSafe
<1> QED BY <1>3, <1>4, <1>5 DEF OpenCandidate

\* set_nonblocking, connect and the wait: the candidate is kept, or given up, or the time is up.
LEMMA ConnectSafe == Inv /\ (StartConnect \/ FinishConnect) /\ UNCHANGED tlsVars => Inv'
<1> SUFFICES ASSUME Inv, StartConnect \/ FinishConnect, UNCHANGED tlsVars
             PROVE  Inv'
  OBVIOUS
<1>1. at["client"] \in Trying /\ UNCHANGED <<budget, ioTimeout, addresses, broken>>
  BY DEF StartConnect, FinishConnect, Trying
<1>2. /\ Typed /\ handles["client"] = {} /\ open["client"] = {Candidate(next)}
      /\ next <= Len(addresses) /\ "client" \in Sides
  BY <1>1, ClientTries DEF Tried
<1>3. CASE GiveUpCandidate
  BY <1>1, <1>3, GiveUpSafe
<1>4. CASE Reach
  <2>1. /\ UNCHANGED <<open, handles, next, timer>> /\ link' = "pending"
        /\ at' = [at EXCEPT !["client"] = "connected"]
    BY <1>4 DEF Reach, Goto
  <2>2. DOMAIN open' = Sides /\ "connected" \in Trying /\ link' \in {"none", "pending", "accepted"}
    BY <1>2, <2>1 DEF Trying, Typed
  <2> QED BY <1>1, <1>2, <2>1, <2>2, TryingSafe
<1>5. CASE Wait("client", "connecting", ConnectTime) /\ UNCHANGED <<open, handles, next, link>>
  <2>1. /\ at' = [at EXCEPT !["client"] = "connecting"] /\ "connecting" \in Trying
        /\ timer' = [timer EXCEPT !["client"] = budget["client"]]
        /\ link' \in {"none", "pending", "accepted"} /\ DOMAIN open' = Sides
    BY <1>2, <1>5 DEF Wait, ConnectTime, Trying, Typed
  <2> QED BY <1>1, <1>2, <1>5, <2>1, TryingSafe
<1>6. CASE /\ Unwind("client", Without(open["client"], Candidate(next)))
           /\ UNCHANGED <<next, link>>
  <2>1. /\ Without(open["client"], Candidate(next)) \subseteq handles["client"]
        /\ link' \in {"none", "pending", "accepted"}
    BY <1>2, <1>6 DEF Without, Typed
  <2> QED BY <1>1, <1>2, <1>6, <2>1, SocketEnds
<1> QED BY <1>3, <1>4, <1>5, <1>6 DEF StartConnect, FinishConnect

\* The candidate becomes the connection, or is closed.
LEMMA KeepCandidateSafe == Inv /\ KeepCandidate /\ UNCHANGED tlsVars => Inv'
<1> SUFFICES ASSUME Inv, KeepCandidate, UNCHANGED tlsVars
             PROVE  Inv'
  OBVIOUS
<1>1. at["client"] = "connected" /\ at["client"] \in Trying /\ UNCHANGED <<addresses, broken>>
  BY DEF KeepCandidate, Trying
<1>2. CASE GiveUpCandidate /\ UNCHANGED <<budget, ioTimeout>>
  BY <1>1, <1>2, GiveUpSafe
<1>3. CASE MakeConnection("client", Candidate(next), "create") /\ UNCHANGED <<next, link>>
  <2>1. /\ Typed /\ "client" \in Sides /\ Tried(at["client"]) \subseteq {Candidate(next)}
        /\ at["client"] \notin Over /\ link' \in {"none", "pending", "accepted"}
    BY <1>1, <1>3, ClientTries DEF Tried, Over, Typed
  <2>2. /\ "create" \in Steps /\ Tried("create") = {} /\ Leads(at["client"], "create")
        /\ "create" \notin Waiting \cup Trying \cup Over \cup {"resolve", "address"}
    BY <1>1 DEF Steps, Tried, Trying, Over, Waiting, Leads, AfterTls
  <2>3. Owned("client", "create")' = Owned("client", at["client"]) \cup {Candidate(next)}
    BY <1>1, <1>3 DEF Owned, InTls, AfterTls
  <2>4. /\ MakeHandle("client", Candidate(next), "create")
        /\ budget' = [budget EXCEPT !["client"] = HandshakeTimeout]
        /\ ioTimeout' = [ioTimeout EXCEPT !["client"] = Timeout]
    BY <1>3 DEF MakeConnection
  <2> HIDE DEF Candidate
  <2> QED BY <1>1, <1>3, <2>1, <2>2, <2>3, <2>4, SocketHandle
<1> QED BY <1>2, <1>3 DEF KeepCandidate

\* gm_runtime_tcp_listen_ipv4 and gm_runtime_tcp_accept
LEMMA ListenSafe == Inv /\ (Listen \/ StartAccept \/ FinishAccept) /\ UNCHANGED tlsVars => Inv'
<1> SUFFICES ASSUME Inv, Listen \/ StartAccept \/ FinishAccept, UNCHANGED tlsVars
             PROVE  Inv'
  OBVIOUS
<1>1. /\ at["server"] \in {"listen", "listening", "accept"} /\ "server" \in Sides
      /\ UNCHANGED <<next, addresses, broken>> /\ Typed
      /\ link' \in {"none", "pending", "accepted"}
  BY DEF Listen, StartAccept, FinishAccept, Inv, Sides, Typed
<1>2. /\ at["server"] \notin Over /\ Tried(at["server"]) = {}
      /\ handles["server"] = Owned("server", at["server"]) /\ open["server"] = handles["server"]
  BY <1>1 DEF Inv, Owns, Tried, Trying, Over
<1>3. CASE Listen
  <2>1. /\ at["server"] = "listen" /\ UNCHANGED <<budget, ioTimeout>>
        /\ \/ MakeHandle("server", Listener, "listening")
           \/ Unwind("server", Without(open["server"] \cup {Listener}, Listener))
    BY <1>3 DEF Listen
  <2>2. /\ Owned("server", "listening")' = Owned("server", at["server"]) \cup {Listener}
        /\ "listening" \in Steps /\ Tried("listening") = {} /\ Leads(at["server"], "listening")
        /\ "listening" \notin Waiting \cup Trying \cup Over \cup {"resolve", "address"}
    BY <2>1 DEF Owned, InTls, AfterTls, Steps, Tried, Trying, Over, Waiting, Leads
  <2>3. Without(open["server"] \cup {Listener}, Listener) \subseteq handles["server"]
    BY <1>2 DEF Without
  <2> HIDE DEF Listener
  <2> QED BY <1>1, <1>2, <2>1, <2>2, <2>3, SocketHandle, SocketEnds
<1>4. CASE StartAccept /\ Throw("server")
  <2>1. UNCHANGED <<budget, ioTimeout>> /\ open["server"] \subseteq handles["server"]
    BY <1>2, <1>4 DEF StartAccept
  <2> QED BY <1>1, <1>4, <2>1, SocketEnds DEF Throw
<1>5. CASE StartAccept /\ Wait("server", "accept", Timeout) /\ UNCHANGED <<open, handles>>
  <2>1. "accept" \in Steps /\ UNCHANGED <<budget, ioTimeout>> /\ at["server"] = "listening"
    BY <1>5 DEF StartAccept, Steps, Waiting
  <2>2. /\ at'["server"] = "accept" /\ at' \in [Sides -> Steps] /\ timer' \in [Sides -> Span]
        /\ \A p \in Sides : p # "server" => at'[p] = at[p] /\ timer'[p] = timer[p]
    BY <1>1, <1>5, <2>1, TimesInSpan, WaitIs
  <2>3. Typed'
    BY <1>1, <1>5, <2>1, <2>2 DEF Typed, tlsVars
  <2>4. Owns("server")' /\ InTime("server")'
    BY <1>2, <1>5, <2>1, <2>2 DEF Owns, Owned, Tried, InTime, Over, InTls, AfterTls, Trying
  <2>5. Alone("server") /\ Leads(at["server"], at'["server"])
    BY <1>5, <2>1, <2>2 DEF Alone, Leads, AfterTls, Over
  <2> QED BY <1>1, <2>1, <2>3, <2>4, <2>5, SocketSafe
<1>6. CASE FinishAccept /\ MakeConnection("server", Accepted, "create")
  <2>1. /\ MakeHandle("server", Accepted, "create") /\ at["server"] = "accept"
        /\ budget' = [budget EXCEPT !["server"] = HandshakeTimeout]
        /\ ioTimeout' = [ioTimeout EXCEPT !["server"] = Timeout]
    BY <1>6 DEF MakeConnection, FinishAccept
  <2>2. /\ Owned("server", "create")' = Owned("server", at["server"]) \cup {Accepted}
        /\ "create" \in Steps /\ Tried("create") = {} /\ Leads(at["server"], "create")
        /\ "create" \notin Waiting \cup Trying \cup Over \cup {"resolve", "address"}
    BY <2>1 DEF Owned, InTls, AfterTls, Steps, Tried, Trying, Over, Waiting, Leads
  <2> HIDE DEF Accepted
  <2> QED BY <1>1, <1>2, <2>1, <2>2, SocketHandle
<1>7. CASE FinishAccept /\ UNCHANGED <<budget, ioTimeout>>
           /\ Unwind("server", Without(open["server"] \cup {Accepted}, Accepted))
  <2>1. Without(open["server"] \cup {Accepted}, Accepted) \subseteq handles["server"]
    BY <1>2 DEF Without
  <2> QED BY <1>1, <1>7, <2>1, SocketEnds
<1>8. CASE FinishAccept /\ UNCHANGED <<budget, ioTimeout>> /\ Throw("server")
  <2>1. open["server"] \subseteq handles["server"]
    BY <1>2
  <2> QED BY <1>1, <1>8, <2>1, SocketEnds DEF Throw
<1> QED BY <1>3, <1>4, <1>5, <1>6, <1>7, <1>8 DEF StartAccept, FinishAccept

\* gm_runtime_udp_bind_ipv4
LEMMA BindUdpSafe ==
    ASSUME Inv, NEW s \in Sides, BindUdp(s), UNCHANGED tlsVars
    PROVE  Inv'
<1>1. /\ at[s] = "udp" /\ UNCHANGED <<budget, ioTimeout, next, addresses, link, broken>>
      /\ MakeHandle(s, Udp, "hello") \/ Unwind(s, Without(open[s] \cup {Udp}, Udp))
  BY DEF BindUdp
<1>2. /\ at[s] \notin Over /\ Tried(at[s]) = {} /\ open[s] = handles[s]
      /\ link' \in {"none", "pending", "accepted"}
  BY <1>1 DEF Inv, Owns, Tried, Trying, Over, Typed
<1>3. /\ Owned(s, "hello")' = Owned(s, at[s]) \cup {Udp}
      /\ "hello" \in Steps /\ Tried("hello") = {} /\ Leads(at[s], "hello")
      /\ "hello" \notin Waiting \cup Trying \cup Over \cup {"resolve", "address"}
  BY <1>1 DEF Owned, InTls, AfterTls, Steps, Tried, Trying, Over, Waiting, Leads
<1>4. Without(open[s] \cup {Udp}, Udp) \subseteq handles[s]
  BY <1>2 DEF Without
<1> HIDE DEF Udp
<1> QED BY <1>1, <1>2, <1>3, <1>4, SocketHandle, SocketEnds

\* Any step of the sockets.
LEMMA SocketStepSafe ==
    ASSUME Inv, NEW s \in Sides, SocketStep(s), UNCHANGED tlsVars
    PROVE  Inv'
BY ResolveSafe, OpenCandidateSafe, ConnectSafe, KeepCandidateSafe, ListenSafe, BindUdpSafe
DEF SocketStep

-------------------------------------------------------------------------------
(* Flights *)

\* The pieces of a flight are pieces of that flight only.
LEMMA PiecesAre ==
    ASSUME NEW of \in Names, NEW n \in Nat
    PROVE  Pieces(of, n) \in Seq(PieceSet) /\ On(Pieces(of, n)) \subseteq {of}
<1>1. \A i \in 1..n : [of |-> of, last |-> i = n] \in PieceSet
  BY DEF PieceSet
<1>2. Pieces(of, n) \in [1..n -> PieceSet] /\ \A i \in 1..n : Pieces(of, n)[i].of = of
  BY <1>1 DEF Pieces
<1>3. Pieces(of, n) \in Seq(PieceSet) /\ DOMAIN Pieces(of, n) = 1..n
  BY <1>2, SeqDef
<1> QED BY <1>2, <1>3 DEF On

\* What is sent is on its way after what was.
LEMMA SentIs ==
    ASSUME NEW before \in Seq(PieceSet), NEW pieces \in Seq(PieceSet)
    PROVE  /\ before \o pieces \in Seq(PieceSet)
           /\ On(before \o pieces) \subseteq On(before) \cup On(pieces)
<1>1. /\ before \o pieces \in Seq(PieceSet)
      /\ Len(before \o pieces) = Len(before) + Len(pieces)
      /\ \A i \in 1..(Len(before) + Len(pieces)) :
             (before \o pieces)[i] =
                 IF i <= Len(before) THEN before[i] ELSE pieces[i - Len(before)]
  BY ConcatProperties
<1>2. ASSUME NEW i \in DOMAIN (before \o pieces)
      PROVE  (before \o pieces)[i].of \in On(before) \cup On(pieces)
  <2>1. i \in 1..(Len(before) + Len(pieces)) /\ Len(before) \in Nat /\ Len(pieces) \in Nat
    BY <1>1
  <2>2. CASE i <= Len(before)
    BY <1>1, <2>1, <2>2 DEF On
  <2>3. CASE i > Len(before)
    <3>1. i - Len(before) \in DOMAIN pieces
      BY <2>1, <2>3
    <3>2. (before \o pieces)[i] = pieces[i - Len(before)]
      BY <1>1, <2>1, <2>3
    <3> QED BY <3>1, <3>2 DEF On
  <2> QED BY <2>1, <2>2, <2>3
<1> QED BY <1>1, <1>2 DEF On

\* What a receive takes, and what it leaves, was on its way.
LEMMA TakenIs ==
    ASSUME NEW pieces \in Seq(PieceSet), NEW n \in Nat, 1 <= n, n <= Len(pieces)
    PROVE  /\ SubSeq(pieces, n + 1, Len(pieces)) \in Seq(PieceSet)
           /\ On(SubSeq(pieces, n + 1, Len(pieces))) \subseteq On(pieces)
           /\ Whole(SubSeq(pieces, 1, n)) \subseteq On(pieces) \cap Names
<1> DEFINE rest == SubSeq(pieces, n + 1, Len(pieces))
           taken == SubSeq(pieces, 1, n)
<1>1. /\ rest \in Seq(PieceSet) /\ Len(pieces) \in Nat
      /\ \A i \in 1..Len(rest) : rest[i] = pieces[n + i] /\ n + i \in 1..Len(pieces)
  BY SubSeqProperties
<1>2. /\ taken \in Seq(PieceSet)
      /\ \A i \in 1..Len(taken) : taken[i] = pieces[i] /\ i \in 1..Len(pieces)
  BY SubSeqProperties
<1> HIDE DEF rest, taken
<1>3. On(rest) \subseteq On(pieces)
  BY <1>1 DEF On
<1>4. Whole(taken) \subseteq On(pieces)
  BY <1>2 DEF On, Whole
<1>5. On(pieces) \subseteq Names
  <2>1. \A i \in DOMAIN pieces : pieces[i] \in PieceSet
    OBVIOUS
  <2>2. \A i \in DOMAIN pieces : pieces[i].of \in Names
    BY <2>1 DEF PieceSet
  <2> QED BY <2>2 DEF On
<1> QED BY <1>1, <1>3, <1>4, <1>5 DEF rest, taken

-------------------------------------------------------------------------------
(* Steps of the TLS session *)

\* A step of s in its session changes nothing of the other but what is on its way to it.
AloneInTls(s) ==
    /\ Alone(s) /\ UNCHANGED <<next, addresses, link, broken, pinned, speaks, flights>>
    /\ \A p \in Sides : p # s =>
           /\ tls'[p] = tls[p] /\ iteration'[p] = iteration[p] /\ received'[p] = received[p]
           /\ got'[p] = got[p] /\ (p \in secured' <=> p \in secured)

\* A step of the TLS session keeps the invariant if it keeps it for its own program.
LEMMA TlsSafe ==
    ASSUME Inv, NEW s \in Sides, AloneInTls(s), Typed', Owns(s)', InTime(s)', Bounded(s)',
           Secure(s)', Chain'
    PROVE  Inv'
<1>1. ASSUME NEW p \in Sides
      PROVE  (Owns(p) /\ InTime(p))'
  BY OtherOwns DEF AloneInTls
<1>2. ASSUME NEW p \in Sides
      PROVE  (Bounded(p) /\ Secure(p))'
  <2>1. CASE p # s
    BY <2>1 DEF Inv, Bounded, Secure, AloneInTls, Alone
  <2> QED BY <2>1
<1> QED BY <1>1, <1>2 DEF Inv

\* The chain of flights holds on if what is newly on its way was sent by a program that could.
LEMMA ChainKept ==
    ASSUME Inv, UNCHANGED pinned,
           ("client flight" \in Carried("server"))' =>
               \/ "client flight" \in Carried("server")
               \/ "client" \in pinned /\ tls'["client"] = "done",
           ("answer" \in Carried("client"))' =>
               "answer" \in Carried("client") \/ "server" \in secured,
           tls["client"] = "done" => tls'["client"] = "done",
           \A p \in Sides : got[p] \subseteq got'[p] /\ (p \in secured => p \in secured'),
           "server" \in secured' => "server" \in secured \/ "client flight" \in got["server"],
           at'["client"] = "session" => at["client"] = "session" \/ "answer" \in got["client"]
    PROVE  Chain'
BY DEF Inv, Chain, Sides

\* A program that throws in its session closes all that is open.
LEMMA ThrowIs ==
    ASSUME Inv, NEW s \in Sides, Throw(s), at[s] \notin Over \cup Trying,
           UNCHANGED <<budget, next, addresses>>
    PROVE  /\ at'[s] = "ended" /\ at' \in [Sides -> Steps] /\ timer' = timer
           /\ DOMAIN open' = Sides /\ DOMAIN handles' = Sides
           /\ \A p \in Sides : p # s =>
                  at'[p] = at[p] /\ open'[p] = open[p] /\ handles'[p] = handles[p]
           /\ Owns(s)' /\ InTime(s)'
<1>1. Typed /\ open[s] = handles[s]
  BY DEF Inv, Owns, Tried
<1>2. /\ at'[s] = "ended" /\ timer' = timer /\ open'[s] = {} /\ handles'[s] = {}
      /\ DOMAIN open' = Sides /\ DOMAIN handles' = Sides /\ at' \in [Sides -> Steps]
      /\ \A p \in Sides : p # s =>
             at'[p] = at[p] /\ open'[p] = open[p] /\ handles'[p] = handles[p]
  BY <1>1, UnwindIs DEF Throw
<1>3. Owns(s)' /\ InTime(s)'
  BY <1>2 DEF Owns, InTime, Over, Trying
<1> QED BY <1>2, <1>3

\* One that goes on keeps what it has open.
LEMMA GoesOn ==
    ASSUME Inv, NEW s \in Sides, NEW step, at'[s] = step,
           UNCHANGED <<open, handles, next, addresses>>, at[s] \notin Over \cup Trying,
           step \notin Over \cup Trying \cup {"listen", "listening", "accept", "resolve", "address"},
           Owned(s, step) = Owned(s, at[s]),
           step = "receiving" => timer'[s] <= budget'[s]
    PROVE  /\ DOMAIN open' = Sides /\ DOMAIN handles' = Sides
           /\ Owns(s)' /\ InTime(s)'
<1>1. handles[s] = Owned(s, at[s]) /\ open[s] = handles[s]
  BY DEF Inv, Owns, Tried
<1>2. Owned(s, at[s])' = Owned(s, step) /\ Tried(at[s])' = {}
  BY DEF Owned, Tried
<1>3. Owns(s)'
  BY <1>1, <1>2 DEF Owns, Over, Trying
<1>4. InTime(s)'
  BY DEF InTime, Trying
<1> QED BY <1>3, <1>4 DEF Inv, Typed

\* TlsSession::create
LEMMA CreateSafe ==
    ASSUME Inv, NEW s \in Sides, Create(s)
    PROVE  Inv'
<1>1. /\ at[s] = "create" /\ Typed /\ at[s] \notin Over \cup Trying \cup AfterTls
      /\ UNCHANGED <<budget, ioTimeout, next, addresses, link, broken>>
      /\ UNCHANGED <<wire, got, secured, pinned, speaks, flights>>
  BY DEF Create, Inv, Over, Trying, AfterTls
<1>2. s \notin secured /\ tls[s] # "done"
  BY <1>1 DEF Inv, Secure
<1>3. CASE Throw(s) /\ UNCHANGED <<tls, iteration, received>>
  <2>1. /\ at'[s] = "ended" /\ at' \in [Sides -> Steps] /\ timer' = timer
        /\ DOMAIN open' = Sides /\ DOMAIN handles' = Sides
        /\ \A p \in Sides : p # s =>
               at'[p] = at[p] /\ open'[p] = open[p] /\ handles'[p] = handles[p]
        /\ Owns(s)' /\ InTime(s)'
    BY <1>1, <1>3, ThrowIs
  <2>2. Typed'
    BY <1>1, <1>3, <2>1 DEF Typed
  <2>3. AloneInTls(s)
    BY <1>1, <1>3, <2>1 DEF AloneInTls, Alone
  <2>4. Bounded(s)' /\ Secure(s)'
    BY <1>1, <1>2, <1>3, <2>1 DEF Bounded, Secure, AfterTls, Over
  <2>5. at'["client"] = "session" => at["client"] = "session"
    BY <2>1 DEF Sides
  <2>6. Chain'
    BY <1>1, <1>3, <2>5, ChainKept DEF Carried, On
  <2> QED BY <2>1, <2>2, <2>3, <2>4, <2>6, TlsSafe
<1>4. CASE /\ tls' = [tls EXCEPT ![s] = "start"]
           /\ iteration' = [iteration EXCEPT ![s] = 0] /\ received' = [received EXCEPT ![s] = 0]
           /\ Goto(s, "handshake") /\ UNCHANGED <<open, handles>>
  <2>1. "handshake" \in Steps
    BY DEF Steps
  <2>2. /\ at'[s] = "handshake" /\ timer' = timer /\ at' \in [Sides -> Steps]
        /\ \A p \in Sides : p # s => at'[p] = at[p]
    BY <1>1, <1>4, <2>1, GotoIs
  <2>3. /\ tls'[s] = "start" /\ received'[s] = 0 /\ iteration'[s] = 0
        /\ 0 \in 0..MaxIterations /\ 0 \in 0..(MaxReceived + Chunk) /\ 0 <= MaxReceived
    BY <1>1, <1>4, TransportAssumption DEF Typed
  <2>4. Typed'
    BY <1>1, <1>4, <2>2, <2>3 DEF Typed
  <2>5. Owned(s, "handshake") = Owned(s, at[s])
    BY <1>1 DEF Owned, InTls, AfterTls
  <2>6. Owns(s)' /\ InTime(s)'
    <3>1. "handshake" \notin Over \cup Trying \cup {"listen", "listening", "accept", "resolve",
                                                   "address"}
      BY DEF Over, Trying
    <3> QED BY <1>1, <1>4, <2>2, <2>5, <3>1, GoesOn
  <2>7. AloneInTls(s)
    BY <1>1, <1>4, <2>2 DEF AloneInTls, Alone, Typed
  <2>8. Bounded(s)' /\ Secure(s)'
    BY <1>1, <1>2, <2>2, <2>3 DEF Bounded, Secure, AfterTls, Over
  <2>9. Chain'
    <3>1. at'["client"] = "session" => at["client"] = "session"
      BY <2>2 DEF Sides
    <3>2. tls["client"] = "done" => tls'["client"] = "done"
      BY <1>1, <1>2, <1>4 DEF Typed, Sides
    <3> QED BY <1>1, <3>1, <3>2, ChainKept DEF Carried, On
  <2> QED BY <2>4, <2>6, <2>7, <2>8, <2>9, TlsSafe
<1> QED BY <1>3, <1>4 DEF Create

\* What a round of SSL_do_handshake comes to.
LEMMA OutcomeIs ==
    ASSUME Typed, NEW s \in Sides, NEW ssl, ssl = DoHandshake(s)
    PROVE  /\ ssl.state \in {"start", "wait", "done", "failed"} /\ ssl.out \in Seq(PieceSet)
           /\ ssl.result = "done" => ssl.state = "done"
           /\ ssl.result = "want read" => ssl.state # "done" \/ tls[s] = "done"
           /\ ssl.state = "done" =>
                  \/ tls[s] = "done"
                  \/ s \in pinned /\ (s = "server" => "client flight" \in got[s])
           /\ "answer" \notin On(ssl.out)
           /\ "client flight" \in On(ssl.out) =>
                  s = "client" /\ s \in pinned /\ ssl.state = "done"
<1>1. <<>> \in Seq(PieceSet) /\ On(<<>>) = {}
  BY DEF On
<1>2. \A of \in {"client hello", "alert", "server flight", "client flight"}, n \in Nat :
          Pieces(of, n) \in Seq(PieceSet) /\ On(Pieces(of, n)) \subseteq {of}
  BY PiecesAre DEF Names
<1>3. flights[s] \in Nat /\ 1 \in Nat /\ tls[s] \in {"start", "wait", "done", "failed"}
  BY DEF Typed
<1>4. \/ ssl = Outcome("failed", <<>>, "error")
      \/ ssl = Outcome("failed", Pieces("alert", 1), "error")
      \/ ssl = Outcome("wait", Pieces("client hello", 1), "want read")
      \/ ssl = Outcome("wait", Pieces("server flight", flights[s]), "want read")
      \/ /\ s = "client" /\ s \in pinned
         /\ ssl = Outcome("done", Pieces("client flight", flights[s]), "done")
      \/ /\ s = "server" /\ s \in pinned /\ "client flight" \in got[s]
         /\ ssl = Outcome("done", <<>>, "done")
      \/ ssl = Outcome(tls[s], <<>>, "want read")
  <2>1. CASE "alert" \in got[s]
    BY <2>1 DEF DoHandshake
  <2>2. CASE "alert" \notin got[s] /\ s = "client"
    BY <2>2 DEF DoHandshake, VerifyPeerCertificate, WantRead, Refuse
  <2>3. CASE "alert" \notin got[s] /\ s = "server"
    BY <2>3 DEF DoHandshake, VerifyPeerCertificate, WantRead, Refuse
  <2> QED BY <2>1, <2>2, <2>3 DEF Sides
<1>5. PICK state, out, result :
          /\ ssl = Outcome(state, out, result) /\ out \in Seq(PieceSet)
          /\ \/ state = "failed" /\ result = "error" /\ On(out) \subseteq {"alert"}
             \/ /\ state = "wait" /\ result = "want read"
                /\ On(out) \subseteq {"client hello", "server flight"}
             \/ /\ state = "done" /\ result = "done" /\ s = "client" /\ s \in pinned
                /\ On(out) \subseteq {"client flight"}
             \/ /\ state = "done" /\ result = "done" /\ s = "server" /\ s \in pinned
                /\ On(out) = {} /\ "client flight" \in got[s]
             \/ state = tls[s] /\ result = "want read" /\ On(out) = {}
  BY <1>1, <1>2, <1>3, <1>4
<1>6. ssl.state = state /\ ssl.out = out /\ ssl.result = result
  <2>1. ssl = Outcome(state, out, result)
    BY <1>5
  <2> QED BY <2>1 DEF Outcome
<1> QED BY <1>3, <1>5, <1>6

\* A round of handshake: it waits for more, goes on secured, or throws.
LEMMA HandshakeSafe ==
    ASSUME Inv, NEW s \in Sides, Handshake(s)
    PROVE  Inv'
<1>1. /\ at[s] = "handshake" /\ Typed /\ at[s] \notin Over \cup Trying \cup AfterTls
      /\ UNCHANGED <<budget, next, addresses, link, broken>>
      /\ UNCHANGED <<got, iteration, received, pinned, speaks, flights>>
  BY DEF Handshake, Inv, Over, Trying, AfterTls
<1>2. s \notin secured /\ tls[s] # "done" /\ received[s] <= MaxReceived
  BY <1>1 DEF Inv, Secure, Bounded
<1>3. PICK ssl : ssl = DoHandshake(s)
  OBVIOUS
<1>4. /\ \/ UNCHANGED <<wire, tls>>
         \/ /\ tls' = [tls EXCEPT ![s] = ssl.state]
            /\ (wire' = wire \/ wire' = [wire EXCEPT ![Peer(s)] = @ \o ssl.out])
      /\ \/ Throw(s) /\ UNCHANGED secured
            /\ (ioTimeout' = ioTimeout \/ ioTimeout' = [ioTimeout EXCEPT ![s] = Timeout])
         \/ /\ tls' = [tls EXCEPT ![s] = ssl.state]
            /\ ssl.result = "done" /\ ioTimeout' = [ioTimeout EXCEPT ![s] = Timeout]
            /\ NegotiatedRequiredAlpn /\ secured' = secured \cup {s}
            /\ Goto(s, "udp") /\ UNCHANGED <<open, handles>>
         \/ /\ tls' = [tls EXCEPT ![s] = ssl.state] /\ ~TooMany(iteration[s])
            /\ ssl.result = "want read" /\ Wait(s, "receiving", budget[s])
            /\ ioTimeout' = [ioTimeout EXCEPT ![s] = budget[s]]
            /\ UNCHANGED <<open, handles, secured>>
  BY <1>3 DEF Handshake, Send
<1>5. /\ ssl.state \in {"start", "wait", "done", "failed"} /\ ssl.out \in Seq(PieceSet)
      /\ ssl.result = "done" => ssl.state = "done"
      /\ ssl.result = "want read" => ssl.state # "done"
      /\ ssl.state = "done" => s \in pinned /\ (s = "server" => "client flight" \in got[s])
      /\ "answer" \notin On(ssl.out)
      /\ "client flight" \in On(ssl.out) => s = "client" /\ s \in pinned /\ ssl.state = "done"
  BY <1>1, <1>2, <1>3, OutcomeIs
<1>6. /\ Peer(s) \in Sides /\ Peer(s) # s
      /\ \A p \in Sides : p # s => p = Peer(s)
  BY DEF Peer, Sides
<1>7. /\ wire' \in [Sides -> Seq(PieceSet)]
      /\ \A p \in Sides :
             \/ wire'[p] = wire[p]
             \/ /\ p = Peer(s) /\ tls'[s] = ssl.state
                /\ On(wire'[p]) \subseteq On(wire[p]) \cup On(ssl.out)
  <2>1. CASE wire' = wire
    BY <1>1, <2>1 DEF Typed
  <2>2. CASE /\ wire' = [wire EXCEPT ![Peer(s)] = @ \o ssl.out]
             /\ tls' = [tls EXCEPT ![s] = ssl.state]
    <3>1. /\ wire[Peer(s)] \o ssl.out \in Seq(PieceSet)
          /\ On(wire[Peer(s)] \o ssl.out) \subseteq On(wire[Peer(s)]) \cup On(ssl.out)
      BY <1>1, <1>5, <1>6, SentIs DEF Typed
    <3> QED BY <1>1, <1>6, <2>2, <3>1 DEF Typed
  <2> QED BY <1>4, <2>1, <2>2
<1>8. /\ tls' \in [Sides -> {"start", "wait", "done", "failed"}]
      /\ \A p \in Sides : p # s => tls'[p] = tls[p]
      /\ tls'[s] \in {tls[s], ssl.state}
  BY <1>1, <1>4, <1>5 DEF Typed
<1>9. /\ ioTimeout' \in [Sides -> Span]
      /\ \A p \in Sides : p # s => ioTimeout'[p] = ioTimeout[p]
  <2>1. budget[s] \in Span /\ Timeout \in Span
    BY <1>1, TimesInSpan DEF Typed
  <2>2. \/ ioTimeout' = ioTimeout
        \/ ioTimeout' = [ioTimeout EXCEPT ![s] = Timeout]
        \/ ioTimeout' = [ioTimeout EXCEPT ![s] = budget[s]]
    BY <1>4
  <2> QED BY <1>1, <2>1, <2>2 DEF Typed
<1>10. ASSUME at'[s] # "session", \A p \in Sides : p # s => at'[p] = at[p],
              \A p \in Sides : p \in secured => p \in secured',
              s \in secured' => ssl.state = "done",
              \A p \in Sides : p # s => (p \in secured' <=> p \in secured)
       PROVE  Chain'
  <2>1. ("client flight" \in Carried("server"))' =>
            \/ "client flight" \in Carried("server")
            \/ "client" \in pinned /\ tls'["client"] = "done"
    BY <1>1, <1>5, <1>7 DEF Carried, Sides
  <2>2. ("answer" \in Carried("client"))' => "answer" \in Carried("client")
    BY <1>1, <1>5, <1>7 DEF Carried, Sides
  <2>3. tls["client"] = "done" => tls'["client"] = "done"
    BY <1>2, <1>8 DEF Sides
  <2>4. "server" \in secured' => "server" \in secured \/ "client flight" \in got["server"]
    BY <1>5, <1>10 DEF Sides
  <2>5. at'["client"] = "session" => at["client"] = "session"
    BY <1>10 DEF Sides
  <2> QED BY <1>1, <1>10, <2>1, <2>2, <2>3, <2>4, <2>5, ChainKept
<1>11. CASE Throw(s) /\ UNCHANGED secured
  <2>1. /\ at'[s] = "ended" /\ at' \in [Sides -> Steps] /\ timer' = timer
        /\ DOMAIN open' = Sides /\ DOMAIN handles' = Sides
        /\ \A p \in Sides : p # s =>
               at'[p] = at[p] /\ open'[p] = open[p] /\ handles'[p] = handles[p]
        /\ Owns(s)' /\ InTime(s)'
    BY <1>1, <1>11, ThrowIs
  <2>2. Typed'
    BY <1>1, <1>7, <1>8, <1>9, <1>11, <2>1 DEF Typed
  <2>3. AloneInTls(s)
    BY <1>1, <1>8, <1>9, <1>11, <2>1 DEF AloneInTls, Alone
  <2>4. Bounded(s)' /\ Secure(s)'
    BY <1>1, <1>2, <1>11, <2>1 DEF Bounded, Secure, AfterTls, Over
  <2>5. Chain'
    BY <1>2, <1>10, <1>11, <2>1
  <2> QED BY <2>1, <2>2, <2>3, <2>4, <2>5, TlsSafe
<1>12. CASE /\ tls' = [tls EXCEPT ![s] = ssl.state] /\ ssl.result = "done"
            /\ ioTimeout' = [ioTimeout EXCEPT ![s] = Timeout]
            /\ NegotiatedRequiredAlpn /\ secured' = secured \cup {s}
            /\ Goto(s, "udp") /\ UNCHANGED <<open, handles>>
  <2>1. "udp" \in Steps
    BY DEF Steps
  <2>2. /\ at'[s] = "udp" /\ timer' = timer /\ at' \in [Sides -> Steps]
        /\ \A p \in Sides : p # s => at'[p] = at[p]
    BY <1>1, <1>12, <2>1, GotoIs
  <2>3. Owned(s, "udp") = Owned(s, at[s])
    BY <1>1 DEF Owned, InTls, AfterTls
  <2>4. Owns(s)' /\ InTime(s)'
    <3>1. "udp" \notin Over \cup Trying \cup {"listen", "listening", "accept", "resolve",
                                             "address"}
      BY DEF Over, Trying
    <3> QED BY <1>1, <1>12, <2>2, <2>3, <3>1, GoesOn
  <2>5. Typed'
    BY <1>1, <1>7, <1>8, <1>9, <1>12, <2>2 DEF Typed
  <2>6. AloneInTls(s)
    BY <1>1, <1>8, <1>9, <1>12, <2>2 DEF AloneInTls, Alone
  <2>7. Bounded(s)' /\ Secure(s)'
    <3>1. tls'[s] = "done" /\ ioTimeout'[s] = Timeout /\ s \in pinned
      BY <1>1, <1>5, <1>12 DEF Typed
    <3> QED BY <1>1, <1>2, <1>12, <2>2, <3>1
         DEF Bounded, Secure, AfterTls, Over, NegotiatedRequiredAlpn
  <2>8. Chain'
    BY <1>5, <1>10, <1>12, <2>2
  <2> QED BY <2>4, <2>5, <2>6, <2>7, <2>8, TlsSafe
<1>13. CASE /\ tls' = [tls EXCEPT ![s] = ssl.state] /\ ~TooMany(iteration[s])
            /\ ssl.result = "want read" /\ Wait(s, "receiving", budget[s])
            /\ UNCHANGED <<open, handles, secured>>
  <2>1. "receiving" \in Steps /\ budget[s] \in Span
    BY <1>1 DEF Steps, Waiting, Typed
  <2>2. /\ at'[s] = "receiving" /\ timer'[s] = budget[s] /\ at' \in [Sides -> Steps]
        /\ timer' \in [Sides -> Span]
        /\ \A p \in Sides : p # s => at'[p] = at[p] /\ timer'[p] = timer[p]
    BY <1>1, <1>13, <2>1, WaitIs
  <2>3. Owned(s, "receiving") = Owned(s, at[s]) /\ timer'[s] <= budget'[s]
    BY <1>1, <2>1, <2>2, TimesInSpan DEF Owned, InTls, AfterTls
  <2>4. Owns(s)' /\ InTime(s)'
    <3>1. "receiving" \notin Over \cup Trying \cup {"listen", "listening", "accept", "resolve",
                                                   "address"}
      BY DEF Over, Trying
    <3> QED BY <1>1, <1>13, <2>2, <2>3, <3>1, GoesOn
  <2>5. Typed'
    BY <1>1, <1>7, <1>8, <1>9, <1>13, <2>2 DEF Typed
  <2>6. AloneInTls(s)
    BY <1>1, <1>8, <1>9, <1>13, <2>2 DEF AloneInTls, Alone
  <2>7. Bounded(s)' /\ Secure(s)'
    <3>1. tls'[s] # "done"
      BY <1>2, <1>5, <1>8, <1>13
    <3>2. iteration[s] < MaxIterations
      <4>1. iteration[s] \in 0..MaxIterations /\ ~(iteration[s] >= MaxIterations)
        BY <1>1, <1>13 DEF TooMany, Typed
      <4>2. MaxIterations \in Nat
        BY TransportAssumption
      <4> QED BY <4>1, <4>2
    <3> QED BY <1>1, <1>2, <1>13, <2>2, <3>1, <3>2 DEF Bounded, Secure, AfterTls, Over
  <2>8. Chain'
    BY <1>2, <1>10, <1>13, <2>2
  <2> QED BY <2>4, <2>5, <2>6, <2>7, <2>8, TlsSafe
<1> QED BY <1>4, <1>11, <1>12, <1>13

\* A receive takes what was on its way, breaks off at the cap of the handshake or at the end of
\* its time.
LEMMA ReceiveSafe ==
    ASSUME Inv, NEW s \in Sides, Receive(s)
    PROVE  Inv'
<1>1. /\ at[s] \in {"receiving", "awaiting"} /\ Typed /\ at[s] \notin Over \cup Trying
      /\ UNCHANGED <<budget, ioTimeout, next, addresses, link, broken>>
      /\ UNCHANGED <<tls, secured, pinned, speaks, flights>>
  BY DEF Receive, Inv, Over, Trying
<1>2. /\ received[s] <= MaxReceived /\ iteration[s] < MaxIterations
      /\ received[s] \in Nat /\ iteration[s] \in Nat
      /\ MaxReceived \in Nat /\ Chunk \in Nat /\ MaxIterations \in Nat
  <2>1. received[s] <= MaxReceived /\ iteration[s] < MaxIterations
    BY <1>1 DEF Inv, Bounded
  <2>2. MaxReceived \in Nat /\ Chunk \in Nat /\ MaxIterations \in Nat
    BY TransportAssumption
  <2>3. received[s] \in 0..(MaxReceived + Chunk) /\ iteration[s] \in 0..MaxIterations
    BY <1>1 DEF Typed
  <2> QED BY <2>1, <2>2, <2>3
<1>3. ASSUME \A p \in Sides : Carried(p)' \subseteq Carried(p) /\ got[p] \subseteq got'[p],
             at'[s] # "session", \A p \in Sides : p # s => at'[p] = at[p]
      PROVE  Chain'
  <2>1. at'["client"] = "session" => at["client"] = "session"
    BY <1>3 DEF Sides
  <2> QED BY <1>1, <1>3, <2>1, ChainKept DEF Sides
<1>4. CASE RecvFails(s) /\ Throw(s) /\ UNCHANGED <<wire, received, iteration, got>>
  <2>1. /\ at'[s] = "ended" /\ at' \in [Sides -> Steps] /\ timer' = timer
        /\ DOMAIN open' = Sides /\ DOMAIN handles' = Sides
        /\ \A p \in Sides : p # s =>
               at'[p] = at[p] /\ open'[p] = open[p] /\ handles'[p] = handles[p]
        /\ Owns(s)' /\ InTime(s)'
    BY <1>1, <1>4, ThrowIs
  <2>2. Typed'
    BY <1>1, <1>4, <2>1 DEF Typed
  <2>3. AloneInTls(s)
    BY <1>1, <1>4, <2>1 DEF AloneInTls, Alone
  <2>4. Bounded(s)' /\ Secure(s)'
    BY <1>1, <1>4, <2>1 DEF Bounded, Secure, AfterTls, Over, Inv
  <2>5. Chain'
    BY <1>3, <1>4, <2>1 DEF Carried, On
  <2> QED BY <2>1, <2>2, <2>3, <2>4, <2>5, TlsSafe
<1>5. ASSUME NEW n \in 1..Chunk, n <= Len(wire[s]),
             wire' = [wire EXCEPT ![s] = SubSeq(@, n + 1, Len(@))],
             received' = [received EXCEPT
                 ![s] = @ + (IF at[s] = "receiving" THEN n ELSE 0)],
             iteration' = [iteration EXCEPT ![s] = @ + 1],
             \/ received'[s] > MaxReceived /\ Throw(s) /\ UNCHANGED got
             \/ /\ received'[s] <= MaxReceived
                /\ got' = [got EXCEPT ![s] = @ \cup Whole(SubSeq(wire[s], 1, n))]
                /\ Goto(s, IF at[s] = "receiving" THEN "handshake" ELSE "reading")
                /\ UNCHANGED <<open, handles>>
      PROVE  Inv'
  <2>1. wire[s] \in Seq(PieceSet) /\ n \in Nat /\ 1 <= n
    BY <1>1, <1>2, <1>5 DEF Typed
  <2> DEFINE rest == SubSeq(wire[s], n + 1, Len(wire[s]))
             taken == Whole(SubSeq(wire[s], 1, n))
  <2>2. /\ rest \in Seq(PieceSet) /\ On(rest) \subseteq On(wire[s])
        /\ taken \subseteq On(wire[s]) /\ taken \subseteq Names
    BY <1>5, <2>1, TakenIs
  <2>3. wire' = [wire EXCEPT ![s] = rest]
    BY <1>5
  <2>4. got' = got \/ got' = [got EXCEPT ![s] = @ \cup taken]
    BY <1>5
  <2> HIDE DEF rest, taken
  <2>5. wire' \in [Sides -> Seq(PieceSet)] /\ got' \in [Sides -> SUBSET Names]
    BY <1>1, <2>2, <2>3, <2>4 DEF Typed
  <2>6. \A p \in Sides : Carried(p)' \subseteq Carried(p) /\ got[p] \subseteq got'[p]
    BY <1>1, <2>2, <2>3, <2>4 DEF Typed, Carried
  <2>7. /\ received'[s] \in Nat /\ received'[s] <= MaxReceived + Chunk
        /\ received' \in [Sides -> 0..(MaxReceived + Chunk)]
    <3>1. received[s] + (IF at[s] = "receiving" THEN n ELSE 0) \in 0..(MaxReceived + Chunk)
      BY <1>2, <1>5
    <3> QED BY <1>1, <1>2, <1>5, <3>1 DEF Typed
  <2>8. iteration' \in [Sides -> 0..MaxIterations]
    <3>1. iteration[s] + 1 \in 0..MaxIterations
      BY <1>2
    <3> QED BY <1>1, <1>5, <3>1 DEF Typed
  <2>9. \A p \in Sides : p # s => /\ received'[p] = received[p] /\ iteration'[p] = iteration[p]
                                  /\ got'[p] = got[p]
    BY <1>1, <1>5, <2>4 DEF Typed
  <2>10. CASE received'[s] > MaxReceived /\ Throw(s)
    <3>1. /\ at'[s] = "ended" /\ at' \in [Sides -> Steps] /\ timer' = timer
          /\ DOMAIN open' = Sides /\ DOMAIN handles' = Sides
          /\ \A p \in Sides : p # s =>
                 at'[p] = at[p] /\ open'[p] = open[p] /\ handles'[p] = handles[p]
          /\ Owns(s)' /\ InTime(s)'
      BY <1>1, <2>10, ThrowIs
    <3>2. Typed'
      BY <1>1, <2>5, <2>7, <2>8, <3>1 DEF Typed
    <3>3. AloneInTls(s)
      BY <1>1, <2>9, <3>1 DEF AloneInTls, Alone
    <3>4. Bounded(s)' /\ Secure(s)'
      BY <1>1, <3>1 DEF Bounded, Secure, AfterTls, Over, Inv
    <3>5. Chain'
      BY <1>3, <2>6, <3>1
    <3> QED BY <3>1, <3>2, <3>3, <3>4, <3>5, TlsSafe
  <2>11. CASE /\ received'[s] <= MaxReceived
              /\ Goto(s, IF at[s] = "receiving" THEN "handshake" ELSE "reading")
              /\ UNCHANGED <<open, handles>>
    <3>1. PICK step \in Steps : /\ Goto(s, step)
                                /\ \/ at[s] = "receiving" /\ step = "handshake"
                                   \/ at[s] = "awaiting" /\ step = "reading"
      BY <1>1, <2>11 DEF Steps
    <3>2. /\ at'[s] = step /\ timer' = timer /\ at' \in [Sides -> Steps]
          /\ \A p \in Sides : p # s => at'[p] = at[p]
      BY <1>1, <3>1, GotoIs
    <3>3. Owned(s, step) = Owned(s, at[s])
      BY <3>1 DEF Owned, InTls, AfterTls
    <3>4. Owns(s)' /\ InTime(s)'
      <4>1. step \notin Over \cup Trying \cup {"listen", "listening", "accept", "resolve",
                                              "address"}
        BY <3>1 DEF Over, Trying
      <4> QED BY <1>1, <2>11, <3>1, <3>2, <3>3, <4>1, GoesOn
    <3>5. Typed'
      BY <1>1, <2>5, <2>7, <2>8, <2>11, <3>2 DEF Typed
    <3>6. AloneInTls(s)
      BY <1>1, <2>9, <2>11, <3>2 DEF AloneInTls, Alone
    <3>7. Bounded(s)' /\ Secure(s)'
      BY <1>1, <2>11, <3>1, <3>2 DEF Bounded, Secure, AfterTls, Over, Inv
    <3>8. Chain'
      BY <1>3, <2>6, <3>1, <3>2
    <3> QED BY <3>4, <3>5, <3>6, <3>7, <3>8, TlsSafe
  <2> QED BY <1>5, <2>10, <2>11
<1> QED BY <1>4, <1>5 DEF Receive

\* A step of the control session: nothing of TLS changes, and only its messages are sent.
LEMMA SessionStepSafe ==
    ASSUME Inv, NEW s \in Sides, at[s] \in {"hello", "reading"},
           UNCHANGED <<budget, ioTimeout, next, addresses, link, broken>>,
           UNCHANGED <<tls, got, received, secured, pinned, speaks, flights>>,
           iteration' = iteration \/ iteration' = [iteration EXCEPT ![s] = 0],
           \/ wire' = wire
           \/ \E name \in {"hello", "answer"}, n \in Nat : Send(s, Pieces(name, n)),
           \/ Throw(s)
           \/ \E step \in {"reading", "session", "awaiting"} :
                  /\ at' = [at EXCEPT ![s] = step] /\ UNCHANGED <<open, handles>>
                  /\ (timer' = timer \/ timer' = [timer EXCEPT ![s] = ioTimeout[s]])
                  /\ (step = "session" /\ s = "client") => "answer" \in got[s]
                  /\ step = "awaiting" => iteration'[s] < MaxIterations
    PROVE  Inv'
<1>1. /\ Typed /\ at[s] \notin Over \cup Trying /\ s \in secured /\ Secure(s) /\ Bounded(s)
      /\ at[s] \in AfterTls
  BY DEF Inv, Secure, Over, Trying, AfterTls
<1>2. /\ Peer(s) \in Sides /\ Peer(s) # s /\ \A p \in Sides : p # s => p = Peer(s)
  BY DEF Peer, Sides
<1>3. /\ wire' \in [Sides -> Seq(PieceSet)]
      /\ \A p \in Sides :
             \/ wire'[p] = wire[p]
             \/ p = Peer(s) /\ On(wire'[p]) \subseteq On(wire[p]) \cup {"hello", "answer"}
  <2>1. CASE wire' = wire
    BY <1>1, <2>1 DEF Typed
  <2>2. ASSUME NEW name \in {"hello", "answer"}, NEW n \in Nat, Send(s, Pieces(name, n))
        PROVE  /\ wire' \in [Sides -> Seq(PieceSet)]
               /\ \A p \in Sides :
                      \/ wire'[p] = wire[p]
                      \/ /\ p = Peer(s)
                         /\ On(wire'[p]) \subseteq On(wire[p]) \cup {"hello", "answer"}
    <3>1. Pieces(name, n) \in Seq(PieceSet) /\ On(Pieces(name, n)) \subseteq {name}
      BY PiecesAre DEF Names
    <3> DEFINE pieces == Pieces(name, n)
    <3> HIDE DEF pieces
    <3>2. /\ wire[Peer(s)] \o pieces \in Seq(PieceSet)
          /\ On(wire[Peer(s)] \o pieces) \subseteq On(wire[Peer(s)]) \cup On(pieces)
      BY <1>1, <1>2, <3>1, SentIs DEF Typed, pieces
    <3>3. wire' = [wire EXCEPT ![Peer(s)] = @ \o pieces] /\ On(pieces) \subseteq {name}
      BY <2>2, <3>1 DEF Send, pieces
    <3> QED BY <1>1, <1>2, <3>2, <3>3 DEF Typed
  <2> QED BY <2>1, <2>2
<1>4. /\ iteration' \in [Sides -> 0..MaxIterations]
      /\ \A p \in Sides : p # s => iteration'[p] = iteration[p]
  <2>1. 0 \in 0..MaxIterations /\ iteration \in [Sides -> 0..MaxIterations]
    BY <1>1, TransportAssumption DEF Typed
  <2>2. CASE iteration' = iteration
    BY <2>1, <2>2
  <2>3. CASE iteration' = [iteration EXCEPT ![s] = 0]
    BY <2>1, <2>3
  <2> QED BY <2>2, <2>3
<1>5. ASSUME \A p \in Sides : p # s => at'[p] = at[p],
             at'[s] = "session" /\ s = "client" => "answer" \in got[s]
      PROVE  Chain'
  <2>1. ("client flight" \in Carried("server"))' => "client flight" \in Carried("server")
    BY <1>3 DEF Carried, Sides
  <2>2. ("answer" \in Carried("client"))' =>
            "answer" \in Carried("client") \/ "server" \in secured
    BY <1>1, <1>2, <1>3 DEF Carried, Sides
  <2>3. at'["client"] = "session" => at["client"] = "session" \/ "answer" \in got["client"]
    BY <1>5 DEF Sides
  <2> QED BY <2>1, <2>2, <2>3, ChainKept
<1>6. CASE Throw(s)
  <2>1. /\ at'[s] = "ended" /\ at' \in [Sides -> Steps] /\ timer' = timer
        /\ DOMAIN open' = Sides /\ DOMAIN handles' = Sides
        /\ \A p \in Sides : p # s =>
               at'[p] = at[p] /\ open'[p] = open[p] /\ handles'[p] = handles[p]
        /\ Owns(s)' /\ InTime(s)'
    BY <1>1, <1>6, ThrowIs
  <2>2. Typed'
    BY <1>1, <1>3, <1>4, <2>1 DEF Typed
  <2>3. AloneInTls(s)
    BY <1>4, <2>1 DEF AloneInTls, Alone
  <2>4. Bounded(s)' /\ Secure(s)'
    BY <1>1, <2>1 DEF Bounded, Secure, AfterTls, Over
  <2>5. Chain'
    BY <1>5, <2>1
  <2> QED BY <2>1, <2>2, <2>3, <2>4, <2>5, TlsSafe
<1>7. ASSUME NEW step \in {"reading", "session", "awaiting"},
             at' = [at EXCEPT ![s] = step], UNCHANGED <<open, handles>>,
             timer' = timer \/ timer' = [timer EXCEPT ![s] = ioTimeout[s]],
             step = "session" /\ s = "client" => "answer" \in got[s],
             step = "awaiting" => iteration'[s] < MaxIterations
      PROVE  Inv'
  <2>1. /\ at'[s] = step /\ at' \in [Sides -> Steps] /\ timer' \in [Sides -> Span]
        /\ \A p \in Sides : p # s => at'[p] = at[p] /\ timer'[p] = timer[p]
    <3>1. step \in Steps
      BY DEF Steps, Waiting
    <3>2. /\ at'[s] = step /\ at' \in [Sides -> Steps]
          /\ \A p \in Sides : p # s => at'[p] = at[p]
      BY <1>1, <1>7, <3>1 DEF Typed
    <3>3. timer \in [Sides -> Span] /\ ioTimeout[s] \in Span
      BY <1>1 DEF Typed
    <3>4. timer' \in [Sides -> Span] /\ \A p \in Sides : p # s => timer'[p] = timer[p]
      <4>1. CASE timer' = timer
        BY <3>3, <4>1
      <4>2. CASE timer' = [timer EXCEPT ![s] = ioTimeout[s]]
        BY <3>3, <4>2
      <4> QED BY <1>7, <4>1, <4>2
    <3> QED BY <3>2, <3>4
  <2>2. Owned(s, step) = Owned(s, at[s])
    BY DEF Owned, InTls, AfterTls
  <2>3. Owns(s)' /\ InTime(s)'
    <3>1. step \notin Over \cup Trying \cup {"listen", "listening", "accept", "resolve",
                                            "address"}
      BY DEF Over, Trying
    <3>2. step # "receiving"
      OBVIOUS
    <3> QED BY <1>1, <1>7, <2>1, <2>2, <3>1, <3>2, GoesOn
  <2>4. Typed'
    BY <1>1, <1>3, <1>4, <1>7, <2>1 DEF Typed
  <2>5. AloneInTls(s)
    BY <1>4, <1>7, <2>1 DEF AloneInTls, Alone
  <2>6. Bounded(s)' /\ Secure(s)'
    BY <1>1, <1>7, <2>1 DEF Bounded, Secure, AfterTls, Over
  <2>7. Chain'
    BY <1>5, <1>7, <2>1
  <2> QED BY <2>3, <2>4, <2>5, <2>6, <2>7, TlsSafe
<1> QED BY <1>6, <1>7

\* The client's hello, and what either side does with what it has read.
LEMMA HelloSafe ==
    ASSUME Inv, NEW s \in Sides, Hello(s)
    PROVE  Inv'
<1>1. /\ at[s] = "hello" /\ LongFlight \in Nat
      /\ UNCHANGED <<budget, ioTimeout, next, addresses, link, broken>>
      /\ UNCHANGED <<tls, got, received, secured, pinned, speaks, flights>>
  BY TransportAssumption DEF Hello
<1>2. CASE Throw(s) /\ UNCHANGED <<wire, iteration>>
  BY <1>1, <1>2, SessionStepSafe
<1>3. CASE /\ (wire' = wire \/ Send(s, Pieces("hello", LongFlight)))
           /\ iteration' = [iteration EXCEPT ![s] = 0]
           /\ Goto(s, "reading") /\ UNCHANGED <<open, handles>>
  <2>1. at' = [at EXCEPT ![s] = "reading"] /\ timer' = timer
    BY <1>3 DEF Goto
  <2> QED BY <1>1, <1>3, <2>1, SessionStepSafe
<1> QED BY <1>2, <1>3 DEF Hello

\* A round of receive: an answer, a failure, or a further wait.
LEMMA ReadSafe ==
    ASSUME Inv, NEW s \in Sides, Read(s)
    PROVE  Inv'
<1>1. /\ at[s] = "reading" /\ UNCHANGED iteration
      /\ UNCHANGED <<budget, ioTimeout, next, addresses, link, broken>>
      /\ UNCHANGED <<tls, got, received, secured, pinned, speaks, flights>>
  BY DEF Read
<1>2. CASE Throw(s) /\ UNCHANGED wire
  BY <1>1, <1>2, SessionStepSafe
<1>3. CASE /\ Wanted(s) \in got[s] /\ (wire' = wire \/ Send(s, Pieces("answer", 1)))
           /\ Goto(s, "session") /\ UNCHANGED <<open, handles>>
  <2>1. at' = [at EXCEPT ![s] = "session"] /\ timer' = timer /\ 1 \in Nat
    BY <1>3 DEF Goto
  <2>2. s = "client" => "answer" \in got[s]
    BY <1>3 DEF Wanted
  <2> QED BY <1>1, <1>3, <2>1, <2>2, SessionStepSafe
<1>4. CASE /\ ~TooMany(iteration[s]) /\ Wait(s, "awaiting", ioTimeout[s])
           /\ UNCHANGED <<open, handles, wire>>
  <2>1. at' = [at EXCEPT ![s] = "awaiting"] /\ timer' = [timer EXCEPT ![s] = ioTimeout[s]]
    BY <1>4 DEF Wait
  <2>2. iteration'[s] < MaxIterations
    <3>1. iteration[s] \in 0..MaxIterations /\ ~(iteration[s] >= MaxIterations)
      BY <1>4 DEF TooMany, Inv, Typed
    <3>2. MaxIterations \in Nat
      BY TransportAssumption
    <3> QED BY <1>1, <3>1, <3>2
  <2> QED BY <1>1, <1>4, <2>1, <2>2, SessionStepSafe
<1> QED BY <1>2, <1>3, <1>4 DEF Read

-------------------------------------------------------------------------------
(* Time, and what the network and a program may do at any moment *)

\* A program that hangs keeps what it owns.
LEMMA StallSafe ==
    ASSUME Inv, NEW s \in Sides, Stall(s), UNCHANGED tlsVars
    PROVE  Inv'
<1>1. /\ Typed /\ "stalled" \in Steps
      /\ UNCHANGED <<open, handles, budget, ioTimeout, next, addresses, link, broken>>
  BY DEF Inv, Stall, Steps
<1>2. /\ at'[s] = "stalled" /\ timer' = timer /\ at' \in [Sides -> Steps]
      /\ \A p \in Sides : p # s => at'[p] = at[p]
  BY <1>1, GotoIs DEF Stall
<1>3. Typed'
  BY <1>1, <1>2 DEF Typed, tlsVars
<1>4. Owns(s)' /\ InTime(s)'
  BY <1>1, <1>2 DEF Inv, Owns, InTime, Over, Trying
<1>5. Alone(s) /\ Leads(at[s], at'[s])
  BY <1>1, <1>2 DEF Alone, Leads, Over
<1> QED BY <1>1, <1>3, <1>4, <1>5, SocketSafe

\* A deadline and a wait within it shrink together.
LEMMA TickSafe ==
    ASSUME Inv, Tick \/ Cut, UNCHANGED tlsVars
    PROVE  Inv'
<1>1. /\ Typed /\ UNCHANGED <<at, open, handles, ioTimeout, next, addresses, link>>
      /\ UNCHANGED <<wire, tls, got, iteration, received, secured, pinned, speaks, flights>>
      /\ broken' \in BOOLEAN
  BY DEF Inv, Typed, Tick, Cut, tlsVars
<1>2. /\ timer' \in [Sides -> Span] /\ budget' \in [Sides -> Span]
      /\ \A s \in Sides : InTime(s)'
  <2>1. CASE Tick
    <3>1. \A s \in Sides : timer[s] \in Span /\ budget[s] \in Span
      BY <1>1 DEF Typed
    <3>2. \A time \in Span : time \in Int /\ time >= 0 /\ Passed(time) \in Span
      BY TimesInSpan
    <3>3. timer' \in [Sides -> Span] /\ budget' \in [Sides -> Span]
      BY <2>1, <3>1, <3>2, TimesInSpan DEF Tick
    <3>4. ASSUME NEW s \in Sides, at[s] \in {"connecting", "receiving"}
          PROVE  timer'[s] <= budget'[s]
      <4>1. /\ timer'[s] = Passed(timer[s]) /\ budget'[s] = Passed(budget[s])
            /\ timer[s] > 0 /\ timer[s] <= budget[s]
        BY <2>1, <3>4 DEF Tick, Waiting, Inv, InTime
      <4> QED BY <3>1, <3>2, <4>1 DEF Passed
    <3> QED BY <1>1, <3>3, <3>4 DEF Inv, InTime
  <2>2. CASE UNCHANGED <<timer, budget>>
    BY <1>1, <2>2 DEF Inv, Typed, InTime
  <2> QED BY <2>1, <2>2 DEF Cut
<1>3. Typed'
  BY <1>1, <1>2 DEF Typed
<1>4. \A s \in Sides : (Owns(s) /\ Bounded(s) /\ Secure(s))'
  BY <1>1 DEF Inv, Owns, Owned, Tried, Bounded, Secure
<1>5. Chain'
  BY <1>1 DEF Inv, Chain, Carried
<1> QED BY <1>2, <1>3, <1>4, <1>5 DEF Inv
-------------------------------------------------------------------------------
(* The invariant holds, and with it the properties *)

\* The parts of a tuple of three.
LEMMA TripleParts ==
    ASSUME NEW triple, NEW first, NEW second, NEW third, triple = <<first, second, third>>
    PROVE  triple[1] = first /\ triple[2] = second /\ triple[3] = third
OBVIOUS

\* However the two are paired, their flights have a length.
LEMMA PairingsAre ==
    ASSUME NEW p \in Pairings
    PROVE  p[3] \in [Sides -> Nat]
<1> DEFINE short == [s \in Sides |-> ShortFlight]
<1>1. short \in [Sides -> Nat] /\ \A s \in Sides : [short EXCEPT ![s] = LongFlight] \in [Sides -> Nat]
  BY TransportAssumption
<1>2. PICK first, second, third : /\ p = <<first, second, third>>
                                  /\ \/ third = short
                                     \/ \E s \in Sides : third = [short EXCEPT ![s] = LongFlight]
  BY DEF Pairings
<1>3. p[3] = third
  BY <1>2, TripleParts
<1> QED BY <1>1, <1>2, <1>3

\* A tuple of two is a sequence of two.
LEMMA TwoAddresses ==
    ASSUME NEW S, NEW a \in S, NEW b \in S
    PROVE  <<a, b>> \in Seq(S) /\ Len(<<a, b>>) = 2
OBVIOUS

\* A program at its first step has nothing open and nothing received.
LEMMA StartsSafe == Init => Inv
<1> SUFFICES ASSUME Init
             PROVE  Inv
  OBVIOUS
<1>1. /\ at = [s \in Sides |-> IF s = "client" THEN "resolve" ELSE "listen"]
      /\ open = [s \in Sides |-> {}] /\ handles = open
      /\ timer = [s \in Sides |-> 0] /\ budget = timer /\ ioTimeout = timer
      /\ next = 1 /\ link = "none" /\ broken = FALSE
      /\ wire = [s \in Sides |-> <<>>] /\ tls = [s \in Sides |-> "start"]
      /\ got = [s \in Sides |-> {}] /\ iteration = [s \in Sides |-> 0] /\ received = iteration
      /\ secured = {}
  BY DEF Init, SocketInit
<1>2. addresses \in Seq({"other", "server"}) /\ 1 \in 1..(Len(addresses) + 1)
  <2>1. \A a, b \in {"other", "server"} :
            <<a, b>> \in Seq({"other", "server"}) /\ Len(<<a, b>>) = 2
    BY TwoAddresses
  <2>2. addresses \in Seq({"other", "server"}) /\ Len(addresses) = 2
    BY <2>1 DEF Init, SocketInit
  <2> QED BY <2>2
<1>3. flights \in [Sides -> Nat]
  BY PairingsAre DEF Init
<1>4. 0 \in 0..MaxIterations /\ 0 \in 0..(MaxReceived + Chunk) /\ 0 \in Span
  BY TransportAssumption, TimesInSpan
<1>5. Typed
  <2>1. at \in [Sides -> Steps]
    BY <1>1 DEF Steps, Waiting
  <2>2. <<>> \in Seq(PieceSet)
    OBVIOUS
  <2> QED BY <1>1, <1>2, <1>3, <1>4, <2>1, <2>2 DEF Typed
<1>6. ASSUME NEW s \in Sides
      PROVE  Owns(s) /\ InTime(s) /\ Bounded(s) /\ Secure(s)
  <2>1. at[s] = IF s = "client" THEN "resolve" ELSE "listen"
    BY <1>1, <1>6
  <2>2. /\ at[s] \notin Over \cup Trying \cup InTls \cup AfterTls
        /\ at[s] \notin {"connecting", "receiving", "handshake", "awaiting", "listening", "accept"}
    BY <2>1 DEF Over, Trying, InTls, AfterTls
  <2>3. Owned(s, at[s]) = {} /\ Tried(at[s]) = {}
    BY <1>6, <2>1, <2>2 DEF Owned, Tried, Sides
  <2>4. open[s] = {} /\ handles[s] = {} /\ tls[s] = "start"
    BY <1>1, <1>6
  <2> QED BY <1>1, <2>1, <2>2, <2>3, <2>4 DEF Owns, InTime, Bounded, Secure, Sides, Over
<1>7. Chain
  <2>1. Carried("server") = {} /\ Carried("client") = {} /\ at["client"] = "resolve"
    BY <1>1 DEF Carried, On, Sides
  <2> QED BY <1>1, <2>1 DEF Chain
<1> QED BY <1>5, <1>6, <1>7 DEF Inv

\* Every step keeps it.
LEMMA StepSafe == Inv /\ [Next]_vars => Inv'
<1>1. ASSUME Inv, Next
      PROVE  Inv'
  <2>1. ASSUME NEW s \in Sides, Step(s)
        PROVE  Inv'
    BY <1>1, <2>1, SocketStepSafe, CreateSafe, HandshakeSafe, ReceiveSafe, HelloSafe, ReadSafe
       DEF Step
  <2>2. ASSUME NEW s \in Sides, Stall(s), UNCHANGED tlsVars
        PROVE  Inv'
    BY <1>1, <2>2, StallSafe
  <2>3. ASSUME Tick \/ Cut, UNCHANGED tlsVars
        PROVE  Inv'
    BY <1>1, <2>3, TickSafe
  <2> QED BY <1>1, <2>1, <2>2, <2>3 DEF Next
<1>2. ASSUME Inv, UNCHANGED vars
      PROVE  Inv'
  BY <1>2 DEF vars, socketVars, tlsVars, Inv, Typed, Owns, Owned, Tried, InTime, Bounded, Secure,
              Chain, Carried, On
<1> QED BY <1>1, <1>2

\* So it holds in every state of every behaviour.
LEMMA InvariantHolds == Spec => []Inv
<1>1. Spec => Init /\ [][Next]_vars
  BY PTL DEF Spec
<1> QED BY <1>1, StartsSafe, StepSafe, PTL

\* tls_provider.cpp:133-150,305,32: whatever the peer sends, however it is cut into receives, no
\* round of the handshake or of receive counts past its bounds, and no wait is longer than the
\* timeouts it was made of.
THEOREM TypeCorrect == Spec => []TypeOK
<1>1. Inv => TypeOK
  <2> SUFFICES ASSUME Inv
               PROVE  TypeOK
    OBVIOUS
  <2>1. ASSUME NEW s \in Sides, NEW i \in DOMAIN wire[s]
        PROVE  wire[s][i].of \in Names
    <3>1. wire[s] \in Seq(PieceSet)
      BY DEF Inv, Typed
    <3>2. wire[s][i] \in PieceSet
      BY <3>1, <2>1
    <3> QED BY <3>2 DEF PieceSet
  <2> QED BY <2>1 DEF Inv, Typed, TypeOK, Span
<1> QED BY <1>1, InvariantHolds, PTL

\* The descriptors of different calls are different descriptors.
LEMMA DescriptorsDiffer ==
    /\ Listener # Accepted /\ Listener # Udp /\ Accepted # Udp
    /\ \A i : Candidate(i) \notin {Listener, Accepted, Udp}
<1>1. \A a, b, c, d : <<a, b>> = <<c, d>> => a = c
  OBVIOUS
<1> QED BY <1>1 DEF Listener, Accepted, Udp, Candidate

\* socket_provider.cpp:332-441, tls_provider.cpp:321-329: whichever call fails, at whichever
\* address and step, its descriptor is closed or owned, no wait outlasts its deadline, and a program
\* that comes to its session holds its connection and its UDP socket with the whole timeout.
THEOREM CallsEndCleanly == Spec => []CallsEndClean
<1>1. Inv => CallsEndClean
  <2> SUFFICES ASSUME Inv
               PROVE  CallsEndClean
    OBVIOUS
  <2>1. ASSUME NEW s \in Sides
        PROVE  /\ handles[s] \subseteq open[s]
               /\ at[s] # "stalled" =>
                      open[s] \ handles[s] = IF at[s] \in Trying THEN {Candidate(next)} ELSE {}
               /\ at[s] \in {"connecting", "receiving"} => timer[s] <= budget[s]
    <3>1. Owns(s) /\ InTime(s)
      BY DEF Inv
    <3>2. ASSUME at[s] \notin Over
          PROVE  open[s] \ handles[s] = IF at[s] \in Trying THEN {Candidate(next)} ELSE {}
      <4>1. handles[s] = Owned(s, at[s]) /\ open[s] = handles[s] \cup Tried(at[s])
        BY <3>1, <3>2 DEF Owns
      <4>2. CASE at[s] \in Trying
        <5>1. s # "server" /\ at[s] \notin InTls \cup AfterTls
          BY <3>1, <4>2 DEF Owns, Trying, InTls, AfterTls
        <5> QED BY <4>1, <4>2, <5>1 DEF Owned, Tried
      <4> QED BY <4>1, <4>2 DEF Tried
    <3>3. at[s] = "ended" => open[s] = {} /\ at[s] \notin Trying
      BY <3>1 DEF Owns, Trying
    <3> QED BY <3>1, <3>2, <3>3 DEF Owns, InTime, Over
  <2>2. SocketsAccountedFor
    BY <2>1 DEF SocketsAccountedFor, Trying
  <2>3. \A s \in secured : ioTimeout[s] = Timeout
    BY DEF Inv, Typed, Secure
  <2>4. ASSUME NEW s \in Sides, at[s] = "session"
        PROVE  handles[s] \ {Listener} = {Udp, IF s = "server" THEN Accepted ELSE Candidate(next)}
    <3>1. handles[s] = Owned(s, "session")
      BY <2>4 DEF Inv, Owns, Over
    <3> QED BY <3>1, DescriptorsDiffer DEF Owned, InTls, AfterTls
  <2> QED BY <2>2, <2>3, <2>4 DEF CallsEndClean
<1> QED BY <1>1, InvariantHolds, PTL

\* tls_provider.cpp:35-62,303-352: for every length of the flights, every bound and every order of
\* receives, stalls and cuts, a program that goes on was let on by the other's pin and ALPN.
THEOREM PeersAlwaysAgree == Spec => []PeersAgree
<1>1. Inv => PeersAgree
  <2> SUFFICES ASSUME Inv
               PROVE  PeersAgree
    OBVIOUS
  <2>1. \A s \in secured : s \in pinned /\ tls[s] = "done" /\ \A p \in Sides : speaks[p] = Ours
    BY DEF Inv, Typed, Secure
  <2>2. "server" \in secured => "client" \in pinned /\ tls["client"] = "done"
    BY DEF Inv, Chain, Carried
  <2>3. at["client"] = "session" => secured = Sides
    <3>1. at["client"] = "session" => "client" \in secured
      BY DEF Inv, Secure, Sides, AfterTls
    <3>2. at["client"] = "session" => "server" \in secured
      BY DEF Inv, Chain, Carried
    <3> QED BY <3>1, <3>2 DEF Inv, Typed, Sides
  <2> QED BY <2>1, <2>2, <2>3 DEF PeersAgree
<1> QED BY <1>1, InvariantHolds, PTL
================================================================================
