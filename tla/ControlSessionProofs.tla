------------------------ MODULE ControlSessionProofs ------------------------
(***************************************************************************)
(* What ControlSession guarantees for every width of the integers, every   *)
(* configured first stream ID and key epoch and every set of ports,        *)
(* parameters and timestamps.                                              *)
(***************************************************************************)
EXTENDS ControlSession, FiniteSetTheorems, TLAPS

\* The integer ranges, as SMT wants them.
LEMMA BottomIsId == 1 \in Id /\ 0 \in U32 /\ Id \subseteq U32 /\ MaxU32 \in Id
BY SessionAssumption DEF Id, U32

\* The calls on a session, whatever their arguments: the cases of every step proof below.
StepCases ==
    \/ \E id \in Id, port \in Ports : SessionHello(id, port)
    \/ \E id \in Id, sid \in SessionIds, port \in Ports : TransportBind(id, sid, port)
    \/ \E id \in Id, params \in StreamParams : StreamOpen(id, params)
    \/ \E id \in Id, s \in Id, ts \in Timestamps : StreamStart(id, s, ts)
    \/ \E id \in Id, s \in Id : StreamStop(id, s)
    \/ \E id \in Id, s \in Id : StreamClose(id, s)
    \/ \E id \in Id, s \in Id, e \in Id : StreamRekey(id, s, e)
    \/ \E id \in Id : Query(id, "STATUS_RESULT") \/ Query(id, "PING_RESULT")
    \/ \E id \in Id : SessionClose(id)
    \/ BadFrame
    \/ IngestAfterClose
    \/ \E s \in Id, e \in Id : MarkPathValidated(s, e)

\* A step is one handler on some request, or one path proof; metrics only cap the runs.
LEMMA NextCases == TypeOK /\ Next => StepCases
<1> SUFFICES ASSUME TypeOK, Next PROVE StepCases
  OBVIOUS
<1>1. CASE Ingest
  BY <1>1 DEF Ingest, StepCases
<1>2. ASSUME NEW key \in activated, MarkPathValidated(key[1], key[2])
      PROVE StepCases
  <2>1. key[1] \in Id /\ key[2] \in Id
    BY <1>2 DEF TypeOK
  <2> QED BY <1>2, <2>1 DEF StepCases
<1> QED BY <1>1, <1>2 DEF Next

-----------------------------------------------------------------------------
(* Type correctness. *)

\* Counting keeps the counters natural numbers.
LEMMA CountedTyped ==
    ASSUME TypeOK, NEW cs
    PROVE  Counted(cs) \in [Counters -> Nat]
BY DEF TypeOK, Counted

\* commit_action hands out a well-formed action and counts.
LEMMA AcceptTyped ==
    ASSUME TypeOK, NEW kind \in ResultKinds, NEW cs, Accept(kind, cs), stream' \in StreamType
    PROVE  metrics' \in [Counters -> Nat] /\ action' \in Actions
<1>1. stream'.id \in U32 /\ stream'.epoch \in U32
  BY DEF StreamType
<1>2. (state' = "CLOSED") \in BOOLEAN
  OBVIOUS
<1>3. action' \in Actions
  BY <1>1, <1>2 DEF Accept, Actions
<1> QED BY <1>3, CountedTyped DEF Accept

\* As AcceptTyped, for the close replies, which name the stream of the request.
LEMMA AcceptCloseTyped ==
    ASSUME TypeOK, NEW s \in Id, NEW cs, AcceptClose(s, cs), stream' \in StreamType
    PROVE  metrics' \in [Counters -> Nat] /\ action' \in Actions
<1>1. stream'.epoch \in U32 /\ s \in U32
  BY BottomIsId DEF StreamType
<1>2. action' \in Actions
  BY <1>1 DEF AcceptClose, Actions, ResultKinds
<1> QED BY <1>2, CountedTyped DEF AcceptClose

\* fill_error_action hands out a well-formed action.
LEMMA RejectedTyped ==
    ASSUME TypeOK, NEW kind \in {"ERROR_RESULT", "ERROR_CLOSE"}
    PROVE  RejectedAs(kind) \in Actions
<1>1. stream.id \in U32 /\ stream.epoch \in U32
  BY DEF TypeOK, StreamType
<1>2. (kind = "ERROR_CLOSE") \in BOOLEAN
  OBVIOUS
<1> QED BY <1>1, <1>2 DEF RejectedAs, Actions

\* A rejected call keeps every field in its range.
LEMMA ConflictTyped ==
    ASSUME TypeOK, Conflict, lastRequestId' \in U32
    PROVE  TypeOK'
BY CountedTyped, RejectedTyped DEF TypeOK, Conflict, bookkeeping

\* The erased stream fields are well-formed.
LEMMA NoStreamTyped == NoStream \in StreamType
BY BottomIsId DEF NoStream, StreamType

\* Every handler keeps every field in its range.
LEMMA StepTyped == TypeOK /\ [Next]_vars => TypeOK'
<1> SUFFICES ASSUME TypeOK, [Next]_vars PROVE TypeOK'
  OBVIOUS
<1> USE SessionAssumption, BottomIsId
<1>0. \A kind \in {"HELLO_RESULT", "BIND_RESULT", "OPEN_RESULT", "START_RESULT", "STOP_RESULT",
                  "REKEY_RESULT", "STATUS_RESULT", "PING_RESULT", "SESSION_CLOSE_RESULT"} :
        kind \in ResultKinds
  BY DEF ResultKinds
<1> USE <1>0
<1>1. ASSUME NEW id \in Id, NEW port \in Ports, SessionHello(id, port)
      PROVE TypeOK'
  <2>1. CASE Conflict
    BY <1>1, <2>1, ConflictTyped DEF SessionHello, Request
  <2>2. CASE state = "TLS_READY"
    BY <1>1, <2>2, AcceptTyped DEF SessionHello, Request, TypeOK, States, bookkeeping
  <2> QED BY <1>1, <2>1, <2>2 DEF SessionHello
<1>2. ASSUME NEW id \in Id, NEW sid \in SessionIds, NEW port \in Ports,
             TransportBind(id, sid, port)
      PROVE TypeOK'
  <2>1. CASE Conflict
    BY <1>2, <2>1, ConflictTyped DEF TransportBind, Request
  <2>2. CASE CanBind(sid, port)
    BY <1>2, <2>2, AcceptTyped DEF TransportBind, Request, TypeOK, States, bookkeeping
  <2> QED BY <1>2, <2>1, <2>2 DEF TransportBind
<1>3. ASSUME NEW id \in Id, NEW params \in StreamParams, StreamOpen(id, params)
      PROVE TypeOK'
  <2>1. CASE Conflict
    BY <1>3, <2>1, ConflictTyped DEF StreamOpen, Request
  <2>2. CASE /\ stream' = Opened(params)
             /\ state' = "STREAM_OPEN"
             /\ activated' = activated \union {<<stream'.id, stream'.epoch>>}
             /\ UNCHANGED <<windowsUdpPort, nextStreamId, lastClosedStreamId, proven>>
             /\ Accept("OPEN_RESULT", {})
    <3>1. /\ Opened(params) \in StreamType
          /\ Opened(params).id = nextStreamId
          /\ Opened(params).epoch = FirstKeyEpoch
      BY DEF Opened, TypeOK, StreamType, Id
    <3> QED
      BY <1>3, <2>2, <3>1, AcceptTyped DEF StreamOpen, Request, TypeOK, States, StreamStates, Id
  <2>3. CASE UNCHANGED <<state, windowsUdpPort, stream, bookkeeping>> /\ Accept("OPEN_RESULT", {})
    BY <1>3, <2>3, AcceptTyped DEF StreamOpen, Request, TypeOK, bookkeeping
  <2> QED BY <1>3, <2>1, <2>2, <2>3 DEF StreamOpen
<1>4. ASSUME NEW id \in Id, NEW s \in Id, NEW ts \in Timestamps, StreamStart(id, s, ts)
      PROVE TypeOK'
  <2>1. CASE Conflict
    BY <1>4, <2>1, ConflictTyped DEF StreamStart, Request
  <2>2. CASE CanStart(s, ts)
    <3>1. [stream EXCEPT !.timestamp = ts] \in StreamType
      BY DEF TypeOK, StreamType
    <3> QED
      BY <1>4, <2>2, <3>1, AcceptTyped
      DEF StreamStart, Request, TypeOK, States, StreamStates, bookkeeping
  <2> QED BY <1>4, <2>1, <2>2 DEF StreamStart
<1>5. ASSUME NEW id \in Id, NEW s \in Id, StreamStop(id, s)
      PROVE TypeOK'
  <2>1. CASE Conflict
    BY <1>5, <2>1, ConflictTyped DEF StreamStop, Request
  <2>2. CASE Active(s)
    BY <1>5, <2>2, AcceptTyped
    DEF StreamStop, Request, TypeOK, States, StreamStates, bookkeeping
  <2> QED BY <1>5, <2>1, <2>2 DEF StreamStop
<1>6. ASSUME NEW id \in Id, NEW s \in Id, StreamClose(id, s)
      PROVE TypeOK'
  <2>1. CASE Conflict
    BY <1>6, <2>1, ConflictTyped DEF StreamClose, Request
  <2>2. CASE /\ lastClosedStreamId' = s
             /\ nextStreamId' = NextStreamIdAfter(s)
             /\ stream' = Erased
             /\ state' = "BOUND"
             /\ UNCHANGED <<windowsUdpPort, activated, proven>>
             /\ AcceptClose(s, {"streams_closed"})
    <3>1. NextStreamIdAfter(s) \in Id
      BY DEF NextStreamIdAfter, TypeOK, Id
    <3> QED
      BY <1>6, <2>2, <3>1, AcceptCloseTyped, NoStreamTyped
      DEF StreamClose, Request, Erased, TypeOK, States
  <2>3. CASE UNCHANGED <<state, windowsUdpPort, stream, bookkeeping>> /\ AcceptClose(s, {})
    BY <1>6, <2>3, AcceptCloseTyped DEF StreamClose, Request, TypeOK, bookkeeping
  <2> QED BY <1>6, <2>1, <2>2, <2>3 DEF StreamClose
<1>7. ASSUME NEW id \in Id, NEW s \in Id, NEW e \in Id, StreamRekey(id, s, e)
      PROVE TypeOK'
  <2>1. CASE Conflict
    BY <1>7, <2>1, ConflictTyped DEF StreamRekey, Request
  <2>2. CASE /\ stream' = Rekeyed(e)
             /\ activated' = activated \union {<<s, e>>}
             /\ UNCHANGED <<state, windowsUdpPort, nextStreamId, lastClosedStreamId, proven>>
             /\ Accept("REKEY_RESULT", {"rekeys_committed"})
    <3>1. Rekeyed(e) \in StreamType
      BY DEF Rekeyed, TypeOK, StreamType
    <3> QED
      BY <1>7, <2>2, <3>1, AcceptTyped DEF StreamRekey, Request, TypeOK
  <2>3. CASE UNCHANGED <<state, windowsUdpPort, stream, bookkeeping>> /\ Accept("REKEY_RESULT", {})
    BY <1>7, <2>3, AcceptTyped DEF StreamRekey, Request, TypeOK, bookkeeping
  <2> QED BY <1>7, <2>1, <2>2, <2>3 DEF StreamRekey
<1>8. ASSUME NEW id \in Id, NEW kind \in {"STATUS_RESULT", "PING_RESULT"}, Query(id, kind)
      PROVE TypeOK'
  <2>1. CASE Conflict
    BY <1>8, <2>1, ConflictTyped DEF Query, Request
  <2>2. CASE UNCHANGED <<state, windowsUdpPort, stream, bookkeeping>> /\ Accept(kind, {})
    BY <1>8, <2>2, AcceptTyped DEF Query, Request, TypeOK, bookkeeping
  <2> QED BY <1>8, <2>1, <2>2 DEF Query
<1>9. ASSUME NEW id \in Id, SessionClose(id)
      PROVE TypeOK'
  <2>1. CASE Conflict
    BY <1>9, <2>1, ConflictTyped DEF SessionClose, Request
  <2>2. CASE state # "TLS_READY"
    <3>1. stream.id \in U32
      BY DEF TypeOK, StreamType
    <3>2. lastClosedStreamId' \in U32 /\ stream' \in StreamType
      BY <1>9, <2>2, <3>1, NoStreamTyped DEF SessionClose, Erased, TypeOK
    <3>3. \E cs : Accept("SESSION_CLOSE_RESULT", cs)
      BY <1>9, <2>2 DEF SessionClose
    <3>4. metrics' \in [Counters -> Nat] /\ action' \in Actions
      BY <3>2, <3>3, AcceptTyped
    <3> QED
      BY <1>9, <2>2, <3>2, <3>4 DEF SessionClose, Request, TypeOK, States
  <2> QED BY <1>9, <2>1, <2>2 DEF SessionClose
<1>10. CASE BadFrame
  BY <1>10, CountedTyped, RejectedTyped DEF BadFrame, CloseOnError, TypeOK, States, bookkeeping
<1>11. CASE IngestAfterClose
  BY <1>11, ConflictTyped DEF IngestAfterClose, TypeOK
<1>12. ASSUME NEW s \in Id, NEW e \in Id, MarkPathValidated(s, e)
       PROVE TypeOK'
  <2>1. CASE Conflict
    BY <1>12, <2>1, ConflictTyped DEF MarkPathValidated, TypeOK
  <2>2. CASE ProofMatches(s, e)
    <3>1. stream.epoch \in U32 /\ s \in U32
      BY DEF TypeOK, StreamType
    <3>2. stream' \in StreamType
      <4>1. stream' = [stream EXCEPT !.validated = TRUE]
        BY <1>12, <2>2 DEF MarkPathValidated
      <4> QED BY <4>1, Zenon DEF TypeOK, StreamType
    <3>3. action' = [kind |-> "PATH_VALIDATED", terminal |-> FALSE,
                     stream |-> s, epoch |-> stream.epoch]
      BY <1>12, <2>2 DEF MarkPathValidated
    <3>4. action' \in Actions
      BY <3>1, <3>3 DEF Actions, ResultKinds
    <3>5. /\ proven' = proven \union {<<s, e>>}
          /\ metrics' = Counted({"actions_emitted"})
          /\ UNCHANGED <<state, lastRequestId, windowsUdpPort, nextStreamId, lastClosedStreamId,
                        activated>>
      BY <1>12, <2>2 DEF MarkPathValidated
    <3> QED
      BY <3>2, <3>4, <3>5, CountedTyped DEF TypeOK
  <2> QED BY <1>12, <2>1, <2>2 DEF MarkPathValidated
<1>13. CASE UNCHANGED vars
  BY <1>13 DEF vars, TypeOK
<1> QED
  BY <1>1, <1>2, <1>3, <1>4, <1>5, <1>6, <1>7, <1>8, <1>9, <1>10, <1>11, <1>12, <1>13, NextCases
  DEF StepCases

\* Types hold for every width of the integers.
THEOREM TypeCorrect == Spec => []TypeOK
<1>1. Init => TypeOK
  <2> SUFFICES ASSUME Init PROVE TypeOK
    OBVIOUS
  <2>1. action \in Actions
    BY BottomIsId DEF Init, Actions
  <2>2. nextStreamId \in Id /\ lastRequestId \in U32 /\ lastClosedStreamId \in U32
    BY BottomIsId, SessionAssumption DEF Init, Id
  <2> QED BY <2>1, <2>2, NoStreamTyped DEF Init, TypeOK, States
<1> QED BY <1>1, StepTyped, PTL DEF Spec

-----------------------------------------------------------------------------
(* The inductive invariant. *)

\* A rejected call moves nothing that IInv reads but the action.
LEMMA ConflictSafe ==
    ASSUME IInv, Conflict
    PROVE  IInv'
BY DEF IInv, ProvenPathIsCurrent, StreamMatchesState, KeysInOrder, ReplyStillHolds, CurrentKey,
       StreamStates, Conflict, RejectedAs, bookkeeping

\* An answer that only reads the session.
LEMMA ReadOnlySafe ==
    ASSUME IInv, NEW kind \in {"HELLO_RESULT", "BIND_RESULT", "STATUS_RESULT", "PING_RESULT"},
           NEW cs, Accept(kind, cs), UNCHANGED <<state, stream, bookkeeping>>
    PROVE  IInv'
BY DEF IInv, ProvenPathIsCurrent, StreamMatchesState, KeysInOrder, ReplyStillHolds, CurrentKey,
       StreamStates, Accept, bookkeeping

\* Every handler keeps the inductive invariant.
LEMMA StepSafe == TypeOK /\ IInv /\ [Next]_vars => IInv'
<1> SUFFICES ASSUME TypeOK, IInv, [Next]_vars PROVE IInv'
  OBVIOUS
<1> USE SessionAssumption, BottomIsId
<1> USE DEF IInv, ProvenPathIsCurrent, StreamMatchesState, KeysInOrder, ReplyStillHolds,
            CurrentKey, StreamStates
<1>1. ASSUME NEW id \in Id, NEW port \in Ports, SessionHello(id, port)
      PROVE IInv'
  <2>1. CASE Conflict
    BY <2>1, ConflictSafe
  <2>2. CASE state = "TLS_READY"
    BY <1>1, <2>2 DEF SessionHello, Accept, bookkeeping
  <2> QED BY <1>1, <2>1, <2>2 DEF SessionHello
<1>2. ASSUME NEW id \in Id, NEW sid \in SessionIds, NEW port \in Ports,
             TransportBind(id, sid, port)
      PROVE IInv'
  <2>1. CASE Conflict
    BY <2>1, ConflictSafe
  <2>2. CASE CanBind(sid, port)
    BY <1>2, <2>2 DEF TransportBind, Accept, bookkeeping
  <2> QED BY <1>2, <2>1, <2>2 DEF TransportBind
<1>3. ASSUME NEW id \in Id, NEW params \in StreamParams, StreamOpen(id, params)
      PROVE IInv'
  <2>1. CASE Conflict
    BY <2>1, ConflictSafe
  <2>2. CASE /\ state = "BOUND"
             /\ stream' = Opened(params)
             /\ state' = "STREAM_OPEN"
             /\ activated' = activated \union {<<stream'.id, stream'.epoch>>}
             /\ UNCHANGED <<windowsUdpPort, nextStreamId, lastClosedStreamId, proven>>
             /\ Accept("OPEN_RESULT", {})
    <3>1. /\ stream'.id = nextStreamId
          /\ stream'.epoch = FirstKeyEpoch
          /\ stream'.params = params
          /\ stream'.validated = FALSE
      BY <2>2 DEF Opened
    <3>2. params # None /\ nextStreamId \in Nat
      BY DEF TypeOK, Id
    <3>3. KeysInOrder'
      BY <2>2, <3>1, <3>2
    <3> QED
      BY <2>2, <3>1, <3>2, <3>3 DEF Accept
  <2>3. CASE /\ RepeatsOpen(params)
             /\ UNCHANGED <<state, windowsUdpPort, stream, bookkeeping>>
             /\ Accept("OPEN_RESULT", {})
    BY <2>3 DEF RepeatsOpen, Accept, bookkeeping
  <2> QED BY <1>3, <2>1, <2>2, <2>3 DEF StreamOpen
<1>4. ASSUME NEW id \in Id, NEW s \in Id, NEW ts \in Timestamps, StreamStart(id, s, ts)
      PROVE IInv'
  <2>1. CASE Conflict
    BY <2>1, ConflictSafe
  <2>2. CASE CanStart(s, ts)
    <3>1. /\ stream'.id = stream.id /\ stream'.epoch = stream.epoch
          /\ stream'.params = stream.params /\ stream'.lastRekey = stream.lastRekey
          /\ stream'.timestamp = ts /\ stream'.validated = stream.validated
      BY <1>4, <2>2 DEF StreamStart, TypeOK, StreamType
    <3>2. ts # None /\ stream.validated
      BY <2>2 DEF CanStart
    <3> QED
      BY <1>4, <2>2, <3>1, <3>2 DEF StreamStart, CanStart, Active, Accept, bookkeeping
  <2> QED BY <1>4, <2>1, <2>2 DEF StreamStart
<1>5. ASSUME NEW id \in Id, NEW s \in Id, StreamStop(id, s)
      PROVE IInv'
  <2>1. CASE Conflict
    BY <2>1, ConflictSafe
  <2>2. CASE Active(s)
    BY <1>5, <2>2 DEF StreamStop, Active, Accept, bookkeeping
  <2> QED BY <1>5, <2>1, <2>2 DEF StreamStop
<1>6. ASSUME NEW id \in Id, NEW s \in Id, StreamClose(id, s)
      PROVE IInv'
  <2>1. CASE Conflict
    BY <2>1, ConflictSafe
  <2>2. CASE /\ Active(s)
             /\ lastClosedStreamId' = s
             /\ nextStreamId' = NextStreamIdAfter(s)
             /\ stream' = Erased
             /\ state' = "BOUND"
             /\ UNCHANGED <<windowsUdpPort, activated, proven>>
             /\ AcceptClose(s, {"streams_closed"})
    <3>1. stream.id = s /\ nextStreamId = s /\ s \in 1..MaxU32
      BY <2>2 DEF Active, Id
    <3>2. nextStreamId' = IF s # MaxU32 THEN s + 1 ELSE s
      BY <2>2, <3>1 DEF NextStreamIdAfter
    <3>3. \A key \in activated : key[1] \in Nat
      BY DEF TypeOK, Id
    <3>4. KeysInOrder'
      BY <2>2, <3>1, <3>2, <3>3
    <3> QED
      BY <2>2, <3>4 DEF Erased, NoStream, AcceptClose
  <2>3. CASE /\ state = "BOUND" /\ s = lastClosedStreamId
             /\ UNCHANGED <<state, windowsUdpPort, stream, bookkeeping>>
             /\ AcceptClose(s, {})
    BY <2>3 DEF AcceptClose, bookkeeping
  <2> QED BY <1>6, <2>1, <2>2, <2>3 DEF StreamClose
<1>7. ASSUME NEW id \in Id, NEW s \in Id, NEW e \in Id, StreamRekey(id, s, e)
      PROVE IInv'
  <2>1. CASE Conflict
    BY <2>1, ConflictSafe
  <2>2. CASE /\ Active(s) /\ NextEpoch(e)
             /\ stream' = Rekeyed(e)
             /\ activated' = activated \union {<<s, e>>}
             /\ UNCHANGED <<state, windowsUdpPort, nextStreamId, lastClosedStreamId, proven>>
             /\ Accept("REKEY_RESULT", {"rekeys_committed"})
    <3>1. /\ stream'.id = s /\ stream.id = s
          /\ stream'.epoch = e /\ stream'.lastRekey = e
          /\ stream'.params = stream.params /\ stream'.timestamp = stream.timestamp
          /\ stream'.validated = FALSE
      BY <2>2 DEF Rekeyed, Active
    <3>2. e = stream.epoch + 1 /\ stream.epoch \in Nat
      BY <2>2 DEF NextEpoch, Id, U32, TypeOK, StreamType
    <3>3. \A key \in activated : key[2] \in Nat
      BY DEF TypeOK, Id
    <3>4. KeysInOrder'
      <4>1. s \in Nat /\ e \in Nat /\ nextStreamId = s /\ state \in StreamStates
        BY <2>2, <3>1 DEF Id, Active
      <4>2. /\ state' = state /\ nextStreamId' = nextStreamId
            /\ activated' = activated \union {<<s, e>>}
        BY <2>2
      <4> QED BY <3>1, <3>2, <3>3, <4>1, <4>2
    <3> QED
      BY <2>2, <3>1, <3>4 DEF Accept, Active
  <2>3. CASE /\ Active(s) /\ RepeatsRekey(e)
             /\ UNCHANGED <<state, windowsUdpPort, stream, bookkeeping>>
             /\ Accept("REKEY_RESULT", {})
    BY <2>3 DEF Active, RepeatsRekey, Accept, bookkeeping
  <2> QED BY <1>7, <2>1, <2>2, <2>3 DEF StreamRekey
<1>8. ASSUME NEW id \in Id, NEW kind \in {"STATUS_RESULT", "PING_RESULT"}, Query(id, kind)
      PROVE IInv'
  BY <1>8, ConflictSafe, ReadOnlySafe DEF Query
<1>9. ASSUME NEW id \in Id, SessionClose(id)
      PROVE IInv'
  <2>1. CASE Conflict
    BY <2>1, ConflictSafe
  <2>2. CASE state # "TLS_READY"
    <3>1. stream' = stream \/ stream' = NoStream
      BY <1>9, <2>2 DEF SessionClose, Erased
    <3>2. ProvenPathIsCurrent'
      BY <1>9, <2>2, <3>1 DEF SessionClose, NoStream
    <3>3. \E cs : Accept("SESSION_CLOSE_RESULT", cs)
      BY <1>9, <2>2 DEF SessionClose
    <3>4. ReplyStillHolds'
      BY <3>3 DEF Accept
    <3> QED
      BY <1>9, <2>2, <3>2, <3>4 DEF SessionClose
  <2> QED BY <1>9, <2>1, <2>2 DEF SessionClose
<1>10. CASE BadFrame
  BY <1>10 DEF BadFrame, CloseOnError, RejectedAs, bookkeeping
<1>11. CASE IngestAfterClose
  BY <1>11, ConflictSafe DEF IngestAfterClose
<1>12. ASSUME NEW s \in Id, NEW e \in Id, MarkPathValidated(s, e)
       PROVE IInv'
  <2>1. CASE Conflict
    BY <2>1, ConflictSafe
  <2>2. CASE ProofMatches(s, e)
    <3>1. /\ stream'.id = stream.id /\ stream'.epoch = stream.epoch
          /\ stream'.params = stream.params /\ stream'.timestamp = stream.timestamp
      <4>1. stream' = [stream EXCEPT !.validated = TRUE]
        BY <1>12, <2>2 DEF MarkPathValidated
      <4> QED BY <4>1 DEF TypeOK, StreamType
    <3>2. /\ proven' = proven \union {<<s, e>>}
          /\ action'.kind = "PATH_VALIDATED"
          /\ UNCHANGED <<state, windowsUdpPort, nextStreamId, lastClosedStreamId, activated>>
      BY <1>12, <2>2 DEF MarkPathValidated
    <3>3. CurrentKey = <<s, e>> /\ state \in StreamStates
      BY <2>2 DEF ProofMatches, Active
    <3> QED
      BY <3>1, <3>2, <3>3
  <2> QED BY <1>12, <2>1, <2>2 DEF MarkPathValidated
<1>13. CASE UNCHANGED vars
  BY <1>13 DEF vars
<1> QED
  BY <1>1, <1>2, <1>3, <1>4, <1>5, <1>6, <1>7, <1>8, <1>9, <1>10, <1>11, <1>12, <1>13, NextCases
  DEF StepCases

\* The inductive invariant holds of every behaviour.
THEOREM Safety == Spec => [](TypeOK /\ IInv)
<1>1. Init => IInv
  BY DEF Init, IInv, ProvenPathIsCurrent, StreamMatchesState, KeysInOrder, ReplyStillHolds,
         NoStream, StreamStates
<1> QED BY <1>1, TypeCorrect, StepSafe, PTL DEF Spec

\* A late, duplicated or reordered path proof never makes the session trust the path of a
\* key that was not itself proven.
THEOREM ProvenPathAlwaysCurrent == Spec => []ProvenPathIsCurrent
<1>1. IInv => ProvenPathIsCurrent
  BY DEF IInv
<1> QED BY <1>1, Safety, PTL

-----------------------------------------------------------------------------
(* Action properties. *)

\* Whatever is ingested and whichever proof arrives, a closed session stays as it is.
THEOREM ClosedStaysClosed == Spec => ClosedIsFinal
<1> DEFINE Frozen == UNCHANGED <<state, lastRequestId, windowsUdpPort, stream, bookkeeping>>
<1>1. TypeOK /\ [Next]_vars => [state = "CLOSED" => Frozen]_vars
  <2> SUFFICES ASSUME TypeOK, Next, state = "CLOSED" PROVE Frozen
    OBVIOUS
  <2>1. ~\E id \in Id : Request(id)
    BY DEF Request
  <2>2. IngestAfterClose \/ \E s \in Id, e \in Id : MarkPathValidated(s, e)
    BY <2>1, NextCases
    DEF StepCases, SessionHello, TransportBind, StreamOpen, StreamStart, StreamStop, StreamClose,
        StreamRekey, Query, SessionClose, BadFrame
  <2>3. CASE IngestAfterClose
    BY <2>3 DEF IngestAfterClose, Conflict
  <2>4. ASSUME NEW s \in Id, NEW e \in Id, MarkPathValidated(s, e)
        PROVE Frozen
    <3>1. ~ProofMatches(s, e)
      BY DEF ProofMatches, Active, StreamStates
    <3> QED BY <2>4, <3>1 DEF MarkPathValidated, Conflict
  <2> QED BY <2>2, <2>3, <2>4
<1> QED BY <1>1, TypeCorrect, PTL DEF Spec, ClosedIsFinal

\* A client that lost a reply may repeat its request under a new ID.
THEOREM RetriesAccepted == Spec => RetriesAreIdempotent
<1> DEFINE Repeated(id) ==
        \/ action.kind = "OPEN_RESULT" /\ StreamOpen(id, stream.params)
        \/ action.kind = "START_RESULT" /\ StreamStart(id, action.stream, stream.timestamp)
        \/ action.kind = "STOP_RESULT" /\ StreamStop(id, action.stream)
        \/ action.kind = "CLOSE_RESULT" /\ StreamClose(id, action.stream)
        \/ action.kind = "REKEY_RESULT" /\ StreamRekey(id, action.stream, action.epoch)
    Harmless == action'.kind = action.kind /\ UNCHANGED <<state, stream, bookkeeping>>
<1>1. TypeOK /\ IInv /\ [Next]_vars => [\A id \in Id : Repeated(id) => Harmless]_vars
  <2> SUFFICES ASSUME TypeOK, IInv, NEW id \in Id, Repeated(id) PROVE Harmless
    OBVIOUS
  <2> USE DEF IInv, StreamMatchesState, ReplyStillHolds, CurrentKey, StreamStates
  <2>0. state \in StreamStates => stream.id # 0
    BY DEF TypeOK, Id
  <2>1. CASE action.kind = "OPEN_RESULT" /\ StreamOpen(id, stream.params)
    BY <2>1 DEF StreamOpen, RepeatsOpen, Accept
  <2>2. CASE action.kind = "START_RESULT" /\ StreamStart(id, action.stream, stream.timestamp)
    <3>1. CanStart(action.stream, stream.timestamp)
      BY <2>0, <2>2 DEF CanStart, Active
    <3>2. [stream EXCEPT !.timestamp = stream.timestamp] = stream
      BY DEF TypeOK, StreamType
    <3> QED BY <2>2, <3>1, <3>2 DEF StreamStart, Accept
  <2>3. CASE action.kind = "STOP_RESULT" /\ StreamStop(id, action.stream)
    BY <2>0, <2>3 DEF StreamStop, Active, Accept
  <2>4. CASE action.kind = "CLOSE_RESULT" /\ StreamClose(id, action.stream)
    BY <2>4 DEF StreamClose, Active, AcceptClose
  <2>5. CASE action.kind = "REKEY_RESULT" /\ StreamRekey(id, action.stream, action.epoch)
    <3>1. stream.epoch \in Id
      BY <2>5 DEF TypeOK
    <3>2. ~NextEpoch(action.epoch)
      BY <2>5, <3>1 DEF NextEpoch, Id
    <3>3. RepeatsRekey(action.epoch) /\ Active(action.stream)
      BY <2>0, <2>5 DEF RepeatsRekey, Active
    <3> QED BY <2>5, <3>2, <3>3 DEF StreamRekey, Accept
  <2> QED BY <2>1, <2>2, <2>3, <2>4, <2>5
<1> QED BY <1>1, Safety, PTL DEF Spec, RetriesAreIdempotent

-----------------------------------------------------------------------------
(* Refinement: the session hands out media keys as KeySchedule says. *)

\* A call that moves none of the key's fields is a stutter of the key schedule.
LEMMA UnmovedKey ==
    ASSUME UNCHANGED <<activated, state, stream>>
    PROVE  UNCHANGED Schedule!vars
BY DEF Schedule!vars, CurrentKey, StreamStates

\* Leaving the stream states closes the key.
LEMMA ClosedKey ==
    ASSUME UNCHANGED activated, state' \notin StreamStates
    PROVE  Schedule!Close
BY DEF Schedule!Close, StreamStates

\* Every handler is a step of the key schedule, or leaves it alone.
LEMMA StepRefines == TypeOK /\ IInv /\ [Next]_vars => [Schedule!Next]_(Schedule!vars)
<1> SUFFICES ASSUME TypeOK, IInv, [Next]_vars
             PROVE  Schedule!Next \/ UNCHANGED Schedule!vars
  OBVIOUS
<1> USE SessionAssumption
<1>0. Conflict => UNCHANGED Schedule!vars
  BY UnmovedKey DEF Conflict, bookkeeping
<1>1. ASSUME NEW id \in Id, NEW port \in Ports, SessionHello(id, port)
      PROVE UNCHANGED Schedule!vars
  <2>1. CASE state = "TLS_READY"
    BY <1>1, <2>1 DEF SessionHello, bookkeeping, Schedule!vars, StreamStates
  <2> QED BY <1>0, <1>1, <2>1 DEF SessionHello
<1>2. ASSUME NEW id \in Id, NEW sid \in SessionIds, NEW port \in Ports,
             TransportBind(id, sid, port)
      PROVE UNCHANGED Schedule!vars
  <2>1. CASE CanBind(sid, port)
    BY <1>2, <2>1 DEF TransportBind, bookkeeping, Schedule!vars, StreamStates, CurrentKey
  <2> QED BY <1>0, <1>2, <2>1 DEF TransportBind
<1>3. ASSUME NEW id \in Id, NEW params \in StreamParams, StreamOpen(id, params)
      PROVE Schedule!Next \/ UNCHANGED Schedule!vars
  <2>1. CASE /\ state = "BOUND"
             /\ stream' = Opened(params)
             /\ state' = "STREAM_OPEN"
             /\ activated' = activated \union {<<stream'.id, stream'.epoch>>}
    <3>1. CurrentKey' = <<nextStreamId, FirstKeyEpoch>> /\ stream'.validated = FALSE
      BY <2>1 DEF Opened, CurrentKey
    <3>2. \A key \in activated : key[1] < nextStreamId \/ nextStreamId = MaxU32
      BY <2>1 DEF IInv, KeysInOrder
    <3>3. Schedule!Open(nextStreamId)
      BY <2>1, <3>1, <3>2 DEF Schedule!Open, StreamStates, CurrentKey
    <3> QED BY <3>3 DEF Schedule!Next, TypeOK, Id
  <2>2. CASE UNCHANGED <<state, windowsUdpPort, stream, bookkeeping>>
    BY <2>2, UnmovedKey DEF bookkeeping
  <2> QED BY <1>0, <1>3, <2>1, <2>2 DEF StreamOpen
<1>4. ASSUME NEW id \in Id, NEW s \in Id, NEW ts \in Timestamps, StreamStart(id, s, ts)
      PROVE Schedule!Next \/ UNCHANGED Schedule!vars
  <2>1. CASE CanStart(s, ts)
    <3>1. /\ stream'.id = stream.id /\ stream'.epoch = stream.epoch
          /\ stream'.validated = stream.validated
          /\ activated' = activated /\ state' = "STREAMING"
      BY <1>4, <2>1 DEF StreamStart, TypeOK, StreamType, bookkeeping
    <3>2. state \in StreamStates /\ stream.validated
      BY <2>1 DEF CanStart, Active
    <3>3. Schedule!Start
      BY <3>1, <3>2 DEF Schedule!Start, CurrentKey, StreamStates
    <3> QED BY <3>3 DEF Schedule!Next
  <2> QED BY <1>0, <1>4, <2>1 DEF StreamStart
<1>5. ASSUME NEW id \in Id, NEW s \in Id, StreamStop(id, s)
      PROVE Schedule!Next \/ UNCHANGED Schedule!vars
  <2>1. CASE Active(s)
    BY <1>5, <2>1
    DEF StreamStop, Active, bookkeeping, Schedule!Next, Schedule!Stop, StreamStates, CurrentKey
  <2> QED BY <1>0, <1>5, <2>1 DEF StreamStop
<1>6. ASSUME NEW id \in Id, NEW s \in Id, StreamClose(id, s)
      PROVE Schedule!Next \/ UNCHANGED Schedule!vars
  <2>1. CASE state' = "BOUND" /\ UNCHANGED activated
    BY <2>1, ClosedKey DEF Schedule!Next, StreamStates
  <2> QED BY <1>0, <1>6, <2>1 DEF StreamClose, bookkeeping
<1>7. ASSUME NEW id \in Id, NEW s \in Id, NEW e \in Id, StreamRekey(id, s, e)
      PROVE Schedule!Next \/ UNCHANGED Schedule!vars
  <2>1. CASE /\ Active(s) /\ NextEpoch(e)
             /\ stream' = Rekeyed(e)
             /\ activated' = activated \union {<<s, e>>}
             /\ state' = state
    <3>1. /\ CurrentKey = <<s, stream.epoch>> /\ CurrentKey' = <<s, e>>
          /\ stream'.validated = FALSE /\ state \in StreamStates
      BY <2>1 DEF Rekeyed, CurrentKey, Active
    <3>2. stream.epoch \in 0..MaxU32 /\ stream.epoch # MaxU32 /\ e = stream.epoch + 1
      BY <2>1 DEF NextEpoch, Id, U32, TypeOK, StreamType
    <3>3. <<s, e>> \notin activated \/ s = MaxU32
      <4>1. SUFFICES ASSUME <<s, e>> \in activated, s # MaxU32 PROVE FALSE
        OBVIOUS
      <4>2. s < stream.id \/ stream.id = MaxU32 \/ e <= stream.epoch
        BY <3>1, <4>1 DEF IInv, KeysInOrder
      <4> QED BY <2>1, <3>2, <4>1, <4>2 DEF Active, Id
    <3>4. Schedule!Rekey
      <4>1. \E key \in {CurrentKey} :
              /\ key[2] < MaxU32
              /\ Schedule!Fresh(<<key[1], key[2] + 1>>)
              /\ {CurrentKey'} = {<<key[1], key[2] + 1>>}
        BY <3>1, <3>2, <3>3 DEF Schedule!Fresh
      <4> QED BY <2>1, <3>1, <4>1 DEF Schedule!Rekey, StreamStates
    <3> QED BY <3>4 DEF Schedule!Next
  <2>2. CASE UNCHANGED <<state, windowsUdpPort, stream, bookkeeping>>
    BY <2>2, UnmovedKey DEF bookkeeping
  <2> QED BY <1>0, <1>7, <2>1, <2>2 DEF StreamRekey
<1>8. ASSUME NEW id \in Id, NEW kind \in {"STATUS_RESULT", "PING_RESULT"}, Query(id, kind)
      PROVE UNCHANGED Schedule!vars
  BY <1>0, <1>8, UnmovedKey DEF Query, bookkeeping
<1>9. ASSUME NEW id \in Id, SessionClose(id)
      PROVE Schedule!Next \/ UNCHANGED Schedule!vars
  <2>1. CASE state' = "CLOSED" /\ UNCHANGED activated
    BY <2>1, ClosedKey DEF Schedule!Next, StreamStates
  <2> QED BY <1>0, <1>9, <2>1 DEF SessionClose
<1>10. CASE BadFrame
  BY <1>10, ClosedKey DEF BadFrame, CloseOnError, bookkeeping, Schedule!Next, StreamStates
<1>11. CASE IngestAfterClose
  BY <1>0, <1>11 DEF IngestAfterClose
<1>12. ASSUME NEW s \in Id, NEW e \in Id, MarkPathValidated(s, e)
       PROVE Schedule!Next \/ UNCHANGED Schedule!vars
  <2>1. CASE ProofMatches(s, e)
    <3>1. stream' = [stream EXCEPT !.validated = TRUE]
      BY <1>12, <2>1 DEF MarkPathValidated
    <3>2. stream'.id = stream.id /\ stream'.epoch = stream.epoch /\ stream'.validated = TRUE
      BY <3>1 DEF TypeOK, StreamType
    <3>3. state \in StreamStates /\ state' = state /\ activated' = activated
      BY <1>12, <2>1 DEF MarkPathValidated, ProofMatches, Active
    <3>4. Schedule!Prove
      BY <3>2, <3>3 DEF Schedule!Prove, CurrentKey, StreamStates
    <3> QED BY <3>4 DEF Schedule!Next
  <2> QED BY <1>0, <1>12, <2>1 DEF MarkPathValidated
<1>13. CASE UNCHANGED vars
  BY <1>13, UnmovedKey DEF vars
<1> QED
  BY <1>1, <1>2, <1>3, <1>4, <1>5, <1>6, <1>7, <1>8, <1>9, <1>10, <1>11, <1>12, <1>13, NextCases
  DEF StepCases

\* No media key is handed out twice below the last stream ID, and audio starts only on the
\* proven path of the key in use, whatever the client sends and UDP delivers.
THEOREM SessionImplementsKeySchedule == Spec => ImplementsKeySchedule
<1>1. Init => Schedule!Init
  BY DEF Init, Schedule!Init, StreamStates
<1>2. Spec => Schedule!Spec
  BY <1>1, StepRefines, Safety, PTL DEF Spec, Schedule!Spec
<1> QED BY <1>2 DEF ImplementsKeySchedule

-----------------------------------------------------------------------------
(* The counters. *)

\* Every answer and every proven path was an action; a rejection is a conflict or an error.
AnswersAreCounted ==
    /\ IsFiniteSet(proven)
    /\ metrics["rejected_requests"] = metrics["state_conflicts"] + metrics["protocol_errors"]
    /\ metrics["actions_emitted"] >=
            metrics["valid_requests"] + metrics["rejected_requests"] + Cardinality(proven)

\* A stream that plays was started once more than it was stopped.
StopsFollowStarts ==
    metrics["streams_stopped"] + (IF state = "STREAMING" THEN 1 ELSE 0)
        <= metrics["streams_started"]

\* Until the last stream ID has been closed, every key below the one in use is an older one,
\* so each stream.open counts a new ID and each stream.rekey a new key.
KeysAreCounted ==
    /\ IsFiniteSet(activated) /\ IsFiniteSet(ActivatedIds)
    /\ lastClosedStreamId = MaxU32 /\ state # "CLOSED" => nextStreamId = MaxU32
    /\ lastClosedStreamId # MaxU32 =>
           /\ metrics["streams_closed"] + StreamsHeld = Cardinality(ActivatedIds)
           /\ metrics["rekeys_committed"] + Cardinality(ActivatedIds) = Cardinality(activated)
           /\ state = "BOUND" => \A key \in activated : key[1] < nextStreamId
           /\ state \in StreamStates =>
                  \A key \in activated :
                      key[1] < stream.id \/ (key[1] = stream.id /\ key[2] <= stream.epoch)

\* The inductive invariant behind CountersTellHistory.
CountsIInv == AnswersAreCounted /\ StopsFollowStarts /\ KeysAreCounted

\* The counters that follow the stream, and what an action adds to them.
StreamCounters == {"streams_started", "streams_stopped", "streams_closed", "rekeys_committed"}
Adds(cs) ==
    \A c \in StreamCounters : metrics'[c] = IF c \in cs THEN metrics[c] + 1 ELSE metrics[c]

\* An accepted request is an action.
LEMMA AcceptCounts ==
    ASSUME TypeOK, AnswersAreCounted, NEW cs, cs \subseteq StreamCounters, UNCHANGED proven,
           metrics' = Counted({"valid_requests", "actions_emitted"} \union cs)
    PROVE  AnswersAreCounted' /\ Adds(cs)
<1>1. /\ metrics'["valid_requests"] = metrics["valid_requests"] + 1
      /\ metrics'["actions_emitted"] = metrics["actions_emitted"] + 1
      /\ metrics'["rejected_requests"] = metrics["rejected_requests"]
      /\ metrics'["state_conflicts"] = metrics["state_conflicts"]
      /\ metrics'["protocol_errors"] = metrics["protocol_errors"]
  BY DEF Counted, Counters, StreamCounters
<1>2. Adds(cs)
  BY DEF Counted, Counters, StreamCounters, Adds
<1>3. /\ metrics["valid_requests"] \in Nat /\ metrics["actions_emitted"] \in Nat
      /\ metrics["rejected_requests"] \in Nat /\ Cardinality(proven) \in Nat
  BY FS_CardinalityType DEF TypeOK, Counters, AnswersAreCounted
<1> QED BY <1>1, <1>2, <1>3 DEF AnswersAreCounted

\* So is a rejected one.
LEMMA RejectCounts ==
    ASSUME TypeOK, AnswersAreCounted, NEW kind \in {"state_conflicts", "protocol_errors"},
           UNCHANGED proven, metrics' = Counted({kind, "rejected_requests", "actions_emitted"})
    PROVE  AnswersAreCounted' /\ Adds({})
<1>1. /\ metrics'["valid_requests"] = metrics["valid_requests"]
      /\ metrics'["actions_emitted"] = metrics["actions_emitted"] + 1
      /\ metrics'["rejected_requests"] = metrics["rejected_requests"] + 1
      /\ \/ /\ metrics'["state_conflicts"] = metrics["state_conflicts"] + 1
            /\ metrics'["protocol_errors"] = metrics["protocol_errors"]
         \/ /\ metrics'["state_conflicts"] = metrics["state_conflicts"]
            /\ metrics'["protocol_errors"] = metrics["protocol_errors"] + 1
  <2>1. CASE kind = "state_conflicts"
    BY <2>1 DEF Counted, Counters
  <2>2. CASE kind = "protocol_errors"
    BY <2>2 DEF Counted, Counters
  <2> QED BY <2>1, <2>2
<1>2. Adds({})
  BY DEF Counted, Counters, StreamCounters, Adds
<1>3. /\ metrics["valid_requests"] \in Nat /\ metrics["actions_emitted"] \in Nat
      /\ metrics["rejected_requests"] \in Nat /\ Cardinality(proven) \in Nat
      /\ metrics["state_conflicts"] \in Nat /\ metrics["protocol_errors"] \in Nat
  BY FS_CardinalityType DEF TypeOK, Counters, AnswersAreCounted
<1> QED BY <1>1, <1>2, <1>3 DEF AnswersAreCounted

\* A step that moves no stream, key or stream counter.
LEMMA NothingMoved ==
    ASSUME TypeOK, IInv, StopsFollowStarts, KeysAreCounted, Adds({}),
           UNCHANGED <<nextStreamId, lastClosedStreamId, activated>>,
           stream'.id = stream.id, stream'.epoch = stream.epoch,
           \/ state' \in {state, "CLOSED"}
           \/ state \in {"TLS_READY", "HELLO"} /\ state' \in {"HELLO", "BOUND"}
    PROVE  StopsFollowStarts' /\ KeysAreCounted'
<1>1. /\ metrics'["streams_started"] = metrics["streams_started"]
      /\ metrics'["streams_stopped"] = metrics["streams_stopped"]
      /\ metrics'["streams_closed"] = metrics["streams_closed"]
      /\ metrics'["rekeys_committed"] = metrics["rekeys_committed"]
      /\ metrics["streams_started"] \in Nat /\ metrics["streams_stopped"] \in Nat
  BY DEF Adds, StreamCounters, TypeOK, Counters
<1>2. StopsFollowStarts'
  BY <1>1 DEF StopsFollowStarts
<1>3. ActivatedIds' = ActivatedIds /\ StreamsHeld' = StreamsHeld
  BY DEF ActivatedIds, StreamsHeld
<1>4. state \in {"TLS_READY", "HELLO"} => activated = {}
  BY DEF IInv, KeysInOrder
<1>5. KeysAreCounted'
  BY <1>1, <1>3, <1>4 DEF KeysAreCounted, StreamStates
<1> QED BY <1>2, <1>5

\* A rejected call.
LEMMA ConflictCounts ==
    ASSUME TypeOK, IInv, CountsIInv, Conflict
    PROVE  CountsIInv'
<1>1. AnswersAreCounted' /\ Adds({})
  BY RejectCounts DEF Conflict, CountsIInv, bookkeeping
<1>2. StopsFollowStarts' /\ KeysAreCounted'
  BY <1>1, NothingMoved DEF Conflict, CountsIInv, bookkeeping
<1> QED BY <1>1, <1>2 DEF CountsIInv

\* An accepted request that moves no stream and no key.
LEMMA AcceptedOnly ==
    ASSUME TypeOK, IInv, CountsIInv,
           metrics' = Counted({"valid_requests", "actions_emitted"} \union {}),
           UNCHANGED <<nextStreamId, lastClosedStreamId, activated, proven>>,
           stream'.id = stream.id, stream'.epoch = stream.epoch,
           \/ state' \in {state, "CLOSED"}
           \/ state \in {"TLS_READY", "HELLO"} /\ state' \in {"HELLO", "BOUND"}
    PROVE  CountsIInv'
<1>1. AnswersAreCounted' /\ Adds({})
  BY AcceptCounts DEF CountsIInv
<1>2. StopsFollowStarts' /\ KeysAreCounted'
  BY <1>1, NothingMoved DEF CountsIInv
<1> QED BY <1>1, <1>2 DEF CountsIInv

\* A new key, of a stream with an ID, is counted as such.
LEMMA KeyAdded ==
    ASSUME TypeOK, KeysAreCounted, NEW s \in Id, NEW e \in Id,
           activated' = activated \union {<<s, e>>}
    PROVE  /\ ActivatedIds' = ActivatedIds \union {s}
           /\ IsFiniteSet(activated') /\ IsFiniteSet(ActivatedIds')
           /\ Cardinality(activated) \in Nat /\ Cardinality(ActivatedIds) \in Nat
           /\ <<s, e>> \notin activated => Cardinality(activated') = Cardinality(activated) + 1
           /\ s \notin ActivatedIds => Cardinality(ActivatedIds') = Cardinality(ActivatedIds) + 1
<1>1. IsFiniteSet(activated) /\ IsFiniteSet(ActivatedIds)
  BY DEF KeysAreCounted
<1>2. ActivatedIds' = ActivatedIds \union {s}
  <2>1. <<s, e>>[1] = s
    OBVIOUS
  <2> QED BY <2>1 DEF ActivatedIds
<1> HIDE DEF ActivatedIds
<1>3. Cardinality(activated) \in Nat /\ Cardinality(ActivatedIds) \in Nat
  BY <1>1, FS_CardinalityType
<1>4. /\ IsFiniteSet(activated \union {<<s, e>>})
      /\ <<s, e>> \notin activated =>
             Cardinality(activated \union {<<s, e>>}) = Cardinality(activated) + 1
  BY <1>1, FS_AddElement
<1>5. /\ IsFiniteSet(ActivatedIds \union {s})
      /\ s \notin ActivatedIds =>
             Cardinality(ActivatedIds \union {s}) = Cardinality(ActivatedIds) + 1
  BY <1>1, FS_AddElement
<1> QED BY <1>2, <1>3, <1>4, <1>5

\* A stream.open is the first use of its ID, below the top of the ID space.
LEMMA OpenCounts ==
    ASSUME TypeOK, IInv, CountsIInv, NEW params \in StreamParams,
           state = "BOUND", state' = "STREAM_OPEN", stream' = Opened(params),
           activated' = activated \union {<<stream'.id, stream'.epoch>>},
           UNCHANGED <<nextStreamId, lastClosedStreamId, proven>>,
           Accept("OPEN_RESULT", {})
    PROVE  CountsIInv'
<1>1. AnswersAreCounted' /\ Adds({})
  BY AcceptCounts DEF CountsIInv, Accept
<1>2. /\ metrics'["streams_started"] = metrics["streams_started"]
      /\ metrics'["streams_stopped"] = metrics["streams_stopped"]
      /\ metrics'["streams_closed"] = metrics["streams_closed"]
      /\ metrics'["rekeys_committed"] = metrics["rekeys_committed"]
      /\ \A c \in StreamCounters : metrics[c] \in Nat
  BY <1>1 DEF Adds, StreamCounters, TypeOK, Counters
<1>3. StopsFollowStarts'
  BY <1>2 DEF CountsIInv, StopsFollowStarts
<1>4. /\ stream'.id = nextStreamId /\ stream'.epoch = FirstKeyEpoch
      /\ nextStreamId \in Id /\ FirstKeyEpoch \in Id /\ nextStreamId # 0
      /\ stream.id = 0
  BY SessionAssumption DEF Opened, TypeOK, Id, IInv, StreamMatchesState, NoStream, StreamStates
<1>5. /\ ActivatedIds' = ActivatedIds \union {nextStreamId}
      /\ IsFiniteSet(activated') /\ IsFiniteSet(ActivatedIds')
      /\ Cardinality(activated) \in Nat /\ Cardinality(ActivatedIds) \in Nat
      /\ <<nextStreamId, FirstKeyEpoch>> \notin activated =>
             Cardinality(activated') = Cardinality(activated) + 1
      /\ nextStreamId \notin ActivatedIds =>
             Cardinality(ActivatedIds') = Cardinality(ActivatedIds) + 1
  BY <1>4, KeyAdded DEF CountsIInv
<1>6. StreamsHeld = 0 /\ StreamsHeld' = 1
  BY <1>4 DEF StreamsHeld
<1>7. ASSUME lastClosedStreamId # MaxU32
      PROVE  /\ nextStreamId \notin ActivatedIds
             /\ <<nextStreamId, FirstKeyEpoch>> \notin activated
             /\ \A key \in activated : key[1] < nextStreamId
  <2>1. \A key \in activated : key[1] < nextStreamId /\ key[1] \in Nat
    BY <1>7 DEF CountsIInv, KeysAreCounted, TypeOK, Id
  <2>2. nextStreamId \notin ActivatedIds
    BY <1>4, <2>1 DEF ActivatedIds, Id
  <2>3. <<nextStreamId, FirstKeyEpoch>>[1] = nextStreamId
    OBVIOUS
  <2> QED BY <2>1, <2>2, <2>3 DEF ActivatedIds
<1>8. KeysAreCounted'
  <2>1. lastClosedStreamId' = MaxU32 => nextStreamId' = MaxU32
    BY DEF CountsIInv, KeysAreCounted
  <2>2. ASSUME lastClosedStreamId' # MaxU32
        PROVE  /\ metrics'["streams_closed"] + StreamsHeld' = Cardinality(ActivatedIds')
               /\ metrics'["rekeys_committed"] + Cardinality(ActivatedIds')
                      = Cardinality(activated')
               /\ \A key \in activated' :
                      key[1] < stream'.id \/ (key[1] = stream'.id /\ key[2] <= stream'.epoch)
    <3>1. /\ metrics["streams_closed"] = Cardinality(ActivatedIds)
          /\ metrics["rekeys_committed"] + Cardinality(ActivatedIds) = Cardinality(activated)
          /\ metrics["streams_closed"] \in Nat /\ metrics["rekeys_committed"] \in Nat
      BY <1>2, <1>6, <2>2 DEF CountsIInv, KeysAreCounted, StreamCounters
    <3>2. /\ Cardinality(activated') = Cardinality(activated) + 1
          /\ Cardinality(ActivatedIds') = Cardinality(ActivatedIds) + 1
      BY <1>5, <1>7, <2>2
    <3>3. \A key \in activated' :
              key[1] < stream'.id \/ (key[1] = stream'.id /\ key[2] <= stream'.epoch)
      <4>1. \A a, b : <<a, b>>[1] = a /\ <<a, b>>[2] = b
        OBVIOUS
      <4>2. FirstKeyEpoch <= FirstKeyEpoch
        BY SessionAssumption
      <4> QED BY <1>4, <1>7, <2>2, <4>1, <4>2
    <3> QED BY <1>2, <1>5, <1>6, <3>1, <3>2, <3>3
  <2> QED BY <1>5, <2>1, <2>2 DEF KeysAreCounted
<1> QED BY <1>1, <1>3, <1>8 DEF CountsIInv

\* A stream.rekey is the first use of its key, below the top of the ID space.
LEMMA RekeyCounts ==
    ASSUME TypeOK, IInv, CountsIInv, NEW s \in Id, NEW e \in Id, Active(s), NextEpoch(e),
           stream' = Rekeyed(e), activated' = activated \union {<<s, e>>},
           UNCHANGED <<state, nextStreamId, lastClosedStreamId, proven>>,
           Accept("REKEY_RESULT", {"rekeys_committed"})
    PROVE  CountsIInv'
<1>1. AnswersAreCounted' /\ Adds({"rekeys_committed"})
  BY AcceptCounts DEF CountsIInv, Accept, StreamCounters
<1>2. /\ metrics'["streams_started"] = metrics["streams_started"]
      /\ metrics'["streams_stopped"] = metrics["streams_stopped"]
      /\ metrics'["streams_closed"] = metrics["streams_closed"]
      /\ metrics'["rekeys_committed"] = metrics["rekeys_committed"] + 1
      /\ \A c \in StreamCounters : metrics[c] \in Nat
  BY <1>1 DEF Adds, StreamCounters, TypeOK, Counters
<1>3. StopsFollowStarts'
  BY <1>2 DEF CountsIInv, StopsFollowStarts
<1>4. /\ stream.id = s /\ state \in StreamStates /\ stream'.id = s /\ stream'.epoch = e
      /\ e = stream.epoch + 1 /\ stream.epoch \in Nat /\ s \in Nat /\ e \in Nat
      /\ s \in ActivatedIds
  <2>1. stream.id = s /\ state \in StreamStates
    BY DEF Active
  <2>2. stream'.id = s /\ stream'.epoch = e
    BY <2>1 DEF Rekeyed
  <2>3. e = stream.epoch + 1 /\ stream.epoch \in Nat /\ s \in Nat /\ e \in Nat
    BY DEF NextEpoch, Id, U32, TypeOK, StreamType
  <2>4. <<s, stream.epoch>> \in activated /\ <<s, stream.epoch>>[1] = s
    BY <2>1 DEF IInv, StreamMatchesState, CurrentKey
  <2> QED BY <2>1, <2>2, <2>3, <2>4 DEF ActivatedIds
<1>5. /\ ActivatedIds' = ActivatedIds
      /\ IsFiniteSet(activated') /\ IsFiniteSet(ActivatedIds')
      /\ Cardinality(activated) \in Nat /\ Cardinality(ActivatedIds) \in Nat
      /\ <<s, e>> \notin activated => Cardinality(activated') = Cardinality(activated) + 1
  <2>1. /\ ActivatedIds' = ActivatedIds \union {s}
        /\ IsFiniteSet(activated') /\ IsFiniteSet(ActivatedIds')
        /\ Cardinality(activated) \in Nat /\ Cardinality(ActivatedIds) \in Nat
        /\ <<s, e>> \notin activated => Cardinality(activated') = Cardinality(activated) + 1
    BY KeyAdded DEF CountsIInv
  <2>2. ActivatedIds' = ActivatedIds
    BY <1>4, <2>1, Zenon
  <2> QED BY <2>1, <2>2
<1>6. StreamsHeld' = StreamsHeld
  BY <1>4 DEF StreamsHeld
<1>7. KeysAreCounted'
  <2>1. lastClosedStreamId' = MaxU32 /\ state' # "CLOSED" => nextStreamId' = MaxU32
    BY DEF CountsIInv, KeysAreCounted
  <2>2. state' \in StreamStates /\ state' # "BOUND"
    BY <1>4 DEF StreamStates
  <2>3. ASSUME lastClosedStreamId' # MaxU32
        PROVE  /\ metrics'["streams_closed"] + StreamsHeld' = Cardinality(ActivatedIds')
               /\ metrics'["rekeys_committed"] + Cardinality(ActivatedIds')
                      = Cardinality(activated')
               /\ \A key \in activated' :
                      key[1] < stream'.id \/ (key[1] = stream'.id /\ key[2] <= stream'.epoch)
    <3>1. /\ metrics["streams_closed"] + StreamsHeld = Cardinality(ActivatedIds)
          /\ metrics["rekeys_committed"] + Cardinality(ActivatedIds) = Cardinality(activated)
          /\ metrics["rekeys_committed"] \in Nat
          /\ \A key \in activated :
                 key[1] < s \/ (key[1] = s /\ key[2] <= stream.epoch)
      BY <1>2, <1>4, <2>3 DEF CountsIInv, KeysAreCounted, StreamCounters
    <3>2. \A a, b : <<a, b>>[1] = a /\ <<a, b>>[2] = b
      OBVIOUS
    <3>3. \A key \in activated : key[2] \in Nat /\ key[1] \in Nat
      BY DEF TypeOK, Id
    <3>4. <<s, e>> \notin activated
      BY <1>4, <3>1, <3>2
    <3>5. \A key \in activated' :
              key[1] < stream'.id \/ (key[1] = stream'.id /\ key[2] <= stream'.epoch)
      <4>1. \A key \in activated : key[1] < s \/ (key[1] = s /\ key[2] <= e)
        BY <1>4, <3>1, <3>3
      <4>2. e <= e
        BY <1>4
      <4> QED BY <1>4, <3>2, <4>1, <4>2
    <3> QED BY <1>2, <1>5, <1>6, <3>1, <3>4, <3>5
  <2> QED BY <1>5, <2>1, <2>2, <2>3 DEF KeysAreCounted
<1> QED BY <1>1, <1>3, <1>7 DEF CountsIInv

\* stream.close and session.close count the stream they close, and no other.
LEMMA CloseCounts ==
    ASSUME TypeOK, IInv, CountsIInv, state \in StreamStates, stream.id # 0, stream' = NoStream,
           lastClosedStreamId' = stream.id, UNCHANGED <<activated, proven>>,
           metrics' = Counted({"valid_requests", "actions_emitted"} \union {"streams_closed"}),
           \/ state' = "BOUND" /\ nextStreamId' = NextStreamIdAfter(stream.id)
           \/ state' = "CLOSED"
    PROVE  CountsIInv'
<1>1. AnswersAreCounted' /\ Adds({"streams_closed"})
  BY AcceptCounts DEF CountsIInv, StreamCounters
<1>2. /\ metrics'["streams_started"] = metrics["streams_started"]
      /\ metrics'["streams_stopped"] = metrics["streams_stopped"]
      /\ metrics'["streams_closed"] = metrics["streams_closed"] + 1
      /\ metrics'["rekeys_committed"] = metrics["rekeys_committed"]
      /\ \A c \in StreamCounters : metrics[c] \in Nat
  BY <1>1 DEF Adds, StreamCounters, TypeOK, Counters
<1>3. StopsFollowStarts'
  <2>1. metrics["streams_stopped"] \in Nat /\ metrics["streams_started"] \in Nat
    BY <1>2 DEF StreamCounters
  <2>2. state' # "STREAMING"
    OBVIOUS
  <2> QED BY <1>2, <2>1, <2>2 DEF CountsIInv, StopsFollowStarts
<1>4. /\ StreamsHeld = 1 /\ StreamsHeld' = 0 /\ ActivatedIds' = ActivatedIds
      /\ stream.id = nextStreamId /\ nextStreamId \in Nat
      /\ state # "CLOSED" /\ state' \notin StreamStates
  BY DEF StreamsHeld, NoStream, ActivatedIds, IInv, KeysInOrder, StreamStates, TypeOK, Id
<1>5. state' = "BOUND" =>
          nextStreamId' = IF stream.id # MaxU32 THEN nextStreamId + 1 ELSE nextStreamId
  BY <1>4 DEF NextStreamIdAfter
<1>6. KeysAreCounted'
  <2>1. lastClosedStreamId' = MaxU32 /\ state' # "CLOSED" => nextStreamId' = MaxU32
    BY <1>4, <1>5
  <2>2. ASSUME lastClosedStreamId' # MaxU32
        PROVE  /\ metrics'["streams_closed"] + StreamsHeld' = Cardinality(ActivatedIds')
               /\ metrics'["rekeys_committed"] + Cardinality(ActivatedIds')
                      = Cardinality(activated')
               /\ state' = "BOUND" => \A key \in activated' : key[1] < nextStreamId'
    <3>1. lastClosedStreamId # MaxU32
      BY <1>4, <2>2 DEF CountsIInv, KeysAreCounted
    <3>2. /\ metrics["streams_closed"] + 1 = Cardinality(ActivatedIds)
          /\ metrics["rekeys_committed"] + Cardinality(ActivatedIds) = Cardinality(activated)
          /\ \A key \in activated : key[1] < stream.id \/ key[1] = stream.id
      BY <1>4, <3>1 DEF CountsIInv, KeysAreCounted
    <3>3. \A key \in activated : key[1] \in Nat
      BY DEF TypeOK, Id
    <3>4. state' = "BOUND" => \A key \in activated : key[1] < nextStreamId'
      BY <1>4, <1>5, <2>2, <3>2, <3>3
    <3>5. metrics["streams_closed"] \in Nat
      BY <1>2 DEF StreamCounters
    <3> QED BY <1>2, <1>4, <3>2, <3>4, <3>5
  <2> QED BY <1>4, <2>1, <2>2 DEF CountsIInv, KeysAreCounted
<1> QED BY <1>1, <1>3, <1>6 DEF CountsIInv

\* Starting and stopping move the two counters that follow each other.
LEMMA PlayCounts ==
    ASSUME TypeOK, IInv, CountsIInv, NEW cs, state \in StreamStates,
           \/ state' = "STREAMING" /\ cs = IF state = "STREAMING" THEN {} ELSE {"streams_started"}
           \/ state' = "STREAM_OPEN" /\ cs = IF state = "STREAMING" THEN {"streams_stopped"} ELSE {},
           metrics' = Counted({"valid_requests", "actions_emitted"} \union cs),
           UNCHANGED <<nextStreamId, lastClosedStreamId, activated, proven>>,
           stream'.id = stream.id, stream'.epoch = stream.epoch
    PROVE  CountsIInv'
<1>0. cs \subseteq {"streams_started", "streams_stopped"}
  OBVIOUS
<1>1. AnswersAreCounted' /\ Adds(cs)
  BY <1>0, AcceptCounts DEF CountsIInv, StreamCounters
<1>2. /\ metrics'["streams_closed"] = metrics["streams_closed"]
      /\ metrics'["rekeys_committed"] = metrics["rekeys_committed"]
  BY <1>0, <1>1 DEF Adds, StreamCounters
<1>3. StopsFollowStarts'
  <2>1. /\ metrics["streams_stopped"] \in Nat /\ metrics["streams_started"] \in Nat
        /\ metrics["streams_stopped"] + (IF state = "STREAMING" THEN 1 ELSE 0)
               <= metrics["streams_started"]
    BY DEF TypeOK, Counters, CountsIInv, StopsFollowStarts
  <2>2. /\ metrics'["streams_started"] = IF "streams_started" \in cs
                                         THEN metrics["streams_started"] + 1
                                         ELSE metrics["streams_started"]
        /\ metrics'["streams_stopped"] = IF "streams_stopped" \in cs
                                         THEN metrics["streams_stopped"] + 1
                                         ELSE metrics["streams_stopped"]
    BY <1>1 DEF Adds, StreamCounters
  <2>3. state \in {"STREAM_OPEN", "STREAMING"}
    BY DEF StreamStates
  <2>4. /\ "streams_started" \in cs <=> state' = "STREAMING" /\ state # "STREAMING"
        /\ "streams_stopped" \in cs <=> state' = "STREAM_OPEN" /\ state = "STREAMING"
        /\ state' \in {"STREAM_OPEN", "STREAMING"}
    BY <2>3
  <2> QED BY <2>1, <2>2, <2>3, <2>4 DEF StopsFollowStarts
<1>4. ActivatedIds' = ActivatedIds /\ StreamsHeld' = StreamsHeld
  BY DEF ActivatedIds, StreamsHeld
<1>5. state' \in StreamStates /\ state # "CLOSED" /\ state' # "BOUND"
  BY DEF StreamStates
<1>6. KeysAreCounted'
  BY <1>2, <1>4, <1>5 DEF CountsIInv, KeysAreCounted
<1> QED BY <1>1, <1>3, <1>6 DEF CountsIInv

\* Every handler counts what it does.
LEMMA StepCounts == TypeOK /\ IInv /\ CountsIInv /\ [Next]_vars => CountsIInv'
<1> SUFFICES ASSUME TypeOK, IInv, CountsIInv, [Next]_vars PROVE CountsIInv'
  OBVIOUS
<1>1. ASSUME NEW id \in Id, NEW port \in Ports, SessionHello(id, port)
      PROVE CountsIInv'
  BY <1>1, ConflictCounts, AcceptedOnly DEF SessionHello, Accept, bookkeeping
<1>2. ASSUME NEW id \in Id, NEW sid \in SessionIds, NEW port \in Ports,
             TransportBind(id, sid, port)
      PROVE CountsIInv'
  BY <1>2, ConflictCounts, AcceptedOnly DEF TransportBind, Accept, bookkeeping
<1>3. ASSUME NEW id \in Id, NEW params \in StreamParams, StreamOpen(id, params)
      PROVE CountsIInv'
  BY <1>3, ConflictCounts, AcceptedOnly, OpenCounts DEF StreamOpen, Accept, bookkeeping
<1>4. ASSUME NEW id \in Id, NEW s \in Id, NEW ts \in Timestamps, StreamStart(id, s, ts)
      PROVE CountsIInv'
  <2>1. CASE Conflict
    BY <2>1, ConflictCounts
  <2>2. CASE CanStart(s, ts)
    <3>1. stream'.id = stream.id /\ stream'.epoch = stream.epoch
      BY <1>4, <2>2 DEF StreamStart, TypeOK, StreamType
    <3> QED BY <1>4, <2>2, <3>1, PlayCounts DEF StreamStart, CanStart, Active, Accept, bookkeeping
  <2> QED BY <1>4, <2>1, <2>2 DEF StreamStart
<1>5. ASSUME NEW id \in Id, NEW s \in Id, StreamStop(id, s)
      PROVE CountsIInv'
  <2>1. CASE Conflict
    BY <2>1, ConflictCounts
  <2>2. CASE Active(s)
    BY <1>5, <2>2, PlayCounts DEF StreamStop, Active, Accept, bookkeeping
  <2> QED BY <1>5, <2>1, <2>2 DEF StreamStop
<1>6. ASSUME NEW id \in Id, NEW s \in Id, StreamClose(id, s)
      PROVE CountsIInv'
  BY <1>6, ConflictCounts, AcceptedOnly, CloseCounts
  DEF StreamClose, Active, Erased, AcceptClose, bookkeeping
<1>7. ASSUME NEW id \in Id, NEW s \in Id, NEW e \in Id, StreamRekey(id, s, e)
      PROVE CountsIInv'
  BY <1>7, ConflictCounts, AcceptedOnly, RekeyCounts DEF StreamRekey, Accept, bookkeeping
<1>8. ASSUME NEW id \in Id, NEW kind \in {"STATUS_RESULT", "PING_RESULT"}, Query(id, kind)
      PROVE CountsIInv'
  BY <1>8, ConflictCounts, AcceptedOnly DEF Query, Accept, bookkeeping
<1>9. ASSUME NEW id \in Id, SessionClose(id)
      PROVE CountsIInv'
  BY <1>9, ConflictCounts, AcceptedOnly, CloseCounts
  DEF SessionClose, Active, Erased, Accept, bookkeeping
<1>10. CASE BadFrame
  <2>1. AnswersAreCounted' /\ Adds({})
    BY <1>10, RejectCounts DEF BadFrame, CloseOnError, CountsIInv, bookkeeping
  <2>2. StopsFollowStarts' /\ KeysAreCounted'
    BY <1>10, <2>1, NothingMoved DEF BadFrame, CloseOnError, CountsIInv, bookkeeping
  <2> QED BY <2>1, <2>2 DEF CountsIInv
<1>11. CASE IngestAfterClose
  BY <1>11, ConflictCounts DEF IngestAfterClose
<1>12. ASSUME NEW s \in Id, NEW e \in Id, MarkPathValidated(s, e)
       PROVE CountsIInv'
  <2>1. CASE Conflict
    BY <2>1, ConflictCounts
  <2>2. CASE ProofMatches(s, e)
    <3>1. /\ stream' = [stream EXCEPT !.validated = TRUE]
          /\ proven' = proven \union {<<s, e>>}
          /\ metrics' = Counted({"actions_emitted"})
          /\ UNCHANGED <<state, nextStreamId, lastClosedStreamId, activated>>
      BY <1>12, <2>2 DEF MarkPathValidated
    <3>2. stream'.id = stream.id /\ stream'.epoch = stream.epoch
      BY <3>1 DEF TypeOK, StreamType
    <3>3. Adds({})
      BY <3>1 DEF Adds, StreamCounters, Counted, Counters
    <3>4. StopsFollowStarts' /\ KeysAreCounted'
      BY <3>1, <3>2, <3>3, NothingMoved DEF CountsIInv
    <3>5. AnswersAreCounted'
      <4>1. /\ metrics'["actions_emitted"] = metrics["actions_emitted"] + 1
            /\ metrics'["valid_requests"] = metrics["valid_requests"]
            /\ metrics'["rejected_requests"] = metrics["rejected_requests"]
            /\ metrics'["state_conflicts"] = metrics["state_conflicts"]
            /\ metrics'["protocol_errors"] = metrics["protocol_errors"]
        BY <3>1 DEF Counted, Counters
      <4>2. /\ metrics["valid_requests"] \in Nat /\ metrics["actions_emitted"] \in Nat
            /\ metrics["rejected_requests"] \in Nat
        BY DEF TypeOK, Counters
      <4>3. IsFiniteSet(proven) /\ Cardinality(proven) \in Nat
        BY FS_CardinalityType DEF CountsIInv, AnswersAreCounted
      <4>4. /\ IsFiniteSet(proven')
            /\ Cardinality(proven') \in {Cardinality(proven), Cardinality(proven) + 1}
        BY <3>1, <4>3, FS_AddElement
      <4> QED BY <4>1, <4>2, <4>3, <4>4 DEF CountsIInv, AnswersAreCounted
    <3> QED BY <3>4, <3>5 DEF CountsIInv
  <2> QED BY <1>12, <2>1, <2>2 DEF MarkPathValidated
<1>13. CASE UNCHANGED vars
  BY <1>13 DEF vars, CountsIInv, AnswersAreCounted, StopsFollowStarts, KeysAreCounted, StreamsHeld,
               ActivatedIds
<1> QED
  BY <1>1, <1>2, <1>3, <1>4, <1>5, <1>6, <1>7, <1>8, <1>9, <1>10, <1>11, <1>12, <1>13, NextCases
  DEF StepCases

\* gm_control_session_get_metrics tells the session's history, whatever was sent to it, for
\* every width of the integers: its counters are those of its streams, keys and answers.
THEOREM CountersAlwaysTellHistory == Spec => []CountersTellHistory
<1>1. Init => CountsIInv
  <2> SUFFICES ASSUME Init PROVE CountsIInv
    OBVIOUS
  <2>1. /\ metrics = [c \in Counters |-> 0] /\ state = "TLS_READY" /\ lastClosedStreamId = 0
        /\ stream.id = 0 /\ activated = {} /\ proven = {} /\ MaxU32 # 0
    BY SessionAssumption DEF Init, NoStream
  <2>2. \A c \in Counters : metrics[c] = 0
    BY <2>1
  <2>3. ActivatedIds = {} /\ StreamsHeld = 0
    BY <2>1 DEF ActivatedIds, StreamsHeld
  <2>4. AnswersAreCounted
    BY <2>1, <2>2, FS_EmptySet DEF AnswersAreCounted, Counters
  <2>5. StopsFollowStarts
    BY <2>1, <2>2 DEF StopsFollowStarts, Counters
  <2>6. KeysAreCounted
    BY <2>1, <2>2, <2>3, FS_EmptySet DEF KeysAreCounted, Counters, StreamStates
  <2> QED BY <2>4, <2>5, <2>6 DEF CountsIInv
<1>2. CountsIInv => CountersTellHistory
  BY DEF CountsIInv, AnswersAreCounted, StopsFollowStarts, KeysAreCounted, CountersTellHistory
<1> QED BY <1>1, <1>2, StepCounts, Safety, PTL DEF Spec
=============================================================================
