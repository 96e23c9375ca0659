---------------------------- MODULE ControlSession ----------------------------
(***************************************************************************)
(* The Apple output server's control session: shared/core/gm_state.cpp.    *)
(*                                                                         *)
(* One gm_control_session lives inside one TLS connection.  The Windows    *)
(* client sends framed requests, gm_control_session_ingest answers each    *)
(* with one action, and the UDP side reports a path proof through          *)
(* gm_control_session_mark_path_validated.  Both entry points are modelled *)
(* whole, with their conflict and error branches and their counters.       *)
(*                                                                         *)
(* Abstracted: the audio profile and the playout target are only ever      *)
(* compared together, so a pair of them is one model value of              *)
(* StreamParams; every status that is neither OK nor STATE_CONFLICT counts *)
(* and acts alike and is "PROTOCOL_ERROR"; response IDs echo the request;  *)
(* last_update_ns is written and never read; output_available and the      *)
(* playout range are read only for the text of status.get's reply.         *)
(***************************************************************************)
EXTENDS Naturals, FiniteSets

CONSTANTS
    MaxU32,             \* UINT32_MAX: the largest request ID, stream ID and key epoch
    FirstStreamId,      \* the configured stream_id, 1 when the configuration says 0
    FirstKeyEpoch,      \* the configured key_epoch, 1 when the configuration says 0
    SessionIds,         \* session IDs a transport.bind may carry
    SessionId,          \* the one this session was given
    Ports,              \* UDP ports a client may announce
    StreamParams,       \* audio profile and playout target of a stream.open
    Timestamps,         \* first media timestamps of a stream.start
    None,               \* a zeroed field
    MaxActions          \* bound on the actions of one behaviour, for model checking

ASSUME SessionAssumption ==
    /\ MaxU32 \in Nat \ {0}
    /\ FirstStreamId \in 1..MaxU32
    /\ FirstKeyEpoch \in 1..MaxU32
    /\ SessionId \in SessionIds
    /\ None \notin Ports \union StreamParams \union Timestamps
    /\ MaxActions \in Nat

U32 == 0..MaxU32
Id == 1..MaxU32         \* the parser rejects zero IDs, streams and epochs

VARIABLES
    state,                  \* GM_CONTROL_SESSION_STATE_*
    lastRequestId,
    windowsUdpPort,
    stream,                 \* the fields stream.close erases together
    nextStreamId,
    lastClosedStreamId,
    metrics,
    action,                 \* the action the last call handed to its caller
    activated,              \* history: every <<stream, epoch>> ever in use
    proven                  \* history: every <<stream, epoch>> whose path was validated

vars == <<state, lastRequestId, windowsUdpPort, stream, nextStreamId,
          lastClosedStreamId, metrics, action, activated, proven>>

\* What a request may change beside its own fields.
bookkeeping == <<lastClosedStreamId, nextStreamId, activated, proven>>

NoStream == [id |-> 0, epoch |-> 0, lastRekey |-> 0, params |-> None,
             timestamp |-> None, validated |-> FALSE]

StreamStates == {"STREAM_OPEN", "STREAMING"}
States == {"CLOSED", "TLS_READY", "HELLO", "BOUND"} \union StreamStates

Counters == {"valid_requests", "rejected_requests", "actions_emitted", "state_conflicts",
             "protocol_errors", "streams_started", "streams_stopped", "streams_closed",
             "rekeys_committed"}

ResultKinds == {"HELLO_RESULT", "BIND_RESULT", "OPEN_RESULT", "START_RESULT", "STOP_RESULT",
                "CLOSE_RESULT", "REKEY_RESULT", "STATUS_RESULT", "PING_RESULT",
                "SESSION_CLOSE_RESULT", "PATH_VALIDATED"}
Actions == [kind : ResultKinds \union {"NONE", "ERROR_RESULT", "ERROR_CLOSE"},
            terminal : BOOLEAN, stream : U32, epoch : U32]

Init ==
    /\ state = "TLS_READY"
    /\ lastRequestId = 0
    /\ windowsUdpPort = None
    /\ stream = NoStream
    /\ nextStreamId = FirstStreamId
    /\ lastClosedStreamId = 0
    /\ metrics = [c \in Counters |-> 0]
    /\ action = [kind |-> "NONE", terminal |-> FALSE, stream |-> 0, epoch |-> 0]
    /\ activated = {}
    /\ proven = {}

-------------------------------------------------------------------------------
(* The two ways a call ends. *)

\* The counters after one increment of each member of cs; the uint64 range is not reached.
Counted(cs) == [c \in Counters |-> IF c \in cs THEN metrics[c] + 1 ELSE metrics[c]]

\* commit_action: the reply describes the session as the handler left it.
\* The handler has settled state and stream; cs names its own counters.
Accept(kind, cs) ==
    /\ metrics' = Counted({"valid_requests", "actions_emitted"} \union cs)
    /\ action' = [kind |-> kind, terminal |-> state' = "CLOSED",
                  stream |-> stream'.id, epoch |-> stream'.epoch]

\* As Accept, for the close replies, which name the stream the request named.
AcceptClose(s, cs) ==
    /\ metrics' = Counted({"valid_requests", "actions_emitted"} \union cs)
    /\ action' = [kind |-> "CLOSE_RESULT", terminal |-> FALSE,
                  stream |-> s, epoch |-> stream'.epoch]

RejectedAs(kind) ==
    [kind |-> kind, terminal |-> kind = "ERROR_CLOSE", stream |-> stream.id, epoch |-> stream.epoch]

\* fill_error_action without closing: a STATE_CONFLICT, after which the session goes on.
Conflict ==
    /\ metrics' = Counted({"state_conflicts", "rejected_requests", "actions_emitted"})
    /\ action' = RejectedAs("ERROR_RESULT")
    /\ UNCHANGED <<state, windowsUdpPort, stream, bookkeeping>>

\* fill_error_action with close_session: only the state changes, the stream's fields stay.
CloseOnError ==
    /\ metrics' = Counted({"protocol_errors", "rejected_requests", "actions_emitted"})
    /\ state' = "CLOSED"
    /\ action' = RejectedAs("ERROR_CLOSE")
    /\ UNCHANGED <<windowsUdpPort, stream, bookkeeping>>

\* ensure_request: IDs must increase, and a used ID stays used whatever the answer is.
Request(id) ==
    /\ state # "CLOSED"
    /\ id > lastRequestId
    /\ lastRequestId' = id

-------------------------------------------------------------------------------
(* Conditions and field updates of the handlers. *)

ActiveAnyState(s) == stream.id # 0 /\ stream.id = s     \* fault: forgets the state check

\* active_stream_matches
Active(s) == stream.id # 0 /\ stream.id = s /\ state \in StreamStates

CanBind(sid, port) ==
    /\ state # "TLS_READY"
    /\ sid = SessionId
    /\ port = windowsUdpPort

\* A stream.open that repeats the open stream's own parameters.
RepeatsOpen(params) == state \in StreamStates /\ stream.params = params

CanStartUnproven(s, ts) ==                              \* fault: starts on an unproven path
    Active(s) /\ (state = "STREAMING" => stream.timestamp = ts)

CanStart(s, ts) ==
    /\ Active(s)
    /\ stream.validated
    /\ state = "STREAMING" => stream.timestamp = ts

\* A key epoch that moves on by one; the sum wraps at 32 bits and no request carries zero.
NextEpoch(e) == e = IF stream.epoch = MaxU32 THEN 0 ELSE stream.epoch + 1

RepeatsRekeyNever(e) == FALSE                           \* fault: a repeated rekey conflicts

RepeatsRekey(e) == e = stream.epoch /\ e = stream.lastRekey

RekeyedStillValid(e) == [stream EXCEPT !.epoch = e, !.lastRekey = e]    \* fault: keeps the proof

Rekeyed(e) ==
    [id |-> stream.id, epoch |-> e, lastRekey |-> e, params |-> stream.params,
     timestamp |-> stream.timestamp, validated |-> FALSE]

\* lastRekey and timestamp are left as they are: the last close has erased them.
Opened(params) ==
    [id |-> nextStreamId, epoch |-> FirstKeyEpoch, lastRekey |-> stream.lastRekey,
     params |-> params, timestamp |-> stream.timestamp, validated |-> FALSE]

ErasedButTimestamp == [NoStream EXCEPT !.timestamp = stream.timestamp]  \* fault: a field survives

\* The stream fields stream.close and session.close erase.
Erased == NoStream

NextStreamIdSame(s) == nextStreamId                     \* fault: never advances
NextStreamIdUnchecked(s) == IF nextStreamId <= s THEN s + 1 ELSE nextStreamId  \* fault: no top

\* The ID the stream after s gets; at the top of the ID space s itself comes back.
NextStreamIdAfter(s) == IF nextStreamId <= s /\ s # MaxU32 THEN s + 1 ELSE nextStreamId

-------------------------------------------------------------------------------
(* gm_control_session_ingest, one action per request kind. *)

SessionHello(id, port) ==
    /\ Request(id)
    /\ IF state = "TLS_READY"
       THEN /\ windowsUdpPort' = port
            /\ state' = "HELLO"
            /\ UNCHANGED <<stream, bookkeeping>>
            /\ Accept("HELLO_RESULT", {})
       ELSE Conflict

TransportBind(id, sid, port) ==
    /\ Request(id)
    /\ IF CanBind(sid, port)
       THEN /\ state' = IF state = "HELLO" THEN "BOUND" ELSE state
            /\ UNCHANGED <<windowsUdpPort, stream, bookkeeping>>
            /\ Accept("BIND_RESULT", {})
       ELSE Conflict

StreamOpen(id, params) ==
    /\ Request(id)
    /\ \/ /\ state = "BOUND"
          /\ stream' = Opened(params)
          /\ state' = "STREAM_OPEN"
          /\ activated' = activated \union {<<stream'.id, stream'.epoch>>}
          /\ UNCHANGED <<windowsUdpPort, nextStreamId, lastClosedStreamId, proven>>
          /\ Accept("OPEN_RESULT", {})
       \/ /\ RepeatsOpen(params)
          /\ UNCHANGED <<state, windowsUdpPort, stream, bookkeeping>>
          /\ Accept("OPEN_RESULT", {})
       \/ /\ state # "BOUND" /\ ~RepeatsOpen(params)
          /\ Conflict

StreamStart(id, s, ts) ==
    /\ Request(id)
    /\ IF CanStart(s, ts)
       THEN /\ stream' = [stream EXCEPT !.timestamp = ts]
            /\ state' = "STREAMING"
            /\ UNCHANGED <<windowsUdpPort, bookkeeping>>
            /\ Accept("START_RESULT", IF state = "STREAMING" THEN {} ELSE {"streams_started"})
       ELSE Conflict

StreamStop(id, s) ==
    /\ Request(id)
    /\ IF Active(s)
       THEN /\ state' = "STREAM_OPEN"
            /\ UNCHANGED <<windowsUdpPort, stream, bookkeeping>>
            /\ Accept("STOP_RESULT", IF state = "STREAMING" THEN {"streams_stopped"} ELSE {})
       ELSE Conflict

StreamClose(id, s) ==
    /\ Request(id)
    /\ \/ /\ Active(s)
          /\ lastClosedStreamId' = s
          /\ nextStreamId' = NextStreamIdAfter(s)
          /\ stream' = Erased
          /\ state' = "BOUND"
          /\ UNCHANGED <<windowsUdpPort, activated, proven>>
          /\ AcceptClose(s, {"streams_closed"})
       \/ /\ state = "BOUND" /\ s = lastClosedStreamId
          /\ UNCHANGED <<state, windowsUdpPort, stream, bookkeeping>>
          /\ AcceptClose(s, {})
       \/ /\ ~Active(s)
          /\ state # "BOUND" \/ s # lastClosedStreamId
          /\ Conflict

StreamRekey(id, s, e) ==
    /\ Request(id)
    /\ \/ /\ Active(s) /\ NextEpoch(e)
          /\ stream' = Rekeyed(e)
          /\ activated' = activated \union {<<s, e>>}
          /\ UNCHANGED <<state, windowsUdpPort, nextStreamId, lastClosedStreamId, proven>>
          /\ Accept("REKEY_RESULT", {"rekeys_committed"})
       \/ /\ Active(s) /\ RepeatsRekey(e)
          /\ UNCHANGED <<state, windowsUdpPort, stream, bookkeeping>>
          /\ Accept("REKEY_RESULT", {})
       \/ /\ ~Active(s) \/ ~(NextEpoch(e) \/ RepeatsRekey(e))
          /\ Conflict

\* status.get and ping only read the session.
Query(id, kind) ==
    /\ Request(id)
    /\ IF state # "TLS_READY"
       THEN /\ UNCHANGED <<state, windowsUdpPort, stream, bookkeeping>>
            /\ Accept(kind, {})
       ELSE Conflict

SessionClose(id) ==
    /\ Request(id)
    /\ IF state # "TLS_READY"
       THEN /\ state' = "CLOSED"
            /\ IF Active(stream.id)
               THEN /\ lastClosedStreamId' = stream.id
                    /\ stream' = Erased
                    /\ Accept("SESSION_CLOSE_RESULT", {"streams_closed"})
               ELSE /\ UNCHANGED <<lastClosedStreamId, stream>>
                    /\ Accept("SESSION_CLOSE_RESULT", {})
            /\ UNCHANGED <<windowsUdpPort, nextStreamId, activated, proven>>
       ELSE Conflict

\* A frame that does not parse, that is no request, or that repeats an old request ID.
BadFrame ==
    /\ state # "CLOSED"
    /\ UNCHANGED lastRequestId
    /\ CloseOnError

\* Anything ingested once the session is closed.
IngestAfterClose ==
    /\ state = "CLOSED"
    /\ UNCHANGED lastRequestId
    /\ Conflict

-------------------------------------------------------------------------------
(* gm_control_session_mark_path_validated.  A challenge is protected with the *)
(* keys of a <<stream, epoch>>, so only pairs that were in use can be reported, *)
(* but UDP may deliver one long after its stream or epoch has gone.           *)

ProofMatchesStream(s, e) == Active(s)                   \* fault: ignores the epoch

ProofMatches(s, e) == Active(s) /\ stream.epoch = e

MarkPathValidated(s, e) ==
    /\ UNCHANGED lastRequestId
    /\ IF ProofMatches(s, e)
       THEN /\ stream' = [stream EXCEPT !.validated = TRUE]
            /\ proven' = proven \union {<<s, e>>}
            /\ metrics' = Counted({"actions_emitted"})
            /\ action' = [kind |-> "PATH_VALIDATED", terminal |-> FALSE,
                          stream |-> s, epoch |-> stream.epoch]
            /\ UNCHANGED <<state, windowsUdpPort, nextStreamId, lastClosedStreamId, activated>>
       ELSE Conflict

Ingest ==
    \/ \E id \in Id :
        \/ \E port \in Ports : SessionHello(id, port)
        \/ \E sid \in SessionIds, port \in Ports : TransportBind(id, sid, port)
        \/ \E params \in StreamParams : StreamOpen(id, params)
        \/ \E s \in Id :
            \/ \E ts \in Timestamps : StreamStart(id, s, ts)
            \/ StreamStop(id, s)
            \/ StreamClose(id, s)
            \/ \E e \in Id : StreamRekey(id, s, e)
        \/ Query(id, "STATUS_RESULT")
        \/ Query(id, "PING_RESULT")
        \/ SessionClose(id)
    \/ BadFrame
    \/ IngestAfterClose

Next ==
    /\ metrics["actions_emitted"] < MaxActions
    /\ \/ Ingest
       \/ \E key \in activated : MarkPathValidated(key[1], key[2])

Spec == Init /\ [][Next]_vars

-------------------------------------------------------------------------------
(* Correctness. *)

\* Every field stays in its range; the C++ fields are uint32_t and enums.
StreamType ==
    [id : U32, epoch : U32, lastRekey : U32, params : StreamParams \union {None},
     timestamp : Timestamps \union {None}, validated : BOOLEAN]

TypeOK ==
    /\ state \in States
    /\ lastRequestId \in U32
    /\ windowsUdpPort \in Ports \union {None}
    /\ stream \in StreamType
    /\ nextStreamId \in Id
    /\ lastClosedStreamId \in U32
    /\ metrics \in [Counters -> Nat]
    /\ action \in Actions
    /\ activated \subseteq Id \X Id
    /\ proven \subseteq Id \X Id

CurrentKey == <<stream.id, stream.epoch>>
ActivatedIds == {key[1] : key \in activated}
StreamsHeld == IF stream.id = 0 THEN 0 ELSE 1

\* gm_state.cpp:289,347,361,435: a UDP path proof may arrive after a rekey, a
\* close or a reopen.  The session believes in a path only when the very stream
\* and epoch it now uses was the one proven.
ProvenPathIsCurrent == stream.validated => CurrentKey \in proven

\* gm_state.cpp:325-353,410-420: a session without a stream keeps nothing of an
\* earlier one, so the next stream.open, which does not clear last_rekey_epoch or the
\* start timestamp, starts from zeroed fields; one with a stream uses a key it activated.
StreamMatchesState ==
    /\ state \notin StreamStates \union {"CLOSED"} => stream = NoStream
    /\ state \in StreamStates => CurrentKey \in activated /\ stream.params # None
    /\ state = "STREAMING" => stream.timestamp # None

\* gm_state.cpp:116-136,162-167,452-471: the exported counters tell the session's
\* history: rejections split into conflicts and errors, every answer and every
\* proven path was an action, stops never exceed starts, and, until the stream IDs
\* run out, streams closed and rekeys are the streams and epochs that went by.
CountersTellHistory ==
    /\ metrics["rejected_requests"] = metrics["state_conflicts"] + metrics["protocol_errors"]
    /\ metrics["actions_emitted"] >=
            metrics["valid_requests"] + metrics["rejected_requests"] + Cardinality(proven)
    /\ metrics["streams_stopped"] + (IF state = "STREAMING" THEN 1 ELSE 0)
            <= metrics["streams_started"]
    /\ lastClosedStreamId # MaxU32 =>
        /\ metrics["streams_closed"] + StreamsHeld = Cardinality(ActivatedIds)
        /\ metrics["rekeys_committed"] + Cardinality(ActivatedIds) = Cardinality(activated)

\* What the stream IDs rest on: the live stream is the next one to be numbered, and no
\* earlier key lies above the one in use, except when the last ID has come back.
KeysInOrder ==
    /\ state \in {"TLS_READY", "HELLO"} => activated = {}
    /\ state \in StreamStates => stream.id = nextStreamId
    /\ \A key \in activated :
        /\ key[1] <= nextStreamId
        /\ state = "BOUND" => key[1] < nextStreamId \/ nextStreamId = MaxU32
        /\ state \in StreamStates =>
            key[1] < stream.id \/ stream.id = MaxU32 \/ key[2] <= stream.epoch

\* What retries rest on: the last reply still describes the session.
ReplyStillHolds ==
    /\ action.kind = "OPEN_RESULT" => state \in StreamStates
    /\ action.kind = "START_RESULT" =>
        state = "STREAMING" /\ stream.validated /\ action.stream = stream.id
    /\ action.kind = "STOP_RESULT" => state = "STREAM_OPEN" /\ action.stream = stream.id
    /\ action.kind = "CLOSE_RESULT" => state = "BOUND" /\ action.stream = lastClosedStreamId
    /\ action.kind = "REKEY_RESULT" =>
        /\ state \in StreamStates
        /\ action.stream = stream.id
        /\ action.epoch = stream.epoch /\ stream.lastRekey = stream.epoch

\* gm_state.cpp:274-373: the inductive invariant behind the proofs.
IInv ==
    /\ ProvenPathIsCurrent
    /\ StreamMatchesState
    /\ KeysInOrder
    /\ ReplyStillHolds

\* gm_state.cpp:124-126,229: after session.close or a protocol error nothing moves the
\* session again, not a request, nor a late path proof for the stream an error left behind.
ClosedIsFinal ==
    [][state = "CLOSED" =>
        UNCHANGED <<state, lastRequestId, windowsUdpPort, stream, bookkeeping>>]_vars

\* gm_state.cpp:286-291,296-310,313-323,347-352,366-371: the client repeats, under a new
\* ID, the request that was just answered (its reply was lost to it).  The repeat is
\* accepted and moves nothing.
RetriesAreIdempotent ==
    [][\A id \in Id :
        \/ action.kind = "OPEN_RESULT" /\ StreamOpen(id, stream.params)
        \/ action.kind = "START_RESULT" /\ StreamStart(id, action.stream, stream.timestamp)
        \/ action.kind = "STOP_RESULT" /\ StreamStop(id, action.stream)
        \/ action.kind = "CLOSE_RESULT" /\ StreamClose(id, action.stream)
        \/ action.kind = "REKEY_RESULT" /\ StreamRekey(id, action.stream, action.epoch)
        => action'.kind = action.kind /\ UNCHANGED <<state, stream, bookkeeping>>]_vars

\* The session as a key schedule: the key in use ends with the stream or the session.
Schedule == INSTANCE KeySchedule WITH
    MaxStream <- MaxU32,
    MaxEpoch <- MaxU32,
    FirstEpoch <- FirstKeyEpoch,
    used <- activated,
    current <- IF state \in StreamStates THEN {CurrentKey} ELSE {},
    proven <- state \in StreamStates /\ stream.validated,
    flowing <- state = "STREAMING"

\* gm_state.cpp:274-373: keys are handed out in increasing order and never twice below the
\* top of the ID space, and audio starts only on the proven path of the key in use.
ImplementsKeySchedule == Schedule!Spec

\* shared/tests/gm_core_tests.cpp:546 "reopened stream receives the next stream ID".
ReopenTakesNextStreamId ==
    [][stream.id = 0 /\ stream'.id # 0 => stream'.id \notin ActivatedIds]_vars

\* docs/07-lifecycle-and-recovery.md:9-12: a failure goes to CLOSED and releases the stream.
ClosedHoldsNoStream == state = "CLOSED" => stream = NoStream
================================================================================
