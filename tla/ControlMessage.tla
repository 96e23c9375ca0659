----------------------------- MODULE ControlMessage -----------------------------
(***************************************************************************)
(* gm_control_parse_message (gm_control.cpp) behind the JSON parser: the    *)
(* envelope, the closed schema of every message and what the caller reads   *)
(* in gm_control_message_info.  A message is a JSON object, a function from *)
(* member names to values; a state is a message, an action edits one member *)
(* of an accepted message.                                                  *)
(***************************************************************************)
EXTENDS JsonScalars, FiniteSets

CONSTANTS
    MaxU32,         \* the largest uint32_t, scaled down; above every other number used here
    MaxU16,         \* the largest uint16_t and port; the harness's port is 51838
    MaxEdits        \* bound on the edits of one message

ASSUME MessageAssumption ==
    MaxU32 \in Nat /\ MaxU16 \in Nat /\ MaxEdits \in Nat /\ MaxU32 > MaxU16 /\ MaxU16 >= 51838

VARIABLES
    message,        \* the root object
    edit,           \* how it came about: written by a program, a sample, or the last edit
    edits           \* how many edits

messageVars == <<message, edit, edits>>

-------------------------------------------------------------------------------
(* JSON values and the getters *)

Number(n) == [number |-> n]
String(s) == [string |-> s]
Boolean(b) == [boolean |-> b]
ArrayOf(a) == [array |-> a]
ObjectOf(o) == [object |-> o]
Kind(value) == CHOOSE k \in DOMAIN value : TRUE

\* fault: only the members the schema lists are looked for
HasKeysAmongOthers(o, keys) == keys \subseteq DOMAIN o
HasKeys(o, keys) == DOMAIN o = keys     \* object_has_exact_keys

\* The members of both; @@ of TLC, written out because the provers do not know it.
With(o, p) == [f \in DOMAIN o \cup DOMAIN p |-> IF f \in DOMAIN o THEN o[f] ELSE p[f]]

Is(o, f, kind) == f \in DOMAIN o /\ kind \in DOMAIN o[f]
IsNumber(o, f, min, max) == Is(o, f, "number") /\ o[f].number >= min /\ o[f].number <= max
IsString(o, f, S) == Is(o, f, "string") /\ o[f].string \in S
IsU32(o, f) == IsNumber(o, f, 0, MaxU32)
IsId(o, f) == IsNumber(o, f, 1, MaxU32)

(* Strings.  A sample "n_bytes" is n times the letter a, "empty" none; the rest are short. *)

Sized == {"empty", "32_bytes", "64_bytes", "65_bytes", "128_bytes", "129_bytes", "256_bytes",
          "257_bytes"}
Bytes(s) ==
    CASE s = "empty"     -> 0
      [] s = "32_bytes"  -> 32  [] s = "64_bytes"  -> 64  [] s = "65_bytes"  -> 65
      [] s = "128_bytes" -> 128 [] s = "129_bytes" -> 129
      [] s = "256_bytes" -> 256 [] s = "257_bytes" -> 257
      [] OTHER           -> 10

RequestTypes ==
    {"session.hello", "transport.bind", "stream.open", "stream.start", "stream.stop",
     "stream.close", "stream.rekey", "status.get", "ping", "session.close"}
EventTypes ==
    {"event.stream.started", "event.stream.stopped", "event.output.state",
     "event.session.expiring"}
ErrorCodes ==
    {"BAD_REQUEST", "UNSUPPORTED_VERSION", "UNAUTHORIZED", "FORBIDDEN", "NOT_FOUND",
     "STATE_CONFLICT", "RESOURCE_BUSY", "DEVICE_UNAVAILABLE", "PATH_UNVALIDATED",
     "UNSUPPORTED_PROFILE", "LIMIT_EXCEEDED", "TIMEOUT", "INTERNAL"}
EndpointStates == {"available", "unavailable", "faulted"}
Constants == {"win-client", "apple-output-server", "audio", "win_to_apple", "pcm_s16le", "opus",
              "stereo", "bound", "probing", "started"}

\* A NUL is ASCII; a consumer that reads a C string stops there.
NulString == "ab_NUL_cd"
NotPrintable == {"non_ascii", "with_DEL", NulString}
Upper == {"PING", "A_SESSION_ID", "UUID"}
GoodDecimals == {"0", "1", "2^64-1"}
BadDecimals == {"01", "2^64", "1e3"}
SampleStrings ==
    Sized \cup RequestTypes \cup EventTypes \cup ErrorCodes \cup EndpointStates
        \cup Constants \cup NotPrintable \cup Upper \cup GoodDecimals \cup BadDecimals
        \cup {"result", "error", "event.other", "other", "ab", "a_session_id", "uuid_1", "uuid_2"}

AtMost(n) == {s \in SampleStrings : Bytes(s) <= n}
Ascii == SampleStrings \ {"non_ascii"}

\* is_type_string, of the type samples
TypeStrings == (AtMost(64) \ {"empty"}) \ (NotPrintable \cup Upper)
SessionIds == {"a_session_id", "32_bytes"}                        \* is_lower_hex_session_id
Uuids == {"uuid_1", "uuid_2"}                                   \* is_lower_uuid
Reasons == (AtMost(64) \ {"empty"}) \ NotPrintable                   \* is_reason_string
Tokens64 == (AtMost(64) \ {"empty"}) \cap Ascii

-------------------------------------------------------------------------------
(* The parts of messages *)

\* gm_audio_profile_validate; parse_profile takes the interval and payload from the codec.
ProfileValid(p) ==
    /\ p["sample_rate_hz"].number = 48000 /\ p["channels"].number = 2
    /\ p["frames_per_packet"].number = (IF p["codec"].string = "opus" THEN 480 ELSE 240)

PacketInterval(p) == IF p["codec"].string = "opus" THEN 10000 ELSE 5000

ProfileKeys == {"codec", "sample_rate_hz", "channels", "channel_layout", "frames_per_packet"}

\* parse_profile
IsProfile(value) ==
    "object" \in DOMAIN value
    /\ LET p == value.object IN
       /\ HasKeys(p, ProfileKeys)
       /\ IsString(p, "codec", {"pcm_s16le", "opus"}) /\ IsU32(p, "sample_rate_hz")
       /\ IsNumber(p, "channels", 0, MaxU16) /\ IsNumber(p, "frames_per_packet", 0, MaxU16)
       /\ IsString(p, "channel_layout", {"stereo"})
       /\ ProfileValid(p)

CapabilityKeys == {"audio_send", "audio_receive", "microphone", "camera", "audio_profiles"}

\* validate_capabilities
IsCapabilities(value) ==
    "object" \in DOMAIN value
    /\ LET c == value.object IN
       /\ HasKeys(c, CapabilityKeys)
       /\ \A f \in CapabilityKeys \ {"audio_profiles"} : Is(c, f, "boolean")
       /\ Is(c, "audio_profiles", "array")
       /\ \A f \in {"audio_send", "microphone", "camera"} : ~c[f].boolean
       /\ Len(c["audio_profiles"].array) \in (IF c["audio_receive"].boolean THEN 1..2 ELSE {0})
       /\ \A i \in DOMAIN c["audio_profiles"].array : IsProfile(c["audio_profiles"].array[i])

LimitKeys == {"max_audio_subscribers", "playout_target_ms_min", "playout_target_ms_max"}

\* validate_limits
IsLimits(value) ==
    "object" \in DOMAIN value
    /\ LET l == value.object IN
       /\ HasKeys(l, LimitKeys) /\ \A f \in LimitKeys : IsU32(l, f)
       /\ l["playout_target_ms_min"].number <= l["playout_target_ms_max"].number

\* validate_versions: descending, each a byte; the version spoken here is asked for last.
DescendingVersions(a) ==
    /\ Len(a) \in 1..8
    /\ \A i \in DOMAIN a :
           /\ "number" \in DOMAIN a[i] /\ a[i].number \in 1..255
           /\ i > 1 => a[i].number < a[i - 1].number

-------------------------------------------------------------------------------
(* Requests, events, results and errors *)

Envelope == {"v", "id", "type"}

RequestKeys(type) ==
    Envelope \cup
    CASE type = "session.hello"  -> {"role", "client_name", "versions", "udp_port"}
      [] type = "transport.bind" -> {"session_id", "udp_port"}
      [] type = "stream.open"    -> {"kind", "direction", "profile", "playout_target_ms"}
      [] type = "stream.start"   -> {"stream_id", "first_media_timestamp"}
      [] type \in {"stream.stop", "stream.close"} -> {"stream_id"}
      [] type = "stream.rekey"   -> {"stream_id", "key_epoch"}
      [] type = "ping"           -> {"token"}
      [] OTHER                   -> {}

\* validate_request up to the versions of a hello.
RequestLegal(m, type) ==
    /\ type \in RequestTypes
    /\ \/ HasKeys(m, RequestKeys(type))
       \/ type = "session.close" /\ HasKeys(m, Envelope \cup {"reason"})
    /\ CASE type = "session.hello" ->
                /\ IsString(m, "role", {"win-client"}) /\ IsString(m, "client_name", AtMost(128))
                /\ Is(m, "versions", "array") /\ IsNumber(m, "udp_port", 1, MaxU16)
                /\ DescendingVersions(m["versions"].array)
         [] type = "transport.bind" ->
                IsString(m, "session_id", SessionIds) /\ IsNumber(m, "udp_port", 1, MaxU16)
         [] type = "stream.open" ->
                /\ IsString(m, "kind", {"audio"}) /\ IsString(m, "direction", {"win_to_apple"})
                /\ IsProfile(m["profile"]) /\ IsNumber(m, "playout_target_ms", 15, 120)
         [] type = "stream.start" ->
                IsId(m, "stream_id") /\ IsString(m, "first_media_timestamp", GoodDecimals)
         [] type \in {"stream.stop", "stream.close"} -> IsId(m, "stream_id")
         [] type = "stream.rekey" -> IsId(m, "stream_id") /\ IsId(m, "key_epoch")
         [] type = "ping" -> IsString(m, "token", Tokens64)
         [] type = "session.close" -> "reason" \in DOMAIN m => IsString(m, "reason", Reasons)
         [] OTHER -> TRUE

RequestStatus(m, type) ==
    CASE ~RequestLegal(m, type) -> "GM_BAD_MESSAGE"
      [] type = "session.hello" /\ Number(1) \notin Range(m["versions"].array) ->
             "GM_UNSUPPORTED_VERSION"
      [] OTHER -> "GM_OK"

EventKeys(type) ==
    {"v", "type"} \cup
    CASE type = "event.stream.started" -> {"stream_id", "first_media_timestamp"}
      [] type = "event.stream.stopped" -> {"stream_id", "reason"}
      [] type = "event.output.state"   -> {"state", "reason"}
      [] OTHER                         -> {"reason", "deadline_monotonic_ns"}

\* validate_event
EventLegal(m, type) ==
    /\ type \in EventTypes
    /\ HasKeys(m, EventKeys(type))
    /\ "stream_id" \in EventKeys(type) => IsId(m, "stream_id")
    /\ "reason" \in EventKeys(type) => IsString(m, "reason", Reasons)
    /\ CASE type = "event.stream.started" -> IsString(m, "first_media_timestamp", GoodDecimals)
         [] type = "event.output.state" -> IsString(m, "state", EndpointStates)
         [] type = "event.session.expiring" -> IsString(m, "deadline_monotonic_ns", GoodDecimals)
         [] OTHER -> TRUE

\* validate_error
ErrorShape(e) ==
    /\ HasKeys(e, {"code", "message", "retryable"})
    /\ IsString(e, "code", ErrorCodes) /\ IsString(e, "message", AtMost(256))
    /\ Is(e, "retryable", "boolean")
ErrorLegal(m) ==
    /\ HasKeys(m, Envelope \cup {"error"}) /\ Is(m, "error", "object")
    /\ ErrorShape(m["error"].object)

HelloResultKeys == {"version", "role", "server_id", "session_id", "boot_id", "udp_port",
                    "capabilities", "limits"}
OpenResultKeys == {"stream_id", "key_epoch", "profile", "packet_interval_us", "path_state"}
StatusKeys == {"output_state", "session_stream_state", "transport_state", "feedback_age_ms"}

\* validate_result: its keys tell the result's shape.
ResultShape(r) ==
    CASE HasKeys(r, HelloResultKeys) ->
           /\ IsNumber(r, "version", 1, 1) /\ IsString(r, "role", {"apple-output-server"})
           /\ IsString(r, "server_id", Uuids) /\ IsString(r, "boot_id", Uuids)
           /\ IsString(r, "session_id", SessionIds) /\ IsNumber(r, "udp_port", 1, MaxU16)
           /\ IsCapabilities(r["capabilities"]) /\ IsLimits(r["limits"])
      [] HasKeys(r, {"udp_port", "path_state"}) ->
           IsNumber(r, "udp_port", 1, MaxU16) /\ IsString(r, "path_state", {"bound"})
      [] HasKeys(r, OpenResultKeys) ->
           /\ IsId(r, "stream_id") /\ IsId(r, "key_epoch") /\ IsProfile(r["profile"])
           /\ IsU32(r, "packet_interval_us") /\ IsString(r, "path_state", {"probing"})
           /\ r["packet_interval_us"].number = PacketInterval(r["profile"].object)
      [] HasKeys(r, {"stream_id", "key_epoch", "state"}) ->
           IsId(r, "stream_id") /\ IsId(r, "key_epoch") /\ IsString(r, "state", Reasons)
      [] HasKeys(r, {"stream_id", "state"}) ->
           IsId(r, "stream_id") /\ IsString(r, "state", Reasons)
      [] HasKeys(r, {"state"}) -> IsString(r, "state", Reasons)
      [] HasKeys(r, StatusKeys) ->
           /\ IsString(r, "output_state", EndpointStates)
           /\ IsString(r, "session_stream_state", Reasons)
           /\ IsString(r, "transport_state", Reasons) /\ IsNumber(r, "feedback_age_ms", 0, 6000)
      [] HasKeys(r, {"token", "monotonic_ns"}) ->
           IsString(r, "token", Tokens64) /\ IsString(r, "monotonic_ns", GoodDecimals)
      [] OTHER -> FALSE
ResultLegal(m) ==
    /\ HasKeys(m, Envelope \cup {"result"}) /\ Is(m, "result", "object")
    /\ ResultShape(m["result"].object)

IsEvent(type) == type \in EventTypes \cup {"event.other"}

Verdict(legal) == IF legal THEN "GM_OK" ELSE "GM_BAD_MESSAGE"
SchemaStatus(m, type) ==
    CASE IsEvent(type) -> Verdict(EventLegal(m, type))
      [] ~IsEvent(type) /\ ~IsId(m, "id") -> "GM_BAD_MESSAGE"
      [] IsId(m, "id") /\ type = "result" -> Verdict(ResultLegal(m))
      [] IsId(m, "id") /\ type = "error" -> Verdict(ErrorLegal(m))
      [] OTHER -> RequestStatus(m, type)

\* parse_message_impl after the JSON: the envelope, then the schema.
ParseMessage(m) ==
    IF ~(IsNumber(m, "v", 1, 255) /\ IsString(m, "type", TypeStrings)) THEN "GM_BAD_MESSAGE"
    ELSE IF m["v"].number # 1 THEN "GM_UNSUPPORTED_VERSION"
    ELSE SchemaStatus(m, m["type"].string)

Accepted(m) == ParseMessage(m) = "GM_OK"

-------------------------------------------------------------------------------
(* What the caller reads of an accepted message. *)

NumberFields == {"udp_port", "stream_id", "key_epoch", "playout_target_ms"}
StringFields == {"role", "client_name", "server_id", "boot_id", "session_id", "token", "reason",
                 "state", "path_state", "output_state", "session_stream_state", "transport_state",
                 "first_media_timestamp", "monotonic_ns"}
InfoFields == NumberFields \cup StringFields \cup {"versions", "profile"}

\* The part of the message that has the fields; an event's deadline goes to monotonic_ns.
Body(m) ==
    CASE "result" \in DOMAIN m -> m["result"].object
      [] "deadline_monotonic_ns" \in DOMAIN m ->
             With(m, [monotonic_ns |-> m["deadline_monotonic_ns"]])
      [] OTHER -> m

\* fault: the two results that start with stream_id are taken together and neither is copied whole
CopiedWithoutEpoch(m) ==
    (DOMAIN Body(m) \cap InfoFields)
        \ (IF "state" \in DOMAIN Body(m) THEN {"key_epoch"} ELSE {})

Copied(m) == DOMAIN Body(m) \cap InfoFields

\* What memset leaves, and what a reader of C strings (ProtocolCore.swift) sees of a value.
Zero(f) == CASE f \in NumberFields -> Number(0)
             [] f \in StringFields -> String("empty")
             [] f = "versions"     -> ArrayOf(<<>>)
             [] OTHER              -> ObjectOf(<<>>)
Seen(value) == IF value = String(NulString) THEN String("ab") ELSE value

Info(m) ==
    LET type == m["type"].string IN
    [kind |-> type, mutating |-> type \in RequestTypes \ {"status.get", "ping"},
     id |-> IF IsEvent(type) THEN 0 ELSE m["id"].number,
     has_reason |-> type \in RequestTypes \cup EventTypes /\ "reason" \in DOMAIN m,
     fields |-> [f \in InfoFields |-> IF f \in Copied(m) THEN Seen(Body(m)[f]) ELSE Zero(f)]]

-------------------------------------------------------------------------------
(* The texts that the two programs write: the Windows probe's requests from  *)
(* its options and the Apple harness's replies.                             *)

PcmProfile == [codec |-> String("pcm_s16le"), sample_rate_hz |-> Number(48000),
               channels |-> Number(2), channel_layout |-> String("stereo"),
               frames_per_packet |-> Number(240)]
OpusProfile == [PcmProfile EXCEPT !["codec"] = String("opus"), !["frames_per_packet"] = Number(480)]

Request(id, type, members) ==
    With([v |-> Number(1), id |-> Number(id), type |-> String(type)], members)
Result(id, r) == Request(id, "result", [result |-> ObjectOf(r)])

session_hello_json(client_name, udp_port) ==
    Request(1, "session.hello",
        [role |-> String("win-client"), client_name |-> String(client_name),
         versions |-> ArrayOf(<<Number(1)>>), udp_port |-> Number(udp_port)])
\* fault: the bind names the default port, whatever the options say
transport_bind_json_default(session_id, udp_port) ==
    Request(2, "transport.bind",
        [session_id |-> String(session_id), udp_port |-> Number(49152)])
transport_bind_json(session_id, udp_port) ==
    Request(2, "transport.bind",
        [session_id |-> String(session_id), udp_port |-> Number(udp_port)])
stream_open_json(playout_target_ms) ==
    Request(3, "stream.open",
        [kind |-> String("audio"), direction |-> String("win_to_apple"),
         profile |-> ObjectOf(PcmProfile), playout_target_ms |-> Number(playout_target_ms)])
stream_start_json(stream_id, timestamp) ==
    Request(4, "stream.start",
        [stream_id |-> Number(stream_id), first_media_timestamp |-> String(timestamp)])

hello_result ==
    Result(1, [version |-> Number(1), role |-> String("apple-output-server"),
        server_id |-> String("uuid_1"), session_id |-> String("a_session_id"),
        boot_id |-> String("uuid_2"), udp_port |-> Number(51838),
        capabilities |-> ObjectOf([audio_send |-> Boolean(FALSE), audio_receive |-> Boolean(TRUE),
            microphone |-> Boolean(FALSE), camera |-> Boolean(FALSE),
            audio_profiles |-> ArrayOf(<<ObjectOf(PcmProfile)>>)]),
        limits |-> ObjectOf([max_audio_subscribers |-> Number(1),
            playout_target_ms_min |-> Number(15), playout_target_ms_max |-> Number(120)])])
bind_result == Result(2, [udp_port |-> Number(51838), path_state |-> String("bound")])
open_result ==
    Result(3, [stream_id |-> Number(1), key_epoch |-> Number(1), profile |-> ObjectOf(PcmProfile),
               packet_interval_us |-> Number(5000), path_state |-> String("probing")])
start_result == Result(4, [state |-> String("started")])

\* parse_options: what the command line may ask for.
OptionPorts == {1, MaxU16}
OptionPlayouts == {15, 120}
OptionNames == {s \in {"ab", "128_bytes", "129_bytes", "non_ascii", "empty"} : Bytes(s) \in 1..128}

\* The harness's ID, or none.
OptionServerIds == {"empty", "uuid_1"}

Steps == 1..4

\* Reply k of runSecureListener.
HarnessReplies == <<hello_result, bind_result, open_result, start_result>>

\* The texts that request k of run_connect may have when its UDP port is port: it names the
\* session and the stream that it read in the replies before.
SessionTold == Info(hello_result).fields["session_id"].string
StreamTold == Info(open_result).fields["stream_id"].number
ProbeRequests(port) ==
    <<{session_hello_json(n, port) : n \in OptionNames},
      {transport_bind_json(SessionTold, port)},
      {stream_open_json(ms) : ms \in OptionPlayouts},
      {stream_start_json(StreamTold, t) : t \in {"0", "2^64-1"}}>>

\* What both listeners of the harness require of request k before they reply; only the plain
\* one asks for a playout target, only the secure one for the port of the hello.
HarnessTakes(k, info, hello_port) ==
    /\ info.id = k
    /\ k = 1 => /\ info.kind = "session.hello"
                /\ info.fields["role"] = String("win-client")
                /\ info.fields["udp_port"] # Number(0)
    /\ k = 2 => /\ info.kind = "transport.bind"
                /\ info.fields["session_id"] = String("a_session_id")
                /\ info.fields["udp_port"] = Number(hello_port)
    /\ k = 3 => /\ info.kind = "stream.open"
                /\ info.fields["playout_target_ms"] # Number(0)
                /\ info.fields["profile"].object["codec"] = String("pcm_s16le")
    /\ k = 4 => /\ info.kind = "stream.start" /\ info.fields["stream_id"] = Number(1)
                /\ info.fields["first_media_timestamp"] # String("empty")

\* receive_result_for_id, and what run_connect then requires of result k.
ProbeTakes(k, info, expected_server_id) ==
    /\ info.kind = "result" /\ info.id = k
    /\ k = 1 => /\ info.fields["role"] = String("apple-output-server")
                /\ info.fields["session_id"] # String("empty")
                /\ \/ expected_server_id = "empty"
                   \/ info.fields["server_id"] = String(expected_server_id)
    /\ k = 2 => info.fields["path_state"] = String("bound")
    /\ k = 3 => /\ info.fields["path_state"] = String("probing")
                /\ info.fields["stream_id"] # Number(0) /\ info.fields["key_epoch"] # Number(0)
    /\ k = 4 => info.fields["state"] = String("started")

\* escape_json_string of the probe: the round's units that a byte is written as.
EscapeJsonByte(byte) ==
    CASE byte \in {34, 92, 8, 12, 10, 13, 9} -> Escape(byte)
      [] byte < 32 /\ byte \notin {8, 12, 10, 13, 9} -> Hex(<<0, 0, byte \div 16, byte % 16>>)
      [] OTHER -> Raw(byte)
EscapeJson(bytes) == [i \in DOMAIN bytes |-> EscapeJsonByte(bytes[i])]

NamesReadBack ==
    \A bytes \in UpTo({8, 9, 10, 12, 13, 1, 31, 34, 92, 97, 127}, 2) :
        LET read == ParseString(EscapeJson(bytes), TRUE) IN
        read.status = Ok /\ read.value = bytes

-------------------------------------------------------------------------------
(* Samples: one message of every shape, and for every member the values on   *)
(* both sides of each check.                                                *)

NumberArray(a) == ArrayOf([i \in DOMAIN a |-> Number(a[i])])
Profiles(a) == ArrayOf([i \in DOMAIN a |-> ObjectOf(a[i])])

NumbersFor(f) ==
    CASE f = "v" -> {0, 1, 2, 255, 256}
      [] f \in {"id", "stream_id", "key_epoch"} -> {0, 1, 2, MaxU32, MaxU32 + 1}
      [] f = "udp_port" -> {0, 1, MaxU16, MaxU16 + 1}
      [] f = "playout_target_ms" -> {14, 15, 120, 121}
      [] f = "sample_rate_hz" -> {44100, 48000}
      [] f = "channels" -> {1, 2, MaxU16 + 3}
      [] f = "frames_per_packet" -> {240, 480, MaxU16 + 241}
      [] f = "packet_interval_us" -> {0, 5000, 10000}
      [] f = "version" -> {1, 2, 256}
      [] f \in LimitKeys -> {0, 1, 15, 120, MaxU32, MaxU32 + 1}
      [] f = "feedback_age_ms" -> {0, 6000, 6001}
      [] OTHER -> {}

StringsFor(f) ==
    CASE f = "type" -> RequestTypes \cup EventTypes \cup
            {"result", "error", "event.other", "other", "empty", "64_bytes", "65_bytes", "PING",
             "non_ascii"}
      [] f = "role" -> {"win-client", "apple-output-server", "other"}
      [] f = "client_name" ->
            {"empty", "ab", "128_bytes", "129_bytes", "non_ascii", NulString}
      [] f = "session_id" -> {"empty", "a_session_id", "32_bytes", "64_bytes", "A_SESSION_ID"}
      [] f \in {"server_id", "boot_id"} -> {"empty", "uuid_1", "uuid_2", "UUID"}
      [] f \in {"first_media_timestamp", "monotonic_ns", "deadline_monotonic_ns"} ->
            GoodDecimals \cup BadDecimals \cup {"empty"}
      [] f = "token" -> {"empty", "ab", "64_bytes", "65_bytes", "non_ascii", NulString}
      [] f = "reason" ->
            {"empty", "ab", "64_bytes", "65_bytes", "non_ascii", "with_DEL", NulString}
      [] f \in {"state", "output_state", "session_stream_state", "transport_state"} ->
            {"empty", "available", "faulted", "ab", "64_bytes", "65_bytes", "with_DEL"}
      [] f = "path_state" -> {"empty", "bound", "probing"}
      [] f = "codec" -> {"pcm_s16le", "opus", "other"}
      [] f = "channel_layout" -> {"stereo", "other"}
      [] f = "kind" -> {"audio", "other"}
      [] f = "direction" -> {"win_to_apple", "other"}
      [] f = "code" -> {"BAD_REQUEST", "INTERNAL", "other"}
      [] f = "message" -> {"empty", "256_bytes", "257_bytes", "non_ascii"}
      [] OTHER -> {}

PartsFor(f) ==
    CASE f \in {"audio_send", "audio_receive", "microphone", "camera", "retryable"} ->
            {Boolean(b) : b \in BOOLEAN}
      [] f = "versions" ->
            {NumberArray(a) : a \in {<<>>, <<1>>, <<2>>, <<2, 1>>, <<1, 2>>, <<1, 1>>, <<255, 1>>,
                 <<256, 1>>, <<1, 0>>, <<8, 7, 6, 5, 4, 3, 2, 1>>, <<9, 8, 7, 6, 5, 4, 3, 2, 1>>}}
            \cup {ArrayOf(<<String("1")>>)}
      [] f = "profile" -> {ObjectOf(PcmProfile), ObjectOf(OpusProfile)}
      [] f = "audio_profiles" ->
            {Profiles(a) : a \in {<<>>, <<OpusProfile>>, <<PcmProfile, OpusProfile>>,
                                  <<PcmProfile, OpusProfile, PcmProfile>>}}
            \cup {ArrayOf(<<Number(1)>>)}
      [] OTHER -> {}

Samples(f) ==
    {Number(n) : n \in NumbersFor(f)} \cup {String(x) : x \in StringsFor(f)} \cup PartsFor(f)

Event(type) ==
    With([v |-> Number(1), type |-> String(type)],
    CASE type = "event.stream.started" ->
             [stream_id |-> Number(1), first_media_timestamp |-> String("1")]
      [] type = "event.stream.stopped" -> [stream_id |-> Number(1), reason |-> String("ab")]
      [] type = "event.output.state" -> [state |-> String("available"), reason |-> String("ab")]
      [] OTHER -> [reason |-> String("ab"), deadline_monotonic_ns |-> String("1")])

OtherRequests ==
    {Request(7, t, [stream_id |-> Number(1)]) : t \in {"stream.stop", "stream.close"}} \cup
    {Request(7, "stream.rekey", [stream_id |-> Number(1), key_epoch |-> Number(2)]),
     Request(7, "status.get", <<>>), Request(7, "ping", [token |-> String("ab")]),
     Request(7, "session.close", [reason |-> String("ab")])}

OtherResults ==
    {Result(3, [open_result["result"].object EXCEPT !["profile"] = ObjectOf(OpusProfile),
                                                    !["packet_interval_us"] = Number(10000)]),
     Result(7, [stream_id |-> Number(1), key_epoch |-> Number(2), state |-> String("ab")]),
     Result(7, [output_state |-> String("available"), session_stream_state |-> String("ab"),
                transport_state |-> String("ab"), feedback_age_ms |-> Number(0)]),
     Result(7, [token |-> String("ab"), monotonic_ns |-> String("1")]),
     Request(7, "error", [error |-> ObjectOf([code |-> String("INTERNAL"),
                message |-> String("256_bytes"), retryable |-> Boolean(TRUE)])])}

SampleMessages == OtherRequests \cup OtherResults \cup {Event(t) : t \in EventTypes}

AnyValue == {Number(1), String("ab"), Boolean(TRUE), ArrayOf(<<>>), ObjectOf(<<>>)}

\* The objects in an array, and those directly inside an object.
ObjectPlaces(a) == {i \in DOMAIN a : "object" \in DOMAIN a[i]}
Having(o, kind) == {f \in DOMAIN o : kind \in DOMAIN o[f]}
ObjectsIn(o) ==
    {o[f].object : f \in Having(o, "object")}
    \cup UNION {{o[f].array[i].object : i \in ObjectPlaces(o[f].array)} : f \in Having(o, "array")}

\* Every object one edit away from o, with what the edit is; inner has the edits of the
\* objects inside.
Put(o, f, v) == [o EXCEPT ![f] = v]
Replaced(o, f, v, as) == [edit |-> as, object |-> Put(o, f, v)]
Removals(o) == {[edit |-> "removed", object |-> Restrict(o, DOMAIN o \ {f})] : f \in DOMAIN o}
Addition(o) == [edit |-> "added", object |-> With(o, [other |-> Number(1)])]
Changes(o) ==
    UNION {{Replaced(o, f, v, IF Kind(v) = Kind(o[f]) THEN "changed" ELSE "other_kind") :
               v \in (Samples(f) \cup AnyValue) \ {o[f]}} : f \in DOMAIN o}
Inside(o, inner) ==
    UNION {{Replaced(o, f, ObjectOf(e.object), e.edit) : e \in inner[o[f].object]} :
           f \in Having(o, "object")}
InsideArray(o, f, inner) ==
    UNION {{Replaced(o, f, ArrayOf(Put(o[f].array, i, ObjectOf(e.object))), e.edit) :
               e \in inner[o[f].array[i].object]} : i \in ObjectPlaces(o[f].array)}
ObjectEdits(o, inner) ==
    Removals(o) \cup {Addition(o)} \cup Changes(o) \cup Inside(o, inner)
        \cup UNION {InsideArray(o, f, inner) : f \in Having(o, "array")}

\* The deepest message is a hello's result: the message, its result, capabilities and profiles.
ProfileEdits(o) == ObjectEdits(o, [x \in ObjectsIn(o) |-> {}])
PartEdits(o) == ObjectEdits(o, [x \in ObjectsIn(o) |-> ProfileEdits(x)])
ResultEdits(o) == ObjectEdits(o, [x \in ObjectsIn(o) |-> PartEdits(x)])
Edits(o) == ObjectEdits(o, [x \in ObjectsIn(o) |-> ResultEdits(x)])

-------------------------------------------------------------------------------
MessageInit ==
    /\ edits = 0
    /\ \/ edit = "written" /\ \E k \in Steps :
              \/ message = HarnessReplies[k]
              \/ \E port \in OptionPorts : message \in ProbeRequests(port)[k]
       \/ edit = "sample" /\ message \in SampleMessages

\* An accepted message comes again with one edit.
EditMessage ==
    /\ Accepted(message) /\ edits < MaxEdits
    /\ \E e \in Edits(message) : edit' = e.edit /\ message' = e.object
    /\ edits' = edits + 1

-------------------------------------------------------------------------------
\* Accepted requests are what ControlSession takes for granted.
MessageTypeOK ==
    /\ edit \in {"none", "written", "sample", "removed", "added", "changed", "other_kind"}
    /\ edits \in 0..MaxEdits
    /\ ParseMessage(message) \in {"GM_OK", "GM_BAD_MESSAGE", "GM_UNSUPPORTED_VERSION"}
    /\ Accepted(message) =>
           LET info == Info(message) fields == info.fields IN
           /\ info.id \in 0..MaxU32 /\ (info.id = 0 <=> info.kind \in EventTypes)
           /\ \A f \in {"stream_id", "key_epoch"} :
                  fields[f].number \in (IF f \in DOMAIN Body(message) THEN 1 ELSE 0)..MaxU32
           /\ info.kind \in {"session.hello", "transport.bind"} =>
                  fields["udp_port"].number \in 1..MaxU16
           /\ info.kind = "stream.open" => fields["playout_target_ms"].number \in 15..120

\* main.cpp:205-317,493-513,749-823, main.swift:222-263,440-521: the scripts of the two programs
\* fit at every step.  For all options, request k of the probe is accepted and is what the
\* harness requires then, with the session and port it was told before; reply k of the harness
\* is what the probe requires then, and what the probe reads in it makes its next request good.
BothProgramsUnderstood ==
    edit = "written" =>
        /\ Accepted(message)
        /\ \A k \in Steps :
               /\ \A port \in OptionPorts : message \in ProbeRequests(port)[k] =>
                      HarnessTakes(k, Info(message), port)
               /\ message = HarnessReplies[k] =>
                      \A id \in OptionServerIds : ProbeTakes(k, Info(message), id)

\* docs/03:29-33, gm_control.cpp:490-507, 831-1206: the schemas are closed.  A message with a
\* member more, a member less or a member of another JSON kind, at any level, is refused; only a
\* session.close may lose its reason, and a result about a stream is the result of another
\* request when it loses key_epoch or stream_id.
SchemasAreClosed ==
    Accepted(message) =>
        /\ edit \notin {"added", "other_kind"}
        /\ edit = "removed" =>
               \/ message["type"].string = "session.close"
               \/ /\ message["type"].string = "result"
                  /\ DOMAIN message["result"].object \in {{"stream_id", "state"}, {"state"}}

\* The members of a message that gm_control_message_info has no room for; a profile's packets
\* decide the interval.
Untold == {"v", "kind", "direction", "result", "error", "version", "capabilities", "limits",
           "packet_interval_us", "feedback_age_ms", "type", "id"}
Said(m) ==
    [head |-> Restrict(m, DOMAIN m \cap {"type", "id"}),
     body |-> LET b == Restrict(Body(m), DOMAIN Body(m) \ Untold)
              IN  [f \in DOMAIN b |-> Seen(b[f])]]

\* gm_control.cpp:661-668, 831-1206: the caller, who sees the info and not the text, can tell any
\* two accepted messages apart that differ in anything the info has room for, the present member
\* from the absent one included; strings count up to a NUL, which ends them for the caller.
InfoSaysWhatWasSaid ==
    [][(Accepted(message) /\ Accepted(message')) =>
           (Info(message) = Info(message') <=> Said(message) = Said(message'))]_messageVars
================================================================================
