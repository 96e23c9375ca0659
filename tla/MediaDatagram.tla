----------------------------- MODULE MediaDatagram -----------------------------
(***************************************************************************)
(* A protected datagram: the header codec and the nonce (gm_media.cpp), the *)
(* keys of one direction (gm_crypto.cpp), and how both programs seal and    *)
(* open.  AES-GCM, the hash and the TLS exporter give different results for  *)
(* different inputs.                                                        *)
(***************************************************************************)
EXTENDS Integers, FiniteSets

CONSTANT MaxPayload     \* GM_MEDIA_MAX_PAYLOAD_BYTES

ASSUME DatagramAssumption == MaxPayload \in Nat

HeaderBytes == 64
TagBytes == 16
PathPayload == 12
FeedbackPayload == 32

\* validate_media_header_fields
Legal(h) ==
    /\ h.stream_id # 0 /\ h.key_epoch # 0 /\ h.payload_length <= MaxPayload
    /\ \/ h.kind = "AUDIO" /\ h.direction = "WIN_TO_APPLE" /\ h.payload_length > 0
       \/ /\ \/ h.kind = "PATH_CHALLENGE" /\ h.direction = "WIN_TO_APPLE"
             \/ h.kind = "PATH_RESPONSE" /\ h.direction = "APPLE_TO_WIN"
          /\ h.media_timestamp = 0 /\ h.payload_length = PathPayload
       \/ /\ h.kind = "FEEDBACK" /\ h.direction = "APPLE_TO_WIN"
          /\ h.media_timestamp = 0 /\ h.payload_length = FeedbackPayload

\* The bytes of a header are the fields written to it: <<offset, width, value>>; the rest is zero.
\* A field is read back if it was written there and nothing was written across it.
Touches(field, offset, width) == field[1] < offset + width /\ offset < field[1] + field[2]
Field(bytes, offset, width) ==
    LET touching == {f \in bytes : Touches(f, offset, width)}
        whole == {f \in touching : f[1] = offset /\ f[2] = width}
    IN  IF Cardinality(touching) = 1 /\ whole = touching THEN (CHOOSE f \in whole : TRUE)[3]
        ELSE "garbled"

\* gm_media_encode_header, which is also the additional data of the seal.
EncodeHeader(h) ==
    {<<0, 4, "GMA1">>, <<4, 1, 1>>, <<5, 1, h.kind>>, <<6, 2, 0>>, <<8, 16, h.session_id>>,
     <<24, 4, h.stream_id>>, <<28, 1, h.direction>>, <<32, 4, h.key_epoch>>,
     <<36, 8, h.sequence>>, <<44, 8, h.media_timestamp>>, <<52, 4, h.payload_length>>}

\* The fields that gm_media_decode_header reads, and whether it takes a datagram of so many bytes.
HeaderOf(bytes) ==
    [kind |-> Field(bytes, 5, 1), session_id |-> Field(bytes, 8, 16),
     stream_id |-> Field(bytes, 24, 4), direction |-> Field(bytes, 28, 1),
     key_epoch |-> Field(bytes, 32, 4), sequence |-> Field(bytes, 36, 8),
     media_timestamp |-> Field(bytes, 44, 8), payload_length |-> Field(bytes, 52, 4)]
Decodes(bytes, size) ==
    /\ size \in (HeaderBytes + TagBytes)..(HeaderBytes + MaxPayload + TagBytes)
    /\ Field(bytes, 0, 4) = "GMA1" /\ Field(bytes, 4, 1) = 1 /\ Field(bytes, 6, 2) = 0
    /\ \A f \in bytes : ~Touches(f, 29, 3) /\ ~Touches(f, 56, 8)
    /\ size = HeaderBytes + HeaderOf(bytes).payload_length + TagBytes
    /\ Legal(HeaderOf(bytes))

\* fault: the nonce of an epoch is the same for all its packets
NonceOfEpoch(key_epoch, sequence) == <<key_epoch>>
\* gm_media_build_nonce
Nonce(key_epoch, sequence) == <<key_epoch, sequence>>

\* gm_crypto_build_exporter_context
ExporterContext(session_id, stream_id, direction, key_epoch, sender, receiver) ==
    <<"ghostmedia/1", session_id, stream_id, direction, key_epoch, sender, receiver>>
\* The exporter of a TLS connection and gm_crypto_split_exporter_output.
DirectionalKeys(connection, context) ==
    [media_key |-> <<connection, context, "first half">>,
     path_key |-> <<connection, context, "second half">>]

\* seal_media_datagram and sealMedia; the size is that of the payload it was made with.
Seal(h, payload, key) ==
    [header |-> EncodeHeader(h), key |-> key, nonce |-> Nonce(h.key_epoch, h.sequence),
     payload |-> payload, size |-> HeaderBytes + h.payload_length + TagBytes]

\* open_media_datagram and openMedia: the header as received is authenticated with the payload.
Opens(d, key) ==
    /\ Decodes(d.header, d.size)
    /\ d.key = key
    /\ LET h == HeaderOf(d.header) IN d.nonce = Nonce(h.key_epoch, h.sequence)
================================================================================
