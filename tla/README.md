# GhostMedia: models, checks and proofs

TLA+ models of the GhostMedia protocol code (`src/`): a Windows client sends encrypted PCM
audio to an Apple output server over a TLS control connection and a UDP media path.  TLC
model-checks each module on small instances, and TLAPS proves theorems about the core ones for
every value of their constants.  Paths below are relative to `src/` unless they begin
with `src/`.  `PROJECT.json` gives the source lines of every definition.

## 1. The system

| Component (source) | State | Operations | Talks to |
|---|---|---|---|
| Control session (`shared/core/gm_state.cpp`) | session state, last request ID, the open stream (ID, key epoch, profile, start timestamp, path flag), next and last closed stream ID, counters | `init`, `ingest` (ten request kinds, errors), `mark_path_validated`, `get_metrics` | called by the Apple server for each control message and each proven UDP path |
| Media replay window (`shared/core/gm_media.cpp`) | highest sequence, 1024-bit bitmap in 16 words | `init`, `accept` | called for each authenticated audio packet |
| Key epoch window (`shared/core/gm_media.cpp`) | current and previous epoch, end of grace | `init`, `begin_rekey`, `accept` | called by a media receiver around a rekey |
| Media header and nonce codec (`shared/core/gm_media.cpp`) | none | encode, decode, nonce, AAD | both media ends |
| Audio timing plan (`shared/core/gm_state.cpp`) | none | one calculation | a future renderer |
| Control parser and validator (`shared/core/gm_control.cpp`) | none | parse, validate | session, probe, harness |
| Control framing (`shared/core/gm_core.cpp`, `ProtocolCore.swift`) | bytes buffered by the decoder | encode, peek, append, next payload | TCP/TLS receive loops |
| Crypto policy (`shared/core/gm_crypto.cpp`) | none | trust and TLS predicates, exporter context, key derivation layout | TLS set-up, trust store |
| Windows control probe (`WinDevice/tools/control_probe/main.cpp`) | position in its script | connect, handshake, requests, path challenge, audio | Apple harness |
| Apple harness (`GhostMediaAppleHarness/main.swift`) | position in its script, a control session, a replay window | listen, reply, path response, receive audio | Windows probe |
| Swift bridge (`GhostMediaProtocolBridge`) | a copy of each C value | wrappers that throw on any status but `GM_OK` | C core |
| TCP and UDP sockets (`runtime/core/socket_provider.cpp`) | a descriptor and its timeouts | connect, accept, send, receive | probe, harness |
| TLS provider (`runtime/core/tls_provider.cpp`) | OpenSSL state, byte and time limits | handshake, send, receive, export | probe, harness |
| Identity and certificate providers, AES-GCM (`runtime/core`) | keys | create, import, seal, open | TLS, media |
| Apple identity and trust stores (`IdentityStore.swift`, `SecureStore.swift`) | keychain items | load or create, renew, migrate, approve, revoke | Apple application |
| DNS-SD advertisement (`OutputServerAdvertisement.swift`) | service, state | start, stop, callbacks | Apple application |
| Application shells | none to speak of | views, stubs | - |

What is hard in this code, and the property that answers it:

- **Control and media are two transports without an order between them.**  A path proof may reach
  the session after its stream was rekeyed, closed or reopened (`ProvenPathIsCurrent`); the probe's
  `stream.start` may be on the wire before the harness has told its session about the path
  (`SessionNeverRefuses`, `AudioOnProvenPath`).
- **Replies are lost and requests repeated** (`RetriesAreIdempotent`), sessions end in the middle of
  a stream (`ClosedIsFinal`).
- **Keys must be used once**: a pair of stream ID and epoch names an AES key whose sequence numbers
  restart (`ImplementsKeySchedule`, `EpochsRetireForGood`).
- **UDP loses, duplicates and reorders** (`AcceptedOnce`, `BitmapIsHistory`, `ImplementsAntiReplay`,
  `PlaysInOrder`).
- **TCP cuts and joins** (`ImplementsMessageChannel`, `NoFalseAlarm`, `BufferBounded`).
- **Boundaries**: the last stream ID, the last epoch, the end of the 64-bit clock, word boundaries
  of the bitmap, the largest frame.
- **Two programs that each block on the other** (`BothEnd`, `CleanRunSucceeds`, `EveryCallReturns`), with
  deadlines that several waits share and descriptors that every failing call must give back
  (`CallsEndClean`).
- **TLS 1.3 ends on the two sides at different moments**: the client is through before the server has
  judged its certificate (`PeersAgree`).
- **A hand-written JSON parser and hand-written schemas** that another implementation also has to
  meet: limits, spellings, UTF-8 (`VerdictMatchesGrammar`, `ScalarsReadExactly`), closed schemas
  (`SchemasAreClosed`), and texts that the two programs themselves write in two languages
  (`BothProgramsUnderstood`, `InfoSaysWhatWasSaid`).
- **The Keychain has no transactions**: each store is an update and then an add, with other callers,
  refusals and crashes between (`SettledIdentityStays`, `IdentityCallsAgree`, `RevocationIsKept`).  On a first
  start this is not enough: two overlapping calls may return different identities (`ReturnedIsStored`, finding 3).
- **No key sees a nonce twice** (`NonceUsedOnce`), though late datagrams of an earlier run may come in.

`PROJECT.json` lists each hazard with its line, and the one that no property covers with the reason.

## 2. The modules

```
KeySchedule  <--refines-- ControlSession <--instance-- Phase3Session --extends--> MediaDatagram
                              |                             |
                    ControlSessionProofs,            Phase3SessionProofs
                    MCControlSession

AntiReplay   <--refines-- ReplayWindow   <--refines-- ReplayWords
                              |                           |
          EpochWindow -- MediaWindowProofs        ReplayWordsProofs

MessageChannel <-refines- FrameDecoder  -- FrameDecoderProofs

ControlText --extends--> JsonParser --extends--> JsonGrammar
     |      --extends--> ControlMessage --extends--> JsonScalars
ControlTextProofs

AppleStores --extends--> IdentityStore, TrustStore --extend--> SecureStore
     |
AppleStoresProofs

SecureTransport --extends--> TcpSockets
     |
SecureTransportProofs
```

**ControlSession** is `gm_control_session` whole.  One action per request kind; each takes the parsed
fields and has the handler's accepting branches, its retry branches and its conflict.
`Request` is the request-ID check, `Accept`/`AcceptClose`/`Conflict`/`CloseOnError` are the ways a
call ends, counters and returned action included.  `BadFrame` is any message that does not parse, is no
request or repeats an ID; `IngestAfterClose` is any call on a closed session.
`MarkPathValidated` may report every key that was ever in use, since UDP can deliver its
challenge late.  The fields `stream.close` erases together are one record, `stream`.  Profile and
playout target are compared only together, so a pair is one model value.  `activated` and `proven`
are history variables; no action reads them but through the choice of late proofs.

**KeySchedule** is what the session promises the media plane: keys in increasing order, each
handed out once below the last stream ID, audio started only on a proven path, nothing left
after a close.

**ReplayWindow** is `gm_replay_window_accept` over one bit per sequence number; **ReplayWords** is the
same call over the array of words, with `shift_bitmap_left` and its carries; **AntiReplay** is the
promise without a bitmap.  The words implement the bits, the bits implement the promise.

**EpochWindow** is `gm_epoch_window`.  The code takes the time as an argument; the caller's
monotonic clock is the variable `now`, which may jump by any amount between calls.  Its definitions begin
with `Epoch`, because one module proves both windows.

**FrameDecoder** is the frame format (`WriteBE`, `ReadBE`, `Bad`, `Complete`) and the two readers: the
Swift decoder, which appends whatever a receive returns, and the probe, which receives exactly
what it still misses (`exact`).  The sender may be another implementation: it can announce any length
its header can hold, and it may go away in the middle of a frame.  **MessageChannel** is the
promise: messages come out in order, up to the first illegal one.

**Phase3Session** composes the probe's `run_connect` and the harness's `runSecureListener` in their
secure test mode, after the TLS handshake.  The harness's replies come from an instance of
ControlSession.  `client` and `server` say where each script stands.  TLS is a FIFO each way;
`Network` lets UDP lose a datagram, deliver it twice or hold it back; `Breaks` lets any call of a
running program fail; `ClientTimeout` and `ServerTimeout` are the receive timeouts once nothing can
come any more (a timeout before a slow answer is one of the failures of `Breaks`).  Both programs compare the sender of a
datagram (`Source`) with the peer they expect; the probe compares it with `host`, the host of `--connect` as it was
typed, which is an address in digits or a name.  Datagrams are
sealed and opened by **MediaDatagram**: the header as the byte ranges of its fields, the checks of
encoder and decoder, the nonce, the exporter context with its owners' IDs and the split of the
exporter's output into two keys.  A ciphertext opens only with the key, nonce and header it was sealed
with; `sealed` records each use of a key.  Late datagrams of an earlier run (`StraysUp`, `StraysDown`) come
from another TLS connection with the same stream ID and epoch.

**JsonScalars** is the leaves of the parser in `gm_control.cpp`: UTF-8, strings with their escapes and
surrogates, integers, and the decimal strings of timestamps, byte by byte, as pure operators.
`StringsExact`, `NumbersExact` and `Utf8Exact` compare them with what JSON says of the same input.
**JsonParser** is `gm_control_validate_json_text`: the checks on the whole text, the recursive descent as
a stack machine that takes one token a step, and the size limit that only a `session.hello` may pass.
**JsonGrammar** says of a whole token sequence which texts `docs/03-control-protocol.md` allows and why
another is refused; it has no counterpart in the code.  It is written without recursion: the depth of
a token is a difference of two counts, its container the last bracket of the depth above, its place the
number of its siblings.

**ControlMessage** is `gm_control_parse_message` after the JSON: the schemas of every request,
result, error and event (`RequestLegal`, `ResultLegal`, `ErrorLegal`, `EventLegal`), and `Info`, what a
caller sees of a message through `gm_control_message_info` and the Swift bridge's optional fields.
`ProbeRequests` and `HarnessReplies` are the texts that the two programs write at each step of their scripts, and
`HarnessTakes` and `ProbeTakes` what the other one asks of them at that step: kind and exact ID,
and then the checks that `run_connect` and `runSecureListener` make themselves (role, session ID, server ID, ports,
path state, stream ID, key epoch, codec, state).  A request names the session and the stream that the probe has
read in the replies before (`SessionTold`, `StreamTold`).  A string is a sample of what the schemas tell apart:
its length against each limit, its alphabet, a NUL.  `EditMessage` is another implementation's message: an
accepted one with a member removed, added, changed or made another kind, at any of the levels message, result
or request part, capabilities, profile (`Edits` goes down level by level).  **ControlText** joins both entry points;
`ScalarsReadExactly` says there that the scalars are read exactly and that a name the probe escapes
(`escape_json_string`) is read back as it was.

**SecureStore** is `SecureStore.swift`: `set` is an update and, when the item is missing, an add, two
Keychain calls with anything in between.  **IdentityStore** is `loadOrCreate` with the provider's
`load` and `renew`: each action is the code between two Keychain calls.  Keys are numbers, a certificate
is its key and the time it was made; the user may set the clock.  `IdentityInit` has installations that are
new, in the old format (whole or half moved) or damaged.  **TrustStore** is `approve`, `revoke` and
`authorizes` of one peer.  `approved`, `revokedLast`, `setBack` and the locals `began`, `alone` and `why` are histories.

**TcpSockets** is connect over two addresses, listen, accept and the UDP bind, with the descriptors each
side has `open`, those its `handles` own, and what is left of each wait and deadline.  **SecureTransport** goes
on with `TlsSession` in the order `run_connect` and `runSecureListener` use it: `Create`, rounds of
`Handshake` and `Receive`, then the first request and its answer.  OpenSSL is what it does to this code
(`DoHandshake`): flights of pieces, alerts, the request to read more.

## 3. The runs

| Run | Shows | Bounds, and why they suffice |
|---|---|---|
| `control_session` | In every order of calls: a trusted path is the proven one, a closed or erased stream leaves nothing behind, the counters add up, retries move nothing, a closed session stays closed, and the session implements KeySchedule | `MaxU32 = 7`, first stream 6, so the ordinary close and reopen (6 to 7), the last ID and its return are all reached; epochs start two below the top, so the last epoch and a rekey refused there are reached too, and request IDs run over the same small range; `MaxActions = 11` calls: hello, bind, open, prove, start, rekey, prove, close, open and two more. Two values of each parameter suffice, as they are compared only for equality; for that reason parameters and timestamps are symmetric |
| `session_id_wrap` | finding 2 below | as above |
| `session_error_close` | finding 1 below | as above |
| `replay_window` | the bitmap is the accepted history and the window implements AntiReplay, in every order of deliveries | window 5, thirteen sequence numbers: jumps by less than, exactly and more than twice a window |
| `replay_words` | shifting word by word is shifting the row of bits | 3 words of 3 bits, fourteen sequence numbers: shifts within a word, by whole words, across two boundaries and past the window |
| `epoch_window` | an old epoch is accepted exactly during its grace and never comes back | four epochs, ten instants, grace 3: overlapping graces, rekeys past each other and the saturated end of the clock |
| `control_text` | the parser's verdict on every text is the grammar's, scalars are read exactly, schemas are closed, each request and reply of the two programs meets what the other one asks for at that step, and the info tells accepted messages apart | texts of up to 11 tokens over a small alphabet with limits 4 (depth), 2 (members), 3 (members in all) and 1 (elements): each limit is met and passed by one, inside and outside a hello; strings of up to three units (bytes, escapes, surrogates whole and cut) around a limit of 6 bytes; UTF-8 of three bytes at every boundary, and four of a few; integers of up to four digits around `MaxNumber = 255`, which stands for the largest 64-bit one; a sample of every kind of message with up to two edits (a member removed, added, of another kind, or another sample) |
| `apple_stores` | the identity settles once and stays; a call that begins on a settled identity returns it, and one that overlaps no other, a first start included, returns what is then stored; a revocation holds until an approve overrides it | three calls that may all overlap, by three callers, since two can race for an item and a third then find what they left; instants 0 and 1 with validity 1: valid, expired and renewed, set back; two permissions. Callers are symmetric |
| `apple_first_start` | finding 3 below | two callers and two calls |
| `secure_transport` | no descriptor leaks and no wait outlasts its deadline, whatever fails; nobody goes on with the wrong peer; every call returns | timeouts of 2, so that a deadline may be half gone; two addresses, either the server's; flights of 2 pieces in reads of up to 2, caps of 4 pieces and 4 rounds with a flight of 5 pieces above both; one thing wrong with the pairing (pins, ALPN, a long flight), and a stall or a cut at any step |
| `frame_decoder` | payloads come out whole, in order and within the buffer's bound, and a reader gives up only on a bad or departed peer | bytes of 2 values, header of 2 bytes, legal lengths 1 and 2, so lengths 0 and 3 are announced and refused; two frames of any content, reads of up to 6 bytes: a read may hold two frames or the end of one and the start of the next |
| `phase3_session` | both programs end; audio flows only on the proven path; no key sees a nonce twice; what is played is a gap-free prefix; the undisturbed run, given the harness's address in digits, succeeds on both sides | four packets instead of eight, and at most three disturbances, which may hit the same packet or both programs, late datagrams of an earlier run among them; `host` an address in digits or a name |

Deadlock is checked where the system cannot stop (`replay_window`, `replay_words`, `phase3_session`, whose
`BothEnded` is the only way to rest).  It is off for the control session (the bound on calls), the
epoch window (the clock ends), the decoder (the sender may send no more), `control_text` (a text may end
anywhere), `apple_stores` and `apple_first_start` (all callers may be done or gone) and `secure_transport` (both may be through).

The refinement of ReplayWindow by ReplayWords, proved too, carries the types, `BitmapIsHistory` and
`AcceptedOnce` over to the words; `IInv` has `StreamMatchesState` as a conjunct.  Neither is run again on its own.

**Fairness.**  The C core is passive: its modules have no fairness and state safety only.
FrameDecoder has weak fairness on the reader, whose receive loops run until they have their bytes or fail.
Phase3Session has weak fairness on each program as a whole: each is one thread that runs on, and every
blocking call carries a timeout (5 s in the probe, `main.cpp:22`; 60 s in the harness, `main.swift:13`).
SecureTransport has weak fairness on each program's steps and on the clock: a program that has not hung
runs on, and a wait comes to its end.  The clock never passes a due wait (`Tick`).
The network and failures have none; `CleanRunSucceeds` assumes they do not strike.

**Assumptions of the environment.**  In SecureTransport: computation takes no time against the waits, so that
time passes only between steps; a handshake flight fits the socket's send buffer; both
programs have one `Timeout` (the probe's is 5 s, the harness's 60 s); after one stall or one cut the network
holds.  In Phase3Session: each machine has one address, and a name of the harness
resolves to it.  In IdentityStore and TrustStore: a Keychain call is atomic, may be refused at any
time, and a generated key or UUID never repeats.  In MediaDatagram: the exporter gives different secrets for
different connections or contexts, and AES-GCM opens nothing that was not sealed.

**Findings** (runs that end in a counterexample):

1. `session_error_close`: a protocol error sets the session to CLOSED and leaves stream, epoch and path
   flag in place; `docs/07-lifecycle-and-recovery.md:9` says streams are stopped and keys erased.
   `ClosedIsFinal` shows that nothing acts on the leftovers.
2. `session_id_wrap`: after the stream with ID `UINT32_MAX` is closed, the next open gets the same ID and
   initial epoch, hence the same media keys; `shared/tests/gm_core_tests.cpp:546` says a reopened stream
   gets the next ID.  KeySchedule therefore promises single use only below the last ID.
3. `apple_first_start`: two calls of `loadOrCreate` that overlap on a new installation both find no server ID, and the
   later one writes over the ID that the earlier one has stored and returned (the keys likewise);
   `docs/02-discovery-and-security.md:102-105` asks for atomic generation and persistence and no transient identity.
   It takes two concurrent callers: a call that overlaps no other returns what is stored (`IdentityCallsAgree`).

Differences seen while reading that no run states:
`stream.open` is accepted without an available output, though `docs/03:208` says that availability is verified;
the probe compares the sender of the path response, an address in digits, with the host of `--connect` as typed
(`main.cpp:811`), so that with a name, good for TCP and for the challenge, the secure test always fails there on the
probe's side: the usage text (`main.cpp:149`) says `<host>`, the wrapper script of `PHASE3_TEST.md:29` passes only an
IPv4 address, and `CleanRunSucceeds` is stated for an address while every other property covers both;
a repeated `stream.open` after a rekey answers with the new epoch and a repeated `stream.start` after a
rekey conflicts (`docs/03:216-235`); a repeated close of an older stream after a reopen conflicts
(`docs/03:241`); a second rekey within the grace period ends the first overlap early (`docs/03:260-264`);
a second hello is a conflict that does not close the session (`docs/03:129`); the Swift decoder's buffer holds up
to a frame and a read (`BufferBounded`), not the fixed 65,536 bytes of `docs/03:20-21`.  In the two-host test the probe
waits for no acknowledgement, so it reports success also when the harness has failed on a lost packet; the
pass criteria of `WinDevice/PHASE3_TEST.md` ask for both reports.
`OutputServerAdvertisement.swift:56-62` puts the server ID into the DNS-SD TXT record, which
`docs/02-discovery-and-security.md:98` says must not be advertised.

## 4. The proofs

All theorems hold for every value of the constants under the modules' named assumptions.  Most of these
only say that sizes are natural numbers, that the start lies in its range, and that a zeroed field differs from a
real one.  The others: `None` and `Bad` are no numbers, records, certificates or identities (`StoreAssumption`,
`TrustAssumption`, `IdentityAssumption`), and `FrameAssumption` says of the powers of the base what a power is,
since the provers know nothing of exponentiation.  TLC evaluates each of them.

- **ControlSessionProofs.**  `ProvenPathIsCurrent` alone is not inductive: that a reopened stream starts
  unproven with zeroed fields relies on the earlier close having erased them, that its ID is new relies on the
  order of all earlier ones, and that a retry finds its reply still true relies on what the reply left.
  `IInv` joins these: `StreamMatchesState`, `KeysInOrder`, `ReplyStillHolds` and
  `ProvenPathIsCurrent`.  `StepTyped` and `StepSafe` go through the actions one by one;
  `ClosedStaysClosed`, `RetriesAccepted` and `SessionImplementsKeySchedule` follow from the invariant.
  `CountersAlwaysTellHistory` needs `CountsIInv` besides.  A counter is compared with the size of a history, so
  each step has to show that the key or ID it adds is new: `KeysAreCounted` keeps every earlier key below the
  one in use, which holds until the last stream ID has been closed, and says exactly how closes and rekeys add up
  to the keys handed out.
- **MediaWindowProofs.**  `BitmapIsHistory` is inductive once typed; one lemma for each branch of `accept`
  (`FirstRemembers`, `NewerRemembers` with the shift, `OlderRemembers`) and one on the answer
  (`AnswerIsRight`) give `NeverAcceptedTwice` and the refinement of AntiReplay, for every window size.  Of the other
  window, `EpochIInv` ties the stored expiry to the time of the replacement, saturation included;
  `GraceAlwaysExact` and `RetiredForGood` follow.
- **ReplayWordsProofs.**  The words implement the bits, for every number and width of words (16 of 64 among them).
  `BitPlace` says where a bit lies, `SetBit` that setting it in its word sets it in the row, `ShiftedFrom` from which
  word a shifted bit comes, its own or the one below, and `ShiftMovesRow` that `shift_bitmap_left` therefore moves
  the whole row.
- **FrameDecoderProofs.**  Types (only legal payloads reach the protocol), the bound of the buffer, and then what
  framing is for.  `HeaderIsRead`: a header reads as the length it was written for, by induction over its digits.
  The provers cannot instantiate the library's induction theorems, so `UpTo` states induction for a
  set instead of a predicate and is proved by counting.  `InStep` is the invariant: the bytes in the buffer and
  on the wire, `left`, lie in the frames of the messages sent and not yet handed out, each byte at
  its place (`InPlace`), with nothing behind the last frame and nothing missing unless the sender is gone
  (`Whole`); where a frame begins is a function `at` that exists (`Ends`).  `NextMessage` concludes that a complete
  header in the buffer is that of the next message; `NeverFalseAlarm` and
  `FramesImplementChannel` follow, for every base, header, limit and read size.
- **Phase3SessionProofs.**  First the datagrams: `HeaderRoundTrips` and `OpensWithItsKey`.  Then the two programs,
  for any number of packets and of faults.  Their inductive invariant `Inv` says for each step of either
  script what the session, the TLS queues and the datagrams are (`SessionIs`, `WiresAre`, `ServerIs`, `ClientIs`),
  how much audio was sent, seen and played (`AudioIs`) and which nonces were used by which key
  (`SealedIs`).  No request meets the session in a wrong state, because at most one is under way (`WiresAre`) and
  the harness reads `stream.start` only after it has marked the path (`ServerIs`), however early the probe sent it.
- **AppleStoresProofs.**  Any set of callers.  `TrustIInv`: a caller about to write holds a record of
  its own making, and after a revoke had the last word only revokes are about to write.  `IdentityIInv`: whatever
  a caller holds at a step fits what the Keychain held when it read it (`Fits`, `ItemsSound`), and what was
  settled when a call began is settled still (`BeganSettled`), so that it can return nothing else.  `LoneIInv` follows a
call that overlaps no other step by step: what it holds and what is stored cannot drift apart (`LoneStepSafe`),
since each step is taken by the call itself (`StepIsOwn`).
- **SecureTransportProofs.**  Any timeouts, bounds and flights, over the model's two addresses.  `Owns` gives the
  descriptors of a program step by step, `InTime` and `Bounded` its waits and counters; `Secure` and `Chain` say
  which flight may be on its way or received only because which program has judged its peer.
- **ControlTextProofs, the parser.**  `VerdictIsTheGrammars`: for texts of any length and any limits, a text is accepted
  exactly when it is a document, and refused at the token that is wrong or one too many.  `VerdictMatchesGrammar` is not
  inductive: that a token is judged right depends on the stack, and the grammar knows no stack.  `ParserIInv` says
  of a parser that has not judged yet where it stands: its stack is the chain of the containers that the next token is
  inside of, outermost first, each with the count and the names that the text gives it there
  (`Standing`), and the tokens so far are legal and within the limits (`Ready`).  The lemmas come in three parts.  About
  the grammar alone: a token added changes the place and verdict of none before it (`PlacePrefix`, `VerdictPrefix`),
  the chain of open containers grows and shrinks with the depth (`ChainStep`), and the next token is the next
  sibling or the first (`NextSibling`, `FirstPlace`).  Then how each kind of token moves the stack along that chain
  (`TakenStands`, `OpenStands`, `NameStands`, `SeparatorStands`).  Last, that each place of the parser judges its token
  as the grammar does (`ParseValueJudged` to `EndJudged`), one lemma for each action.
- **ControlTextProofs, the messages.**  `SchemasAreClosed` compares a message with the one before the edit, so
  the invariant has to say of every message what an edit may do to it: at every level
  each member is a value of one kind (`MessageOK`; `EditsKeepLevels`).  In all schemas together a member's name has one kind
  (`MemberKind`), so an edit between two legal objects can neither add a member nor change a kind
  (`EditsThatFit`); `MessageClosed` takes this through profile, limits, capabilities, results and message.
  `TellsApart` is `InfoAlwaysSays`: an accepted message's type and told members decide where each field
  comes from, and no legal value is the zero that an absent member leaves, but where the type says so.
  `InfoInRange` gives the ranges that ControlSession assumes of its requests.
  `ProgramsAlwaysUnderstand` goes through the four requests and four replies, each against the checks of its own
  step; it needs that the largest
  port is at least 51838, the fixed one of the harness, which `MessageAssumption` therefore states.

What is quantified in these two: limits, widths, the number of tokens and of edits.  The strings stay the
sample of the module, because what the schemas ask of a string is a predicate on characters that the sample stands for.

Only model-checked: `ScalarsReadExactly`, an evaluation of recursive definitions over bounded inputs (what
a recursion over data computes for every input takes an induction that the provers cannot instantiate), and all
liveness, which is beyond this proof system: `BothEnd`, `CleanRunSucceeds`, `EveryMessageArrives`, `EveryCallReturns`.

## 5. Not modelled

- The timing plan of `gm_state.cpp`, `gm_tls_peer_policy_validate`, the input checks of the AEAD calls and the
  base32 of a peer ID: pure functions that no modelled step depends on, whose model would be a second copy.
- `tls13_exporter_pair`, a handshake between two objects in memory for the vector tests.
- `gm_runtime.cpp`: null checks and copies around the providers; port getters and Winsock start-up.
- DNS-SD advertisement: everything runs on the main actor, and that a late callback is harmless follows from the
  one comparison of its sender.
- OpenSSL, CryptoKit, the Keychain service and the X.509 and ASN.1 of a certificate: library code, seen through
  what it does to this one.  Of the certificate profile the dates are modelled; the rest holds of every
  certificate this code makes.
- The probe's dry run, plaintext mode, file readers and vectors, the harness's plaintext listener and smoke
  test, application views and stubs.
- Deadlines and rate limits that the documents describe and this code does not implement yet.

## 6. Plan

Done: the core (control session, replay window, epoch window, framing), the two-host session
with its sealed datagrams, the control texts, the Apple stores, the sockets and TLS; and proofs of every safety
property and refinement but `ScalarsReadExactly`.

Left:

1. The properties of `ReplayWindow` stated of the words themselves, through an instance of its proofs.
2. The string predicates of the schemas over characters, in place of the sample of strings.
3. The rate limits and deadlines of `docs/03-control-protocol.md`, once the code has them.
