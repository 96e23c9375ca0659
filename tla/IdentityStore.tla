----------------------------- MODULE IdentityStore -----------------------------
(***************************************************************************)
(* AppleIdentityManager.loadOrCreate (IdentityStore.swift) with what it     *)
(* asks of the identity provider (identity_provider.cpp,                    *)
(* certificate_profile.cpp): the server ID and the key that a peer pins are *)
(* made once and kept, certificates are renewed, an identity in the old     *)
(* format moves over.  Keys and IDs are numbers, a new one never used       *)
(* before; a certificate is its key and the time it was made.               *)
(***************************************************************************)
EXTENDS SecureStore

CONSTANTS
    MaxTime,        \* bound on the clock
    Validity        \* kCertificateValidityDays

Certificates == [key : Nat, from : Nat]
Identities == [key : Nat, certificate : Certificates]
ASSUME IdentityAssumption ==
    /\ MaxTime \in Nat /\ Validity \in Nat \ {0}
    /\ {None, Bad} \cap (Certificates \cup Identities) = {}

VARIABLES
    now,            \* the wall clock, which the user may also set back
    fresh,          \* the next unused number
    setBack         \* history: the clock was set back

identityVars == <<items, at, mine, calls, now, fresh, setBack>>

LegacyKey == 1
StoredKey == 2
FirstFresh == 3

Certificate(key) == [key |-> key, from |-> now]
Identity(key, certificate) == [key |-> key, certificate |-> certificate]

\* fault: an expired certificate is refused, not renewed
LoadWithoutRenewal(key, certificate) ==
    IF certificate # Bad /\ key # Bad /\ key = certificate.key /\ now >= certificate.from
        /\ now < certificate.from + Validity
    THEN "GM_OK" ELSE "GM_BAD_MESSAGE"
\* certificate_profile's dates, which are looked at first: X509_cmp_current_time counts the very
\* second of a date as past.  The rest every certificate made here meets.
CertificateProfile(certificate) ==
    CASE certificate.from > now -> "not_yet_valid"
      [] certificate.from + Validity <= now -> "expired"
      [] OTHER -> "valid"

\* Ed25519Identity::load and load_raw_private_key
Load(key, certificate) ==
    CASE certificate = Bad \/ key = Bad -> "GM_BAD_MESSAGE"
      [] certificate # Bad /\ key # Bad ->
            CASE CertificateProfile(certificate) = "valid" /\ key = certificate.key -> "GM_OK"
              [] CertificateProfile(certificate) = "expired" /\ key = certificate.key -> "GM_STATE_CONFLICT"
              [] OTHER -> "GM_BAD_MESSAGE"

\* fault: a renewal makes a new key
RenewWithNewKey(key) == Identity(fresh, Certificate(fresh))
\* fault: the new certificate is not for the key that is kept
RenewForAnotherKey(key) == Identity(key, Certificate(fresh))
\* renew_certificate and renew_raw_private_key
Renew(key) == Identity(key, Certificate(key))

Generate == Identity(fresh, Certificate(fresh))

-------------------------------------------------------------------------------
\* Locals: the server ID, the identity to return or to store, the key of the old format, why the
\* call threw; and, as history, what was settled when it began, and which call it was when no
\* other was under way then, else 0.
Locals(began, alone) ==
    [server |-> None, identity |-> None, legacy |-> None, why |-> "nothing", began |-> began,
     alone |-> alone]

\* What the callers of an item may still write over it.
ServerWriters == {c \in Callers : at[c] \in {"update server id", "add server id"}}
IdentityWriters == {c \in Callers : at[c] \in {"update identity", "add identity"}}
FirstTimers == {c \in Callers : at[c] \in {"legacy key", "legacy certificate"}}

ServerSettled ==
    items["server-id"] \notin {None, Bad} /\ ServerWriters = {}
IdentitySettled ==
    /\ items["identity"] \notin {None, Bad} /\ FirstTimers = {}
    /\ \A c \in IdentityWriters : mine[c].identity.key = items["identity"].key

Begin(c) ==
    /\ BeginCall(c, "server id",
           Locals(IF ServerSettled /\ IdentitySettled
                  THEN <<items["server-id"], items["identity"].key>> ELSE None,
                  IF \A d \in Callers : ~InCall(d) THEN calls + 1 ELSE 0))
    /\ UNCHANGED <<now, fresh, setBack>>

SetMine(c, locals, step) ==
    mine' = [mine EXCEPT ![c] = locals] /\ Goto(c, step) /\ UNCHANGED <<items, calls>>

\* loadOrCreateServerID
LoadServerID(c) ==
    /\ at[c] = "server id"
    /\ \/ items["server-id"] = Bad /\ Throw(c, "invalid") /\ UNCHANGED fresh
       \/ /\ items["server-id"] \notin {None, Bad}
          /\ SetMine(c, [mine[c] EXCEPT !.server = items["server-id"]], "identity")
          /\ UNCHANGED fresh
       \/ /\ items["server-id"] = None
          /\ SetMine(c, [mine[c] EXCEPT !.server = fresh], "update server id")
          /\ fresh' = fresh + 1
    /\ UNCHANGED <<now, setBack>>

StoreServerID(c) ==
    /\ \/ Update(c, "update server id", "add server id", "server-id", mine[c].server, "identity")
       \/ Add(c, "add server id", "server-id", mine[c].server, "identity")
    /\ UNCHANGED <<now, fresh, setBack>>

\* loadOrRenewIdentity and loadLegacyIdentity; a loaded identity goes to next.
LoadOrRenew(c, key, certificate, next) ==
    LET status == Load(key, certificate) IN
    /\ \/ status = "GM_OK"
          /\ SetMine(c, [mine[c] EXCEPT !.identity = Identity(key, certificate)], next)
       \/ status = "GM_STATE_CONFLICT"
          /\ SetMine(c, [mine[c] EXCEPT !.identity = Renew(key)], "update identity")
       \/ status = "GM_BAD_MESSAGE" /\ Throw(c, "invalid")
    /\ UNCHANGED fresh

\* The branch of loadOrCreate that found an identity.
LoadIdentity(c) ==
    /\ at[c] = "identity"
    /\ \/ items["identity"] = None /\ Goto(c, "legacy key") /\ UNCHANGED <<items, mine, calls, fresh>>
       \/ items["identity"] = Bad /\ Throw(c, "invalid") /\ UNCHANGED fresh
       \/ /\ items["identity"] \notin {None, Bad}
          /\ LoadOrRenew(c, items["identity"].key, items["identity"].certificate, "returned")
    /\ UNCHANGED <<now, setBack>>

\* The branch that found none: the old format, whole, or a new identity.
LoadLegacyKey(c) ==
    /\ at[c] = "legacy key"
    /\ SetMine(c, [mine[c] EXCEPT !.legacy = items["legacy key"]], "legacy certificate")
    /\ UNCHANGED <<now, fresh, setBack>>

LoadLegacyCertificate(c) ==
    LET key == mine[c].legacy certificate == items["legacy certificate"] IN
    /\ at[c] = "legacy certificate"
    /\ \/ key # None /\ certificate # None /\ LoadOrRenew(c, key, certificate, "update identity")
       \/ (key = None) # (certificate = None) /\ Throw(c, "invalid") /\ UNCHANGED fresh
       \/ /\ key = None /\ certificate = None
          /\ SetMine(c, [mine[c] EXCEPT !.identity = Generate], "update identity")
          /\ fresh' = fresh + 1
    /\ UNCHANGED <<now, setBack>>

\* persist
StoreIdentity(c) ==
    /\ \/ Update(c, "update identity", "add identity", "identity", mine[c].identity, "returned")
       \/ Add(c, "add identity", "identity", mine[c].identity, "returned")
    /\ UNCHANGED <<now, fresh, setBack>>

Interrupt(c) == (Refused(c) \/ Crash(c)) /\ UNCHANGED <<now, fresh, setBack>>

Tick ==
    /\ \E t \in 0..MaxTime : now' = t /\ setBack' = (setBack \/ t < now)
    /\ UNCHANGED <<items, at, mine, calls, fresh>>

StoreItems == {"server-id", "identity", "legacy key", "legacy certificate", "trust"}

\* What an installation may have stored before, its certificates made at time 0.
FirstCertificate(key) == [key |-> key, from |-> 0]
Installed(server, identity, key, certificate) ==
    [i \in StoreItems |->
        CASE i = "server-id" -> server
          [] i = "identity" -> identity
          [] i = "legacy key" -> key
          [] i = "legacy certificate" -> certificate
          [] OTHER -> None]

\* Installations: new, made by an earlier version (whole, half, or with its server ID), in use,
\* and with an item that was damaged.
IdentityInit ==
    LET legacy == FirstCertificate(LegacyKey)
        stored == Identity(StoredKey, FirstCertificate(StoredKey))
    IN  /\ \E server \in {None, StoredKey, Bad} :
               items \in {Installed(server, None, None, None),
                          Installed(server, None, LegacyKey, legacy),
                          Installed(server, None, LegacyKey, None),
                          Installed(server, stored, None, None),
                          Installed(server, stored, LegacyKey, legacy),
                          Installed(server, Bad, LegacyKey, legacy)}
        /\ at = [c \in Callers |-> "idle"] /\ mine = [c \in Callers |-> Locals(None, 0)]
        /\ calls = 0 /\ now = 0 /\ fresh = FirstFresh /\ setBack = FALSE

IdentityNext ==
    \/ \E c \in Callers :
           \/ Begin(c) \/ LoadServerID(c) \/ StoreServerID(c) \/ LoadIdentity(c)
           \/ LoadLegacyKey(c) \/ LoadLegacyCertificate(c) \/ StoreIdentity(c) \/ Interrupt(c)
    \/ Tick

-------------------------------------------------------------------------------
LegacyPair == items["legacy key"] # None /\ items["legacy certificate"] # None

\* IdentityStore.swift:148-196, docs/01:109: a server ID, once stored with no caller left that
\* found none, and likewise a key, stays for good: through renewals, several of them at once
\* included, clocks set back, refusals and crashes, whichever of the two was stored last.
SettledIdentityStays ==
    [][/\ ServerSettled => ServerSettled' /\ items'["server-id"] = items["server-id"]
       /\ IdentitySettled =>
              IdentitySettled' /\ items'["identity"].key = items["identity"].key]_identityVars

\* No other call has begun since this one did, and none was under way then.
Alone(call) == call.alone = calls

\* IdentityStore.swift:148-256: a call that begins when both are settled can return nothing else,
\* nor run into another's addition; one that overlaps no other, a first start included, returns
\* the very ID and identity that are then stored; an installation of the old format keeps its
\* key, whoever moves it first; and no crash or refusal, at whatever step, leaves items that a
\* later call finds invalid: only damage, half a legacy pair or a clock set back do that.  Calls
\* that overlap on a first start are not bound to agree: see ReturnedIsStored.
CallsAgree ==
    \A c \in Callers :
        LET call == mine[c] IN
        /\ at[c] = "returned" =>
               /\ call.began # None => <<call.server, call.identity.key>> = call.began
               /\ Alone(call) =>
                      call.server = items["server-id"] /\ call.identity = items["identity"]
               /\ LegacyPair => call.identity.key \in {LegacyKey, StoredKey}
        /\ call.why = "duplicate" => call.began = None
        /\ call.why = "invalid" =>
               \/ setBack \/ \E i \in DOMAIN items : items[i] = Bad
               \/ items["legacy key"] # None /\ items["legacy certificate"] = None

\* docs/02:102-105: "Generation and persistence MUST complete atomically", and no server operates
\* "with a transient identity": the ID and the key that a call returned are the stored ones, also
\* when first starts overlap.
NoTransientIdentity ==
    \A c \in Callers : at[c] = "returned" =>
        /\ mine[c].server = items["server-id"]
        /\ mine[c].identity.key = items["identity"].key
================================================================================
