--------------------------- MODULE AppleStoresProofs ---------------------------
(***************************************************************************)
(* What the Apple stores guarantee for every set of callers, any number of  *)
(* calls, every set of permissions and every clock, first for the trust     *)
(* record, then for the identity.                                           *)
(***************************************************************************)
EXTENDS AppleStores, TLAPS

Reasons == {"nothing", "invalid", "duplicate", "refused"}

\* The bound on calls is kept by counting them.
LEMMA CallsCounted ==
    ASSUME calls \in 0..MaxCalls, NEW c, NEW step, NEW locals, BeginCall(c, step, locals)
    PROVE  calls' \in 0..MaxCalls
<1>1. MaxCalls \in Nat
  BY StoreAssumption
<1>2. calls < MaxCalls /\ calls' = calls + 1
  BY DEF BeginCall
<1> QED BY <1>1, <1>2

-------------------------------------------------------------------------------
(* The trust record *)

TrustSteps == Resting \cup {"read trust", "update trust", "add trust"}
TrustCalls ==
    [op : {"none", "approve", "revoke", "authorizes"}, record : TrustRecords \cup {None},
     permission : Permissions \cup {None}, granted : BOOLEAN, revoked : BOOLEAN, why : Reasons]

TrustTyped ==
    /\ DOMAIN items = StoreItems /\ \A i \in StoreItems \ {"trust"} : items[i] = None
    /\ items["trust"] \in TrustRecords \cup {None, Bad}
    /\ at \in [Callers -> TrustSteps] /\ mine \in [Callers -> TrustCalls]
    /\ calls \in 0..MaxCalls
    /\ approved \in SUBSET Permissions /\ revokedLast \in BOOLEAN

\* A caller about to write holds a record of its own making: an approve one that is in force, a
\* revoke one that is not, neither with a permission nobody asked for.
WriterHolds(c) ==
    at[c] \in {"update trust", "add trust"} =>
        /\ mine[c].op \in {"approve", "revoke"} /\ mine[c].record \in TrustRecords
        /\ mine[c].record.permissions \subseteq approved
        /\ (mine[c].record.revoked <=> mine[c].op = "revoke")

\* After a revoke had the last word, only revokes are still about to write.
RevokesOnly(c) ==
    revokedLast => (at[c] \in {"update trust", "add trust"} => mine[c].op = "revoke")

ReaderAsks(c) == at[c] = "read trust" => mine[c].op \in {"revoke", "authorizes"}

Grant(c) == mine[c].granted => mine[c].permission \in approved /\ ~mine[c].revoked

TrustIInv ==
    /\ TrustTyped
    /\ items["trust"] \in TrustRecords => items["trust"].permissions \subseteq approved
    /\ revokedLast => items["trust"] \in TrustRecords /\ items["trust"].revoked
    /\ \A c \in Callers : WriterHolds(c) /\ RevokesOnly(c) /\ ReaderAsks(c) /\ Grant(c)

\* An approve gives the word back and asks for its permissions.
LEMMA ApproveSafe ==
    ASSUME TrustIInv, NEW c \in Callers, Approve(c)
    PROVE  TrustIInv'
<1>1. PICK permissions \in SUBSET Permissions :
          /\ BeginCall(c, "update trust",
                 TrustLocals("approve", TrustRecord(permissions, FALSE), None))
          /\ approved' = approved \cup permissions /\ revokedLast' = FALSE
  BY DEF Approve
<1> DEFINE new == TrustLocals("approve", TrustRecord(permissions, FALSE), None)
<1>2. TrustRecord(permissions, FALSE) \in TrustRecords
  BY DEF TrustRecord, TrustRecords
<1>4. new \in TrustCalls
  BY <1>2 DEF TrustCalls, Reasons, TrustLocals
<1>5. /\ at' = [at EXCEPT ![c] = "update trust"] /\ mine' = [mine EXCEPT ![c] = new]
      /\ items' = items /\ calls' = calls + 1 /\ calls < MaxCalls
  BY <1>1 DEF BeginCall, Goto
<1>3. new.op = "approve" /\ new.record = TrustRecord(permissions, FALSE) /\ ~new.granted
  BY DEF TrustLocals
<1> HIDE DEF new
<1>6. TrustTyped'
  <2>1. at' \in [Callers -> TrustSteps]
    BY <1>5 DEF TrustIInv, TrustTyped, TrustSteps
  <2>2. mine' \in [Callers -> TrustCalls]
    BY <1>4, <1>5 DEF TrustIInv, TrustTyped
  <2>3. calls' \in 0..MaxCalls
    BY <1>1, CallsCounted DEF TrustIInv, TrustTyped
  <2>4. approved' \in SUBSET Permissions /\ revokedLast' \in BOOLEAN
    BY <1>1 DEF TrustIInv, TrustTyped
  <2> QED BY <1>5, <2>1, <2>2, <2>3, <2>4 DEF TrustIInv, TrustTyped
<1>7. \A d \in Callers : (WriterHolds(d) /\ RevokesOnly(d) /\ ReaderAsks(d) /\ Grant(d))'
  <2> SUFFICES ASSUME NEW d \in Callers
               PROVE  (WriterHolds(d) /\ RevokesOnly(d) /\ ReaderAsks(d) /\ Grant(d))'
    OBVIOUS
  <2>2. /\ TrustRecord(permissions, FALSE).permissions = permissions
        /\ ~TrustRecord(permissions, FALSE).revoked
    BY DEF TrustRecord
  <2>3. CASE d = c
    BY <1>1, <1>2, <1>5, <1>3, <2>2, <2>3
    DEF TrustIInv, TrustTyped, WriterHolds, RevokesOnly, ReaderAsks, Grant
  <2>4. CASE d # c
    BY <1>1, <1>5, <2>4
    DEF TrustIInv, TrustTyped, WriterHolds, RevokesOnly, ReaderAsks, Grant
  <2> QED BY <2>3, <2>4
<1> QED BY <1>1, <1>5, <1>6, <1>7 DEF TrustIInv

\* A revoke and an authorizes begin by reading.
LEMMA ReaderBeginsSafe ==
    ASSUME TrustIInv, NEW c \in Callers, NEW op \in {"revoke", "authorizes"},
           NEW permission \in Permissions \cup {None},
           BeginCall(c, "read trust", TrustLocals(op, None, permission)),
           UNCHANGED <<approved, revokedLast>>
    PROVE  TrustIInv'
<1> DEFINE new == TrustLocals(op, None, permission)
<1>1. new \in TrustCalls /\ new.op = op /\ ~new.granted
  BY DEF TrustCalls, Reasons, TrustLocals
<1>2. /\ at' = [at EXCEPT ![c] = "read trust"] /\ mine' = [mine EXCEPT ![c] = new]
      /\ items' = items
  BY DEF BeginCall, Goto
<1>3. calls' \in 0..MaxCalls
  BY CallsCounted DEF TrustIInv, TrustTyped
<1> HIDE DEF new
<1>4. TrustTyped'
  BY <1>1, <1>2, <1>3 DEF TrustIInv, TrustTyped, TrustSteps
<1>5. ASSUME NEW d \in Callers
      PROVE  (WriterHolds(d) /\ RevokesOnly(d) /\ ReaderAsks(d) /\ Grant(d))'
  <2>1. CASE d = c
    BY <1>1, <1>2, <2>1 DEF TrustIInv, TrustTyped, WriterHolds, RevokesOnly, ReaderAsks, Grant
  <2>2. CASE d # c
    BY <1>2, <2>2 DEF TrustIInv, TrustTyped, WriterHolds, RevokesOnly, ReaderAsks, Grant
  <2> QED BY <2>1, <2>2
<1> QED BY <1>2, <1>4, <1>5 DEF TrustIInv

\* A call that throws, or that ends with its process, stores nothing.
LEMMA BreakSafe ==
    ASSUME TrustIInv, NEW c \in Callers, NEW why \in Reasons,
           \/ Throw(c, why)
           \/ Goto(c, "idle") /\ UNCHANGED <<items, mine, calls>>,
           UNCHANGED <<approved, revokedLast>>
    PROVE  TrustIInv'
<1>1. /\ items' = items /\ calls' = calls
      /\ at' = [at EXCEPT ![c] = "threw"] \/ at' = [at EXCEPT ![c] = "idle"]
      /\ mine' = [mine EXCEPT ![c].why = why] \/ mine' = mine
  BY DEF Throw, Goto
<1>2. /\ mine' \in [Callers -> TrustCalls]
      /\ \A d \in Callers : /\ mine'[d].op = mine[d].op /\ mine'[d].record = mine[d].record
                            /\ mine'[d].permission = mine[d].permission
                            /\ mine'[d].granted = mine[d].granted
                            /\ mine'[d].revoked = mine[d].revoked
  BY <1>1 DEF TrustIInv, TrustTyped, TrustCalls
<1>3. TrustTyped'
  BY <1>1, <1>2 DEF TrustIInv, TrustTyped, TrustSteps, Resting
<1>4. ASSUME NEW d \in Callers
      PROVE  (WriterHolds(d) /\ RevokesOnly(d) /\ ReaderAsks(d) /\ Grant(d))'
  <2>1. at'[d] = at[d] \/ at'[d] \in {"threw", "idle"}
    BY <1>1 DEF TrustIInv, TrustTyped
  <2> QED BY <1>2, <2>1 DEF TrustIInv, TrustTyped, WriterHolds, RevokesOnly, ReaderAsks, Grant
<1> QED BY <1>1, <1>3, <1>4 DEF TrustIInv

\* Reading turns a revoke into a writer of what it read, and answers an authorizes.
LEMMA ReadTrustSafe ==
    ASSUME TrustIInv, NEW c \in Callers, ReadTrust(c)
    PROVE  TrustIInv'
<1> DEFINE record == items["trust"]
<1>1. /\ at[c] = "read trust" /\ UNCHANGED <<approved, revokedLast>>
      /\ record \in TrustRecords \cup {None, Bad}
  BY DEF ReadTrust, TrustIInv, TrustTyped
<1>2. CASE Throw(c, "invalid")
  BY <1>1, <1>2, BreakSafe DEF Reasons
<1>3. CASE /\ record # Bad /\ mine[c].op = "revoke"
           /\ mine' = [mine EXCEPT ![c].record = Revoked(record)] /\ Goto(c, "update trust")
           /\ UNCHANGED <<items, calls>>
  <2>1. /\ Revoked(record) \in TrustRecords /\ Revoked(record).revoked
        /\ Revoked(record).permissions \subseteq approved
    BY <1>1, <1>3, TrustAssumption
    DEF Revoked, TrustRecord, TrustRecords, TrustIInv
  <2>2. /\ mine'[c].op = "revoke" /\ mine'[c].record = Revoked(record)
        /\ mine'[c].granted = mine[c].granted /\ mine'[c].permission = mine[c].permission
        /\ mine'[c].revoked = mine[c].revoked
        /\ \A d \in Callers : d # c => mine'[d] = mine[d]
        /\ mine' \in [Callers -> TrustCalls]
    BY <1>3, <2>1 DEF TrustIInv, TrustTyped, TrustCalls
  <2>3. at' = [at EXCEPT ![c] = "update trust"]
    BY <1>3 DEF Goto
  <2>4. TrustTyped'
    BY <1>1, <1>3, <2>2, <2>3 DEF TrustIInv, TrustTyped, TrustSteps
  <2>5. ASSUME NEW d \in Callers
        PROVE  (WriterHolds(d) /\ RevokesOnly(d) /\ ReaderAsks(d) /\ Grant(d))'
    <3>1. CASE d = c
      BY <1>1, <2>1, <2>2, <2>3, <3>1
      DEF TrustIInv, TrustTyped, WriterHolds, RevokesOnly, ReaderAsks, Grant
    <3>2. CASE d # c
      BY <1>1, <2>2, <2>3, <3>2
      DEF TrustIInv, TrustTyped, WriterHolds, RevokesOnly, ReaderAsks, Grant
    <3> QED BY <3>1, <3>2
  <2> QED BY <1>1, <1>3, <2>4, <2>5 DEF TrustIInv
<1>4. CASE /\ record # Bad /\ mine[c].op = "authorizes"
           /\ mine' = [mine EXCEPT
                  ![c].granted = (record # None /\ Authorizes(record, mine[c].permission)),
                  ![c].revoked = revokedLast]
           /\ Goto(c, "returned") /\ UNCHANGED <<items, calls>>
  <2> DEFINE answer == record # None /\ Authorizes(record, mine[c].permission)
  <2>1. answer \in BOOLEAN
    BY DEF Authorizes
  <2>2. answer => mine[c].permission \in approved /\ ~revokedLast
    BY <1>1, <1>4, TrustAssumption DEF Authorizes, TrustIInv
  <2>3. /\ mine'[c].op = "authorizes" /\ mine'[c].record = mine[c].record
        /\ mine'[c].granted = answer /\ mine'[c].permission = mine[c].permission
        /\ mine'[c].revoked = revokedLast
        /\ \A d \in Callers : d # c => mine'[d] = mine[d]
        /\ mine' \in [Callers -> TrustCalls]
    <3> DEFINE half == [mine EXCEPT ![c].granted = answer]
    <3> HIDE DEF answer
    <3>1. mine' = [half EXCEPT ![c].revoked = revokedLast]
      BY <1>4 DEF answer
    <3>2. /\ half \in [Callers -> TrustCalls]
          /\ half[c].op = "authorizes" /\ half[c].record = mine[c].record
          /\ half[c].granted = answer /\ half[c].permission = mine[c].permission
          /\ \A d \in Callers : d # c => half[d] = mine[d]
      BY <1>4, <2>1 DEF TrustIInv, TrustTyped, TrustCalls
    <3> HIDE DEF half
    <3> QED BY <3>1, <3>2 DEF TrustIInv, TrustTyped, TrustCalls
  <2> HIDE DEF answer
  <2>4. at' = [at EXCEPT ![c] = "returned"]
    BY <1>4 DEF Goto
  <2>5. TrustTyped'
    BY <1>1, <1>4, <2>3, <2>4 DEF TrustIInv, TrustTyped, TrustSteps, Resting
  <2>6. ASSUME NEW d \in Callers
        PROVE  (WriterHolds(d) /\ RevokesOnly(d) /\ ReaderAsks(d) /\ Grant(d))'
    <3>1. CASE d = c
      BY <1>1, <2>2, <2>3, <2>4, <3>1
      DEF TrustIInv, TrustTyped, WriterHolds, RevokesOnly, ReaderAsks, Grant
    <3>2. CASE d # c
      BY <1>1, <2>3, <2>4, <3>2
      DEF TrustIInv, TrustTyped, WriterHolds, RevokesOnly, ReaderAsks, Grant
    <3> QED BY <3>1, <3>2
  <2> QED BY <1>1, <1>4, <2>5, <2>6 DEF TrustIInv
<1> QED BY <1>2, <1>3, <1>4 DEF ReadTrust

\* What is stored is the writer's record, and when a revoke has the last word no approve is
\* about to write.
LEMMA StoreTrustSafe ==
    ASSUME TrustIInv, NEW c \in Callers, StoreTrust(c)
    PROVE  TrustIInv'
<1> DEFINE record == mine[c].record
<1>1. /\ at[c] \in {"update trust", "add trust"} /\ approved' = approved
      /\ revokedLast' <=>
             (revokedLast \/ (at'[c] = "returned" /\ mine[c].op = "revoke" /\ Approving = {}))
  BY DEF StoreTrust, Update, Add
<1>2. /\ record \in TrustRecords /\ record.permissions \subseteq approved
      /\ mine[c].op \in {"approve", "revoke"} /\ (record.revoked <=> mine[c].op = "revoke")
      /\ revokedLast => mine[c].op = "revoke"
  BY <1>1 DEF TrustIInv, WriterHolds, RevokesOnly
<1>3. /\ at' \in [Callers -> TrustSteps] /\ revokedLast' \in BOOLEAN
      /\ \A d \in Callers : d # c => at'[d] = at[d]
  BY <1>1 DEF StoreTrust, Update, Add, Write, Throw, Goto, TrustIInv, TrustTyped, TrustSteps, Resting
<1>4. CASE /\ items' = [items EXCEPT !["trust"] = record] /\ at'[c] = "returned"
           /\ UNCHANGED <<mine, calls>>
  <2>1. /\ items'["trust"] = record /\ DOMAIN items' = StoreItems
        /\ \A i \in StoreItems \ {"trust"} : items'[i] = None
    BY <1>4 DEF TrustIInv, TrustTyped, StoreItems
  <2>2. TrustTyped'
    BY <1>1, <1>2, <1>3, <1>4, <2>1 DEF TrustIInv, TrustTyped
  <2>3. revokedLast' => \A d \in Callers :
            at[d] \in {"update trust", "add trust"} => mine[d].op = "revoke"
    <3>1. CASE revokedLast
      BY <3>1 DEF TrustIInv, RevokesOnly
    <3>2. CASE Approving = {}
      BY <3>2 DEF TrustIInv, WriterHolds, Approving, InCall, Resting
    <3> QED BY <1>1, <3>1, <3>2
  <2>4. revokedLast' => record.revoked
    BY <1>1, <1>2
  <2>5. ASSUME NEW d \in Callers
        PROVE  (WriterHolds(d) /\ RevokesOnly(d) /\ ReaderAsks(d) /\ Grant(d))'
    BY <1>1, <1>3, <1>4, <2>3 DEF TrustIInv, WriterHolds, RevokesOnly, ReaderAsks, Grant
  <2> QED BY <1>1, <1>2, <2>1, <2>2, <2>4, <2>5 DEF TrustIInv
<1>5. CASE /\ at'[c] = "add trust" /\ UNCHANGED <<items, mine, calls>>
  <2>1. revokedLast' <=> revokedLast
    BY <1>1, <1>5
  <2>2. ASSUME NEW d \in Callers
        PROVE  (WriterHolds(d) /\ RevokesOnly(d) /\ ReaderAsks(d) /\ Grant(d))'
    <3>1. at'[d] = at[d] \/ (at'[d] = "add trust" /\ at[d] \in {"update trust", "add trust"})
      BY <1>1, <1>3, <1>5
    <3> QED BY <1>1, <1>5, <2>1, <3>1
         DEF TrustIInv, WriterHolds, RevokesOnly, ReaderAsks, Grant
  <2> QED BY <1>1, <1>3, <1>5, <2>1, <2>2 DEF TrustIInv, TrustTyped
<1>6. CASE Throw(c, "duplicate")
  <2>1. at'[c] = "threw"
    BY <1>6 DEF Throw, Goto, TrustIInv, TrustTyped
  <2>2. (revokedLast' <=> revokedLast) /\ revokedLast \in BOOLEAN /\ revokedLast' \in BOOLEAN
    BY <1>1, <1>3, <2>1 DEF TrustIInv, TrustTyped
  <2>3. revokedLast' = revokedLast
    BY <2>2
  <2> QED BY <1>1, <1>6, <2>3, BreakSafe DEF Reasons
<1>7. \/ /\ items' = [items EXCEPT !["trust"] = record] /\ Goto(c, "returned")
         /\ UNCHANGED <<mine, calls>>
      \/ Goto(c, "add trust") /\ UNCHANGED <<items, mine, calls>>
      \/ Throw(c, "duplicate")
  BY DEF StoreTrust, Update, Add, Write
<1>8. \A step : Goto(c, step) => at'[c] = step
  BY DEF Goto, TrustIInv, TrustTyped
<1> QED BY <1>4, <1>5, <1>6, <1>7, <1>8

\* Every step on the trust record keeps its invariant.
LEMMA TrustStepSafe == TrustIInv /\ TrustNext => TrustIInv'
<1> SUFFICES ASSUME TrustIInv, NEW c \in Callers,
                    \/ Approve(c) \/ Revoke(c) \/ AuthorizesPeer(c)
                    \/ ReadTrust(c) \/ StoreTrust(c) \/ InterruptTrust(c)
             PROVE  TrustIInv'
  BY DEF TrustNext
<1>1. CASE Revoke(c)
  BY <1>1, ReaderBeginsSafe DEF Revoke
<1>2. CASE AuthorizesPeer(c)
  BY <1>2, ReaderBeginsSafe DEF AuthorizesPeer
<1>3. CASE InterruptTrust(c)
  BY <1>3, BreakSafe DEF InterruptTrust, Refused, Crash, Reasons
<1> QED BY <1>1, <1>2, <1>3, ApproveSafe, ReadTrustSafe, StoreTrustSafe

\* It holds of a new installation and of a damaged record.
LEMMA TrustStartsSafe ==
    ASSUME NEW trust \in {None, Bad}, TrustInit([NoItems EXCEPT !["trust"] = trust])
    PROVE  TrustIInv
<1>1. /\ DOMAIN items = StoreItems /\ items["trust"] = trust
      /\ \A i \in StoreItems \ {"trust"} : items[i] = None
  BY DEF TrustInit, NoItems, StoreItems
<1>2. TrustLocals("none", None, None) \in TrustCalls /\ ~TrustLocals("none", None, None).granted
  BY DEF TrustLocals, TrustCalls, Reasons
<1>3. 0 \in 0..MaxCalls
  BY StoreAssumption
<1>4. TrustTyped
  BY <1>1, <1>2, <1>3 DEF TrustInit, TrustTyped, TrustSteps, Resting
<1>5. \A c \in Callers : at[c] = "idle" /\ ~mine[c].granted /\ ~revokedLast
  BY <1>2 DEF TrustInit
<1> QED BY <1>1, <1>4, <1>5, TrustAssumption
     DEF TrustIInv, TrustInit, WriterHolds, RevokesOnly, ReaderAsks, Grant
-------------------------------------------------------------------------------
(* The identity *)

IdentitySteps == Resting \cup {"server id", "update server id", "add server id", "identity",
    "legacy key", "legacy certificate", "update identity", "add identity"}
IdentityCalls ==
    [server : Nat \cup {None}, identity : Identities \cup {None}, legacy : {None, LegacyKey},
     why : Reasons, began : (Nat \X Nat) \cup {None}, alone : Nat]

WritesServer(step) == step \in {"update server id", "add server id"}
WritesIdentity(step) == step \in {"update identity", "add identity"}
FirstTime(step) == step \in {"legacy key", "legacy certificate"}

\* What may be stored or returned as the identity.
Sound(identity) ==
    /\ identity \in Identities /\ identity.key = identity.certificate.key
    /\ identity.certificate.from <= MaxTime
    /\ ~setBack => identity.certificate.from <= now
    /\ LegacyPair => identity.key \in {LegacyKey, StoredKey}

\* What a call may find invalid.
Damage ==
    \/ setBack \/ items["server-id"] = Bad \/ items["identity"] = Bad
    \/ items["legacy key"] # None /\ items["legacy certificate"] = None

IdentityTyped ==
    /\ at \in [Callers -> IdentitySteps] /\ mine \in [Callers -> IdentityCalls]
    /\ calls \in 0..MaxCalls /\ now \in 0..MaxTime /\ setBack \in BOOLEAN
    /\ fresh \in Nat /\ fresh >= FirstFresh

ItemsSound ==
    /\ DOMAIN items = StoreItems /\ items["trust"] = None
    /\ items["server-id"] \in {None, Bad} \/ items["server-id"] \in 1..(fresh - 1)
    /\ items["identity"] \in {None, Bad} \/ Sound(items["identity"])
    /\ items["legacy key"] \in {None, LegacyKey}
    /\ items["legacy certificate"] \in {None, [key |-> LegacyKey, from |-> 0]}
    /\ items["legacy certificate"] # None => items["legacy key"] # None

\* A call that stands at a step holds what the step stores or returns, found no item that it may
\* store damaged, and, if it began when all was settled, holds what was settled.
Fits(step, call) ==
    /\ step \in {"identity", "update server id", "add server id", "legacy key",
                 "legacy certificate", "update identity", "add identity", "returned"} =>
           call.server \in 1..(fresh - 1)
    /\ WritesIdentity(step) \/ step = "returned" => Sound(call.identity)
    /\ WritesServer(step) => items["server-id"] # Bad
    /\ WritesIdentity(step) \/ FirstTime(step) => items["identity"] # Bad
    /\ step = "legacy certificate" => call.legacy = items["legacy key"]
    /\ call.why = "duplicate" => call.began = None
    /\ call.why = "invalid" => Damage
    /\ call.began # None =>
           /\ ~WritesServer(step) /\ ~FirstTime(step) /\ step # "add identity"
           /\ step \in {"identity", "update identity", "returned"} => call.server = call.began[1]
           /\ step \in {"update identity", "returned"} => call.identity.key = call.began[2]

\* What a call found settled when it began is settled still.
BeganSettled(call) ==
    call.began # None =>
        /\ ServerSettled /\ IdentitySettled
        /\ call.began = <<items["server-id"], items["identity"].key>>

IdentityIInv ==
    /\ IdentityTyped /\ ItemsSound
    /\ \A c \in Callers : Fits(at[c], mine[c]) /\ BeganSettled(mine[c])

\* What a step never does to a server ID and a key once they are settled.
Stays ==
    /\ ServerSettled => ServerSettled' /\ items'["server-id"] = items["server-id"]
    /\ IdentitySettled => IdentitySettled' /\ items'["identity"].key = items["identity"].key

\* A step of one caller that stores nothing.
Moves(c) ==
    /\ IdentityTyped' /\ UNCHANGED <<items, now, setBack>> /\ fresh' \in {fresh, fresh + 1}
    /\ \A d \in Callers : d # c => at'[d] = at[d] /\ mine'[d] = mine[d]

\* It keeps the invariant when its caller's locals fit its next step and it does not come to
\* write over what is settled.
LEMMA MoveSafe ==
    ASSUME IdentityIInv, NEW c \in Callers, Moves(c), Fits(at[c], mine[c])',
           \/ mine'[c].began \in {None, mine[c].began}
           \/ /\ ServerSettled /\ IdentitySettled
              /\ mine'[c].began = <<items["server-id"], items["identity"].key>>,
           WritesServer(at'[c]) => ~ServerSettled,
           FirstTime(at'[c]) => ~IdentitySettled,
           WritesIdentity(at'[c]) =>
               ~IdentitySettled \/ mine'[c].identity.key = items["identity"].key
    PROVE  IdentityIInv' /\ Stays
<1>1. \A n : n \in 1..(fresh - 1) => n \in 1..(fresh' - 1)
  <2>1. fresh \in Nat /\ (fresh' = fresh \/ fresh' = fresh + 1)
    BY DEF IdentityIInv, IdentityTyped, Moves
  <2> QED BY <2>1
<1>2. \A identity : Sound(identity) => Sound(identity)'
  BY DEF Sound, LegacyPair, Moves
<1>3. Damage => Damage'
  BY DEF Damage, Moves
<1>4. ItemsSound'
  BY <1>1, <1>2 DEF IdentityIInv, ItemsSound, Moves
<1>5. Stays
  <2>1. ASSUME ServerSettled
        PROVE  ServerSettled' /\ items'["server-id"] = items["server-id"]
    BY <2>1 DEF Moves, ServerSettled, ServerWriters, WritesServer
  <2>2. ASSUME IdentitySettled
        PROVE  IdentitySettled' /\ items'["identity"].key = items["identity"].key
    BY <2>2 DEF Moves, IdentitySettled, IdentityWriters, FirstTimers, WritesIdentity, FirstTime
  <2> QED BY <2>1, <2>2 DEF Stays
<1>6. ASSUME NEW d \in Callers
      PROVE  Fits(at[d], mine[d])'
  <2>1. CASE d # c
    <3>1. Fits(at[d], mine[d]) /\ at'[d] = at[d] /\ mine'[d] = mine[d] /\ items' = items
      BY <2>1 DEF IdentityIInv, Moves
    <3> QED BY <1>1, <1>2, <1>3, <3>1 DEF Fits
  <2> QED BY <2>1
<1>7. ASSUME NEW d \in Callers
      PROVE  BeganSettled(mine[d])'
  <2>1. \/ mine'[d].began \in {None, mine[d].began}
        \/ /\ ServerSettled /\ IdentitySettled
           /\ mine'[d].began = <<items["server-id"], items["identity"].key>>
    BY DEF Moves
  <2> QED BY <1>5, <2>1 DEF IdentityIInv, BeganSettled, Moves, Stays
<1> QED BY <1>4, <1>5, <1>6, <1>7 DEF IdentityIInv, Moves

\* What a lone step of a caller leaves typed.
LEMMA MoveTyped ==
    ASSUME IdentityIInv, NEW c \in Callers, NEW step \in IdentitySteps,
           NEW locals \in IdentityCalls,
           at' = [at EXCEPT ![c] = step], mine' = [mine EXCEPT ![c] = locals],
           calls' \in 0..MaxCalls, UNCHANGED <<items, now, setBack>>,
           fresh' \in {fresh, fresh + 1}
    PROVE  Moves(c) /\ at'[c] = step /\ mine'[c] = locals
<1>1. fresh' \in Nat /\ fresh' >= FirstFresh
  <2>1. fresh \in Nat /\ fresh >= FirstFresh /\ FirstFresh = 3
    BY DEF IdentityIInv, IdentityTyped, FirstFresh
  <2> QED BY <2>1
<1>2. /\ at \in [Callers -> IdentitySteps] /\ mine \in [Callers -> IdentityCalls]
      /\ now' \in 0..MaxTime /\ setBack' \in BOOLEAN
  BY DEF IdentityIInv, IdentityTyped
<1> QED BY <1>1, <1>2 DEF Moves, IdentityTyped

\* A call begins; it remembers what is settled.
LEMMA BeginSafe ==
    ASSUME IdentityIInv, NEW c \in Callers, Begin(c)
    PROVE  IdentityIInv' /\ Stays
<1> DEFINE began == IF ServerSettled /\ IdentitySettled
                    THEN <<items["server-id"], items["identity"].key>> ELSE None
           alone == IF \A d \in Callers : ~InCall(d) THEN calls + 1 ELSE 0
<1>1. began \in (Nat \X Nat) \cup {None}
  <2>1. CASE ServerSettled /\ IdentitySettled
    <3>1. items["server-id"] \in Nat
      <4>1. items["server-id"] \in 1..(fresh - 1)
        BY <2>1 DEF IdentityIInv, ItemsSound, ServerSettled
      <4> QED BY <4>1
    <3>2. items["identity"].key \in Nat
      BY <2>1 DEF IdentityIInv, ItemsSound, IdentitySettled, Sound, Identities
    <3> QED BY <2>1, <3>1, <3>2
  <2> QED BY <2>1
<1>2. Locals(began, alone) \in IdentityCalls
  <2>1. calls \in 0..MaxCalls /\ MaxCalls \in Nat
    BY StoreAssumption DEF IdentityIInv, IdentityTyped
  <2>2. alone \in Nat
    BY <2>1
  <2> HIDE DEF began, alone
  <2> QED BY <1>1, <2>2 DEF Locals, IdentityCalls, Reasons
<1>3. Locals(began, alone).began = began /\ Locals(began, alone).why = "nothing"
  BY DEF Locals
<1>4. /\ BeginCall(c, "server id", Locals(began, alone)) /\ UNCHANGED <<now, fresh, setBack>>
  BY DEF Begin
<1>5. calls' \in 0..MaxCalls
  BY <1>4, CallsCounted DEF IdentityIInv, IdentityTyped
<1>6. \/ began = None
      \/ ServerSettled /\ IdentitySettled /\ began = <<items["server-id"], items["identity"].key>>
  OBVIOUS
<1> HIDE DEF began, alone
<1>7. Moves(c) /\ at'[c] = "server id" /\ mine'[c] = Locals(began, alone)
  BY <1>2, <1>4, <1>5, MoveTyped DEF BeginCall, Goto, IdentitySteps
<1>8. Fits(at[c], mine[c])'
  BY <1>3, <1>7 DEF Fits, WritesServer, WritesIdentity, FirstTime
<1> QED BY <1>3, <1>6, <1>7, <1>8, MoveSafe DEF WritesServer, WritesIdentity, FirstTime

\* A call that throws for a reason it may give, or that ends with its process.
LEMMA StopSafe ==
    ASSUME IdentityIInv, NEW c \in Callers, NEW why \in Reasons,
           \/ Throw(c, why)
           \/ Goto(c, "idle") /\ UNCHANGED <<items, mine, calls>>,
           why = "duplicate" => mine[c].began = None, why = "invalid" => Damage,
           UNCHANGED <<now, fresh, setBack>>
    PROVE  IdentityIInv' /\ Stays
<1>1. PICK locals \in IdentityCalls :
          /\ mine' = [mine EXCEPT ![c] = locals] /\ locals.began = mine[c].began
          /\ locals.why \in {mine[c].why, why}
  <2>1. CASE mine' = [mine EXCEPT ![c].why = why]
    <3>1. [mine[c] EXCEPT !.why = why] \in IdentityCalls
      BY DEF IdentityIInv, IdentityTyped, IdentityCalls
    <3>2. mine' = [mine EXCEPT ![c] = [mine[c] EXCEPT !.why = why]]
      BY <2>1
    <3> QED BY <3>1, <3>2 DEF IdentityCalls
  <2>2. CASE mine' = mine
    BY <2>2 DEF IdentityIInv, IdentityTyped
  <2> QED BY <2>1, <2>2 DEF Throw
<1>2. PICK step \in {"threw", "idle"} : at' = [at EXCEPT ![c] = step]
  BY DEF Throw, Goto
<1>3. items' = items /\ calls' = calls
  BY DEF Throw
<1>4. Moves(c) /\ at'[c] = step /\ mine'[c] = locals
  BY <1>1, <1>2, <1>3, MoveTyped DEF IdentitySteps, Resting, IdentityIInv, IdentityTyped
<1>5. Fits(at[c], mine[c])'
  <2>1. /\ locals.why = "duplicate" => locals.began = None
        /\ locals.why = "invalid" => Damage
    BY <1>1 DEF IdentityIInv, Fits
  <2>2. Damage => Damage'
    BY <1>3 DEF Damage
  <2> QED BY <1>2, <1>4, <2>1, <2>2 DEF Fits, WritesServer, WritesIdentity, FirstTime
<1> QED BY <1>1, <1>2, <1>4, <1>5, MoveSafe DEF WritesServer, WritesIdentity, FirstTime

\* Numbers already given out stay below the next unused one.
LEMMA NumbersGrow ==
    ASSUME NEW next \in Nat, next >= 3, NEW later \in {next, next + 1}, NEW n,
           n \in 1..(next - 1) \/ (n = next /\ later = next + 1)
    PROVE  n \in 1..(later - 1) /\ n \in Nat
OBVIOUS

\* The parts of a pair.
LEMMA PairParts ==
    ASSUME NEW pair, NEW first, NEW second, pair = <<first, second>>
    PROVE  pair[1] = first /\ pair[2] = second
OBVIOUS

\* The same of a step that SetMine describes.
LEMMA SetMineTyped ==
    ASSUME IdentityIInv, NEW c \in Callers, NEW step \in IdentitySteps,
           NEW locals \in IdentityCalls, SetMine(c, locals, step),
           UNCHANGED <<now, setBack>>, fresh' \in {fresh, fresh + 1}
    PROVE  Moves(c) /\ at'[c] = step /\ mine'[c] = locals
BY MoveTyped DEF SetMine, Goto, IdentityIInv, IdentityTyped

\* loadOrCreateServerID takes the stored ID, or a new one where none is.
LEMMA LoadServerIDSafe ==
    ASSUME IdentityIInv, NEW c \in Callers, LoadServerID(c)
    PROVE  IdentityIInv' /\ Stays
<1>1. /\ at[c] = "server id" /\ UNCHANGED <<now, setBack>>
      /\ Fits(at[c], mine[c]) /\ BeganSettled(mine[c]) /\ mine[c] \in IdentityCalls
      /\ fresh \in Nat /\ fresh >= 3
  BY DEF LoadServerID, IdentityIInv, IdentityTyped, FirstFresh
<1>2. CASE items["server-id"] = Bad /\ Throw(c, "invalid") /\ UNCHANGED fresh
  BY <1>1, <1>2, StopSafe DEF Reasons, Damage
<1>3. ASSUME NEW server, UNCHANGED items, fresh' \in {fresh, fresh + 1},
             \/ /\ items["server-id"] \notin {None, Bad} /\ server = items["server-id"]
                /\ SetMine(c, [mine[c] EXCEPT !.server = server], "identity")
             \/ /\ items["server-id"] = None /\ server = fresh /\ fresh' = fresh + 1
                /\ SetMine(c, [mine[c] EXCEPT !.server = server], "update server id")
      PROVE  IdentityIInv' /\ Stays
  <2>1. server \in 1..(fresh' - 1) /\ server \in Nat
    <3>1. \/ server \in 1..(fresh - 1)
          \/ server = fresh /\ fresh' = fresh + 1
      BY <1>3 DEF IdentityIInv, ItemsSound
    <3> QED BY <1>1, <1>3, <3>1, NumbersGrow
  <2> DEFINE locals == [mine[c] EXCEPT !.server = server]
  <2>2. /\ locals \in IdentityCalls /\ locals.server = server /\ locals.why = mine[c].why
        /\ locals.began = mine[c].began
    BY <1>1, <2>1 DEF IdentityCalls
  <2>3. PICK step \in {"identity", "update server id"} :
            /\ SetMine(c, locals, step)
            /\ step = "update server id" => items["server-id"] = None
            /\ step = "identity" => server = items["server-id"]
    BY <1>3
  <2> HIDE DEF locals
  <2>4. Moves(c) /\ at'[c] = step /\ mine'[c] = locals
    BY <1>1, <1>3, <2>2, <2>3, SetMineTyped DEF IdentitySteps
  <2>5. step = "update server id" => ~ServerSettled /\ mine[c].began = None
    BY <1>1, <2>3 DEF BeganSettled, ServerSettled
  <2>6. ASSUME mine[c].began # None
        PROVE  mine[c].began[1] = items["server-id"]
    <3>1. mine[c].began = <<items["server-id"], items["identity"].key>>
      BY <1>1, <2>6 DEF BeganSettled
    <3> QED BY <3>1, PairParts
  <2>7. Fits(at[c], mine[c])'
    <3>1. Damage => Damage'
      BY <1>1, <1>3 DEF Damage
    <3>2. items["server-id"] = None => items["server-id"] # Bad
      BY StoreAssumption
    <3> QED BY <1>1, <1>3, <2>1, <2>2, <2>3, <2>4, <2>5, <2>6, <3>1, <3>2
         DEF Fits, WritesServer, WritesIdentity, FirstTime
  <2> QED BY <2>2, <2>3, <2>4, <2>5, <2>7, MoveSafe DEF WritesServer, WritesIdentity, FirstTime
<1> QED BY <1>1, <1>2, <1>3 DEF LoadServerID, SetMine

\* What load and renew are given and what they give.
LEMMA LoadFinds ==
    ASSUME IdentityTyped, NEW key, NEW certificate,
           Sound(Identity(key, certificate)), Identity(key, certificate) \in Identities
    PROVE  /\ Load(key, certificate) = "GM_BAD_MESSAGE" => setBack
           /\ Load(key, certificate) \in {"GM_OK", "GM_STATE_CONFLICT", "GM_BAD_MESSAGE"}
           /\ Sound(Renew(key)) /\ Renew(key).key = key
<1>1. /\ key \in Nat /\ certificate \in Certificates /\ key = certificate.key
      /\ Identity(key, certificate).key = key
      /\ ~setBack => certificate.from <= now
      /\ LegacyPair => key \in {LegacyKey, StoredKey}
  BY DEF Identity, Identities, Sound
<1>2. key # Bad /\ certificate # Bad
  BY <1>1, StoreAssumption, IdentityAssumption
<1>3. now \in 0..MaxTime /\ MaxTime \in Nat /\ certificate.from \in Nat
  BY <1>1, IdentityAssumption DEF IdentityTyped, Certificates
<1>4. CertificateProfile(certificate) \in {"not_yet_valid", "expired", "valid"}
  BY DEF CertificateProfile
<1>5. certificate.from <= now => CertificateProfile(certificate) # "not_yet_valid"
  BY <1>3 DEF CertificateProfile
<1>6. Load(key, certificate) =
          CASE CertificateProfile(certificate) = "valid" -> "GM_OK"
            [] CertificateProfile(certificate) = "expired" -> "GM_STATE_CONFLICT"
            [] OTHER -> "GM_BAD_MESSAGE"
  BY <1>1, <1>2 DEF Load
<1>7. Sound(Renew(key)) /\ Renew(key).key = key
  BY <1>1, <1>3 DEF Sound, Renew, Identity, Certificate, Identities, Certificates
<1> QED BY <1>1, <1>4, <1>5, <1>6, <1>7

\* loadOrRenewIdentity and loadLegacyIdentity, given a sound identity that is the settled one, or
\* with none settled.
LEMMA LoadOrRenewSafe ==
    ASSUME IdentityIInv, NEW c \in Callers, NEW key, NEW certificate,
           NEW next \in {"returned", "update identity"},
           LoadOrRenew(c, key, certificate, next), UNCHANGED <<now, setBack>>,
           Identity(key, certificate) \in Identities, Sound(Identity(key, certificate)),
           mine[c].server \in 1..(fresh - 1), items["identity"] # Bad,
           mine[c].began # None => mine[c].server = mine[c].began[1] /\ key = mine[c].began[2],
           ~IdentitySettled \/ key = items["identity"].key
    PROVE  IdentityIInv' /\ Stays
<1>1. /\ Fits(at[c], mine[c]) /\ mine[c] \in IdentityCalls /\ IdentityTyped /\ fresh' = fresh
  BY DEF LoadOrRenew, IdentityIInv, IdentityTyped
<1>2. /\ Load(key, certificate) = "GM_BAD_MESSAGE" => setBack
      /\ Sound(Renew(key)) /\ Renew(key).key = key
  BY <1>1, LoadFinds
<1>3. Identity(key, certificate).key = key
  BY DEF Identity
<1>4. CASE Load(key, certificate) = "GM_BAD_MESSAGE" /\ Throw(c, "invalid")
  BY <1>1, <1>2, <1>4, StopSafe DEF Reasons, Damage
<1>5. ASSUME NEW identity, Sound(identity), identity.key = key,
             NEW step \in {"returned", "update identity"},
             SetMine(c, [mine[c] EXCEPT !.identity = identity], step)
      PROVE  IdentityIInv' /\ Stays
  <2> DEFINE locals == [mine[c] EXCEPT !.identity = identity]
  <2>1. identity \in Identities
    BY <1>5 DEF Sound
  <2>2. /\ locals \in IdentityCalls /\ locals.identity = identity /\ locals.why = mine[c].why
        /\ locals.server = mine[c].server /\ locals.began = mine[c].began
    BY <1>1, <2>1 DEF IdentityCalls
  <2>3. SetMine(c, locals, step) /\ items' = items
    BY <1>5 DEF SetMine
  <2> HIDE DEF locals
  <2>4. Moves(c) /\ at'[c] = step /\ mine'[c] = locals
    BY <1>1, <1>5, <2>2, <2>3, SetMineTyped DEF IdentitySteps, Resting
  <2>5. Fits(at[c], mine[c])'
    <3>1. (Damage => Damage') /\ (Sound(identity) => Sound(identity)')
      BY <2>3 DEF Damage, Sound, LegacyPair
    <3> QED BY <1>1, <1>5, <2>2, <2>3, <2>4, <3>1
         DEF Fits, WritesServer, WritesIdentity, FirstTime
  <2> QED BY <1>5, <2>2, <2>4, <2>5, MoveSafe DEF WritesServer, WritesIdentity, FirstTime
<1>6. \/ Load(key, certificate) = "GM_BAD_MESSAGE" /\ Throw(c, "invalid")
      \/ SetMine(c, [mine[c] EXCEPT !.identity = Identity(key, certificate)], next)
      \/ SetMine(c, [mine[c] EXCEPT !.identity = Renew(key)], "update identity")
  BY DEF LoadOrRenew
<1> QED BY <1>2, <1>3, <1>4, <1>5, <1>6

\* The branch of loadOrCreate that found an identity, and the one that goes on to the old format.
LEMMA LoadIdentitySafe ==
    ASSUME IdentityIInv, NEW c \in Callers, LoadIdentity(c)
    PROVE  IdentityIInv' /\ Stays
<1> DEFINE identity == items["identity"]
<1>1. /\ at[c] = "identity" /\ UNCHANGED <<now, setBack>>
      /\ Fits(at[c], mine[c]) /\ BeganSettled(mine[c]) /\ mine[c] \in IdentityCalls
      /\ mine[c].server \in 1..(fresh - 1)
  BY DEF LoadIdentity, IdentityIInv, IdentityTyped, Fits
<1>2. ASSUME mine[c].began # None
      PROVE  /\ mine[c].began[2] = identity.key /\ identity \notin {None, Bad}
             /\ mine[c].server = mine[c].began[1]
  <2>1. mine[c].began = <<items["server-id"], identity.key>> /\ identity \notin {None, Bad}
    BY <1>1, <1>2 DEF BeganSettled, IdentitySettled
  <2> QED BY <1>1, <1>2, <2>1, PairParts DEF Fits
<1>3. CASE identity = Bad /\ Throw(c, "invalid") /\ UNCHANGED fresh
  BY <1>1, <1>3, StopSafe DEF Reasons, Damage
<1>4. CASE identity \notin {None, Bad}
           /\ LoadOrRenew(c, identity.key, identity.certificate, "returned")
  <2>1. Sound(identity) /\ identity \in Identities
    BY <1>4 DEF IdentityIInv, ItemsSound, Sound
  <2>2. Identity(identity.key, identity.certificate) \in Identities
    BY <2>1 DEF Identity, Identities
  <2>3. Sound(Identity(identity.key, identity.certificate))
    BY <2>1, <2>2 DEF Sound, Identity
  <2> QED BY <1>1, <1>2, <1>4, <2>2, <2>3, LoadOrRenewSafe
<1>5. CASE identity = None /\ Goto(c, "legacy key") /\ UNCHANGED <<items, mine, calls, fresh>>
  <2>1. mine' = [mine EXCEPT ![c] = mine[c]] /\ calls' \in 0..MaxCalls
    BY <1>5 DEF IdentityIInv, IdentityTyped
  <2>2. Moves(c) /\ at'[c] = "legacy key" /\ mine'[c] = mine[c]
    BY <1>1, <1>5, <2>1, MoveTyped DEF Goto, IdentitySteps
  <2>3. identity # Bad /\ mine[c].began = None /\ ~IdentitySettled
    BY <1>2, <1>5, StoreAssumption DEF IdentitySettled
  <2>4. Fits(at[c], mine[c])'
    <3>1. Damage => Damage'
      BY <1>1, <1>5 DEF Damage
    <3> QED BY <1>1, <1>5, <2>2, <2>3, <3>1 DEF Fits, WritesServer, WritesIdentity, FirstTime
  <2> QED BY <2>2, <2>3, <2>4, MoveSafe DEF WritesServer, WritesIdentity, FirstTime
<1> QED BY <1>3, <1>4, <1>5 DEF LoadIdentity

\* The old format is read whole before it is moved, and nothing is settled meanwhile.
LEMMA LoadLegacyKeySafe ==
    ASSUME IdentityIInv, NEW c \in Callers, LoadLegacyKey(c)
    PROVE  IdentityIInv' /\ Stays
<1> DEFINE locals == [mine[c] EXCEPT !.legacy = items["legacy key"]]
<1>1. /\ at[c] = "legacy key" /\ SetMine(c, locals, "legacy certificate")
      /\ UNCHANGED <<now, fresh, setBack>> /\ Fits(at[c], mine[c]) /\ mine[c] \in IdentityCalls
      /\ items["legacy key"] \in {None, LegacyKey}
  BY DEF LoadLegacyKey, IdentityIInv, IdentityTyped, ItemsSound
<1>2. /\ locals \in IdentityCalls /\ locals.legacy = items["legacy key"]
      /\ locals.server = mine[c].server /\ locals.began = mine[c].began
      /\ locals.why = mine[c].why
  BY <1>1 DEF IdentityCalls
<1> HIDE DEF locals
<1>3. Moves(c) /\ at'[c] = "legacy certificate" /\ mine'[c] = locals /\ items' = items
  BY <1>1, <1>2, SetMineTyped DEF IdentitySteps, SetMine
<1>4. mine[c].began = None /\ ~IdentitySettled
  BY <1>1 DEF Fits, FirstTime, IdentitySettled, FirstTimers
<1>5. Fits(at[c], mine[c])'
  <2>1. Damage => Damage'
    BY <1>1, <1>3 DEF Damage
  <2> QED BY <1>1, <1>2, <1>3, <1>4, <2>1 DEF Fits, WritesServer, WritesIdentity, FirstTime
<1> QED BY <1>2, <1>3, <1>4, <1>5, MoveSafe DEF WritesServer, WritesIdentity, FirstTime

\* The old identity moves over, or where there is none a new one is made.
LEMMA LoadLegacyCertificateSafe ==
    ASSUME IdentityIInv, NEW c \in Callers, LoadLegacyCertificate(c)
    PROVE  IdentityIInv' /\ Stays
<1> DEFINE key == mine[c].legacy
           certificate == items["legacy certificate"]
<1>1. /\ at[c] = "legacy certificate" /\ UNCHANGED <<now, setBack>>
      /\ Fits(at[c], mine[c]) /\ mine[c] \in IdentityCalls /\ mine[c].server \in 1..(fresh - 1)
      /\ key = items["legacy key"] /\ items["identity"] # Bad
  BY DEF LoadLegacyCertificate, IdentityIInv, IdentityTyped, Fits, FirstTime
<1>2. mine[c].began = None /\ ~IdentitySettled
  BY <1>1 DEF Fits, FirstTime, IdentitySettled, FirstTimers
<1>3. CASE key # None /\ certificate # None /\ LoadOrRenew(c, key, certificate, "update identity")
  <2>1. key = LegacyKey /\ certificate = [key |-> LegacyKey, from |-> 0]
    BY <1>1, <1>3 DEF IdentityIInv, ItemsSound
  <2> HIDE DEF key, certificate
  <2>2. Identity(key, certificate) \in Identities
    <3>1. LegacyKey \in Nat /\ certificate \in Certificates
      BY <2>1 DEF Certificates, LegacyKey
    <3> QED BY <2>1, <3>1 DEF Identity, Identities
  <2>3. 0 <= MaxTime /\ 0 <= now
    BY IdentityAssumption DEF IdentityIInv, IdentityTyped
  <2>4. Sound(Identity(key, certificate))
    <3>1. /\ Identity(key, certificate).key = key
          /\ Identity(key, certificate).certificate = certificate
          /\ certificate.key = key /\ certificate.from = 0
      BY <2>1 DEF Identity
    <3> QED BY <2>1, <2>2, <2>3, <3>1 DEF Sound
  <2> QED BY <1>1, <1>2, <1>3, <2>2, <2>4, LoadOrRenewSafe
<1>4. CASE (key = None) # (certificate = None) /\ Throw(c, "invalid") /\ UNCHANGED fresh
  <2>1. Damage
    BY <1>1, <1>4 DEF Damage, IdentityIInv, ItemsSound
  <2> QED BY <1>1, <1>4, <2>1, StopSafe DEF Reasons
<1>5. CASE /\ key = None /\ certificate = None /\ fresh' = fresh + 1
           /\ SetMine(c, [mine[c] EXCEPT !.identity = Generate], "update identity")
  <2>1. fresh \in Nat /\ now \in 0..MaxTime /\ MaxTime \in Nat
    BY IdentityAssumption DEF IdentityIInv, IdentityTyped
  <2>2. Generate \in Identities /\ Sound(Generate)
    <3>1. ~LegacyPair
      BY <1>1, <1>5 DEF LegacyPair
    <3> QED BY <2>1, <3>1 DEF Sound, Generate, Identity, Certificate, Identities, Certificates
  <2> PICK identity : identity = Generate
    OBVIOUS
  <2> DEFINE locals == [mine[c] EXCEPT !.identity = identity]
  <2>3. /\ locals \in IdentityCalls /\ locals.identity = identity /\ locals.why = mine[c].why
        /\ locals.server = mine[c].server /\ locals.began = None
    BY <1>1, <1>2, <2>2 DEF IdentityCalls
  <2>4. SetMine(c, locals, "update identity") /\ items' = items
    BY <1>5 DEF SetMine
  <2> HIDE DEF locals
  <2>5. Moves(c) /\ at'[c] = "update identity" /\ mine'[c] = locals
    BY <1>1, <1>5, <2>3, <2>4, SetMineTyped DEF IdentitySteps
  <2>6. Fits(at[c], mine[c])'
    <3>1. /\ Damage => Damage'
          /\ Sound(identity) => Sound(identity)'
      BY <1>1, <2>4 DEF Damage, Sound, LegacyPair
    <3>2. mine[c].server \in 1..(fresh' - 1)
      <4>1. fresh >= 3
        BY DEF IdentityIInv, IdentityTyped, FirstFresh
      <4> QED BY <1>1, <1>5, <2>1, <4>1, NumbersGrow
    <3> QED BY <1>1, <2>2, <2>3, <2>4, <2>5, <3>1, <3>2
         DEF Fits, WritesServer, WritesIdentity, FirstTime
  <2> QED BY <1>2, <2>3, <2>5, <2>6, MoveSafe DEF WritesServer, WritesIdentity, FirstTime
<1> QED BY <1>1, <1>3, <1>4, <1>5 DEF LoadLegacyCertificate

\* A caller that found nothing to update goes on to add, with what it held; whatever it writes
\* over, was not there when it looked.
LEMMA GoOnSafe ==
    ASSUME IdentityIInv, NEW c \in Callers, UNCHANGED <<items, mine, calls, now, fresh, setBack>>,
           \/ /\ at[c] = "update server id" /\ Goto(c, "add server id")
              /\ items["server-id"] = None
           \/ /\ at[c] = "update identity" /\ Goto(c, "add identity")
              /\ items["identity"] = None
    PROVE  IdentityIInv' /\ Stays
<1>1. PICK step \in {"add server id", "add identity"} :
          /\ at' = [at EXCEPT ![c] = step]
          /\ step = "add server id" => items["server-id"] = None /\ at[c] = "update server id"
          /\ step = "add identity" => items["identity"] = None /\ at[c] = "update identity"
  BY DEF Goto
<1>2. Moves(c) /\ at'[c] = step /\ mine'[c] = mine[c]
  <2>1. /\ mine' = [mine EXCEPT ![c] = mine[c]] /\ calls' \in 0..MaxCalls
        /\ mine[c] \in IdentityCalls
    BY DEF IdentityIInv, IdentityTyped
  <2> QED BY <1>1, <2>1, MoveTyped DEF IdentitySteps
<1>3. /\ step = "add server id" => ~ServerSettled
      /\ step = "add identity" => ~IdentitySettled
      /\ mine[c].began = None
  BY <1>1 DEF ServerSettled, IdentitySettled, IdentityIInv, BeganSettled
<1>4. Fits(at[c], mine[c])'
  <2>1. Fits(at[c], mine[c])
    BY DEF IdentityIInv
  <2>2. /\ Damage => Damage'
        /\ Sound(mine[c].identity) => Sound(mine[c].identity)'
    BY DEF Damage, Sound, LegacyPair
  <2> QED BY <1>1, <1>2, <1>3, <2>1, <2>2 DEF Fits, WritesServer, WritesIdentity, FirstTime
<1> QED BY <1>1, <1>2, <1>3, <1>4, MoveSafe DEF WritesServer, WritesIdentity, FirstTime

\* A server ID is written only while none is settled.
LEMMA WriteServerSafe ==
    ASSUME IdentityIInv, NEW c \in Callers, WritesServer(at[c]),
           Write(c, "server-id", mine[c].server, "identity"), UNCHANGED <<now, fresh, setBack>>
    PROVE  IdentityIInv' /\ Stays
<1>1. /\ at' = [at EXCEPT ![c] = "identity"] /\ mine' = mine /\ calls' = calls
      /\ items' = [items EXCEPT !["server-id"] = mine[c].server]
  BY DEF Write, Goto
<1>2. /\ mine[c].server \in 1..(fresh - 1) /\ items["server-id"] # Bad
      /\ mine[c].began = None /\ ~ServerSettled
  BY DEF IdentityIInv, Fits, WritesServer, ServerSettled, ServerWriters
<1>3. mine[c].server \notin {None, Bad}
  <2>1. fresh \in Nat
    BY DEF IdentityIInv, IdentityTyped
  <2>2. mine[c].server \in Int
    BY <1>2, <2>1
  <2> QED BY <2>2, StoreAssumption
<1>4. /\ items'["server-id"] = mine[c].server /\ DOMAIN items' = StoreItems
      /\ \A i \in StoreItems \ {"server-id"} : items'[i] = items[i]
  BY <1>1 DEF IdentityIInv, ItemsSound, StoreItems
<1>5. IdentityTyped'
  BY <1>1 DEF IdentityIInv, IdentityTyped, IdentitySteps
<1>6. \A identity : Sound(identity) => Sound(identity)'
  BY <1>4 DEF Sound, LegacyPair, StoreItems
<1>7. ItemsSound'
  BY <1>2, <1>4, <1>6 DEF IdentityIInv, ItemsSound, StoreItems
<1>8. Stays
  <2>1. ASSUME IdentitySettled
        PROVE  IdentitySettled' /\ items'["identity"] = items["identity"]
    BY <1>1, <1>4, <2>1 DEF IdentitySettled, IdentityWriters, FirstTimers, StoreItems, IdentityIInv,
       IdentityTyped
  <2> QED BY <1>2, <2>1 DEF Stays
<1>9. Damage => Damage'
  BY <1>2, <1>4 DEF Damage, StoreItems
<1>10. ASSUME NEW d \in Callers
       PROVE  (Fits(at[d], mine[d]) /\ BeganSettled(mine[d]))'
  <2>1. Fits(at[d], mine[d]) /\ mine[d].began = None
    BY <1>2 DEF IdentityIInv, BeganSettled
  <2>2. at'[d] = at[d] \/ (at'[d] = "identity" /\ d = c)
    BY <1>1 DEF IdentityIInv, IdentityTyped
  <2>3. BeganSettled(mine[d])'
    BY <1>1, <2>1 DEF BeganSettled
  <2>4. Fits(at[d], mine[d])'
    BY <1>1, <1>2, <1>3, <1>4, <1>6, <1>9, <2>1, <2>2
    DEF Fits, StoreItems, WritesServer, WritesIdentity, FirstTime
  <2> QED BY <2>3, <2>4
<1> QED BY <1>5, <1>7, <1>8, <1>10 DEF IdentityIInv

\* An identity is written over the settled one only with its own key.
LEMMA WriteIdentitySafe ==
    ASSUME IdentityIInv, NEW c \in Callers, WritesIdentity(at[c]),
           Write(c, "identity", mine[c].identity, "returned"), UNCHANGED <<now, fresh, setBack>>
    PROVE  IdentityIInv' /\ Stays
<1>1. /\ at' = [at EXCEPT ![c] = "returned"] /\ mine' = mine /\ calls' = calls
      /\ items' = [items EXCEPT !["identity"] = mine[c].identity]
  BY DEF Write, Goto
<1>2. /\ Sound(mine[c].identity) /\ items["identity"] # Bad /\ c \in IdentityWriters
      /\ Fits(at[c], mine[c]) /\ mine[c].server \in 1..(fresh - 1)
  BY DEF IdentityIInv, Fits, WritesIdentity, IdentityWriters
<1>3. mine[c].identity \notin {None, Bad}
  BY <1>2, IdentityAssumption DEF Sound
<1>4. /\ items'["identity"] = mine[c].identity /\ DOMAIN items' = StoreItems
      /\ \A i \in StoreItems \ {"identity"} : items'[i] = items[i]
  BY <1>1 DEF IdentityIInv, ItemsSound, StoreItems
<1>5. IdentityTyped'
  BY <1>1 DEF IdentityIInv, IdentityTyped, IdentitySteps, Resting
<1>6. \A identity : Sound(identity) => Sound(identity)'
  BY <1>4 DEF Sound, LegacyPair, StoreItems
<1>7. ItemsSound'
  BY <1>2, <1>4, <1>6 DEF IdentityIInv, ItemsSound, StoreItems
<1>8. Stays
  <2>1. ASSUME ServerSettled
        PROVE  ServerSettled' /\ items'["server-id"] = items["server-id"]
    BY <1>1, <1>4, <2>1 DEF ServerSettled, ServerWriters, StoreItems, IdentityIInv, IdentityTyped
  <2>2. ASSUME IdentitySettled
        PROVE  IdentitySettled' /\ items'["identity"].key = items["identity"].key
    <3>1. mine[c].identity.key = items["identity"].key
      BY <1>2, <2>2 DEF IdentitySettled
    <3> QED BY <1>1, <1>3, <1>4, <2>2, <3>1
         DEF IdentitySettled, IdentityWriters, FirstTimers, IdentityIInv, IdentityTyped
  <2> QED BY <2>1, <2>2 DEF Stays
<1>9. Damage => Damage'
  BY <1>2, <1>4 DEF Damage, StoreItems
<1>10. ASSUME NEW d \in Callers
       PROVE  (Fits(at[d], mine[d]) /\ BeganSettled(mine[d]))'
  <2>1. Fits(at[d], mine[d]) /\ BeganSettled(mine[d])
    BY DEF IdentityIInv
  <2>2. at'[d] = at[d] \/ (at'[d] = "returned" /\ d = c)
    BY <1>1 DEF IdentityIInv, IdentityTyped
  <2>3. BeganSettled(mine[d])'
    BY <1>1, <1>8, <2>1 DEF BeganSettled, Stays
  <2>4. Fits(at[d], mine[d])'
    <3>1. CASE at'[d] = at[d]
      BY <1>1, <1>3, <1>4, <1>6, <1>9, <2>1, <3>1
      DEF Fits, StoreItems, WritesServer, WritesIdentity, FirstTime
    <3>2. CASE at'[d] = "returned" /\ d = c
      BY <1>1, <1>2, <1>3, <1>4, <1>6, <1>9, <3>2
      DEF Fits, StoreItems, WritesServer, WritesIdentity, FirstTime
    <3> QED BY <2>2, <3>1, <3>2
  <2> QED BY <2>3, <2>4
<1> QED BY <1>5, <1>7, <1>8, <1>10 DEF IdentityIInv

\* The server ID is stored by updating the item, or by adding it when there is none.
LEMMA StoreServerIDSafe ==
    ASSUME IdentityIInv, NEW c \in Callers, StoreServerID(c)
    PROVE  IdentityIInv' /\ Stays
<1>1. /\ at[c] \in {"update server id", "add server id"} /\ UNCHANGED <<now, fresh, setBack>>
      /\ \/ Write(c, "server-id", mine[c].server, "identity")
         \/ /\ at[c] = "update server id" /\ items["server-id"] = None
            /\ Goto(c, "add server id") /\ UNCHANGED <<items, mine, calls>>
         \/ at[c] = "add server id" /\ Throw(c, "duplicate")
  BY DEF StoreServerID, Update, Add
<1>2. CASE at[c] = "add server id" /\ Throw(c, "duplicate")
  <2>1. mine[c].began = None
    BY <1>2 DEF IdentityIInv, Fits, WritesServer
  <2> QED BY <1>1, <1>2, <2>1, StopSafe DEF Reasons
<1> QED BY <1>1, <1>2, GoOnSafe, WriteServerSafe DEF WritesServer

\* persist
LEMMA StoreIdentitySafe ==
    ASSUME IdentityIInv, NEW c \in Callers, StoreIdentity(c)
    PROVE  IdentityIInv' /\ Stays
<1>1. /\ at[c] \in {"update identity", "add identity"} /\ UNCHANGED <<now, fresh, setBack>>
      /\ \/ Write(c, "identity", mine[c].identity, "returned")
         \/ /\ at[c] = "update identity" /\ items["identity"] = None
            /\ Goto(c, "add identity") /\ UNCHANGED <<items, mine, calls>>
         \/ at[c] = "add identity" /\ Throw(c, "duplicate")
  BY DEF StoreIdentity, Update, Add
<1>2. CASE at[c] = "add identity" /\ Throw(c, "duplicate")
  <2>1. mine[c].began = None
    BY <1>2 DEF IdentityIInv, Fits
  <2> QED BY <1>1, <1>2, <2>1, StopSafe DEF Reasons
<1> QED BY <1>1, <1>2, GoOnSafe, WriteIdentitySafe DEF WritesIdentity

\* Time passes, or is set back.
LEMMA TickSafe ==
    ASSUME IdentityIInv, Tick
    PROVE  IdentityIInv' /\ Stays
<1>1. PICK t \in 0..MaxTime : now' = t /\ setBack' = (setBack \/ t < now)
  BY DEF Tick
<1>2. UNCHANGED <<items, at, mine, calls, fresh>>
  BY DEF Tick
<1>3. (setBack => setBack') /\ (~setBack' => now <= now') /\ setBack' \in BOOLEAN
  <2>1. now \in 0..MaxTime /\ MaxTime \in Nat /\ t \in 0..MaxTime
    BY IdentityAssumption DEF IdentityIInv, IdentityTyped
  <2>2. t < now \/ now <= t
    BY <2>1
  <2> QED BY <1>1, <2>2
<1>4. IdentityTyped'
  BY <1>1, <1>2, <1>3 DEF IdentityIInv, IdentityTyped
<1>5. ASSUME NEW identity, Sound(identity)
      PROVE  Sound(identity)'
  <2>1. /\ identity.certificate.from \in Nat /\ now \in 0..MaxTime /\ now' \in 0..MaxTime
        /\ MaxTime \in Nat
    BY <1>1, <1>5, IdentityAssumption
    DEF IdentityIInv, IdentityTyped, Sound, Identities, Certificates
  <2>2. ~setBack' => identity.certificate.from <= now'
    BY <1>3, <1>5, <2>1 DEF Sound
  <2> QED BY <1>2, <1>5, <2>2 DEF Sound, LegacyPair
<1>6. Damage => Damage'
  BY <1>2, <1>3 DEF Damage
<1>7. ItemsSound'
  BY <1>2, <1>5 DEF IdentityIInv, ItemsSound
<1>8. Stays
  BY <1>2 DEF Stays, ServerSettled, ServerWriters, IdentitySettled, IdentityWriters, FirstTimers
<1>9. ASSUME NEW d \in Callers
      PROVE  (Fits(at[d], mine[d]) /\ BeganSettled(mine[d]))'
  <2>1. Fits(at[d], mine[d]) /\ BeganSettled(mine[d])
    BY DEF IdentityIInv
  <2>2. Fits(at[d], mine[d])'
    BY <1>2, <1>5, <1>6, <2>1 DEF Fits
  <2>3. BeganSettled(mine[d])'
    BY <1>2, <1>8, <2>1 DEF BeganSettled, Stays
  <2> QED BY <2>2, <2>3
<1> QED BY <1>4, <1>7, <1>8, <1>9 DEF IdentityIInv

\* Every step on the identity keeps its invariant and what is settled.
LEMMA IdentityStepSafe == IdentityIInv /\ IdentityNext => IdentityIInv' /\ Stays
<1> SUFFICES ASSUME IdentityIInv, IdentityNext
             PROVE  IdentityIInv' /\ Stays
  OBVIOUS
<1>1. ASSUME NEW c \in Callers, Interrupt(c)
      PROVE  IdentityIInv' /\ Stays
  BY <1>1, StopSafe DEF Interrupt, Refused, Crash, Reasons
<1> QED BY <1>1, TickSafe, BeginSafe, LoadServerIDSafe, StoreServerIDSafe, LoadIdentitySafe,
        LoadLegacyKeySafe, LoadLegacyCertificateSafe, StoreIdentitySafe DEF IdentityNext

\* It holds of every installation.
LEMMA IdentityStartsSafe == IdentityInit => IdentityIInv
<1> SUFFICES ASSUME IdentityInit
             PROVE  IdentityIInv
  OBVIOUS
<1>1. /\ at = [c \in Callers |-> "idle"] /\ mine = [c \in Callers |-> Locals(None, 0)]
      /\ calls = 0 /\ now = 0 /\ fresh = FirstFresh /\ setBack = FALSE
  BY DEF IdentityInit
<1> DEFINE legacy == FirstCertificate(LegacyKey)
           stored == Identity(StoredKey, FirstCertificate(StoredKey))
<1>2. /\ DOMAIN items = StoreItems /\ items["trust"] = None
      /\ items["server-id"] \in {None, StoredKey, Bad} /\ items["identity"] \in {None, Bad, stored}
      /\ items["legacy key"] \in {None, LegacyKey} /\ items["legacy certificate"] \in {None, legacy}
      /\ items["legacy certificate"] # None => items["legacy key"] # None
  <2>1. ASSUME NEW server \in {None, StoredKey, Bad}, NEW identity \in {None, Bad, stored},
               NEW key \in {None, LegacyKey}, NEW certificate \in {None, legacy},
               items = Installed(server, identity, key, certificate),
               key = None => certificate = None
        PROVE  /\ DOMAIN items = StoreItems /\ items["trust"] = None
               /\ items["server-id"] = server /\ items["identity"] = identity
               /\ items["legacy key"] = key /\ items["legacy certificate"] = certificate
    BY <2>1 DEF Installed, StoreItems
  <2>2. PICK server \in {None, StoredKey, Bad} :
            items \in {Installed(server, None, None, None),
                       Installed(server, None, LegacyKey, legacy),
                       Installed(server, None, LegacyKey, None),
                       Installed(server, stored, None, None),
                       Installed(server, stored, LegacyKey, legacy),
                       Installed(server, Bad, LegacyKey, legacy)}
    BY DEF IdentityInit
  <2>3. LegacyKey # None
    BY StoreAssumption DEF LegacyKey
  <2> HIDE DEF legacy, stored
  <2> QED BY <2>1, <2>2, <2>3
<1>3. 0 \in 0..MaxTime /\ 0 \in 0..MaxCalls /\ FirstFresh = 3 /\ StoredKey = 2
  BY IdentityAssumption, StoreAssumption DEF FirstFresh, StoredKey
<1>4. Locals(None, 0) \in IdentityCalls /\ Locals(None, 0).why = "nothing" /\ Locals(None, 0).began = None
  BY DEF Locals, IdentityCalls, Reasons
<1>5. IdentityTyped
  <2>1. 3 \in Nat /\ 3 >= 3
    OBVIOUS
  <2> QED BY <1>1, <1>3, <1>4, <2>1 DEF IdentityTyped, IdentitySteps, Resting
<1>6. Sound(stored)
  <2>1. /\ FirstCertificate(StoredKey) \in Certificates
        /\ FirstCertificate(StoredKey).key = StoredKey /\ FirstCertificate(StoredKey).from = 0
    BY <1>3 DEF FirstCertificate, Certificates
  <2>2. /\ stored \in Identities /\ stored.key = StoredKey
        /\ stored.certificate = FirstCertificate(StoredKey)
    BY <1>3, <2>1 DEF Identity, Identities
  <2> HIDE DEF stored
  <2>3. 0 <= MaxTime /\ 0 <= 0
    BY <1>3, IdentityAssumption
  <2> QED BY <1>1, <2>1, <2>2, <2>3 DEF Sound
<1>7. ItemsSound
  <2>1. 2 \in 1..(3 - 1)
    OBVIOUS
  <2> HIDE DEF stored
  <2> QED BY <1>1, <1>2, <1>3, <1>6, <2>1 DEF ItemsSound, FirstCertificate
<1>8. ASSUME NEW c \in Callers
      PROVE  Fits(at[c], mine[c]) /\ BeganSettled(mine[c])
  BY <1>1, <1>4 DEF Fits, BeganSettled, WritesServer, WritesIdentity, FirstTime
<1> QED BY <1>5, <1>7, <1>8 DEF IdentityIInv

-------------------------------------------------------------------------------
(* The calls that overlap no other *)

\* What a call has stored or found stored so far is what is stored.
Kept(c) ==
    /\ at[c] \in {"identity", "legacy key", "legacy certificate", "update identity",
                  "add identity", "returned"} => mine[c].server = items["server-id"]
    /\ at[c] = "returned" => mine[c].identity = items["identity"]

\* A call that overlaps no other is the only one under way.
Lone(c) ==
    /\ mine[c].alone \in 0..calls
    /\ Alone(mine[c]) => Kept(c) /\ \A d \in Callers : d # c => ~InCall(d)

LoneIInv == \A c \in Callers : Lone(c)

\* A step of a call that began before.
CallStep(c) ==
    \/ LoadServerID(c) \/ StoreServerID(c) \/ LoadIdentity(c) \/ LoadLegacyKey(c)
    \/ LoadLegacyCertificate(c) \/ StoreIdentity(c) \/ Interrupt(c)

\* It is taken within the call, and touches no other and not the number it was given.
LEMMA StepIsOwn ==
    ASSUME IdentityIInv, NEW c \in Callers, CallStep(c)
    PROVE  /\ InCall(c) /\ calls' = calls /\ mine'[c].alone = mine[c].alone
           /\ \A d \in Callers : d # c => at'[d] = at[d] /\ mine'[d] = mine[d]
<1>1. at \in [Callers -> IdentitySteps] /\ mine \in [Callers -> IdentityCalls]
  BY DEF IdentityIInv, IdentityTyped
<1>2. InCall(c)
  BY DEF CallStep, LoadServerID, StoreServerID, LoadIdentity, LoadLegacyKey,
         LoadLegacyCertificate, StoreIdentity, Interrupt, Refused, Crash, Update, Add, InCall,
         Resting
<1>3. calls' = calls /\ \E step : Goto(c, step)
  BY DEF CallStep, LoadServerID, StoreServerID, LoadIdentity, LoadLegacyKey,
         LoadLegacyCertificate, StoreIdentity, Interrupt, Refused, Crash, Update, Add, Write,
         Throw, SetMine, LoadOrRenew
<1>4. \/ mine' = mine
      \/ \E why : mine' = [mine EXCEPT ![c].why = why]
      \/ \E server : mine' = [mine EXCEPT ![c].server = server]
      \/ \E identity : mine' = [mine EXCEPT ![c].identity = identity]
      \/ \E legacy : mine' = [mine EXCEPT ![c].legacy = legacy]
  BY DEF CallStep, LoadServerID, StoreServerID, LoadIdentity, LoadLegacyKey,
         LoadLegacyCertificate, StoreIdentity, Interrupt, Refused, Crash, Update, Add, Write,
         Throw, SetMine, LoadOrRenew
<1>5. mine'[c].alone = mine[c].alone /\ \A d \in Callers : d # c => mine'[d] = mine[d]
  BY <1>1, <1>4 DEF IdentityCalls
<1> QED BY <1>1, <1>2, <1>3, <1>5 DEF Goto

\* A call that throws or ends has nothing left to keep.
LEMMA StopKeeps ==
    ASSUME IdentityIInv, NEW c \in Callers, NEW step \in {"threw", "idle"}, Goto(c, step)
    PROVE  Kept(c)'
BY DEF Goto, Kept, IdentityIInv, IdentityTyped

\* The ID it takes is the stored one, or is stored before it goes on.
LEMMA ServerIDKeeps ==
    ASSUME IdentityIInv, NEW c \in Callers, LoadServerID(c) \/ StoreServerID(c)
    PROVE  Kept(c)'
<1>1. at \in [Callers -> IdentitySteps] /\ mine \in [Callers -> IdentityCalls]
      /\ DOMAIN items = StoreItems
  BY DEF IdentityIInv, IdentityTyped, ItemsSound
<1>2. CASE \E why : Throw(c, why)
  BY <1>2, StopKeeps DEF Throw
<1>3. CASE /\ SetMine(c, [mine[c] EXCEPT !.server = items["server-id"]], "identity")
  BY <1>1, <1>3 DEF SetMine, Goto, Kept, IdentityCalls
<1>4. CASE Write(c, "server-id", mine[c].server, "identity")
  BY <1>1, <1>4 DEF Write, Goto, Kept, StoreItems
<1>5. CASE \E step \in {"update server id", "add server id"} : Goto(c, step)
  BY <1>1, <1>5 DEF Goto, Kept
<1> QED BY <1>2, <1>3, <1>4, <1>5 DEF LoadServerID, StoreServerID, Update, Add, SetMine

\* The identity it loads whole is the stored one; a renewed one is still to be stored.
LEMMA LoadKeeps ==
    ASSUME IdentityIInv, NEW c \in Callers, Kept(c),
           LoadIdentity(c) \/ LoadLegacyKey(c) \/ LoadLegacyCertificate(c)
    PROVE  Kept(c)'
<1>1. at \in [Callers -> IdentitySteps] /\ mine \in [Callers -> IdentityCalls]
      /\ mine[c].server = items["server-id"]
  BY DEF IdentityIInv, IdentityTyped, LoadIdentity, LoadLegacyKey, LoadLegacyCertificate, Kept
<1>2. CASE \E why : Throw(c, why)
  BY <1>2, StopKeeps DEF Throw
<1>3. CASE Goto(c, "legacy key") /\ UNCHANGED <<items, mine>>
  BY <1>1, <1>3 DEF Goto, Kept
<1>4. CASE SetMine(c, [mine[c] EXCEPT !.legacy = items["legacy key"]], "legacy certificate")
  BY <1>1, <1>4 DEF SetMine, Goto, Kept, IdentityCalls
<1>5. ASSUME NEW identity, NEW step \in {"returned", "update identity"},
             SetMine(c, [mine[c] EXCEPT !.identity = identity], step),
             step = "returned" => identity = items["identity"]
      PROVE  Kept(c)'
  BY <1>1, <1>5 DEF SetMine, Goto, Kept, IdentityCalls
<1>6. items["identity"] \notin {None, Bad} =>
          Identity(items["identity"].key, items["identity"].certificate) = items["identity"]
  BY DEF IdentityIInv, ItemsSound, Sound, Identities, Identity
<1>7. ASSUME NEW key, NEW certificate, NEW next \in {"returned", "update identity"},
             LoadOrRenew(c, key, certificate, next),
             next = "returned" => Identity(key, certificate) = items["identity"]
      PROVE  Kept(c)'
  BY <1>2, <1>5, <1>7 DEF LoadOrRenew
<1> QED BY <1>2, <1>3, <1>4, <1>5, <1>6, <1>7
        DEF LoadIdentity, LoadLegacyKey, LoadLegacyCertificate

\* What it returns after storing it is what it stored.
LEMMA StoreKeeps ==
    ASSUME IdentityIInv, NEW c \in Callers, Kept(c), StoreIdentity(c)
    PROVE  Kept(c)'
<1>1. at \in [Callers -> IdentitySteps] /\ mine \in [Callers -> IdentityCalls]
      /\ DOMAIN items = StoreItems /\ mine[c].server = items["server-id"]
  BY DEF IdentityIInv, IdentityTyped, ItemsSound, StoreIdentity, Update, Add, Kept
<1>2. CASE \E why : Throw(c, why)
  BY <1>2, StopKeeps DEF Throw
<1>3. CASE Write(c, "identity", mine[c].identity, "returned")
  BY <1>1, <1>3 DEF Write, Goto, Kept, StoreItems
<1>4. CASE Goto(c, "add identity") /\ UNCHANGED <<items, mine>>
  BY <1>1, <1>4 DEF Goto, Kept
<1> QED BY <1>2, <1>3, <1>4 DEF StoreIdentity, Update, Add

\* No step of any caller disturbs a call that overlaps no other.
LEMMA LoneStepSafe == IdentityIInv /\ LoneIInv /\ IdentityNext => LoneIInv'
<1> SUFFICES ASSUME IdentityIInv, LoneIInv, IdentityNext
             PROVE  LoneIInv'
  OBVIOUS
<1>1. ASSUME NEW c \in Callers, CallStep(c), NEW d \in Callers
      PROVE  Lone(d)'
  <2>1. /\ InCall(c) /\ calls' = calls /\ mine'[c].alone = mine[c].alone
        /\ \A e \in Callers : e # c => at'[e] = at[e] /\ mine'[e] = mine[e]
    BY <1>1, StepIsOwn
  <2>2. Lone(d)
    BY DEF LoneIInv
  <2>3. CASE d # c
    BY <2>1, <2>2, <2>3 DEF Lone, Alone
  <2>4. CASE d = c
    <3>1. Kept(c) => Kept(c)'
      BY <1>1, StopKeeps, ServerIDKeeps, LoadKeeps, StoreKeeps
      DEF CallStep, Interrupt, Refused, Crash, Throw
    <3> QED BY <2>1, <2>2, <2>4, <3>1 DEF Lone, Alone, InCall
  <2> QED BY <2>3, <2>4
<1>2. ASSUME NEW c \in Callers, Begin(c), NEW d \in Callers
      PROVE  Lone(d)'
  <2>1. /\ at \in [Callers -> IdentitySteps] /\ mine \in [Callers -> IdentityCalls]
        /\ calls \in Nat /\ calls' = calls + 1 /\ mine[d].alone \in 0..calls
    <3>1. calls \in 0..MaxCalls /\ MaxCalls \in Nat
      BY StoreAssumption DEF IdentityIInv, IdentityTyped
    <3>2. calls \in Nat
      BY <3>1
    <3> QED BY <1>2, <3>2 DEF Begin, BeginCall, IdentityIInv, IdentityTyped, LoneIInv, Lone
  <2>2. CASE d # c
    <3>1. mine'[d] = mine[d]
      BY <1>2, <2>1, <2>2 DEF Begin, BeginCall
    <3> QED BY <2>1, <3>1 DEF Lone, Alone
  <2>3. CASE d = c
    <3>1. /\ at' = [at EXCEPT ![c] = "server id"]
          /\ mine'[c].alone = IF \A e \in Callers : ~InCall(e) THEN calls + 1 ELSE 0
      BY <1>2, <2>1 DEF Begin, BeginCall, Goto, Locals
    <3> DEFINE none == \A e \in Callers : ~InCall(e)
    <3>2. (mine'[c].alone = calls + 1 /\ none) \/ mine'[c].alone = 0
      <4>1. CASE none
        BY <3>1, <4>1
      <4>2. CASE ~none
        BY <3>1, <4>2
      <4> QED BY <4>1, <4>2
    <3> HIDE DEF none
    <3>3. Kept(c)'
      BY <2>1, <3>1 DEF Kept
    <3>4. mine'[c].alone \in 0..calls'
      BY <2>1, <3>2
    <3>5. ASSUME mine'[c].alone = calls', NEW e \in Callers, e # c
          PROVE  ~InCall(e)'
      <4>1. none
        BY <2>1, <3>2, <3>5
      <4>2. ~InCall(e)
        BY <4>1 DEF none
      <4>3. at'[e] = at[e]
        BY <2>1, <3>1, <3>5
      <4> QED BY <4>2, <4>3 DEF InCall
    <3> QED BY <2>3, <3>3, <3>4, <3>5 DEF Lone, Alone
  <2> QED BY <2>2, <2>3
<1>3. CASE Tick
  BY <1>3 DEF Tick, LoneIInv, Lone, Alone, Kept, InCall
<1> QED BY <1>1, <1>2, <1>3 DEF IdentityNext, CallStep, LoneIInv

\* At the start every caller is idle.
LEMMA LoneStarts == IdentityInit => LoneIInv
BY DEF IdentityInit, LoneIInv, Lone, Alone, Kept, Locals, InCall, Resting

-------------------------------------------------------------------------------
(* Both *)

IInv ==
    /\ part \in {"identity", "trust"}
    /\ part = "identity" => IdentityIInv /\ LoneIInv /\ approved = {} /\ revokedLast = FALSE
    /\ part = "trust" => TrustIInv /\ now = 0 /\ fresh = FirstFresh /\ setBack = FALSE

\* It holds where the trust records and where the identity are looked at.
LEMMA StartsSafe == Init => IInv
<1>1. ASSUME part = "identity", IdentityInit, approved = {}, revokedLast = FALSE
      PROVE  IInv
  BY <1>1, IdentityStartsSafe, LoneStarts DEF IInv
<1>2. ASSUME part = "trust", NEW trust \in {None, Bad},
             TrustInit([NoItems EXCEPT !["trust"] = trust]),
             now = 0, fresh = FirstFresh, setBack = FALSE
      PROVE  IInv
  BY <1>2, TrustStartsSafe DEF IInv
<1> QED BY <1>1, <1>2 DEF Init

\* Every step of either keeps it.
LEMMA StepSafe == IInv /\ [Next]_vars => IInv'
<1> SUFFICES ASSUME IInv, [Next]_vars
             PROVE  IInv'
  OBVIOUS
<1>1. CASE part = "identity" /\ IdentityNext /\ UNCHANGED <<approved, revokedLast, part>>
  BY <1>1, IdentityStepSafe, LoneStepSafe DEF IInv
<1>2. CASE part = "trust" /\ TrustNext /\ UNCHANGED <<now, fresh, setBack, part>>
  BY <1>2, TrustStepSafe DEF IInv
<1>3. CASE UNCHANGED vars
  <2>1. /\ TrustIInv => TrustIInv'
        /\ IdentityIInv /\ LoneIInv => IdentityIInv' /\ LoneIInv'
    <3>1. ASSUME TrustIInv
          PROVE  TrustIInv'
      BY <1>3, <3>1 DEF vars, TrustIInv, TrustTyped, WriterHolds, RevokesOnly, ReaderAsks, Grant
    <3>2. ASSUME IdentityIInv, LoneIInv
          PROVE  IdentityIInv' /\ LoneIInv'
      <4>1. UNCHANGED <<items, at, mine, calls, now, fresh, setBack>>
        BY <1>3 DEF vars
      <4>2. LoneIInv'
        BY <3>2, <4>1 DEF LoneIInv, Lone, Alone, Kept, InCall
      <4> QED BY <3>2, <4>1, <4>2
           DEF IdentityIInv, IdentityTyped, ItemsSound, Fits, BeganSettled, Sound, Damage,
               LegacyPair, ServerSettled, IdentitySettled, ServerWriters, IdentityWriters,
               FirstTimers
    <3> QED BY <3>1, <3>2
  <2> QED BY <1>3, <2>1 DEF vars, IInv
<1> QED BY <1>1, <1>2, <1>3 DEF Next

\* So it holds in every state of every behaviour.
LEMMA InvariantHolds == Spec => []IInv
<1> QED BY StartsSafe, StepSafe, PTL DEF Spec

\* For every set of callers that approve, revoke and ask at once, are refused and crash: after a
\* revoke had the last word the record is revoked, and nobody is granted what was not approved.
THEOREM RevocationKept == Spec => []RevocationIsKept
<1>1. IInv => RevocationIsKept
  <2> SUFFICES ASSUME IInv, part = "trust"
               PROVE  RevocationHolds
    BY DEF RevocationIsKept
  <2>1. revokedLast => items["trust"] # None /\ items["trust"].revoked
    BY TrustAssumption DEF IInv, TrustIInv
  <2> QED BY <2>1 DEF IInv, TrustIInv, Grant, RevocationHolds
<1> QED BY <1>1, InvariantHolds, PTL

\* For every set of callers, any clock and any of the installations: a call that began when all
\* was settled returns just that, one that overlaps no other, a first start included, returns what
\* is stored, the old format keeps its key, and only damage or a clock set back makes a call fail
\* for good.
THEOREM CallsAlwaysAgree == Spec => []IdentityCallsAgree
<1>1. IInv => IdentityCallsAgree
  <2> SUFFICES ASSUME IInv, part = "identity", NEW c \in Callers
               PROVE  /\ at[c] = "returned" =>
                            /\ mine[c].began # None =>
                                  <<mine[c].server, mine[c].identity.key>> = mine[c].began
                            /\ Alone(mine[c]) =>
                                  /\ mine[c].server = items["server-id"]
                                  /\ mine[c].identity = items["identity"]
                            /\ LegacyPair => mine[c].identity.key \in {LegacyKey, StoredKey}
                      /\ mine[c].why = "duplicate" => mine[c].began = None
                      /\ mine[c].why = "invalid" =>
                            \/ setBack \/ \E i \in DOMAIN items : items[i] = Bad
                            \/ items["legacy key"] # None /\ items["legacy certificate"] = None
    BY DEF IdentityCallsAgree, CallsAgree
  <2>1. Fits(at[c], mine[c]) /\ BeganSettled(mine[c]) /\ DOMAIN items = StoreItems
    BY DEF IInv, IdentityIInv, ItemsSound
  <2>2. ASSUME at[c] = "returned", mine[c].began # None
        PROVE  <<mine[c].server, mine[c].identity.key>> = mine[c].began
    <3>1. mine[c].began = <<items["server-id"], items["identity"].key>>
      BY <2>1, <2>2 DEF BeganSettled
    <3>2. mine[c].began[1] = items["server-id"] /\ mine[c].began[2] = items["identity"].key
      BY <3>1, PairParts
    <3> QED BY <2>1, <2>2, <3>1, <3>2 DEF Fits
  <2>3. at[c] = "returned" /\ LegacyPair => mine[c].identity.key \in {LegacyKey, StoredKey}
    BY <2>1 DEF Fits, Sound
  <2>4. Damage => \/ setBack \/ \E i \in DOMAIN items : items[i] = Bad
                  \/ items["legacy key"] # None /\ items["legacy certificate"] = None
    BY <2>1 DEF Damage, StoreItems
  <2>5. at[c] = "returned" /\ Alone(mine[c]) =>
            mine[c].server = items["server-id"] /\ mine[c].identity = items["identity"]
    BY DEF IInv, LoneIInv, Lone, Kept
  <2> QED BY <2>1, <2>2, <2>3, <2>4, <2>5 DEF Fits
<1> QED BY <1>1, InvariantHolds, PTL

\* No step of any caller, whatever it raced with, changes a server ID or a key that was settled.
THEOREM IdentityStays == Spec => SettledIdentityStays
<1>1. IInv /\ [Next]_vars =>
        [/\ ServerSettled => ServerSettled' /\ items'["server-id"] = items["server-id"]
         /\ IdentitySettled =>
                IdentitySettled' /\ items'["identity"].key = items["identity"].key]_identityVars
  <2> SUFFICES ASSUME IInv, Next
               PROVE  Stays
    BY DEF Stays, vars, identityVars
  <2>1. CASE part = "identity" /\ IdentityNext
    BY <2>1, IdentityStepSafe DEF IInv
  <2>2. CASE part = "trust"
    BY <2>2 DEF IInv, TrustIInv, TrustTyped, StoreItems, Stays, ServerSettled, IdentitySettled
  <2> QED BY <2>1, <2>2 DEF Next
<1> QED BY <1>1, InvariantHolds, PTL DEF Spec, SettledIdentityStays

\* A step never runs ahead of what it needs, for every set of callers.
THEOREM TypeCorrect == Spec => []TypeOK
<1>1. IInv => TypeOK
  <2> SUFFICES ASSUME IInv
               PROVE  TypeOK
    OBVIOUS
  <2>1. CASE part = "identity"
    <3>1. IdentityIInv /\ approved = {} /\ revokedLast = FALSE
      BY <2>1 DEF IInv
    <3>2. ASSUME NEW c \in Callers
          PROVE  /\ at[c] \in {"identity", "update server id", "add server id", "returned"} =>
                        mine[c].server \in 1..(fresh - 1)
                 /\ at[c] \in {"update identity", "add identity", "returned"} =>
                        /\ mine[c].identity.key = mine[c].identity.certificate.key
                        /\ mine[c].identity.certificate.from \in 0..MaxTime
                 /\ at[c] \notin {"update trust", "add trust"}
      <4>1. Fits(at[c], mine[c]) /\ at[c] \in IdentitySteps
        BY <3>1 DEF IdentityIInv, IdentityTyped
      <4>2. ASSUME Sound(mine[c].identity)
            PROVE  /\ mine[c].identity.key = mine[c].identity.certificate.key
                   /\ mine[c].identity.certificate.from \in 0..MaxTime
        BY <4>2, IdentityAssumption DEF Sound, Identities, Certificates
      <4> QED BY <4>1, <4>2 DEF Fits, WritesIdentity, IdentitySteps, Resting
    <3>3. /\ at \in [Callers -> Steps] /\ calls \in 0..MaxCalls /\ now \in 0..MaxTime
          /\ fresh \in Nat /\ setBack \in BOOLEAN
      BY <3>1 DEF IdentityIInv, IdentityTyped, IdentitySteps, Steps
    <3> QED BY <2>1, <3>1, <3>2, <3>3 DEF TypeOK
  <2>2. CASE part = "trust"
    <3>1. TrustIInv /\ now = 0 /\ fresh = 3 /\ setBack = FALSE
      BY <2>2 DEF IInv, FirstFresh
    <3>2. 0 \in 0..MaxTime
      BY IdentityAssumption
    <3>3. at \in [Callers -> Steps]
      BY <3>1 DEF TrustIInv, TrustTyped, TrustSteps, Steps
    <3> QED BY <2>2, <3>1, <3>2, <3>3 DEF TypeOK, TrustIInv, TrustTyped, WriterHolds
  <2> QED BY <2>1, <2>2 DEF IInv
<1> QED BY <1>1, InvariantHolds, PTL
================================================================================
