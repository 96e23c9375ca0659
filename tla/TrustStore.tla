------------------------------- MODULE TrustStore -------------------------------
(***************************************************************************)
(* AppleTrustStore (IdentityStore.swift) for one peer: approve and revoke   *)
(* write its record, revoke after reading it, and authorizes judges it by   *)
(* gm_trust_record_authorizes (gm_crypto.cpp).                              *)
(***************************************************************************)
EXTENDS SecureStore

CONSTANT
    Permissions     \* TrustPermissions

TrustRecords == [permissions : SUBSET Permissions, revoked : BOOLEAN]
ASSUME TrustAssumption == None \notin TrustRecords /\ Bad \notin TrustRecords

VARIABLES
    approved,       \* history: every permission that an approve was asked to store
    revokedLast     \* history: a revoke returned and no approve was under way then or began since

trustVars == <<items, at, mine, calls, approved, revokedLast>>

TrustRecord(permissions, revoked) == [permissions |-> permissions, revoked |-> revoked]

\* Locals: which call, the record to store, the permission asked for and the answer; whether the
\* last word was a revoke when the record was read.
TrustLocals(op, record, permission) ==
    [op |-> op, record |-> record, permission |-> permission, granted |-> FALSE,
     revoked |-> FALSE, why |-> "nothing"]

Approving == {c \in Callers : InCall(c) /\ mine[c].op = "approve"}

\* gm_trust_record_authorizes
Authorizes(record, permission) == ~record.revoked /\ permission \in record.permissions

Approve(c) ==
    \E permissions \in SUBSET Permissions :
        /\ BeginCall(c, "update trust",
               TrustLocals("approve", TrustRecord(permissions, FALSE), None))
        /\ approved' = approved \cup permissions /\ revokedLast' = FALSE

Revoke(c) ==
    /\ BeginCall(c, "read trust", TrustLocals("revoke", None, None))
    /\ UNCHANGED <<approved, revokedLast>>

AuthorizesPeer(c) ==
    \E permission \in Permissions :
        /\ BeginCall(c, "read trust", TrustLocals("authorizes", None, permission))
        /\ UNCHANGED <<approved, revokedLast>>

\* fault: revoke keeps the record as it was
StillTrusted(record) == TrustRecord(IF record = None THEN {} ELSE record.permissions, FALSE)
\* What revoke stores over the record it read.
Revoked(record) == TrustRecord(IF record = None THEN {} ELSE record.permissions, TRUE)

\* record(for:), then what the call does with it.
ReadTrust(c) ==
    LET call == mine[c] record == items["trust"] IN
    /\ at[c] = "read trust"
    /\ \/ record = Bad /\ Throw(c, "invalid")
       \/ /\ record # Bad /\ call.op = "revoke"
          /\ mine' = [mine EXCEPT ![c].record = Revoked(record)] /\ Goto(c, "update trust")
          /\ UNCHANGED <<items, calls>>
       \/ /\ record # Bad /\ call.op = "authorizes"
          /\ mine' = [mine EXCEPT
                 ![c].granted = (record # None /\ Authorizes(record, call.permission)),
                 ![c].revoked = revokedLast]
          /\ Goto(c, "returned") /\ UNCHANGED <<items, calls>>
    /\ UNCHANGED <<approved, revokedLast>>

\* save
StoreTrust(c) ==
    /\ \/ Update(c, "update trust", "add trust", "trust", mine[c].record, "returned")
       \/ Add(c, "add trust", "trust", mine[c].record, "returned")
    /\ revokedLast' = (\/ revokedLast
                       \/ at'[c] = "returned" /\ mine[c].op = "revoke" /\ Approving = {})
    /\ UNCHANGED approved

InterruptTrust(c) == (Refused(c) \/ Crash(c)) /\ UNCHANGED <<approved, revokedLast>>

TrustInit(start) ==
    /\ items = start /\ at = [c \in Callers |-> "idle"] /\ calls = 0
    /\ mine = [c \in Callers |-> TrustLocals("none", None, None)]
    /\ approved = {} /\ revokedLast = FALSE

TrustNext ==
    \E c \in Callers :
        \/ Approve(c) \/ Revoke(c) \/ AuthorizesPeer(c)
        \/ ReadTrust(c) \/ StoreTrust(c) \/ InterruptTrust(c)

-------------------------------------------------------------------------------
\* IdentityStore.swift:572-610: a revoke that returned stays in force until an approve that was
\* under way then or began later; until then nobody is told that the peer may do anything; and
\* no peer is ever granted what no approve was asked for, whatever overlapped or broke off.
RevocationHolds ==
    /\ revokedLast => items["trust"] # None /\ items["trust"].revoked
    /\ \A c \in Callers :
           mine[c].granted => mine[c].permission \in approved /\ ~mine[c].revoked
================================================================================
