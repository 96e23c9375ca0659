------------------------------- MODULE AppleStores -------------------------------
(***************************************************************************)
(* What the Apple output server keeps in the Keychain: its identity and the *)
(* trust records.  They share the store and its faults and no item, so a    *)
(* behaviour is about one of the two.                                       *)
(***************************************************************************)
EXTENDS IdentityStore, TrustStore, TLC

VARIABLE part   \* which of the two the behaviour is about

vars == <<items, at, mine, calls, now, fresh, setBack, approved, revokedLast, part>>

NoItems == [i \in StoreItems |-> None]

Init ==
    \/ part = "identity" /\ IdentityInit /\ approved = {} /\ revokedLast = FALSE
    \/ /\ part = "trust" /\ \E trust \in {None, Bad} : TrustInit([NoItems EXCEPT !["trust"] = trust])
       /\ now = 0 /\ fresh = FirstFresh /\ setBack = FALSE

Next ==
    \/ part = "identity" /\ IdentityNext /\ UNCHANGED <<approved, revokedLast, part>>
    \/ part = "trust" /\ TrustNext /\ UNCHANGED <<now, fresh, setBack, part>>

Spec == Init /\ [][Next]_vars

CallerSymmetry == Permutations(Callers)

Steps == Resting \cup {"server id", "update server id", "add server id", "identity", "legacy key",
    "legacy certificate", "update identity", "add identity", "read trust", "update trust",
    "add trust"}

\* A step never runs ahead of what it needs: an item is stored by a caller that holds its value,
\* and a call that returns has both halves of the identity.
TypeOK ==
    /\ part \in {"identity", "trust"} /\ at \in [Callers -> Steps]
    /\ calls \in 0..MaxCalls /\ now \in 0..MaxTime /\ fresh \in Nat /\ setBack \in BOOLEAN
    /\ approved \subseteq Permissions /\ revokedLast \in BOOLEAN
    /\ \A c \in Callers : part = "identity" =>
           /\ at[c] \in {"identity", "update server id", "add server id", "returned"} =>
                  mine[c].server \in 1..(fresh - 1)
           /\ at[c] \in {"update identity", "add identity", "returned"} =>
                  /\ mine[c].identity.key = mine[c].identity.certificate.key
                  /\ mine[c].identity.certificate.from \in 0..MaxTime
    /\ \A c \in Callers : at[c] \in {"update trust", "add trust"} =>
           mine[c].record.permissions \subseteq approved

\* Calls of loadOrCreate that began on a settled identity return it, and calls that overlap no
\* other return what is stored (IdentityStore!CallsAgree).
IdentityCallsAgree == part = "identity" => CallsAgree

\* No call of loadOrCreate returns an identity that is not the stored one, as docs/02:102-105 have
\* it (IdentityStore!NoTransientIdentity).
ReturnedIsStored == part = "identity" => NoTransientIdentity

\* A revocation is kept until an approve overrides it (TrustStore!RevocationHolds).
RevocationIsKept == part = "trust" => RevocationHolds
================================================================================
