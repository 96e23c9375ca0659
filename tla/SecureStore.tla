------------------------------ MODULE SecureStore ------------------------------
(***************************************************************************)
(* KeychainSecureStore (SecureStore.swift) as its callers meet it: items    *)
(* that outlive the process, a read in one step, and set in two, an update  *)
(* and, when there was nothing to update, an addition that fails if someone *)
(* else added the item meanwhile.  A caller is a thread or a process that   *)
(* runs one call at a time; it may crash or be refused at any step.         *)
(***************************************************************************)
EXTENDS Integers, FiniteSets

CONSTANTS
    Callers,
    None,           \* errSecItemNotFound
    Bad,            \* an item that does not decode
    MaxCalls        \* bound on the calls begun

\* Neither stands for a key, an ID or a time.
ASSUME StoreAssumption ==
    MaxCalls \in Nat /\ None # Bad /\ None \notin Int /\ Bad \notin Int

VARIABLES
    items,          \* what the Keychain holds, by item
    at,             \* where each caller stands: "idle", the step to take next, "returned", "threw"
    mine,           \* the locals of its call
    calls           \* how many calls were begun

storeVars == <<items, at, mine, calls>>

Resting == {"idle", "returned", "threw"}
InCall(c) == at[c] \notin Resting

Goto(c, step) == at' = [at EXCEPT ![c] = step]

\* A call begins, with locals of its own.
BeginCall(c, step, locals) ==
    /\ ~InCall(c) /\ calls < MaxCalls
    /\ calls' = calls + 1
    /\ Goto(c, step) /\ mine' = [mine EXCEPT ![c] = locals]
    /\ UNCHANGED items

\* The call ends without having stored anything in this step.
Throw(c, why) ==
    /\ Goto(c, "threw") /\ mine' = [mine EXCEPT ![c].why = why]
    /\ UNCHANGED <<items, calls>>

Write(c, item, value, next) ==
    items' = [items EXCEPT ![item] = value] /\ Goto(c, next) /\ UNCHANGED <<mine, calls>>

\* SecItemUpdate and SecItemAdd of set(value, item); the caller goes on at next.
Update(c, update, add, item, value, next) ==
    /\ at[c] = update
    /\ \/ items[item] # None /\ Write(c, item, value, next)
       \/ items[item] = None /\ Goto(c, add) /\ UNCHANGED <<items, mine, calls>>

Add(c, add, item, value, next) ==
    /\ at[c] = add
    /\ \/ items[item] = None /\ Write(c, item, value, next)
       \/ items[item] # None /\ Throw(c, "duplicate")

\* Any call of the Keychain may answer with another status.
Refused(c) == InCall(c) /\ Throw(c, "refused")

\* The process ends; only the items stay.
Crash(c) == InCall(c) /\ Goto(c, "idle") /\ UNCHANGED <<items, mine, calls>>
================================================================================
