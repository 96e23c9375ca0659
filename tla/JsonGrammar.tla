------------------------------ MODULE JsonGrammar ------------------------------
(***************************************************************************)
(* Which texts the control protocol allows (docs/03-control-protocol.md:    *)
(* 26-43), said of a sequence of tokens as a whole and not by a parser: the *)
(* place of each token inside its container tells what it may be.  A string *)
(* token is one spelling of a string; the module knows what it spells.      *)
(***************************************************************************)
EXTENDS Integers, Sequences, FiniteSets, FiniteSetsExt

CONSTANTS
    MaxDepth,           \* GM_CONTROL_MAX_DEPTH
    MaxObjectMembers,   \* GM_CONTROL_MAX_OBJECT_MEMBERS
    MaxMessageMembers,  \* GM_CONTROL_MAX_MESSAGE_MEMBERS
    MaxArrayElements    \* GM_CONTROL_MAX_ARRAY_ELEMENTS

ASSUME LimitAssumption ==
    /\ MaxDepth \in Nat \ {0} /\ MaxObjectMembers \in Nat \ {0}
    /\ MaxMessageMembers \in Nat \ {0} /\ MaxArrayElements \in Nat \ {0}

\* Strings by their spelling: "t\u0079pe" is "type" written with an escape.
Spells ==
    [s \in {"'type'", "'t\\u0079pe'", "'session.hello'"} |->
        IF s = "'session.hello'" THEN "session.hello" ELSE "type"]
GoodStrings == DOMAIN Spells
BadString == "'bad"            \* a string parse_string refuses
LongString == "'long'"         \* one past GM_CONTROL_MAX_STRING_BYTES

\* "scalar" is a legible number, true or false; "junk" anything no token starts with; "end" the
\* end of the text.  The structural characters have their names of the JSON standard: braces,
\* brackets, the colon (name_separator) and the comma (value_separator).
Scalars == GoodStrings \cup {"scalar"}
Opens == {"begin_object", "begin_array"}
Closes == {"end_object", "end_array"}
Tokens ==
    Scalars \cup Opens \cup Closes
        \cup {"name_separator", "value_separator", "junk", "end", BadString, LongString}

\* How many containers are open where token i stands; a closing token stands inside.
Depth(t, i) ==
    Cardinality({k \in 1..(i - 1) : t[k] \in Opens})
        - Cardinality({k \in 1..(i - 1) : t[k] \in Closes})

\* The token that opened the container token i stands in, 0 outside of all.
Parent(t, i) ==
    Max({0} \cup {k \in 1..(i - 1) : t[k] \in Opens /\ Depth(t, k) = Depth(t, i) - 1})

\* Token i and those before it in the same container, a nested container being one of them.
Siblings(t, i) == {k \in (Parent(t, i) + 1)..i : Depth(t, k) = Depth(t, i)}
Place(t, i) == Cardinality(Siblings(t, i))

InObject(t, i) == Depth(t, i) > 0 /\ t[Parent(t, i)] = "begin_object"
InArray(t, i) == Depth(t, i) > 0 /\ t[Parent(t, i)] = "begin_array"

AtName(t, i) == InObject(t, i) /\ Place(t, i) % 4 = 1
AtValue(t, i) ==
    \/ Depth(t, i) = 0 /\ Place(t, i) = 1
    \/ InObject(t, i) /\ Place(t, i) % 4 = 3
    \/ InArray(t, i) /\ Place(t, i) % 2 = 1

NameIsNew(t, i) ==
    \A k \in Siblings(t, i) \ {i} : AtName(t, k) => Spells[t[k]] # Spells[t[i]]

\* Token i may stand where it does.
Legal(t, i) ==
    \/ AtValue(t, i) /\ t[i] \in Scalars \cup Opens
    \/ AtName(t, i) /\ t[i] \in GoodStrings /\ NameIsNew(t, i)
    \/ InObject(t, i) /\ Place(t, i) % 4 = 2 /\ t[i] = "name_separator"
    \/ InObject(t, i) /\ Place(t, i) % 4 = 0 /\ t[i] \in {"value_separator", "end_object"}
    \/ InObject(t, i) /\ Place(t, i) = 1 /\ t[i] = "end_object"
    \/ InArray(t, i) /\ Place(t, i) % 2 = 0 /\ t[i] \in {"value_separator", "end_array"}
    \/ InArray(t, i) /\ Place(t, i) = 1 /\ t[i] = "end_array"
    \/ Depth(t, i) = 0 /\ Place(t, i) = 2 /\ t[i] = "end" /\ t[1] = "begin_object"

\* Token i begins something more than a limit allows; an empty container begins nothing.
Exceeds(t, i) ==
    LET emptied == Place(t, i) = 1 /\ t[i] = (IF InArray(t, i) THEN "end_array" ELSE "end_object")
        names == {k \in 1..(i - 1) : AtName(t, k) /\ t[k] \in GoodStrings}
    IN  \/ AtValue(t, i) /\ ~emptied /\ Depth(t, i) + 1 > MaxDepth
        \/ AtName(t, i) /\ ~emptied /\ Place(t, i) \div 4 >= MaxObjectMembers
        \/ AtName(t, i) /\ ~emptied /\ Cardinality(names) >= MaxMessageMembers
        \/ InArray(t, i) /\ AtValue(t, i) /\ ~emptied /\ Place(t, i) \div 2 >= MaxArrayElements
        \/ (AtName(t, i) \/ AtValue(t, i)) /\ t[i] = LongString

\* The text is a document of the protocol.
Document(t) ==
    /\ t # <<>> /\ t[Len(t)] = "end"
    /\ \A i \in 1..Len(t) : Legal(t, i) /\ ~Exceeds(t, i)

\* The text is a hello: the object's own member type says so, however it is spelled.
IsHello(t) ==
    \E i \in 1..Len(t) :
        /\ Depth(t, i) = 1 /\ AtName(t, i) /\ i + 2 <= Len(t) /\ t[i] \in GoodStrings
        /\ Spells[t[i]] = "type" /\ t[i + 2] = "'session.hello'"
================================================================================
