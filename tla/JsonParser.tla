------------------------------- MODULE JsonParser -------------------------------
(***************************************************************************)
(* gm_control_validate_json_text (gm_control.cpp): the checks on the text   *)
(* as a whole, then JsonParser, a recursive descent that here keeps its     *)
(* stack in a variable and looks at one token at a time, then the limit     *)
(* only a session.hello may pass.  White space is skipped between tokens    *)
(* everywhere and left out.                                                 *)
(***************************************************************************)
EXTENDS JsonGrammar, SequencesExt

CONSTANT
    MaxTokens       \* bound on the length of a text

ASSUME TokensAssumption == MaxTokens \in Nat

VARIABLES
    size,       \* the text's bytes: "tiny" below GM_CONTROL_FRAME_MIN_PAYLOAD_BYTES, "message" up to
                \* GM_CONTROL_MESSAGE_MAX_BYTES, "hello" up to GM_CONTROL_HELLO_MAX_BYTES, "huge" above
    text,       \* the tokens looked at
    stack,      \* the containers being parsed, the innermost last
    expect,     \* where the parser stands
    total,      \* total_members_
    isHello,    \* the root's member type is "session.hello"
    status      \* "parsing", or what the call returned

jsonVars == <<size, text, stack, expect, total, isHello, status>>

Sizes == {"tiny", "message", "hello", "huge"}
Statuses == {"parsing", "GM_OK", "GM_BAD_MESSAGE", "GM_LIMIT_EXCEEDED"}
Places == {"value", "first_element", "element", "after_element", "first_member", "member",
           "colon", "after_member", "end"}

Top == Last(stack)
NewObject == [kind |-> "object", names |-> {}, name |-> "unnamed", count |-> 0]
NewArray == [kind |-> "array", names |-> {}, name |-> "unnamed", count |-> 0]

\* parse_json up to the parser: size, byte order mark and UTF-8 come before any token.
WholeText(bytes, bom, utf8) ==
    CASE bytes = "tiny" -> "GM_BAD_MESSAGE"
      [] bytes = "huge" -> "GM_LIMIT_EXCEEDED"
      [] bom \/ ~utf8   -> "GM_BAD_MESSAGE"
      [] OTHER          -> "parsing"

JsonInit ==
    /\ size \in Sizes
    /\ \E bom, utf8 \in BOOLEAN : status = WholeText(size, bom, utf8)
    /\ text = <<>> /\ stack = <<>> /\ expect = "value" /\ total = 0 /\ isHello = FALSE

-------------------------------------------------------------------------------
Return(s) == status' = s /\ UNCHANGED <<stack, expect, total, isHello>>

\* What follows a value, in the containers that stay open.
AfterValue(open) ==
    IF open = <<>> THEN "end"
    ELSE IF Last(open).kind = "object" THEN "after_member" ELSE "after_element"

\* The value is stored in its container.
Store(open) ==
    IF open = <<>> THEN open
    ELSE LET c == Last(open) IN
         Front(open) \o <<[c EXCEPT !.count = @ + 1,
                                    !.names = IF c.kind = "object" THEN @ \cup {c.name} ELSE @]>>

ValueDone(open) ==
    /\ stack' = Store(open) /\ expect' = AfterValue(open)
    /\ UNCHANGED <<total, status>>

\* enforce_v1_message_size looks for this member.
NamesHello(token) ==
    Len(stack) = 1 /\ Top.kind = "object" /\ Top.name = "type" /\ token = "'session.hello'"

\* parse_value
ParseValue(token) ==
    \/ Len(stack) + 1 > MaxDepth /\ Return("GM_LIMIT_EXCEEDED")
    \/ /\ Len(stack) + 1 <= MaxDepth
       /\ \/ /\ token \in Opens
             /\ stack' = Append(stack, IF token = "begin_object" THEN NewObject ELSE NewArray)
             /\ expect' = IF token = "begin_object" THEN "first_member" ELSE "first_element"
             /\ UNCHANGED <<total, isHello, status>>
          \/ /\ token \in Scalars
             /\ ValueDone(stack)
             /\ isHello' = (isHello \/ NamesHello(token))
          \/ token = LongString /\ Return("GM_LIMIT_EXCEEDED")
          \/ token \notin Scalars \cup Opens \cup {LongString} /\ Return("GM_BAD_MESSAGE")

Close == ValueDone(Front(stack)) /\ UNCHANGED isHello

Value(token) == expect = "value" /\ ParseValue(token)

\* fault: the members of the message are not counted together
TooManyOwn(c) == c.count >= MaxObjectMembers
TooMany(c) == c.count >= MaxObjectMembers \/ total >= MaxMessageMembers

\* parse_object up to the colon
Member(token) ==
    /\ expect \in {"first_member", "member"}
    /\ IF expect = "first_member" /\ token = "end_object" THEN Close
       ELSE IF token = "end" THEN Return("GM_BAD_MESSAGE")
       ELSE IF TooMany(Top) \/ token = LongString THEN Return("GM_LIMIT_EXCEEDED")
       ELSE IF token \notin GoodStrings \/ Spells[token] \in Top.names
            THEN Return("GM_BAD_MESSAGE")
       ELSE /\ stack' = Front(stack) \o <<[Top EXCEPT !.name = Spells[token]]>>
            /\ expect' = "colon" /\ total' = total + 1
            /\ UNCHANGED <<isHello, status>>

Colon(token) ==
    /\ expect = "colon"
    /\ IF token = "name_separator"
       THEN expect' = "value" /\ UNCHANGED <<stack, total, isHello, status>>
       ELSE Return("GM_BAD_MESSAGE")

AfterMember(token) ==
    /\ expect = "after_member"
    /\ \/ token = "end_object" /\ Close
       \/ /\ token = "value_separator"
          /\ expect' = "member"
          /\ UNCHANGED <<stack, total, isHello, status>>
       \/ token \notin {"end_object", "value_separator"} /\ Return("GM_BAD_MESSAGE")

\* parse_array
Element(token) ==
    /\ expect \in {"first_element", "element"}
    /\ IF expect = "first_element" /\ token = "end_array" THEN Close
       ELSE IF token = "end" THEN Return("GM_BAD_MESSAGE")
       ELSE IF Top.count >= MaxArrayElements THEN Return("GM_LIMIT_EXCEEDED")
       ELSE ParseValue(token)

AfterElement(token) ==
    /\ expect = "after_element"
    /\ \/ token = "end_array" /\ Close
       \/ /\ token = "value_separator"
          /\ expect' = "element"
          /\ UNCHANGED <<stack, total, isHello, status>>
       \/ token \notin {"end_array", "value_separator"} /\ Return("GM_BAD_MESSAGE")

\* The rest of parse, of parse_json and enforce_v1_message_size.
End(token) ==
    /\ expect = "end"
    /\ Return(IF token # "end" \/ text[1] # "begin_object" THEN "GM_BAD_MESSAGE"
              ELSE IF size = "hello" /\ ~isHello THEN "GM_LIMIT_EXCEEDED" ELSE "GM_OK")

\* The parser looks at the next token, whatever it is.
Parse(token) ==
    /\ status = "parsing" /\ Len(text) < MaxTokens
    /\ text' = Append(text, token)
    /\ \/ Value(token) \/ Member(token) \/ Colon(token) \/ AfterMember(token)
       \/ Element(token) \/ AfterElement(token) \/ End(token)
    /\ UNCHANGED size

JsonNext == \E token \in Tokens : Parse(token)

-------------------------------------------------------------------------------
JsonTypeOK ==
    /\ size \in Sizes /\ text \in Seq(Tokens) /\ Len(text) <= MaxTokens
    /\ stack \in Seq([kind : {"object", "array"}, names : SUBSET {"type", "session.hello"},
                      name : {"unnamed", "type", "session.hello"}, count : Nat])
    /\ Len(stack) <= MaxDepth /\ total \in 0..MaxMessageMembers
    /\ expect \in Places
    /\ isHello \in BOOLEAN /\ status \in Statuses

\* gm_control.cpp:156-288, 449-476, 670-677, docs/03:26-43: a text is accepted exactly when it
\* is a document of the protocol within every limit, and longer than a message only as a hello,
\* however its type is spelled; where it is refused, its last token is wrong (BAD_MESSAGE) or
\* begins something more than a limit allows (LIMIT_EXCEEDED).  Every prefix of a text is a state
\* of its own, so nothing before the last token was wrong.
VerdictMatchesGrammar ==
    text # <<>> =>
        LET n == Len(text) IN
        CASE status = "GM_OK" -> Document(text) /\ (size = "hello" => IsHello(text))
          [] status = "parsing" -> Legal(text, n) /\ ~Exceeds(text, n) /\ text[n] # "end"
          [] status = "GM_BAD_MESSAGE" -> ~Legal(text, n)
          [] OTHER -> Exceeds(text, n) \/ (Document(text) /\ size = "hello" /\ ~IsHello(text))
================================================================================
