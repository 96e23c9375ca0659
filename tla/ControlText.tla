------------------------------ MODULE ControlText ------------------------------
(***************************************************************************)
(* The two entry points of gm_control.cpp that read a control payload,      *)
(* gm_control_validate_json_text and gm_control_parse_message.  The second  *)
(* starts with the first; a behaviour is either a text going through the    *)
(* JSON parser token by token, or a message, already parsed, going through  *)
(* the schemas, so that the two state spaces add.                           *)
(***************************************************************************)
EXTENDS JsonParser, ControlMessage

vars == <<size, text, stack, expect, total, isHello, status, message, edit, edits>>

NoMessage == message = <<>> /\ edit = "none" /\ edits = 0
Parsed ==
    /\ size = "message" /\ text = <<>> /\ stack = <<>> /\ expect = "end" /\ total = 0
    /\ isHello = FALSE /\ status = "GM_OK"

Init == \/ JsonInit /\ NoMessage
        \/ Parsed /\ MessageInit

Next == \/ edit = "none" /\ JsonNext /\ UNCHANGED messageVars
        \/ edit # "none" /\ EditMessage /\ UNCHANGED jsonVars

Spec == Init /\ [][Next]_vars

\* gm_control.cpp:156-288, 821-978: the parser stays within its limits, and what an accepted
\* request says is in the ranges that the control session takes for granted.
TypeOK == JsonTypeOK /\ MessageTypeOK

\* gm_control.cpp:66-136, 290-424, 635-659: the validator takes exactly the concatenations of
\* encodings; a string with escapes reads as the UTF-8 its UTF-16 stands for, pairs joined and
\* lone surrogates refused, within its limit of bytes; an integer is taken exactly when it has
\* no leading zero and fits 64 bits.  A name with quotes, escapes or control bytes, as the probe
\* writes it (main.cpp:257-293), reads as the bytes it was.
\* It depends on no step, so one state is enough: where a text of ordinary size begins.
ScalarsReadExactly ==
    size = "message" /\ text = <<>> /\ status = "parsing" =>
        ScalarsExact /\ NamesReadBack
================================================================================
