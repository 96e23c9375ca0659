------------------------------ MODULE JsonScalars ------------------------------
(***************************************************************************)
(* The scalars of a control text (gm_control.cpp): UTF-8 validation, JSON   *)
(* strings with their escapes, and integers.  Each is an operator on bytes  *)
(* or digits, written as the code scans them, and ScalarsExact compares it *)
(* with what it has to mean over the boundary values of every range the     *)
(* code tells apart.                                                        *)
(***************************************************************************)
EXTENDS Integers, Sequences, SequencesExt, FiniteSetsExt

CONSTANTS
    MaxStringBytes, \* GM_CONTROL_MAX_STRING_BYTES
    MaxNumber       \* the largest uint64_t

ASSUME ScalarAssumption ==
    /\ MaxStringBytes \in Nat \ {0}
    /\ MaxNumber \in Nat

Ok == "GM_OK"
BadMessage == "GM_BAD_MESSAGE"
LimitExceeded == "GM_LIMIT_EXCEEDED"

UpTo(S, n) == UNION {[1..k -> S] : k \in 0..n}

-------------------------------------------------------------------------------
(* UTF-8 *)

Continuation(byte) == byte \in 128..191

\* How many bytes the first byte of a sequence announces, 0 where none may start.
Announced(first) ==
    CASE first \in 0..127   -> 1
      [] first \in 194..223 -> 2
      [] first \in 224..239 -> 3
      [] first \in 240..244 -> 4
      [] OTHER              -> 0

\* fault: the second byte is not looked at again
SecondByteAny(first, second) == Continuation(second)

\* No overlong form, no surrogate, nothing above 10FFFF.
SecondByte(first, second) ==
    /\ Continuation(second)
    /\ first = 224 => second >= 160
    /\ first = 237 => second < 160
    /\ first = 240 => second >= 144
    /\ first = 244 => second <= 143

\* is_valid_utf8
IsValidUtf8(bytes) ==
    LET valid[i \in 1..(Len(bytes) + 4)] ==
            \/ i > Len(bytes)
            \/ LET n == Announced(bytes[i]) IN
               /\ n > 0 /\ i + n - 1 <= Len(bytes)
               /\ n > 1 => SecondByte(bytes[i], bytes[i + 1])
               /\ \A k \in 2..(n - 1) : Continuation(bytes[i + k])
               /\ valid[i + n]
    IN  valid[1]

\* append_utf8: the bytes of one code point.
Utf8(code) ==
    LET six(shift) == 128 + ((code \div shift) % 64) IN
    CASE code < 128   -> <<code>>
      [] code \in 128..2047 -> <<192 + (code \div 64), six(1)>>
      [] code \in 2048..65535 -> <<224 + (code \div 4096), six(64), six(1)>>
      [] OTHER -> <<240 + (code \div 262144), six(4096), six(64), six(1)>>

-------------------------------------------------------------------------------
(* Strings, from the opening quote on.  A unit is what one round of the loop *)
(* consumes: a byte as it stands, a short escape of one, a \u escape with    *)
(* its digits (fewer where the text ends), or an escape JSON does not have.  *)

Raw(byte) == [raw |-> byte]
Escape(byte) == [escape |-> byte]
Hex(digits) == [hex |-> digits]
NoHexDigit == 16

IsHex(unit) == "hex" \in DOMAIN unit

\* parse_hex4
Hex4Legible(digits) == Len(digits) = 4 /\ \A i \in 1..4 : digits[i] # NoHexDigit
Hex4(digits) == ((digits[1] * 16 + digits[2]) * 16 + digits[3]) * 16 + digits[4]

High(code) == code \in 55296..56319
Low(code) == code \in 56320..57343
Paired(high, low) == 65536 + (high - 55296) * 1024 + (low - 56320)

\* The short escapes: quote, backslash, slash, and b f n r t, by the byte they stand for.
Escapable == {34, 92, 47, 8, 12, 10, 13, 9}

\* The checks of the round at units[i]; a high surrogate needs the unit after it.
RoundLegible(units, i) ==
    LET unit == units[i] IN
    CASE "raw" \in DOMAIN unit    -> unit.raw >= 32
      [] "escape" \in DOMAIN unit -> unit.escape \in Escapable
      [] OTHER ->
            /\ Hex4Legible(unit.hex) /\ ~Low(Hex4(unit.hex))
            /\ High(Hex4(unit.hex)) =>
                   /\ i < Len(units) /\ IsHex(units[i + 1])
                   /\ Hex4Legible(units[i + 1].hex) /\ Low(Hex4(units[i + 1].hex))

IsPair(unit) == IsHex(unit) /\ High(Hex4(unit.hex))

\* What the round appends to the string.
RoundBytes(units, i) ==
    LET unit == units[i] IN
    CASE "raw" \in DOMAIN unit    -> <<unit.raw>>
      [] "escape" \in DOMAIN unit -> <<unit.escape>>
      [] IsPair(unit)             -> Utf8(Paired(Hex4(unit.hex), Hex4(units[i + 1].hex)))
      [] OTHER                    -> Utf8(Hex4(unit.hex))

\* parse_string; closed says that the text has the closing quote.  A pair takes two units.
ParseString(units, closed) ==
    LET round(read, i) ==
            IF read.status # Ok \/ read.taken >= i THEN read
            ELSE IF ~RoundLegible(units, i) THEN [read EXCEPT !.status = BadMessage]
            ELSE LET longer == read.value \o RoundBytes(units, i) IN
                 [status |-> IF Len(longer) > MaxStringBytes THEN LimitExceeded ELSE Ok,
                  taken |-> IF IsPair(units[i]) THEN i + 1 ELSE i,
                  value |-> longer]
        read == FoldLeft(round, [status |-> Ok, taken |-> 0, value |-> <<>>],
                         [i \in 1..Len(units) |-> i])
    IN  IF read.status = Ok /\ ~closed THEN [read EXCEPT !.status = BadMessage] ELSE read

-------------------------------------------------------------------------------
(* Integers *)

DigitFits(value, digit) == value <= (MaxNumber - digit) \div 10

\* The digit loop of parse_number and of parse_decimal_u64_string; -1 where it overflows.
DigitsValue(digits) ==
    FoldLeft(LAMBDA value, digit :
                 IF value = -1 \/ ~DigitFits(value, digit) THEN -1 ELSE value * 10 + digit,
             0, digits)

NoLeadingZero(digits) == Len(digits) > 1 => digits[1] # 0

\* parse_number; next is the byte after the digits.
ParseNumber(digits, next) ==
    /\ digits # <<>> /\ NoLeadingZero(digits)
    /\ DigitsValue(digits) # -1
    /\ next \notin {".", "e", "E"}

MaxDecimalDigits ==
    CHOOSE n \in 1..20 : 10^(n - 1) <= MaxNumber /\ MaxNumber < 10^n

\* parse_decimal_u64_string
ParseDecimal(digits) ==
    /\ Len(digits) \in 1..MaxDecimalDigits /\ NoLeadingZero(digits)
    /\ DigitsValue(digits) # -1

-------------------------------------------------------------------------------
(* What the scalars have to mean. *)

\* The first and the last byte of every range the code tells apart.
BoundaryBytes ==
    {0, 127, 128, 143, 144, 159, 160, 191, 192, 193, 194, 223, 224, 237, 239, 240, 244, 245, 255}
FewBytes == {127, 128, 143, 144, 160, 191, 224, 237, 240, 244}

\* The code point that n bytes stand for if they stand for one at all.
Decoded(b) ==
    LET low(i) == b[i] % 64 IN
    CASE Len(b) = 1 -> b[1]
      [] Len(b) = 2 -> (b[1] % 32) * 64 + low(2)
      [] Len(b) = 3 -> (b[1] % 16) * 4096 + low(2) * 64 + low(3)
      [] OTHER      -> (b[1] % 8) * 262144 + low(2) * 4096 + low(3) * 64 + low(4)

Scalar(code) == code \in 0..55295 \/ code \in 57344..1114111
Encodes(b) == Len(b) \in 1..4 /\ Scalar(Decoded(b)) /\ Utf8(Decoded(b)) = b

\* A text is UTF-8 where it can be cut into encodings.
CutsIntoEncodings(b) ==
    \E cuts \in SUBSET (1..Len(b)) :
        /\ Len(b) \in cuts \cup {0}
        /\ \A c \in cuts :
               LET before == Max({0} \cup {d \in cuts : d < c})
               IN  Encodes(SubSeq(b, before + 1, c))

Utf8Exact ==
    \A bytes \in UpTo(BoundaryBytes, 3) \cup [1..4 -> FewBytes] :
        IsValidUtf8(bytes) <=> CutsIntoEncodings(bytes)

\* The UTF-16 unit that a legible unit stands for.
Code(unit) ==
    CASE "raw" \in DOMAIN unit    -> unit.raw
      [] "escape" \in DOMAIN unit -> unit.escape
      [] OTHER                    -> Hex4(unit.hex)
Legible(unit) ==
    CASE "raw" \in DOMAIN unit    -> unit.raw >= 32
      [] "escape" \in DOMAIN unit -> unit.escape \in Escapable
      [] OTHER                    -> Hex4Legible(unit.hex)

\* Every high surrogate is followed by a low one, and every low one follows a high one.
WellPaired(units) ==
    \A i \in 1..Len(units) :
        /\ High(Code(units[i])) => i < Len(units) /\ Low(Code(units[i + 1]))
        /\ Low(Code(units[i])) => i > 1 /\ High(Code(units[i - 1]))

\* The bytes of a well paired sequence: a low surrogate adds nothing of its own.
Meaning(units) ==
    FlattenSeq([i \in 1..Len(units) |->
        LET code == Code(units[i]) IN
        CASE High(code) -> Utf8(Paired(code, Code(units[i + 1])))
          [] Low(code)  -> <<>>
          [] OTHER      -> Utf8(code)])

SampleUnits ==
    {Raw(97), Raw(31), Escape(34), Escape(120),
     Hex(<<0, 0, 0, 0>>), Hex(<<0, 0, 6, 1>>), Hex(<<0, 7, 15, 15>>), Hex(<<0, 8, 0, 0>>),
     Hex(<<13, 7, 15, 15>>), Hex(<<13, 8, 0, 0>>), Hex(<<13, 11, 15, 15>>),
     Hex(<<13, 12, 0, 0>>), Hex(<<13, 15, 15, 15>>), Hex(<<14, 0, 0, 0>>),
     Hex(<<0, 0, 6>>), Hex(<<0, 0, NoHexDigit, 1>>)}

StringsExact ==
    \A units \in UpTo(SampleUnits, 3), closed \in BOOLEAN :
        LET read == ParseString(units, closed)
            wellFormed == /\ closed /\ \A i \in 1..Len(units) : Legible(units[i])
                          /\ WellPaired(units)
        IN  /\ (read.status = Ok) <=> (wellFormed /\ Len(Meaning(units)) <= MaxStringBytes)
            /\ read.status = Ok => read.value = Meaning(units) /\ IsValidUtf8(read.value)

Reading(digits) == FoldLeft(LAMBDA value, digit : value * 10 + digit, 0, digits)

NumbersExact ==
    \A digits \in UpTo({0, 1, 2, 5, 6, 9}, 4) :
        LET fits == digits # <<>> /\ NoLeadingZero(digits) /\ Reading(digits) <= MaxNumber IN
        /\ ParseNumber(digits, ",") <=> fits
        /\ ParseDecimal(digits) <=> fits
        /\ fits => DigitsValue(digits) = Reading(digits)
        /\ ~ParseNumber(digits, ".")

\* All three; ControlText checks it.
ScalarsExact == Utf8Exact /\ StringsExact /\ NumbersExact
================================================================================
