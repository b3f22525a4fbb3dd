------------------------------ MODULE JsonLexer ------------------------------
(***************************************************************************)
(* lexer: the bytes of a JSON text cut into tokens, one get() a step.      *)
(* Source: nlohmann/detail/input/lexer.hpp and position_t.hpp, which read  *)
(* the body of every request (json::parse in server/requestHandler.h).     *)
(*                                                                         *)
(* A byte is a number, the end of the input is EOF.  Integers have the     *)
(* range 0..MaxUnsigned and MinInteger..MaxInteger in place of 64 bits; a  *)
(* float is the text it was read from, which is all strtod is told.        *)
(***************************************************************************)
EXTENDS Integers, Sequences, SequencesExt

CONSTANTS
  MaxUnsigned, MaxInteger,   \* what strtoull and strtoll can hold
  MaxExponent   \* the least power of ten that strtod makes infinite

MinInteger == -MaxInteger - 1
EOF == -1
Newline == 10
Quote == 34
Backslash == 92
Digit == 48..57
Space == {32, 9, 10, 13}

VARIABLES
  text, at,                      \* the input adapter: the bytes, how many were taken
  current, next_unget, position, \* the byte read last, whether it is read again
  token_string, token_buffer,    \* the bytes of the token, the value of a string
  number_type,                   \* the local variable of scan_number
  label,                         \* where scan is, "idle" when it has returned
  rest,                          \* what the label still expects
  codepoint,                     \* what get_codepoint has so far, and the first half
  token                          \* the token returned last: type and value

input == <<text, at>>
reading == <<current, next_unget, position, at>>
lexer == <<text, at, current, next_unget, position, token_string, token_buffer,
           number_type, label, rest, codepoint, token>>

-----------------------------------------------------------------------------
(* Input management.                                                       *)

Start(t) ==
  /\ text = t /\ at = 0
  /\ current = EOF /\ next_unget = FALSE
  /\ position = [total |-> 0, column |-> 0, lines |-> 0]
  /\ token_string = <<>> /\ token_buffer = <<>>
  /\ number_type = "unsigned" /\ rest = <<>> /\ codepoint = <<0, 0>>
  /\ label = "bom" /\ token = <<"uninitialized">>

\* Mutant of Advanced: a newline does not begin a new line.
Advanced_OneLine(c) ==
  [total |-> position.total + 1, column |-> position.column + 1, lines |-> position.lines]

\* The position once byte c was read.
Advanced(c) ==
  IF c = Newline
  THEN [total |-> position.total + 1, column |-> 0, lines |-> position.lines + 1]
  ELSE [total |-> position.total + 1, column |-> position.column + 1,
        lines |-> position.lines]

\* get: the byte that was put back, or the next of the input.
Get ==
  /\ UNCHANGED text
  /\ next_unget' = FALSE
  /\ at' = IF next_unget \/ at = Len(text) THEN at ELSE at + 1
  /\ current' = IF next_unget THEN current
                ELSE IF at = Len(text) THEN EOF ELSE text[at + 1]
  /\ position' = Advanced(current')
  /\ token_string' = IF current' = EOF THEN token_string
                     ELSE Append(token_string, current')

\* unget: the byte read last is read again by the next get.
Unget ==
  /\ UNCHANGED <<input, current>>
  /\ next_unget' = TRUE
  /\ position' =
       [total |-> position.total - 1,
        column |-> IF position.column = 0 THEN 0 ELSE position.column - 1,
        lines |-> IF position.column = 0 /\ position.lines > 0
                  THEN position.lines - 1 ELSE position.lines]
  /\ token_string' = IF current = EOF THEN token_string ELSE Front(token_string)

\* reset: the token begins with the current byte.
Reset ==
  /\ token_buffer' = <<>>
  /\ token_string' = <<current>>

Kept == UNCHANGED <<token_buffer, number_type, rest, codepoint>>

Goto(l) == label' = l /\ UNCHANGED token
Return(t) == label' = "idle" /\ token' = t
Fail(message) == Return(<<"parse_error", message>>)

-----------------------------------------------------------------------------
(* scan.                                                                   *)

\* get_token: the next token is looked for; a byte order mark may precede
\* the first one.
Scan ==
  /\ label' = IF position.total = 0 THEN "bom" ELSE "space"
  /\ UNCHANGED <<input, current, next_unget, position, token_string,
                 token_buffer, number_type, rest, codepoint, token>>

\* skip_bom, its first get: the byte is put back when it begins no mark.
SkipBom ==
  /\ label = "bom"
  /\ Get /\ Kept
  /\ Goto(IF current' = 239 THEN "bom2" ELSE "bomless")

SkipBomUnget ==
  /\ label = "bomless"
  /\ Unget /\ Kept
  /\ Goto("space")

SkipBomRest ==
  /\ label \in {"bom2", "bom3"}
  /\ Get /\ Kept
  /\ CASE label = "bom2" /\ current' = 187 -> Goto("bom3")
       [] label = "bom3" /\ current' = 191 -> Goto("space")
       [] OTHER -> Fail("invalid BOM")

SkipSpace ==
  /\ label = "space"
  /\ Get /\ Kept
  /\ Goto(IF current' \in Space THEN "space" ELSE "dispatch")

Structural ==
  [c \in {91, 93, 123, 125, 58, 44} |->
     CASE c = 91 -> "begin_array"     [] c = 93 -> "end_array"
       [] c = 123 -> "begin_object"   [] c = 125 -> "end_object"
       [] c = 58 -> "name_separator"  [] c = 44 -> "value_separator"]

Literals ==
  [c \in {116, 102, 110} |->
     CASE c = 116 -> [rest |-> <<114, 117, 101>>, token |-> "literal_true"]
       [] c = 102 -> [rest |-> <<97, 108, 115, 101>>, token |-> "literal_false"]
       [] c = 110 -> [rest |-> <<117, 108, 108>>, token |-> "literal_null"]]

\* The switch of scan over the first byte that is no space.
Dispatch ==
  /\ label = "dispatch"
  /\ UNCHANGED <<reading, text, codepoint>>
  /\ \/ /\ current \in DOMAIN Structural
        /\ Return(<<Structural[current]>>)
        /\ UNCHANGED <<token_string, token_buffer, number_type, rest>>
     \/ /\ current \in DOMAIN Literals
        /\ rest' = Literals[current].rest
        /\ label' = "literal" /\ token' = <<Literals[current].token>>
        /\ UNCHANGED <<token_string, token_buffer, number_type>>
     \/ /\ current = Quote
        /\ Reset /\ Goto("string")
        /\ UNCHANGED <<number_type, rest>>
     \/ /\ current \in {0, EOF}
        /\ Return(<<"end_of_input">>)
        /\ UNCHANGED <<token_string, token_buffer, number_type, rest>>
     \/ /\ current \notin DOMAIN Structural \cup DOMAIN Literals
        /\ current \notin Digit \cup {45, Quote, 0, EOF}
        /\ Fail("invalid literal")
        /\ UNCHANGED <<token_string, token_buffer, number_type, rest>>

\* scan_literal: the bytes of the literal, one after the other.
ScanLiteral ==
  /\ label = "literal"
  /\ Get
  /\ UNCHANGED <<token_buffer, number_type, codepoint>>
  /\ IF current' # Head(rest) THEN Fail("invalid literal") /\ UNCHANGED rest
     ELSE /\ rest' = Tail(rest)
          /\ label' = IF rest' = <<>> THEN "idle" ELSE "literal"
          /\ UNCHANGED token

-----------------------------------------------------------------------------
(* scan_number: one label of the source, one action.                       *)

\* Takes the current byte into the buffer and goes on at label l.
AddGoto(l) ==
  /\ token_buffer' = Append(token_buffer, current')
  /\ Goto(l)

\* How a byte after the first of a number is read.
InNumber(l) == label = l /\ Get /\ UNCHANGED <<rest, codepoint>>

NoNumber(message) == Fail(message) /\ UNCHANGED token_buffer
NumberEnds == Goto("done") /\ UNCHANGED token_buffer

\* The first byte, a minus sign or a digit.
ScanNumber ==
  /\ label = "dispatch" /\ current \in Digit \cup {45}
  /\ token_buffer' = <<current>> /\ token_string' = <<current>>
  /\ number_type' = "unsigned"
  /\ Goto(IF current = 45 THEN "minus" ELSE IF current = 48 THEN "zero" ELSE "any1")
  /\ UNCHANGED <<reading, text, rest, codepoint>>

ScanNumberMinus ==
  /\ InNumber("minus")
  /\ number_type' = "integer"
  /\ IF current' \in Digit THEN AddGoto(IF current' = 48 THEN "zero" ELSE "any1")
     ELSE NoNumber("invalid number; expected digit after '-'")

ScanNumberZero ==
  /\ InNumber("zero")
  /\ UNCHANGED number_type
  /\ \/ current' = 46 /\ AddGoto("decimal1")
     \/ current' \in {69, 101} /\ AddGoto("exponent")
     \/ current' \notin {46, 69, 101} /\ NumberEnds

ScanNumberAny1 ==
  /\ InNumber("any1")
  /\ UNCHANGED number_type
  /\ \/ current' \in Digit /\ AddGoto("any1")
     \/ current' = 46 /\ AddGoto("decimal1")
     \/ current' \in {69, 101} /\ AddGoto("exponent")
     \/ current' \notin Digit \cup {46, 69, 101} /\ NumberEnds

ScanNumberDecimal1 ==
  /\ InNumber("decimal1")
  /\ number_type' = "float"
  /\ IF current' \in Digit THEN AddGoto("decimal2")
     ELSE NoNumber("invalid number; expected digit after '.'")

ScanNumberDecimal2 ==
  /\ InNumber("decimal2")
  /\ UNCHANGED number_type
  /\ \/ current' \in Digit /\ AddGoto("decimal2")
     \/ current' \in {69, 101} /\ AddGoto("exponent")
     \/ current' \notin Digit \cup {69, 101} /\ NumberEnds

ScanNumberExponent ==
  /\ InNumber("exponent")
  /\ number_type' = "float"
  /\ \/ current' \in {43, 45} /\ AddGoto("sign")
     \/ current' \in Digit /\ AddGoto("any2")
     \/ /\ current' \notin Digit \cup {43, 45}
        /\ NoNumber("invalid number; expected '+', '-', or digit after exponent")

ScanNumberSign ==
  /\ InNumber("sign")
  /\ UNCHANGED number_type
  /\ IF current' \in Digit THEN AddGoto("any2")
     ELSE NoNumber("invalid number; expected digit after exponent sign")

ScanNumberAny2 ==
  /\ InNumber("any2")
  /\ UNCHANGED number_type
  /\ IF current' \in Digit THEN AddGoto("any2") ELSE NumberEnds

\* strtoull and strtoll over a buffer of digits, a minus sign perhaps first.
Decimal(s) == FoldLeft(LAMBDA n, c : 10 * n + c - 48, 0, s)
Strtoll(s) == IF s[1] = 45 THEN -Decimal(Tail(s)) ELSE Decimal(s)

\* What the buffer says; an integer out of range becomes a float.
Number ==
  CASE number_type = "unsigned" /\ Decimal(token_buffer) <= MaxUnsigned ->
         <<"value_unsigned", Decimal(token_buffer)>>
    [] number_type = "integer" /\ Strtoll(token_buffer) \in MinInteger..MaxInteger ->
         <<"value_integer", Strtoll(token_buffer)>>
    [] OTHER -> <<"value_float", token_buffer>>

\* The byte after the number is put back.
ScanNumberDone ==
  /\ label = "done"
  /\ Unget
  /\ Return(Number)
  /\ UNCHANGED <<token_buffer, number_type, rest, codepoint>>

\* isfinite of what strtod makes of a float: a digit that is not zero and a
\* large exponent make it infinite.
ExponentAt(s) == {k \in DOMAIN s : s[k] \in {69, 101}}
IsFinite(s) ==
  \A k \in ExponentAt(s) :
    \/ s[k + 1] = 45
    \/ \A j \in 1..(k - 1) : s[j] \in {45, 46, 48}
    \/ Decimal(SelectSeq(SubSeq(s, k + 1, Len(s)), LAMBDA c : c # 43)) < MaxExponent

-----------------------------------------------------------------------------
(* scan_string.                                                            *)

InString(l) == label = l /\ Get /\ UNCHANGED number_type

Add(bytes) == token_buffer' = token_buffer \o bytes

Control == 0..31
OneByte == (32..127) \ {Quote, Backslash}
Continuation == 128..191

\* The bytes that may follow a first byte of two, three or four, in order.
Following(c) ==
  IF c \in 194..223 THEN <<Continuation>>
  ELSE IF c = 224 THEN <<160..191, Continuation>>
  ELSE IF c \in (225..236) \cup {238, 239} THEN <<Continuation, Continuation>>
  ELSE IF c = 237 THEN <<128..159, Continuation>>
  ELSE IF c = 240 THEN <<144..191, Continuation, Continuation>>
  ELSE IF c \in 241..243 THEN <<Continuation, Continuation, Continuation>>
  ELSE IF c = 244 THEN <<128..143, Continuation, Continuation>>
  ELSE <<>>

ScanString ==
  /\ InString("string")
  /\ UNCHANGED codepoint
  /\ \/ /\ current' = Quote
        /\ Return(<<"value_string", token_buffer>>)
        /\ UNCHANGED <<token_buffer, rest>>
     \/ /\ current' = Backslash
        /\ Goto("escape")
        /\ UNCHANGED <<token_buffer, rest>>
     \/ /\ current' \in OneByte
        /\ Add(<<current'>>) /\ Goto("string")
        /\ UNCHANGED rest
     \/ /\ Following(current') # <<>>
        /\ Add(<<current'>>) /\ Goto("utf8") /\ rest' = Following(current')
     \/ /\ current' \notin 32..127 /\ Following(current') = <<>>
        /\ Fail(CASE current' = EOF -> "invalid string: missing closing quote"
                  [] current' \in Control -> "invalid string: control character must be escaped"
                  [] OTHER -> "invalid string: ill-formed UTF-8 byte")
        /\ UNCHANGED <<token_buffer, rest>>

\* next_byte_in_range.
NextByteInRange ==
  /\ InString("utf8")
  /\ UNCHANGED codepoint
  /\ IF current' \in Head(rest)
     THEN /\ Add(<<current'>>) /\ rest' = Tail(rest)
          /\ Goto(IF rest' = <<>> THEN "string" ELSE "utf8")
     ELSE /\ Fail("invalid string: ill-formed UTF-8 byte")
          /\ UNCHANGED <<token_buffer, rest>>

\* What the four digits of \u count.
HexPlaces == <<4096, 256, 16, 1>>

\* What a backslash and a letter stand for.
Escapes ==
  [c \in {34, 92, 47, 98, 102, 110, 114, 116} |->
     IF c = 98 THEN 8 ELSE IF c = 102 THEN 12 ELSE IF c = 110 THEN 10
     ELSE IF c = 114 THEN 13 ELSE IF c = 116 THEN 9 ELSE c]

ScanEscape ==
  /\ InString("escape")
  /\ \/ /\ current' \in DOMAIN Escapes
        /\ Add(<<Escapes[current']>>) /\ Goto("string")
        /\ UNCHANGED <<rest, codepoint>>
     \/ /\ current' = 117
        /\ Goto("hex") /\ rest' = HexPlaces /\ codepoint' = <<0, 0>>
        /\ UNCHANGED token_buffer
     \/ /\ current' \notin DOMAIN Escapes \cup {117}
        /\ Fail("invalid string: forbidden character after backslash")
        /\ UNCHANGED <<token_buffer, rest, codepoint>>

IsHigh(c) == c \in 55296..56319
IsLow(c) == c \in 56320..57343

\* The code point of the two halves of a pair.
Pair(high, low) == high * 1024 + low - 56613888

\* A code point in one to four bytes.
Utf8(c) ==
  IF c < 128 THEN <<c>>
  ELSE IF c < 2048 THEN <<192 + c \div 64, 128 + (c % 64)>>
  ELSE IF c < 65536
  THEN <<224 + c \div 4096, 128 + ((c \div 64) % 64), 128 + (c % 64)>>
  ELSE <<240 + c \div 262144, 128 + ((c \div 4096) % 64),
         128 + ((c \div 64) % 64), 128 + (c % 64)>>

HexValue(c) ==
  IF c \in Digit THEN c - 48
  ELSE IF c \in 65..70 THEN c - 55
  ELSE IF c \in 97..102 THEN c - 87 ELSE -1

\* get_codepoint, one hex digit; codepoint[1] is codepoint1 while the second
\* half is read, 0 while there is none.
GetCodepoint ==
  /\ InString("hex")
  /\ UNCHANGED token_buffer
  /\ IF HexValue(current') = -1
     THEN Fail("invalid string: '\\u' must be followed by 4 hex digits")
          /\ UNCHANGED <<rest, codepoint>>
     ELSE /\ codepoint' = [codepoint EXCEPT ![2] = @ + HexValue(current') * Head(rest)]
          /\ rest' = Tail(rest)
          /\ Goto(IF rest' = <<>> THEN "codepoint" ELSE "hex")

\* Mutant of CodepointRead: a second half may stand alone.
CodepointRead_Alone ==
  /\ label = "codepoint"
  /\ UNCHANGED <<reading, text, token_string, number_type, rest>>
  /\ LET first == codepoint[1]
         code == codepoint[2] IN
       \/ /\ first = 0 /\ IsHigh(code)
          /\ codepoint' = <<code, 0>> /\ Goto("surrogate")
          /\ UNCHANGED token_buffer
       \/ /\ first = 0 /\ ~IsHigh(code)
          /\ Add(Utf8(code)) /\ Goto("string") /\ UNCHANGED codepoint
       \/ /\ first # 0 /\ IsLow(code)
          /\ Add(Utf8(Pair(first, code))) /\ Goto("string")
          /\ UNCHANGED codepoint
       \/ /\ first # 0 /\ ~IsLow(code)
          /\ Fail("invalid string: surrogate U+DC00..U+DFFF must be followed by U+DC00..U+DFFF")
          /\ UNCHANGED <<token_buffer, codepoint>>

\* The four digits of \u were read: a first half of a pair waits for the
\* second, a character is added to the buffer.
CodepointRead ==
  /\ label = "codepoint"
  /\ UNCHANGED <<reading, text, token_string, number_type, rest>>
  /\ LET first == codepoint[1]
         code == codepoint[2] IN
       \/ /\ first = 0 /\ IsHigh(code)
          /\ codepoint' = <<code, 0>> /\ Goto("surrogate")
          /\ UNCHANGED token_buffer
       \/ /\ first = 0 /\ ~IsHigh(code) /\ ~IsLow(code)
          /\ Add(Utf8(code)) /\ Goto("string") /\ UNCHANGED codepoint
       \/ /\ first # 0 /\ IsLow(code)
          /\ Add(Utf8(Pair(first, code))) /\ Goto("string")
          /\ UNCHANGED codepoint
       \/ /\ IF first = 0 THEN IsLow(code) ELSE ~IsLow(code)
          /\ Fail(IF first = 0
                  THEN "invalid string: surrogate U+DC00..U+DFFF must follow U+D800..U+DBFF"
                  ELSE "invalid string: surrogate U+DC00..U+DFFF must be followed by U+DC00..U+DFFF")
          /\ UNCHANGED <<token_buffer, codepoint>>

\* The backslash and the u of the second half.
ScanSurrogate ==
  LET wanted == IF label = "surrogate" THEN Backslash ELSE 117 IN
  /\ label \in {"surrogate", "surrogate2"}
  /\ Get
  /\ UNCHANGED <<token_buffer, number_type, codepoint>>
  /\ \/ /\ current' = wanted /\ label = "surrogate"
        /\ Goto("surrogate2") /\ UNCHANGED rest
     \/ /\ current' = wanted /\ label = "surrogate2"
        /\ Goto("hex") /\ rest' = HexPlaces
     \/ /\ current' # wanted /\ UNCHANGED rest
        /\ Fail("invalid string: surrogate U+DC00..U+DFFF must be followed by U+DC00..U+DFFF")

-----------------------------------------------------------------------------
ScanStep ==
  \/ SkipBom \/ SkipBomUnget \/ SkipBomRest \/ SkipSpace \/ Dispatch \/ ScanLiteral
  \/ ScanNumber \/ ScanNumberMinus \/ ScanNumberZero \/ ScanNumberAny1
  \/ ScanNumberDecimal1 \/ ScanNumberDecimal2 \/ ScanNumberExponent
  \/ ScanNumberSign \/ ScanNumberAny2 \/ ScanNumberDone
  \/ ScanString \/ NextByteInRange \/ ScanEscape \/ GetCodepoint \/ CodepointRead
  \/ ScanSurrogate

\* How many bytes of the input have been read and not been put back.
Consumed == IF next_unget /\ current # EOF THEN at - 1 ELSE at

\* The position counts the bytes read, its lines the newlines among them and
\* its column the bytes since the last one, except while a newline is put
\* back: unget cannot know the column before it.  What an error message quotes
\* as last read is the end of what was read, and nothing of it is lost when
\* its last byte is put back.  (chars_read_total, chars_read_current_line,
\* lines_read, token_string; reset, get and unget.)
Positions ==
  /\ token_string = SubSeq(text, Consumed - Len(token_string) + 1, Consumed)
  /\ current # EOF =>
       LET newlines == {k \in 1..Consumed : text[k] = Newline} IN
         /\ position.total = Consumed
         /\ position.lines = Cardinality(newlines)
         /\ (next_unget /\ current = Newline) \/
              position.column = Consumed - (IF newlines = {} THEN 0 ELSE Max(newlines))
=============================================================================
