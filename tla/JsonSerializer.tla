---------------------------- MODULE JsonSerializer ---------------------------
(***************************************************************************)
(* serializer: the text of a value, as dump writes it.  The request        *)
(* handler sends back dump(4).                                             *)
(* Source: nlohmann/detail/output/serializer.hpp.                          *)
(*                                                                         *)
(* Floats are left out (to_chars.hpp).  The local buffer of dump_escaped,  *)
(* 512 bytes in the source, has BufferSize.                                *)
(***************************************************************************)
EXTENDS JsonValue

CONSTANTS
  IndentStep,     \* the argument of dump, -1 for none
  EnsureAscii,    \* whether other than ASCII is escaped
  ErrorHandler,   \* "strict", "replace" or "ignore" bytes that are no UTF-8
  BufferSize      \* the size of string_buffer

Thrown == -2      \* in the place of a text: dump threw type_error 316

-----------------------------------------------------------------------------
(* decode: the automaton that tells the bytes of UTF-8 apart.              *)

Accepting == 0
Rejecting == 1

\* The first 256 entries of the table: the class of a byte.
Class(byte) ==
  CASE byte \in 0..127 -> 0
    [] byte \in 128..143 -> 1   [] byte \in 144..159 -> 9   [] byte \in 160..191 -> 7
    [] byte \in {192, 193} \cup 245..255 -> 8               [] byte \in 194..223 -> 2
    [] byte = 224 -> 10         [] byte = 237 -> 4
    [] byte \in (225..239) \ {237} -> 3
    [] byte = 240 -> 11         [] byte \in 241..243 -> 6   [] byte = 244 -> 5

\* The rest of the table: a row for each state, a column for each class.
Transition ==
  << <<0, 1, 2, 3, 5, 8, 7, 1, 1, 1, 4, 6>>,
     <<1, 1, 1, 1, 1, 1, 1, 1, 1, 1, 1, 1>>,
     <<1, 0, 1, 1, 1, 1, 1, 0, 1, 0, 1, 1>>,
     <<1, 2, 1, 1, 1, 1, 1, 2, 1, 2, 1, 1>>,
     <<1, 1, 1, 1, 1, 1, 1, 2, 1, 1, 1, 1>>,
     <<1, 2, 1, 1, 1, 1, 1, 1, 1, 2, 1, 1>>,
     <<1, 1, 1, 1, 1, 1, 1, 3, 1, 3, 1, 1>>,
     <<1, 3, 1, 1, 1, 1, 1, 3, 1, 3, 1, 1>>,
     <<1, 3, 1, 1, 1, 1, 1, 1, 1, 1, 1, 1>> >>

Decoded(d, byte) ==
  [state |-> Transition[d.state + 1][Class(byte) + 1],
   codepoint |-> IF d.state # Accepting THEN (byte % 64) + 64 * d.codepoint
                 ELSE byte % (IF Class(byte) > 8 THEN 1 ELSE 2 ^ (8 - Class(byte)))]

-----------------------------------------------------------------------------
(* dump_escaped.                                                           *)

HexDigit(n) == IF n < 10 THEN 48 + n ELSE 87 + n
Hex4(n) == <<92, 117, HexDigit(n \div 4096), HexDigit((n \div 256) % 16),
             HexDigit((n \div 16) % 16), HexDigit(n % 16)>>

ShortEscape ==
  [c \in {8, 9, 10, 12, 13, 34, 92} |->
     CASE c = 8 -> 98 [] c = 9 -> 116 [] c = 10 -> 110 [] c = 12 -> 102 [] c = 13 -> 114
       [] OTHER -> c]

\* What is written for a complete code point whose last byte this is; the
\* bytes before it are in the buffer already unless all is to be ASCII.
Written(codepoint, byte) ==
  IF codepoint \in DOMAIN ShortEscape THEN <<92, ShortEscape[codepoint]>>
  ELSE IF codepoint <= 31 \/ (EnsureAscii /\ codepoint >= 127)
  THEN IF codepoint <= 65535 THEN Hex4(codepoint)
       ELSE Hex4(55232 + codepoint \div 1024) \o Hex4(56320 + (codepoint % 1024))
  ELSE <<byte>>

Replacement == IF EnsureAscii THEN <<92, 117, 102, 102, 102, 100>> ELSE <<239, 191, 189>>

\* The buffer is written when fewer than 13 bytes are free; the local
\* variables are o (what was written), buffer (its bytes), accepted
\* (bytes_after_last_accept), undumped (undumped_chars), i, state, codepoint.
Flushed(d) ==
  IF BufferSize - Len(d.buffer) < 13
  THEN [d EXCEPT !.o = @ \o d.buffer, !.buffer = <<>>, !.accepted = 0]
  ELSE [d EXCEPT !.accepted = Len(d.buffer)]

\* Mutant of Refused: what a bad sequence wrote stays in the buffer.
Refused_Kept(d) ==
  IF ErrorHandler = "strict" THEN [d EXCEPT !.o = <<Thrown>>]
  ELSE LET again == [d EXCEPT !.i = IF d.undumped > 0 THEN @ ELSE @ + 1,
                              !.undumped = 0, !.state = Accepting]
       IN IF ErrorHandler = "ignore" THEN again
          ELSE Flushed([again EXCEPT !.buffer = @ \o Replacement])

\* A byte that can go on no code point: it is read again when it came after
\* others, which are taken back.
Refused(d) ==
  IF ErrorHandler = "strict" THEN [d EXCEPT !.o = <<Thrown>>]
  ELSE LET again == [d EXCEPT !.i = IF d.undumped > 0 THEN @ ELSE @ + 1,
                              !.buffer = SubSeq(@, 1, d.accepted),
                              !.undumped = 0, !.state = Accepting]
       IN IF ErrorHandler = "ignore" THEN again
          ELSE Flushed([again EXCEPT !.buffer = @ \o Replacement])

\* The byte at d.i of s.
Escaped(d, s) ==
  LET byte == s[d.i]
      new == Decoded(d, byte)
      read == [d EXCEPT !.state = new.state, !.codepoint = new.codepoint]
  IN CASE new.state = Accepting ->
            Flushed([read EXCEPT !.buffer = @ \o Written(new.codepoint, byte),
                                 !.undumped = 0, !.i = @ + 1])
       [] new.state = Rejecting -> Refused(read)
       [] OTHER -> [read EXCEPT !.buffer = IF EnsureAscii THEN @ ELSE Append(@, byte),
                                !.undumped = @ + 1, !.i = @ + 1]

RECURSIVE EscapedFrom(_, _)
EscapedFrom(d, s) ==
  IF d.i > Len(s) \/ d.o = <<Thrown>> THEN d ELSE EscapedFrom(Escaped(d, s), s)

DumpEscaped(s) ==
  LET d == EscapedFrom([o |-> <<>>, buffer |-> <<>>, accepted |-> 0, undumped |-> 0,
                        i |-> 1, state |-> Accepting, codepoint |-> 0], s)
  IN CASE d.state = Accepting \/ d.o = <<Thrown>> -> d.o \o d.buffer
       [] ErrorHandler = "strict" -> <<Thrown>>
       [] ErrorHandler = "ignore" -> d.o \o SubSeq(d.buffer, 1, d.accepted)
       [] ErrorHandler = "replace" -> d.o \o SubSeq(d.buffer, 1, d.accepted) \o Replacement

-----------------------------------------------------------------------------
(* dump.                                                                   *)

RECURSIVE Digits10(_)
Digits10(n) == IF n < 10 THEN <<48 + n>> ELSE Append(Digits10(n \div 10), 48 + (n % 10))

DumpInteger(n) == IF n < 0 THEN <<45>> \o Digits10(-n) ELSE Digits10(n)

Pretty == IndentStep >= 0
Blanks(n) == [k \in 1..n |-> 32]
NewLine(indent) == IF Pretty THEN <<10>> \o Blanks(indent) ELSE <<>>

\* Texts with commas between them, each on a line of its own when pretty.
Listed(open, close, texts, indent) ==
  IF texts = <<>> THEN <<open, close>>
  ELSE <<open>> \o NewLine(indent + IndentStep)
         \o FlattenSeq([k \in DOMAIN texts |->
              IF k = 1 THEN texts[k] ELSE <<44>> \o NewLine(indent + IndentStep) \o texts[k]])
         \o NewLine(indent) \o <<close>>

Quoted(s) == <<34>> \o DumpEscaped(s) \o <<34>>

RECURSIVE DumpAt(_, _)
DumpAt(v, indent) ==
  LET c == Content(v)
      inner == indent + IndentStep
  IN CASE Type(v) = "object" ->
            Listed(123, 125,
                   [k \in DOMAIN Keys(c) |->
                      Quoted(Keys(c)[k]) \o (IF Pretty THEN <<58, 32>> ELSE <<58>>)
                        \o DumpAt(c[Keys(c)[k]], inner)],
                   indent)
       [] Type(v) = "array" ->
            Listed(91, 93, [k \in DOMAIN c |-> DumpAt(c[k], inner)], indent)
       [] Type(v) = "string" -> Quoted(c)
       [] Type(v) = "boolean" ->
            IF c THEN <<116, 114, 117, 101>> ELSE <<102, 97, 108, 115, 101>>
       [] Type(v) \in {"integer", "unsigned"} -> DumpInteger(c)
       [] Type(v) = "null" -> <<110, 117, 108, 108>>

Dump(v) == DumpAt(v, 0)
=============================================================================
