----------------------------- MODULE JsonGrammar -----------------------------
(***************************************************************************)
(* What a text says, by the grammar of RFC 7159 that the comments of       *)
(* lexer.hpp and parser.hpp cite, read off the whole text at once: the     *)
(* reference the parser is checked against, with none of its steps.        *)
(***************************************************************************)
EXTENDS JsonParser

Slice(s, i, j) == SubSeq(s, i, j)
All(s, S) == \A k \in DOMAIN s : s[k] \in S
Either(c, v) == IF c THEN {v} ELSE {}

Strip(s) ==
  LET I == {k \in DOMAIN s : s[k] \notin Space}
  IN IF I = {} THEN <<>> ELSE Slice(s, Min(I), Max(I))

-----------------------------------------------------------------------------
(* Numbers: int, perhaps frac, perhaps exp.                                *)

Digits(s) == s # <<>> /\ All(s, Digit)
IntPart(s) == Digits(s) /\ (Len(s) = 1 \/ s[1] # 48)
Frac(s) == s = <<>> \/ (s[1] = 46 /\ Digits(Tail(s)))
Exp(s) ==
  \/ s = <<>>
  \/ s[1] \in {69, 101} /\ (Digits(Tail(s)) \/
       (Len(s) > 1 /\ s[2] \in {43, 45} /\ Digits(Slice(s, 3, Len(s)))))

Unsigned(s) == IF s # <<>> /\ s[1] = 45 THEN Tail(s) ELSE s

NumberText(s) ==
  LET u == Unsigned(s) n == Len(u) IN
  \E i \in 1..n : \E j \in i..n :
    IntPart(Slice(u, 1, i)) /\ Frac(Slice(u, i + 1, j)) /\ Exp(Slice(u, j + 1, n))

\* Without frac and exp an integer, when it fits.
Numbers(s) ==
  IF ~NumberText(s) THEN {}
  ELSE IF IntPart(s) /\ Decimal(s) <= MaxUnsigned THEN {<<"unsigned", Decimal(s)>>}
  ELSE IF s[1] = 45 /\ IntPart(Tail(s)) /\ -Decimal(Tail(s)) >= MinInteger
       THEN {<<"integer", -Decimal(Tail(s))>>}
  ELSE Either(IsFinite(s), <<"float", s>>)

-----------------------------------------------------------------------------
(* Strings: characters, as they are or escaped.                            *)

\* The number that one to four bytes spell, -1 when they spell none.
CodePoint(u) ==
  LET low(k) == u[k] - 128 n == Len(u) IN
  CASE n = 1 /\ u[1] < 128 -> u[1]
    [] n = 2 /\ u[1] \in 192..223 -> (u[1] - 192) * 64 + low(2)
    [] n = 3 /\ u[1] \in 224..239 -> (u[1] - 224) * 4096 + low(2) * 64 + low(3)
    [] n = 4 /\ u[1] \in 240..247 ->
         (u[1] - 240) * 262144 + low(2) * 4096 + low(3) * 64 + low(4)
    [] OTHER -> -1

\* u is one character: no surrogate, in as few bytes as it can be.
IsCharacter(u) ==
  /\ \A k \in 2..Len(u) : u[k] \in 128..191
  /\ CodePoint(u) \in 0..1114111
  /\ ~IsHigh(CodePoint(u)) /\ ~IsLow(CodePoint(u))
  /\ Len(u) = CASE CodePoint(u) < 128 -> 1 [] CodePoint(u) < 2048 -> 2
                [] CodePoint(u) < 65536 -> 3 [] OTHER -> 4

IsHex(u) == Len(u) = 6 /\ u[1] = Backslash /\ u[2] = 117 /\ \A k \in 3..6 : HexValue(u[k]) >= 0
Hex(u) == FoldLeft(LAMBDA n, c : 16 * n + HexValue(c), 0, Slice(u, 3, 6))

\* What a piece u of a string stands for.
Unit(u) ==
  IF IsCharacter(u) /\ u[1] >= 32 /\ u[1] \notin {Quote, Backslash} THEN {u}
  ELSE IF Len(u) = 2 /\ u[1] = Backslash /\ u[2] \in DOMAIN Escapes THEN {<<Escapes[u[2]]>>}
  ELSE IF IsHex(u) /\ ~IsHigh(Hex(u)) /\ ~IsLow(Hex(u)) THEN {Utf8(Hex(u))}
  ELSE IF Len(u) = 12 /\ IsHex(Slice(u, 1, 6)) /\ IsHex(Slice(u, 7, 12))
          /\ IsHigh(Hex(Slice(u, 1, 6))) /\ IsLow(Hex(Slice(u, 7, 12)))
       THEN {Utf8(65536 + (Hex(Slice(u, 1, 6)) - 55296) * 1024 + Hex(Slice(u, 7, 12)) - 56320)}
  ELSE {}

RECURSIVE Characters(_)
Characters(s) ==
  IF s = <<>> THEN {<<>>}
  ELSE UNION {{c \o r : c \in Unit(Slice(s, 1, k)), r \in Characters(Slice(s, k + 1, Len(s)))} :
                k \in {k \in {1, 2, 3, 4, 6, 12} : k <= Len(s) /\ Unit(Slice(s, 1, k)) # {}}}

Strings(s) ==
  IF Len(s) >= 2 /\ s[1] = Quote /\ Last(s) = Quote
  THEN Characters(Slice(s, 2, Len(s) - 1)) ELSE {}

-----------------------------------------------------------------------------
(* Values.                                                                 *)

Words == {<<116, 114, 117, 101>>, <<102, 97, 108, 115, 101>>, <<110, 117, 108, 108>>}
Word(s) == IF s[1] = 116 THEN Boolean(TRUE) ELSE IF s[1] = 102 THEN Boolean(FALSE) ELSE Null

Commas(s) == {k \in DOMAIN s : s[k] = 44}
Inner(s) == Slice(s, 2, Len(s) - 1)
Between(s, c, d) == Len(s) >= 2 /\ s[1] = c /\ Last(s) = d

RECURSIVE Meanings(_), Elements(_), Members(_)

\* The values that the text t says: one, or none when it is no JSON text.
Meanings(t) ==
  LET s == Strip(t) IN
  IF s = <<>> THEN {}
  ELSE IF s \in Words THEN {Word(s)}
  ELSE IF s[1] \in Digit \cup {45} THEN Numbers(s)
  ELSE IF s[1] = Quote THEN {String(c) : c \in Strings(s)}
  ELSE IF Between(s, 91, 93)
       THEN Either(Strip(Inner(s)) = <<>>, EmptyArray) \cup {Array(e) : e \in Elements(Inner(s))}
  ELSE IF Between(s, 123, 125)
       THEN Either(Strip(Inner(s)) = <<>>, EmptyObject) \cup {Object(f) : f \in Members(Inner(s))}
  ELSE {}

\* Values with commas between them.
Elements(t) ==
  {<<v>> : v \in Meanings(t)} \cup
  UNION {{Append(r, v) : r \in Elements(Slice(t, 1, k - 1)), v \in Meanings(Slice(t, k + 1, Len(t)))} :
           k \in Commas(t)}

\* Names and values with commas between them; of one name the last counts.
Member(t) ==
  UNION {{n :> v : n \in Strings(Strip(Slice(t, 1, k - 1))), v \in Meanings(Slice(t, k + 1, Len(t)))} :
           k \in {k \in DOMAIN t : t[k] = 58}}
Members(t) ==
  Member(t) \cup
  UNION {{m @@ f : f \in Members(Slice(t, 1, k - 1)), m \in Member(Slice(t, k + 1, Len(t)))} :
           k \in Commas(t)}

Mark == <<239, 187, 191>>
Unmarked(t) == IF Len(t) >= 3 /\ Slice(t, 1, 3) = Mark THEN Slice(t, 4, Len(t)) ELSE t

\* A byte 0 ends the input wherever a token may begin.
Said(t) ==
  Meanings(Unmarked(t)) \cup
  UNION {Meanings(Slice(Unmarked(t), 1, k - 1)) : k \in {k \in DOMAIN Unmarked(t) : Unmarked(t)[k] = 0}}
=============================================================================
