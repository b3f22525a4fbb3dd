----------------------------- MODULE JsonReader ------------------------------
(***************************************************************************)
(* binary_reader with json_sax_dom_parser: the value that the bytes of a   *)
(* CBOR, MessagePack, UBJSON or BSON document say, or a parse error.       *)
(* Source: nlohmann/detail/input/binary_reader.hpp.                        *)
(*                                                                         *)
(* What is read from index i of the document s on: [at, x], the index      *)
(* after it and what it is, or Bad when the reader reports an error or the *)
(* document ends.  Half and single floats are left out, and a length above *)
(* 65535 is one that the document is too short for.                        *)
(***************************************************************************)
EXTENDS JsonWriter

EOF == -1
Bad == [at |-> 0, x |-> <<>>]
IsBad(r) == r.at = 0
Read(i, x) == [at |-> i, x |-> x]
Apply(r, F(_)) == IF IsBad(r) THEN Bad ELSE Read(r.at, F(r.x))

Get(s, i) == IF i <= Len(s) THEN s[i] ELSE EOF

\* get_number and get_string: n bytes.
Take(s, i, n) ==
  IF i + n - 1 <= Len(s) THEN Read(i + n, SubSeq(s, i, i + n - 1)) ELSE Bad

UnsignedAt(s, i, n) == Apply(Take(s, i, n), LAMBDA b : Extended(b, 0))
SignedAt(s, i, n) == Apply(Take(s, i, n), LAMBDA b : Extended(b, SignOf(b)))
LittleAt(s, i, n) == Apply(Take(s, i, n), LAMBDA b : Extended(Reverse(b), SignOf(Reverse(b))))

AsUnsigned(r) == Apply(r, LAMBDA w : <<"unsigned", w>>)
AsInteger(r) == Apply(r, LAMBDA w : <<"integer", w>>)

\* The bytes of a string whose length was read; those of a negative length
\* are none.
StringOf(s, length) ==
  IF IsBad(length) THEN Bad
  ELSE IF Negative(length.x) THEN Read(length.at, <<>>)
  ELSE IF ~FitsUnsigned(length.x, 2) THEN Bad
  ELSE Take(s, length.at, length.x[7] * 256 + length.x[8])

\* A length that the document is long enough for.
CountOf(length) ==
  IF IsBad(length) \/ ~FitsUnsigned(length.x, 2) THEN Bad
  ELSE Read(length.at, length.x[7] * 256 + length.x[8])

Leaf(c) ==
  CASE c \in {244, 194, 70} -> Boolean(FALSE) [] c \in {245, 195, 84} -> Boolean(TRUE)
    [] OTHER -> Null

-----------------------------------------------------------------------------
(* CBOR and MessagePack: Value, Name, Elements and Pairs are common.       *)

\* The number or length that a first byte of CBOR tells or announces.
CborArgument(s, i) ==
  LET low == s[i] % 32 IN
  IF low <= 23 THEN Read(i + 1, Bytes(low))
  ELSE IF low <= 27 THEN UnsignedAt(s, i + 1, Sizes[low - 23]) ELSE Bad

\* get_cbor_string; a string of indefinite length is the chunks up to FF.
RECURSIVE GetCborString(_, _), Chunks(_, _)
Chunks(s, i) ==
  IF Get(s, i) = 255 THEN Read(i + 1, <<>>)
  ELSE LET chunk == GetCborString(s, i) IN
       IF IsBad(chunk) THEN Bad
       ELSE Apply(Chunks(s, chunk.at), LAMBDA r : chunk.x \o r)
GetCborString(s, i) ==
  CASE Get(s, i) \in 96..123 -> StringOf(s, CborArgument(s, i))
    [] Get(s, i) = 127 -> Chunks(s, i + 1)
    [] OTHER -> Bad

GetMsgpackString(s, i) ==
  CASE Get(s, i) \in 160..191 -> StringOf(s, Read(i + 1, Bytes(s[i] % 32)))
    [] Get(s, i) \in 217..219 -> StringOf(s, UnsignedAt(s, i + 1, Sizes[s[i] - 216]))
    [] OTHER -> Bad

Name(f, s, i) == IF f = "cbor" THEN GetCborString(s, i) ELSE GetMsgpackString(s, i)

RECURSIVE Value(_, _, _), Elements(_, _, _, _), Pairs(_, _, _, _)

\* n elements from i on, up to the byte FF when n is EOF.
Elements(f, s, i, n) ==
  IF n = 0 THEN Read(i, <<>>)
  ELSE IF n = EOF /\ Get(s, i) = 255 THEN Read(i + 1, <<>>)
  ELSE LET v == Value(f, s, i) IN
       IF IsBad(v) THEN Bad
       ELSE Apply(Elements(f, s, v.at, IF n = EOF THEN EOF ELSE n - 1), LAMBDA r : <<v.x>> \o r)

\* n names with their values; of one name the last counts.
Pairs(f, s, i, n) ==
  IF n = 0 THEN Read(i, <<>>)
  ELSE IF n = EOF /\ Get(s, i) = 255 THEN Read(i + 1, <<>>)
  ELSE LET k == Name(f, s, i) IN
       IF IsBad(k) THEN Bad
       ELSE LET v == Value(f, s, k.at) IN
            IF IsBad(v) THEN Bad
            ELSE Apply(Pairs(f, s, v.at, IF n = EOF THEN EOF ELSE n - 1), LAMBDA r : r @@ (k.x :> v.x))

ArrayOf(f, s, count) ==
  IF IsBad(count) THEN Bad ELSE Apply(Elements(f, s, count.at, count.x), Array)
ObjectOf(f, s, count) ==
  IF IsBad(count) THEN Bad ELSE Apply(Pairs(f, s, count.at, count.x), Object)

\* get_cbor_array and get_cbor_object, a length or none before them.
CborCount(s, i) == IF s[i] % 32 = 31 THEN Read(i + 1, EOF) ELSE CountOf(CborArgument(s, i))

CborNumberAt(s, i) ==
  IF s[i] < 32 THEN AsUnsigned(CborArgument(s, i))
  ELSE AsInteger(Apply(CborArgument(s, i), Complement))

\* parse_cbor_internal.
CborAt(s, i) ==
  LET c == Get(s, i) IN
  CASE c \in (0..27) \cup (32..59) -> CborNumberAt(s, i)
    [] c \in (96..123) \cup {127} -> Apply(GetCborString(s, i), String)
    [] c \in (128..155) \cup {159} -> ArrayOf("cbor", s, CborCount(s, i))
    [] c \in (160..187) \cup {191} -> ObjectOf("cbor", s, CborCount(s, i))
    [] c \in 244..246 -> Read(i + 1, Leaf(c))
    [] c = 251 -> Apply(Take(s, i + 1, 8), LAMBDA b : <<"float", b>>)
    [] OTHER -> Bad

MsgpackNumberAt(s, i) ==
  LET c == s[i] IN
  CASE c \in 0..127 -> Read(i + 1, <<"unsigned", Bytes(c)>>)
    [] c \in 224..255 -> AsInteger(SignedAt(s, i, 1))
    [] c \in 204..207 -> AsUnsigned(UnsignedAt(s, i + 1, Sizes[c - 203]))
    [] c \in 208..211 -> AsInteger(SignedAt(s, i + 1, Sizes[c - 207]))

\* The length of an array or object after its first byte or in it.
MsgpackCount(s, i, first) ==
  IF s[i] \in first..(first + 15) THEN Read(i + 1, s[i] % 16)
  ELSE CountOf(UnsignedAt(s, i + 1, IF s[i] \in {220, 222} THEN 2 ELSE 4))

\* parse_msgpack_internal.
MsgpackAt(s, i) ==
  LET c == Get(s, i) IN
  CASE c \in (0..127) \cup (204..211) \cup (224..255) -> MsgpackNumberAt(s, i)
    [] c \in (128..143) \cup {222, 223} -> ObjectOf("msgpack", s, MsgpackCount(s, i, 128))
    [] c \in (144..159) \cup {220, 221} -> ArrayOf("msgpack", s, MsgpackCount(s, i, 144))
    [] c \in (160..191) \cup (217..219) -> Apply(GetMsgpackString(s, i), String)
    [] c \in {192, 194, 195} -> Read(i + 1, Leaf(c))
    [] c = 203 -> Apply(Take(s, i + 1, 8), LAMBDA b : <<"float", b>>)
    [] OTHER -> Bad

Value(f, s, i) == IF f = "cbor" THEN CborAt(s, i) ELSE MsgpackAt(s, i)

-----------------------------------------------------------------------------
(* UBJSON.                                                                 *)

\* get_ignore_noop: the index of the first byte that is no N.
RECURSIVE Skipped(_, _)
Skipped(s, i) == IF Get(s, i) = 78 THEN Skipped(s, i + 1) ELSE i

\* A number whose type is c and whose bytes begin at i.
UbjsonNumberAt(c, s, i) ==
  CASE c = 85 -> UnsignedAt(s, i, 1)  [] c = 105 -> SignedAt(s, i, 1) [] c = 73 -> SignedAt(s, i, 2)
    [] c = 108 -> SignedAt(s, i, 4)   [] c = 76 -> SignedAt(s, i, 8)  [] OTHER -> Bad

\* get_ubjson_string, its type at i.
UbjsonStringAt(s, i) == StringOf(s, UbjsonNumberAt(Get(s, i), s, i + 1))

\* get_ubjson_size_type: the number of parts and their type, 0 when none is
\* given; without a number, EOF and the index of the first part.
UbjsonSize(s, i) ==
  LET k == Skipped(s, i)
      size(j) == CountOf(UbjsonNumberAt(Get(s, Skipped(s, j)), s, Skipped(s, j) + 1))
  IN CASE Get(s, k) = 36 /\ Get(s, Skipped(s, k + 2)) = 35 ->
            Apply(size(Skipped(s, k + 2) + 1), LAMBDA n : <<n, s[k + 1]>>)
       [] Get(s, k) = 36 /\ Get(s, Skipped(s, k + 2)) # 35 -> Bad
       [] Get(s, k) = 35 -> Apply(size(k + 1), LAMBDA n : <<n, 0>>)
       [] OTHER -> Read(k, <<EOF, 0>>)

RECURSIVE UbjsonAt(_, _, _), UbjsonElements(_, _, _, _), UbjsonPairs(_, _, _, _)

\* A part of an array or object: its type at i, unless all have type t.
UbjsonPart(t, s, i) ==
  IF t # 0 THEN UbjsonAt(t, s, i) ELSE UbjsonAt(Get(s, Skipped(s, i)), s, Skipped(s, i) + 1)

UbjsonElements(s, i, n, t) ==
  IF n = 0 THEN Read(i, <<>>)
  ELSE IF n = EOF /\ Get(s, Skipped(s, i)) = 93 THEN Read(Skipped(s, i) + 1, <<>>)
  ELSE LET v == UbjsonPart(t, s, i) IN
       IF IsBad(v) THEN Bad
       ELSE Apply(UbjsonElements(s, v.at, IF n = EOF THEN EOF ELSE n - 1, t), LAMBDA r : <<v.x>> \o r)

UbjsonPairs(s, i, n, t) ==
  LET from == IF n = EOF THEN Skipped(s, i) ELSE i IN
  IF n = 0 THEN Read(i, <<>>)
  ELSE IF n = EOF /\ Get(s, from) = 125 THEN Read(from + 1, <<>>)
  ELSE LET k == UbjsonStringAt(s, from) IN
       IF IsBad(k) THEN Bad
       ELSE LET v == UbjsonPart(t, s, k.at) IN
            IF IsBad(v) THEN Bad
            ELSE Apply(UbjsonPairs(s, v.at, IF n = EOF THEN EOF ELSE n - 1, t), LAMBDA r : r @@ (k.x :> v.x))

\* get_ubjson_array; the parts of the type N are none.
GetUbjsonArray(s, i) ==
  LET size == UbjsonSize(s, i) IN
  IF IsBad(size) THEN Bad
  ELSE IF size.x[2] = 78 THEN Read(size.at, EmptyArray)
  ELSE Apply(UbjsonElements(s, size.at, size.x[1], size.x[2]), Array)

GetUbjsonObject(s, i) ==
  LET size == UbjsonSize(s, i) IN
  IF IsBad(size) THEN Bad ELSE Apply(UbjsonPairs(s, size.at, size.x[1], size.x[2]), Object)

\* get_ubjson_value: the value of type c whose bytes begin at i.
UbjsonAt(c, s, i) ==
  CASE c \in {84, 70, 90} -> Read(i, Leaf(c))
    [] c = 85 -> AsUnsigned(UbjsonNumberAt(c, s, i))
    [] c \in {105, 73, 108, 76} -> AsInteger(UbjsonNumberAt(c, s, i))
    [] c = 68 -> Apply(Take(s, i, 8), LAMBDA b : <<"float", b>>)
    [] c = 67 -> IF Get(s, i) \in 0..127 THEN Read(i + 1, String(<<s[i]>>)) ELSE Bad
    [] c = 83 -> Apply(UbjsonStringAt(s, i), String)
    [] c = 91 -> GetUbjsonArray(s, i)
    [] c = 123 -> GetUbjsonObject(s, i)
    [] OTHER -> Bad

-----------------------------------------------------------------------------
(* BSON.                                                                   *)

\* get_bson_cstr: the bytes before the next 0.
BsonCString(s, i) ==
  LET ends == {k \in i..Len(s) : s[k] = 0} IN
  IF ends = {} THEN Bad ELSE Read(Min(ends) + 1, SubSeq(s, i, Min(ends) - 1))

\* get_bson_string: its length counts the 0 after it, which is read too.
BsonStringAt(s, i) ==
  LET length == LittleAt(s, i, 4)
      n == CountOf(length)
  IN IF IsBad(n) \/ n.x < 1 \/ IsBad(Take(s, n.at, n.x)) THEN Bad
     ELSE Read(n.at + n.x, SubSeq(s, n.at, n.at + n.x - 2))

RECURSIVE BsonElements(_, _), BsonAt(_, _, _)

\* parse_bson_element_list: names and values up to a 0.
BsonElements(s, i) ==
  IF Get(s, i) = 0 THEN Read(i + 1, <<>>)
  ELSE IF Get(s, i) = EOF THEN Bad
  ELSE LET k == BsonCString(s, i + 1) IN
       IF IsBad(k) THEN Bad
       ELSE LET v == BsonAt(s[i], s, k.at) IN
            IF IsBad(v) THEN Bad
            ELSE Apply(BsonElements(s, v.at), LAMBDA r : << <<k.x, v.x>> >> \o r)

\* The size of a document is read and not used.
BsonDocument(s, i) == IF IsBad(Take(s, i, 4)) THEN Bad ELSE BsonElements(s, i + 4)

AsArray(pairs) == Array([k \in DOMAIN pairs |-> pairs[k][2]])
AsObject(pairs) == Object(FoldLeft(LAMBDA f, p : (p[1] :> p[2]) @@ f, <<>>, pairs))

\* parse_bson_element_internal; at the end of the document a boolean is true,
\* and the end is noticed after it.
BsonAt(type, s, i) ==
  CASE type = 1 -> Apply(Take(s, i, 8), LAMBDA b : <<"float", Reverse(b)>>)
    [] type = 2 -> Apply(BsonStringAt(s, i), String)
    [] type = 3 -> Apply(BsonDocument(s, i), AsObject)
    [] type = 4 -> Apply(BsonDocument(s, i), AsArray)
    [] type = 8 -> Read(i + 1, Boolean(Get(s, i) # 0))
    [] type = 10 -> Read(i, Null)
    [] type = 16 -> AsInteger(LittleAt(s, i, 4))
    [] type = 18 -> AsInteger(LittleAt(s, i, 8))
    [] OTHER -> Bad

-----------------------------------------------------------------------------
\* sax_parse, strict: nothing may follow the value.
Parsed(format, s) ==
  LET r == CASE format \in {"cbor", "msgpack"} -> Value(format, s, 1)
             [] format = "bson" -> Apply(BsonDocument(s, 1), AsObject)
             [] OTHER -> UbjsonPart(0, s, 1)
      end == IF format \in {"cbor", "msgpack", "bson"} THEN r.at ELSE Skipped(s, r.at)
  IN IF IsBad(r) \/ Get(s, end) # EOF THEN <<"exception">> ELSE <<"value", r.x>>
=============================================================================
