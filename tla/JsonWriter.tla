----------------------------- MODULE JsonWriter ------------------------------
(***************************************************************************)
(* binary_writer: a value as the bytes of CBOR, MessagePack, UBJSON or     *)
(* BSON.  Source: nlohmann/detail/output/binary_writer.hpp.                *)
(*                                                                         *)
(* The content of a number is its 64 bits, eight bytes with the highest    *)
(* first; that of a float too.  Thrown stands in the document where the    *)
(* writer throws instead.                                                  *)
(***************************************************************************)
EXTENDS JsonValue

Thrown == -2
Bytes(n) == <<0, 0, 0, 0, 0, 0, n \div 256, n % 256>>      \* n < 65536
Lowest(w, n) == SubSeq(w, 9 - n, 8)
Extended(b, fill) == [k \in 1..(8 - Len(b)) |-> fill] \o b
SignOf(b) == IF b[1] >= 128 THEN 255 ELSE 0
Negative(w) == w[1] >= 128
Complement(w) == [k \in 1..8 |-> 255 - w[k]]               \* -1 - n
FitsUnsigned(w, n) == w = Extended(Lowest(w, n), 0)
FitsSigned(w, n) == w = Extended(Lowest(w, n), SignOf(Lowest(w, n)))
IsSmall(w, n) == FitsUnsigned(w, 1) /\ w[8] <= n
IntegerFits(v, n) ==
  FitsSigned(Content(v), n) /\ (Type(v) = "unsigned" => ~Negative(Content(v)))

\* The numbers of bytes of uint8_t to uint64_t, and the first in which w fits.
Sizes == <<1, 2, 4, 8>>
Fitting(w) == CHOOSE k \in 1..4 : FitsUnsigned(w, Sizes[k]) /\ \A j \in 1..(k - 1) : ~FitsUnsigned(w, Sizes[j])

Members(f, Write(_, _)) == FlattenSeq([k \in DOMAIN Keys(f) |-> Write(Keys(f)[k], f[Keys(f)[k]])])

-----------------------------------------------------------------------------
(* write_cbor.                                                             *)

\* The first byte of a value with its number or length, which follows when it
\* is above 23 in one, two, four or eight bytes.
CborHead(major, w) ==
  IF IsSmall(w, 23) THEN <<major + w[8]>>
  ELSE <<major + 23 + Fitting(w)>> \o Lowest(w, Sizes[Fitting(w)])

CborNumber(v) ==
  IF Type(v) = "integer" /\ Negative(Content(v))
  THEN CborHead(32, Complement(Content(v))) ELSE CborHead(0, Content(v))

CborString(s) == CborHead(96, Bytes(Len(s))) \o s

RECURSIVE WriteCbor(_)
CborArray(s) == CborHead(128, Bytes(Len(s))) \o FlattenSeq([k \in DOMAIN s |-> WriteCbor(s[k])])
CborObject(f) ==
  CborHead(160, Bytes(Cardinality(DOMAIN f)))
    \o Members(f, LAMBDA name, v : CborString(name) \o WriteCbor(v))

WriteCbor(v) ==
  LET c == Content(v) IN
  CASE Type(v) = "null" -> <<246>>
    [] Type(v) = "boolean" -> <<IF c THEN 245 ELSE 244>>
    [] Type(v) \in {"integer", "unsigned"} -> CborNumber(v)
    [] Type(v) = "float" -> <<251>> \o c
    [] Type(v) = "string" -> CborString(c)
    [] Type(v) = "array" -> CborArray(c)
    [] Type(v) = "object" -> CborObject(c)

-----------------------------------------------------------------------------
(* write_msgpack.                                                          *)

\* Mutant of MsgpackNumber: the sign of a small number is not looked at.
MsgpackNumber_Sign(v) ==
  LET w == Content(v)
      size == CHOOSE k \in 1..4 : FitsSigned(w, Sizes[k]) /\ \A j \in 1..(k - 1) : ~FitsSigned(w, Sizes[j])
  IN IF IsSmall(w, 127) \/ (FitsSigned(w, 1) /\ Type(v) = "integer") THEN <<w[8]>>
     ELSE IF Type(v) = "unsigned" \/ ~Negative(w)
     THEN <<203 + Fitting(w)>> \o Lowest(w, Sizes[Fitting(w)])
     ELSE <<207 + size>> \o Lowest(w, Sizes[size])

\* Numbers up to 127 and from -32 on in the first byte, others in as many
\* bytes as they fit in.
MsgpackNumber(v) ==
  LET w == Content(v)
      size == CHOOSE k \in 1..4 : FitsSigned(w, Sizes[k]) /\ \A j \in 1..(k - 1) : ~FitsSigned(w, Sizes[j])
  IN IF Type(v) = "unsigned" \/ ~Negative(w)
     THEN IF IsSmall(w, 127) THEN <<w[8]>>
          ELSE <<203 + Fitting(w)>> \o Lowest(w, Sizes[Fitting(w)])
     ELSE IF FitsSigned(w, 1) /\ w[8] >= 224 THEN <<w[8]>>
          ELSE <<207 + size>> \o Lowest(w, Sizes[size])

MsgpackString(s) ==
  LET n == Bytes(Len(s)) IN
  (IF IsSmall(n, 31) THEN <<160 + Len(s)>>
   ELSE <<216 + Fitting(n)>> \o Lowest(n, Sizes[Fitting(n)])) \o s

\* Arrays and objects: the length in the first byte, or in two, or in four.
MsgpackHead(small, large, len) ==
  IF len <= 15 THEN <<small + len>> ELSE <<large>> \o Lowest(Bytes(len), 2)

RECURSIVE WriteMsgpack(_)
MsgpackArray(s) == MsgpackHead(144, 220, Len(s)) \o FlattenSeq([k \in DOMAIN s |-> WriteMsgpack(s[k])])
MsgpackObject(f) ==
  MsgpackHead(128, 222, Cardinality(DOMAIN f))
    \o Members(f, LAMBDA name, v : MsgpackString(name) \o WriteMsgpack(v))

WriteMsgpack(v) ==
  LET c == Content(v) IN
  CASE Type(v) = "null" -> <<192>>
    [] Type(v) = "boolean" -> <<IF c THEN 195 ELSE 194>>
    [] Type(v) \in {"integer", "unsigned"} -> MsgpackNumber(v)
    [] Type(v) = "float" -> <<203>> \o c
    [] Type(v) = "string" -> MsgpackString(c)
    [] Type(v) = "array" -> MsgpackArray(c)
    [] Type(v) = "object" -> MsgpackObject(c)

-----------------------------------------------------------------------------
(* write_ubjson.                                                           *)

\* ubjson_prefix: the byte that tells the type of v; of a number that fits in
\* no type too.
UbjsonPrefix(v) ==
  CASE Type(v) = "null" -> 90      [] Type(v) = "float" -> 68
    [] Type(v) = "string" -> 83    [] Type(v) = "array" -> 91    [] Type(v) = "object" -> 123
    [] Type(v) = "boolean" -> IF Content(v) THEN 84 ELSE 70
    [] OTHER -> CASE IntegerFits(v, 1) -> 105 [] FitsUnsigned(Content(v), 1) -> 85
                  [] IntegerFits(v, 2) -> 73  [] IntegerFits(v, 4) -> 108 [] OTHER -> 76

\* write_number_with_ubjson_prefix.
UbjsonNumber(v, prefixed) ==
  LET p == UbjsonPrefix(v)
      size == CASE p \in {105, 85} -> 1 [] p = 73 -> 2 [] p = 108 -> 4 [] p = 76 -> 8
  IN IF ~IntegerFits(v, 8) THEN <<Thrown>>
     ELSE (IF prefixed THEN <<p>> ELSE <<>>) \o Lowest(Content(v), size)

UbjsonLength(n) == UbjsonNumber(<<"unsigned", Bytes(n)>>, TRUE)
UbjsonName(s) == UbjsonLength(Len(s)) \o s

\* The type that all parts share, when it is to be written once.
SamePrefix(parts, typed) ==
  /\ typed /\ parts # {}
  /\ \E p \in {UbjsonPrefix(v) : v \in parts} : \A v \in parts : UbjsonPrefix(v) = p

\* What follows the first byte: the shared type, then the number of parts.
UbjsonHead(parts, n, counted, typed) ==
  (IF SamePrefix(parts, typed) THEN <<36, UbjsonPrefix(CHOOSE v \in parts : TRUE)>> ELSE <<>>)
    \o (IF counted THEN <<35>> \o UbjsonLength(n) ELSE <<>>)

RECURSIVE WriteUbjson(_, _, _, _)
UbjsonArray(s, counted, typed) ==
  LET parts == {s[k] : k \in DOMAIN s} IN
  UbjsonHead(parts, Len(s), counted, typed)
    \o FlattenSeq([k \in DOMAIN s |-> WriteUbjson(s[k], counted, typed, ~SamePrefix(parts, typed))])
    \o (IF counted THEN <<>> ELSE <<93>>)

UbjsonObject(f, counted, typed) ==
  LET parts == {f[k] : k \in DOMAIN f} IN
  UbjsonHead(parts, Cardinality(DOMAIN f), counted, typed)
    \o Members(f, LAMBDA name, v :
         UbjsonName(name) \o WriteUbjson(v, counted, typed, ~SamePrefix(parts, typed)))
    \o (IF counted THEN <<>> ELSE <<125>>)

WriteUbjson(v, counted, typed, prefixed) ==
  LET c == Content(v) IN
  IF Type(v) \in {"integer", "unsigned"} THEN UbjsonNumber(v, prefixed)
  ELSE (IF prefixed THEN <<UbjsonPrefix(v)>> ELSE <<>>) \o
       CASE Type(v) \in {"null", "boolean"} -> <<>>
         [] Type(v) = "float" -> c
         [] Type(v) = "string" -> UbjsonName(c)
         [] Type(v) = "array" -> UbjsonArray(c, counted, typed)
         [] Type(v) = "object" -> UbjsonObject(c, counted, typed)

-----------------------------------------------------------------------------
(* write_bson: numbers in little endian, and the size of every document    *)
(* before it, from the calc_bson functions.                                *)

Little(w, n) == Reverse(Lowest(w, n))
Sum(f, S) == FoldSet(LAMBDA k, n : f[k] + n, 0, S)

\* std::to_string of an index, from 0.
IndexName(k) == IF k < 10 THEN <<48 + k>> ELSE <<48 + k \div 10, 48 + (k % 10)>>
HeaderSize(name) == 1 + Len(name) + 1
BsonHeader(type, name) == IF \E k \in DOMAIN name : name[k] = 0 THEN <<Thrown>> ELSE <<type>> \o name \o <<0>>
BsonNumberSize(v) == IF IntegerFits(v, 4) THEN 4 ELSE 8

\* The number of bytes of an element, and of an array or object as a document.
RECURSIVE CalcElement(_, _)
CalcArray(s) == 4 + Sum([k \in DOMAIN s |-> CalcElement(IndexName(k - 1), s[k])], DOMAIN s) + 1
CalcObject(f) == 4 + Sum([k \in DOMAIN f |-> CalcElement(k, f[k])], DOMAIN f) + 1
CalcElement(name, v) ==
  LET c == Content(v) IN
  HeaderSize(name) +
  CASE Type(v) = "null" -> 0
    [] Type(v) = "boolean" -> 1
    [] Type(v) = "float" -> 8
    [] Type(v) \in {"integer", "unsigned"} -> BsonNumberSize(v)
    [] Type(v) = "string" -> 4 + Len(c) + 1
    [] Type(v) = "array" -> CalcArray(c)
    [] Type(v) = "object" -> CalcObject(c)

BsonNumber(name, v) ==
  IF ~IntegerFits(v, 8) THEN <<Thrown>>
  ELSE BsonHeader(IF BsonNumberSize(v) = 4 THEN 16 ELSE 18, name) \o Little(Content(v), BsonNumberSize(v))

BsonString(name, s) == BsonHeader(2, name) \o Little(Bytes(Len(s) + 1), 4) \o s \o <<0>>

RECURSIVE BsonElement(_, _)
BsonArray(s) ==
  Little(Bytes(CalcArray(s)), 4)
    \o FlattenSeq([k \in DOMAIN s |-> BsonElement(IndexName(k - 1), s[k])]) \o <<0>>
BsonObject(f) == Little(Bytes(CalcObject(f)), 4) \o Members(f, BsonElement) \o <<0>>
BsonElement(name, v) ==
  LET c == Content(v) IN
  CASE Type(v) = "null" -> BsonHeader(10, name)
    [] Type(v) = "boolean" -> BsonHeader(8, name) \o <<IF c THEN 1 ELSE 0>>
    [] Type(v) = "float" -> BsonHeader(1, name) \o Reverse(c)
    [] Type(v) \in {"integer", "unsigned"} -> BsonNumber(name, v)
    [] Type(v) = "string" -> BsonString(name, c)
    [] Type(v) = "array" -> BsonHeader(4, name) \o BsonArray(c)
    [] Type(v) = "object" -> BsonHeader(3, name) \o BsonObject(c)

WriteBson(v) == IF Type(v) = "object" THEN BsonObject(Content(v)) ELSE <<Thrown>>

\* to_cbor, to_msgpack, to_ubjson with and without counts and types, to_bson.
Written(format, v) ==
  CASE format = "cbor" -> WriteCbor(v)
    [] format = "msgpack" -> WriteMsgpack(v)
    [] format = "ubjson" -> WriteUbjson(v, FALSE, FALSE, TRUE)
    [] format = "ubjson#" -> WriteUbjson(v, TRUE, FALSE, TRUE)
    [] format = "ubjson$" -> WriteUbjson(v, TRUE, TRUE, TRUE)
    [] format = "bson" -> WriteBson(v)
=============================================================================
