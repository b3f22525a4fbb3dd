-------------------------------- MODULE MCJson -------------------------------
(***************************************************************************)
(* Texts the parser is given: lexemes in any order and in the middle of an *)
(* array or an object, numbers, strings, spaces and marks, each a set that *)
(* holds every sequence of its pieces up to a length; what dump writes of  *)
(* values; what the binary formats make of them, whole and cut off; and    *)
(* what patches make of them.                                              *)
(***************************************************************************)
EXTENDS JsonGrammar

CONSTANTS MaxLexemes, MaxDigits, MaxPieces, BufferSize

VARIABLES
  part,     \* "text", "binary" or "edit": what the behaviour is about
  how,      \* the arguments of dump, the binary format or the edit
  about,    \* the value that was written or edited, <<>> when there is none
  result    \* what the binary reader or the edit gave, <<>> before

mcVars == <<lexer, parser, part, how, about, result>>

B == INSTANCE JsonReader
P == INSTANCE JsonPatch
S == INSTANCE JsonSerializer WITH
       IndentStep <- how.indent, EnsureAscii <- how.ascii, ErrorHandler <- how.handler

SequencesOf(pieces, n) == {FlattenSeq(p) : p \in UNION {[1..k -> pieces] : k \in 0..n}}

-----------------------------------------------------------------------------
Lexemes == {<<91>>, <<93>>, <<123>>, <<125>>, <<44>>, <<58>>, <<34, 97, 34>>, <<49>>}
Contexts == {<<91, 49, 44>>, <<91, 91>>,                           \* [1,  [[
             <<123, 34, 97, 34, 58>>,                              \* {"a":
             <<123, 34, 97, 34, 58, 49, 44>>,                      \* {"a":1,
             <<123, 34, 97, 34, 58, 49, 44, 34, 97, 34, 58>>,      \* {"a":1,"a":
             <<91, 123, 34, 98, 34, 58, 91, 93>>}                  \* [{"b":[]
TokenTexts ==
  SequencesOf(Lexemes, MaxLexemes) \cup
  {c \o t : c \in Contexts, t \in SequencesOf(Lexemes, MaxLexemes - 1)}

NumberTexts ==
  {t \o after : t \in {t \in SequencesOf({<<45>>, <<48>>, <<49>>, <<57>>, <<46>>, <<101>>, <<43>>}, MaxDigits) :
                         t # <<>> /\ t[1] \notin {46, 101, 43}},
                after \in {<<>>, <<10>>}}

Pieces ==
  {<<b>> : b \in {65, 10, 92, 110, 195, 169, 128, 224, 160, 237, 159, 240, 144, 244, 143}} \cup
  {<<92, 117, 48, 48, 69, 57>>, <<92, 117, 100, 56, 51, 68>>, <<92, 117, 68, 69, 48, 48>>,
   <<92, 117, 65>>, <<226, 130>>, <<240, 159, 152>>, <<92, 34>>}
StringTexts == {<<Quote>> \o s \o end : s \in SequencesOf(Pieces, MaxPieces), end \in {<<Quote>>, <<>>}}

Blanks == {<<32>>, <<10>>, <<0>>, <<239>>, <<187>>, <<191>>, <<116>>, <<114, 117, 101>>, <<110, 117, 108, 108>>}
SpaceTexts == SequencesOf(Blanks, 3) \cup {Mark \o t : t \in SequencesOf(Blanks, 2)}

Texts == TokenTexts \cup NumberTexts \cup StringTexts \cup SpaceTexts

-----------------------------------------------------------------------------
StringValues == SequencesOf(
  {<<b>> : b \in {8, 34, 92, 31, 127, 65, 195, 169, 128, 226, 130, 237, 160, 240, 159, 152}}, 3)
Leaves ==
  {Null, Boolean(TRUE), Boolean(FALSE), String(<<34>>)} \cup
  {<<"unsigned", n>> : n \in 0..MaxUnsigned} \cup {<<"integer", n>> : n \in MinInteger..MaxInteger}
Few == {Null, <<"integer", 5>>, EmptyArray, EmptyObject, String(<<10>>)}
Level(S1) ==
  {Array(s) : s \in UNION {[1..n -> S1] : n \in 0..2}} \cup
  {Object(f) : f \in UNION {[K -> S1] : K \in SUBSET {<<>>, <<97>>, <<97, 98>>}}}
Values == {String(s) : s \in StringValues} \cup Leaves \cup Level(Few) \cup
          {Array(<<v>>) : v \in Level({Null})} \cup {Object(<<34>> :> v) : v \in Level({Null})}

Hows == [indent : {-1, 0, 4}, ascii : BOOLEAN, handler : {"strict", "replace", "ignore"}]
Plain == [indent |-> -1, ascii |-> FALSE, handler |-> "strict"]
\* The three settings matter to strings and to arrays and objects respectively.
Suits(h, v) == IF Type(v) = "string" THEN h.indent = -1
               ELSE h.ascii = FALSE /\ h.handler = "strict"

-----------------------------------------------------------------------------
(* Values for the binary formats: numbers at both sides of the edges of 8, *)
(* 16, 32 and 64 bits, and lengths at both sides of where their encoding   *)
(* changes.                                                                *)
Edges == {<<0>>, <<1>>, <<23>>, <<24>>, <<31>>, <<32>>, <<127>>, <<128>>, <<223>>, <<224>>, <<255>>}
Words64 ==
  {B!Extended(e, fill) : e \in Edges, fill \in {0, 255}} \cup
  {B!Extended(<<e[1]>> \o [k \in 1..n |-> low], fill) :
     e \in {<<1>>, <<127>>, <<128>>, <<255>>}, n \in {1, 3, 7}, low \in {0, 255}, fill \in {0, 255}}
Numbers64 ==
  {<<"unsigned", w>> : w \in Words64} \cup {<<"integer", w>> : w \in Words64} \cup
  {<<"float", <<64, 9, 33, 251, 84, 68, 45, 24>> >>}
Long(n) == [k \in 1..n |-> 97]
Name(k) == <<97 + (k \div 26), 97 + (k % 26)>>
Parts == {Null, Boolean(FALSE), Boolean(TRUE), EmptyArray, EmptyObject, String(<<78>>),
          <<"unsigned", B!Bytes(78)>>, <<"integer", B!Extended(<<128>>, 255)>>,
          <<"unsigned", B!Extended(<<128, 0, 0, 0, 0, 0, 0, 0>>, 0)>>, <<"float", [k \in 1..8 |-> 0]>>}
Shells(S1) ==
  {Array(s) : s \in UNION {[1..n -> S1] : n \in 0..2}} \cup
  {Object(f) : f \in UNION {[K -> S1] : K \in SUBSET {<<97>>, <<0>>}}}
Sized == {0, 1, 15, 16, 23, 24, 31, 32}
BinaryValues ==
  Parts \cup Numbers64 \cup {Array(<<v>>) : v \in Numbers64} \cup {Object(<<97>> :> v) : v \in Numbers64} \cup
  Shells(Parts) \cup {Object(<<97>> :> v) : v \in Shells({Null, Boolean(TRUE), String(<<>>)})} \cup
  {Array(<<v, v>>) : v \in Shells({Null, Boolean(TRUE)})} \cup
  {String(Long(n)) : n \in Sized \cup {127, 128, 255, 256}} \cup
  {Object(Long(n) :> String(Long(n))) : n \in Sized \cup {127, 128, 255, 256}} \cup
  {Array([k \in 1..n |-> v]) : n \in Sized, v \in {Null, Boolean(TRUE), EmptyArray}} \cup
  {Object(Long(1) :> Array([k \in 1..n |-> v])) : n \in {11, 15, 16}, v \in {Null, Boolean(TRUE)}} \cup
  {Object([x \in {Name(k) : k \in 1..n} |-> Null]) : n \in Sized}
Formats == {"cbor", "msgpack", "ubjson", "ubjson#", "ubjson$", "bson"}
Whole(format, v) == B!Written(format, v)
\* A document, and when it is short all that is left when its end is lost.
Cut(d) == {d} \cup IF Len(d) <= 30 THEN {SubSeq(d, 1, k) : k \in 0..(Len(d) - 1)} ELSE {}

(* Values for the edits: arrays and objects of two levels, among them an   *)
(* array of more than ten and keys that must be escaped in a pointer.      *)
EditKeys == {<<97>>, <<126, 49>>, <<97, 47, 98>>, <<48>>}
EditLeaves == {Null, Boolean(TRUE), <<"unsigned", 1>>}
EditShells(S1, n, keys) ==
  {Array(s) : s \in UNION {[1..m -> S1] : m \in 0..n}} \cup
  {Object(f) : f \in UNION {[K -> S1] : K \in SUBSET keys}}
InnerParts == EditShells({Null, <<"unsigned", 1>>}, 2, {<<97>>, <<126, 49>>})
EditValues ==
  EditLeaves \cup EditShells({Null, <<"unsigned", 1>>}, 3, EditKeys) \cup
  EditShells(InnerParts, 1, {<<97>>}) \cup
  {Array(<<v, w>>) : v \in InnerParts, w \in {Null, EmptyArray, Object(<<126, 49>> :> Null)}} \cup
  {Array([k \in 1..12 |-> <<"unsigned", k % 2>>]), Array([k \in 1..11 |-> <<"unsigned", 1>>])}

\* For copy and move: "", /a, /~01, /0, /1, /2, /-, /01, /a/a, /a/0, /0/a,
\* /0/0, /1/0, /~2 and a.
Pointers ==
  {<<>>, <<47, 97>>, <<47, 126, 48, 49>>, <<47, 48>>, <<47, 49>>, <<47, 50>>, <<47, 45>>, <<47, 48, 49>>,
   <<47, 97, 47, 97>>, <<47, 97, 47, 48>>, <<47, 48, 47, 97>>, <<47, 48, 47, 48>>, <<47, 49, 47, 48>>,
   <<47, 126, 50>>, <<97>>}
MovedIn ==
  InnerParts \cup EditShells({Array(<<Null>>), Object(<<97>> :> Null)}, 2, {<<97>>, <<126, 49>>})

(* Values for the callback parser: three levels of arrays and objects; and *)
(* what the callback rejects.                                              *)
One == <<"unsigned", 1>>
FilterParts == {One, Array(<<One>>), Object(<<97>> :> One)}
FilterShells ==
  {Array(s) : s \in UNION {[1..n -> FilterParts] : n \in 0..2}} \cup
  {Object(f) : f \in UNION {[K -> FilterParts] : K \in SUBSET {<<97>>, <<98>>}}}
FilterValues ==
  {One} \cup FilterShells \cup {Array(<<v, One>>) : v \in FilterShells} \cup
  {Object(<<97>> :> v @@ <<98>> :> One) : v \in FilterShells}
Marks == {<<t, depth>> : t \in {"begin_array", "end_array", "begin_object", "end_object"}, depth \in 0..2}
Filters ==
  [values : {{}, {One}}, keys : {{}}, at : {{}} \cup {{m} : m \in Marks}] \cup
  [values : {{}, {One}}, keys : {{<<97>>}}, at : {{}}]

Unwritten == <<91, 93>>
MCInit ==
  \/ \E t \in Texts, m \in {"throw", "quiet", "accept"} :
       /\ part = "text" /\ how = Plain /\ about = <<>> /\ result = <<>>
       /\ StartParser(t, m, Nothing)
  \/ \E v \in Values, h \in Hows :
       /\ part = "text" /\ Suits(h, v) /\ how = h /\ about = v /\ result = <<>>
       /\ StartParser(S!Dump(v), "throw", Nothing)
  \/ \E v \in FilterValues, r \in Filters :
       /\ part = "text" /\ how = Plain /\ about = v /\ result = <<>>
       /\ StartParser(S!Dump(v), "filter", r)
  \/ \E v \in BinaryValues, f \in Formats : \E d \in Cut(Whole(f, v)) :
       /\ part = "binary" /\ how = f /\ about = v /\ result = <<>>
       /\ StartParser(d, "throw", Nothing)
  \/ \E v, w \in EditValues :
       /\ part = "edit" /\ how \in {"diff", "merge"} /\ about = <<v, w>> /\ result = <<>>
       /\ StartParser(Unwritten, "throw", Nothing)
  \/ \E v \in EditValues :
       /\ part = "edit" /\ how = "flatten" /\ about = <<v>> /\ result = <<>>
       /\ StartParser(Unwritten, "throw", Nothing)
  \/ \E v \in MovedIn, from, to \in Pointers :
       /\ part = "edit" /\ how \in {"copy", "move"} /\ about = <<v, from, to>> /\ result = <<>>
       /\ StartParser(Unwritten, "throw", Nothing)

\* Whether dump or a binary writer threw in place of writing a text.
Threw == S!Thrown \in {text[k] : k \in DOMAIN text}

ReadText ==
  /\ part = "text" /\ ~Threw /\ JsonNext
  /\ UNCHANGED <<part, how, about, result>>

ReadBinary ==
  /\ part = "binary" /\ ~Threw /\ result = <<>>
  /\ result' = B!Parsed(how, text)
  /\ UNCHANGED <<lexer, parser, part, how, about>>

\* What a pointer leads to in v; whether it leads to something.
Found(v, s) == IF P!Refused(P!Split(s)) THEN P!Split(s) ELSE P!At(v, P!Split(s)[2])
Reaches(v, s) == ~P!Refused(Found(v, s))

Copy(v, from, to) ==
  <<[op |-> "copy", from |-> from, path |-> to], [op |-> "test", path |-> to, value |-> Found(v, from)]>>
Move(from, to) == [op |-> "move", from |-> from, path |-> to]

Edit ==
  /\ part = "edit" /\ result = <<>>
  /\ result' = CASE how = "diff" -> P!Patch(about[1], P!Diff(about[1], about[2], <<>>))
                 [] how = "merge" -> P!MergePatch(about[1], about[2])
                 [] how = "flatten" -> P!Unflatten(P!Flatten(about[1]))
                 [] how = "copy" -> P!Patch(about[1], Copy(about[1], about[2], about[3]))
                 [] how = "move" -> P!Patch(about[1], <<Move(about[2], about[3]), Move(about[3], about[2])>>)
  /\ UNCHANGED <<lexer, parser, part, how, about>>

MCNext == ReadText \/ ReadBinary \/ Edit

MCSpec == MCInit /\ [][MCNext]_mcVars

-----------------------------------------------------------------------------
\* Whether result o is right for a text that says the values `said`, none or one.
Says(o, said) ==
  CASE mode = "throw" /\ said = {} -> o \in {<<"exception", 101>>, <<"exception", 406>>}
    [] mode = "quiet" /\ said = {} -> o = <<"discarded">>
    [] mode = "accept" -> o = <<"accepted", said # {}>>
    [] mode \in {"throw", "quiet"} /\ said # {} -> o[1] = "value" /\ {o[2]} = said

\* What the callback leaves of v at a depth, if anything; v without what is
\* marked as discarded in it.
RECURSIVE Wanted(_, _, _), Purged(_)
Wanted(v, depth, r) ==
  CASE Type(v) \in Scalars -> {v} \ r.values
    [] Type(v) = "array" ->
         IF {<<"begin_array", depth>>, <<"end_array", depth>>} \cap r.at # {} THEN {}
         ELSE {Array(FlattenSeq([k \in DOMAIN Content(v) |-> SetToSeq(Wanted(Content(v)[k], depth + 1, r))]))}
    [] Type(v) = "object" ->
         IF {<<"begin_object", depth>>, <<"end_object", depth>>} \cap r.at # {} THEN {}
         ELSE LET keys == {k \in DOMAIN Content(v) \ r.keys : Wanted(Content(v)[k], depth + 1, r) # {}}
              IN {Object([k \in keys |-> CHOOSE w \in Wanted(Content(v)[k], depth + 1, r) : TRUE])}
Purged(v) ==
  CASE Type(v) \in Scalars -> v
    [] Type(v) = "array" ->
         LET left == SelectSeq(Content(v), LAMBDA w : w # Discarded)
         IN Array([k \in DOMAIN left |-> Purged(left[k])])
    [] Type(v) = "object" ->
         Object([k \in {k \in DOMAIN Content(v) : Content(v)[k] # Discarded} |-> Purged(Content(v)[k])])
Left(v, kept) == {Purged(v)} = IF kept = {} THEN {Null} ELSE kept

\* Whatever the text, the parser ends with the one value that the text says,
\* or refuses it when it says none: it throws, it returns a discarded value
\* or it does not accept.  What a callback rejects is not in the value, and
\* all the rest is: a value, a member by its key, an array or an object when
\* it starts or when it ends; members and elements that are marked as
\* discarded but were not erased do not count.  (parse, accept,
\* sax_parse_internal, scan, json_sax_dom_callback_parser.)
Understood ==
  part = "text" /\ point = "returned" =>
    CASE mode = "filter" -> outcome[1] = "value" /\ Left(outcome[2], Wanted(about, 0, rejected))
      [] mode # "filter" /\ about = <<>> -> Says(outcome, Said(text))
      [] mode # "filter" /\ about # <<>> -> TRUE

\* The characters of s, each piece that is none replaced by r: as many bytes
\* as could begin a character, at least one.
Begins(u) ==
  \/ IsCharacter(u)
  \/ \E x, y, z \in {128, 143, 144, 159, 160, 191} :
       IsCharacter(u \o <<x>>) \/ IsCharacter(u \o <<x, y>>) \/ IsCharacter(u \o <<x, y, z>>)
RECURSIVE Repaired(_, _)
Repaired(s, r) ==
  IF s = <<>> THEN <<>>
  ELSE LET k == Max({1} \cup {k \in 1..Len(s) : k <= 4 /\ Begins(Slice(s, 1, k))})
           whole == {j \in 1..k : IsCharacter(Slice(s, 1, j))}
       IN IF whole # {} THEN Slice(s, 1, Max(whole)) \o Repaired(Slice(s, Max(whole) + 1, Len(s)), r)
          ELSE r \o Repaired(Slice(s, k + 1, Len(s)), r)

\* The value that parsing back is to give.
Expected ==
  IF Type(about) # "string" THEN about
  ELSE String(Repaired(Content(about), IF how.handler = "replace" THEN <<239, 191, 189>> ELSE <<>>))

\* What dump writes is read back as the value that was dumped, in any layout;
\* strings that are no UTF-8 make it throw, or are repaired as the error
\* handler says.  (dump, dump_escaped, decode; parse.)
TextTrip ==
  part = "text" /\ mode # "filter" /\ about # <<>> =>
    IF how.handler = "strict" /\ Expected # about THEN Threw
    ELSE point = "returned" => outcome[1] = "value" /\ Equal(outcome[2], Expected)

\* The same number, of either type when it is not negative, or the same value.
RECURSIVE Same(_, _)
Same(v, w) ==
  IF IsNumber(v) /\ IsNumber(w) THEN Content(v) = Content(w) /\ (B!Negative(Content(v)) => Type(v) = Type(w))
  ELSE IF Type(v) # Type(w) THEN FALSE
  ELSE IF Type(v) \in {"array", "object"}
  THEN /\ DOMAIN Content(v) = DOMAIN Content(w)
       /\ \A k \in DOMAIN Content(v) : Same(Content(v)[k], Content(w)[k])
  ELSE v = w

\* What some format has no form for: numbers from 2^63 on, keys with a 0 byte.
RECURSIVE Fits(_, _)
Fits(f, v) ==
  CASE Type(v) = "unsigned" -> ~B!Negative(Content(v)) \/ f \in {"cbor", "msgpack"}
    [] Type(v) \in {"array", "object"} ->
         /\ \A k \in DOMAIN Content(v) : Fits(f, Content(v)[k])
         /\ f = "bson" /\ Type(v) = "object" => \A k \in DOMAIN Content(v) : 0 \notin {k[j] : j \in DOMAIN k}
    [] OTHER -> TRUE
Writable(f, v) == Fits(f, v) /\ (f = "bson" => Type(v) = "object")

\* What a binary writer writes is read back as the value that was written,
\* and a document that lost its end is refused; the writer throws for exactly
\* the values its format has no form for; a BSON document says its own length,
\* which is computed before it is written.  (binary_writer, binary_reader.)
BinaryTrip ==
  part = "binary" =>
    /\ IF ~Writable(how, about) THEN result = <<>> \/ result = <<"exception">>
       ELSE result # <<>> =>
              IF text = Whole(how, about) THEN result[1] = "value" /\ Same(result[2], about)
              ELSE result = <<"exception">>
    /\ text = Whole(how, about) => (Threw <=> ~Writable(how, about))
    /\ how = "bson" /\ ~Threw /\ text = Whole(how, about) => Len(text) = text[1] + 256 * text[2]

\* v without what flatten does not keep, and whether it has a member "0".
RECURSIVE Nulled(_), HasZero(_)
Nulled(v) ==
  IF P!IsPrimitive(v) THEN v ELSE IF Content(v) = <<>> THEN Null
  ELSE <<Type(v), [k \in DOMAIN Content(v) |-> Nulled(Content(v)[k])]>>
HasZero(v) ==
  /\ ~P!IsPrimitive(v)
  /\ \E k \in DOMAIN Content(v) : (Type(v) = "object" /\ k = <<48>>) \/ HasZero(Content(v)[k])

\* r is v after the merge patch p, member by member (RFC 7396).
RECURSIVE IsMerged(_, _, _)
IsMerged(r, v, p) ==
  IF Type(p) # "object" THEN r = p
  ELSE LET f == IF Type(v) = "object" THEN Content(v) ELSE <<>>
           g == Content(p)
       IN /\ Type(r) = "object"
          /\ \A k \in DOMAIN f \cup DOMAIN g \cup DOMAIN Content(r) :
               CASE k \notin DOMAIN g -> k \in DOMAIN f \cap DOMAIN Content(r) /\ Content(r)[k] = f[k]
                 [] k \in DOMAIN g /\ g[k] = Null -> k \notin DOMAIN Content(r)
                 [] k \in DOMAIN g /\ g[k] # Null ->
                      k \in DOMAIN Content(r) /\
                      IsMerged(Content(r)[k], IF k \in DOMAIN f THEN f[k] ELSE Null, g[k])

\* Whether add has a place in v for the pointer: a member of an object or an
\* index of an array up to its end.
HasPlace(v, s) ==
  \/ s = <<>>
  \/ /\ ~P!Refused(P!Split(s)) /\ s # <<>>
     /\ LET parent == P!At(v, Front(P!Split(s)[2]))
            last == Last(P!Split(s)[2])
        IN \/ Type(parent) = "object"
           \/ Type(parent) = "array" /\ \E k \in 0..Len(Content(parent)) : last = P!Numeral(k)

\* What is moved from the one to the other can be moved back: the place is
\* not within it, and nothing is lost there.
Movable(v, from, to) ==
  /\ Reaches(v, from) /\ from # <<>> /\ to # <<>> /\ ~IsPrefix(from, to)
  /\ LET w == P!OperationRemove(v, P!Split(from)[2]) IN
     /\ HasPlace(w, to)
     /\ Type(P!At(w, Front(P!Split(to)[2]))) = "object" => ~Reaches(w, to)

\* source.patch(diff(source, target)) is target (json.hpp:7725-7728); a merge
\* patch changes and removes just the members it names; a copy can be tested
\* where it was made, and what was moved can be moved back; and unflatten
\* gives back what was flattened, null in place of what is empty, unless an
\* object has a member "0".  (diff, patch, merge_patch, flatten, unflatten.)
PatchTrip ==
  part = "edit" /\ result # <<>> =>
    CASE how = "diff" -> Equal(result, about[2])
      [] how = "merge" -> IsMerged(result, about[1], about[2])
      [] how = "copy" -> Reaches(about[1], about[2]) /\ HasPlace(about[1], about[3]) => ~P!Refused(result)
      [] how = "move" -> Movable(about[1], about[2], about[3]) => result = about[1]
      [] how = "flatten" -> HasZero(about[1]) \/ result = Nulled(about[1])
=============================================================================
