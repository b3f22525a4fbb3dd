------------------------------ MODULE JsonValue ------------------------------
(***************************************************************************)
(* basic_json: the values, as pairs of a type and a content.  An array is  *)
(* a sequence of values, an object a function from keys, a string and a    *)
(* key a sequence of bytes; a path is the keys and indices that lead to a  *)
(* part of a value, which the source holds a pointer to.                   *)
(* Source: nlohmann/json.hpp.                                              *)
(***************************************************************************)
EXTENDS Integers, Sequences, SequencesExt, TLC

Null == <<"null">>
Discarded == <<"discarded">>
Boolean(b) == <<"boolean", b>>
String(s) == <<"string", s>>
Array(s) == <<"array", s>>
Object(f) == <<"object", f>>
EmptyArray == Array(<<>>)
EmptyObject == Object(<<>>)

Type(v) == v[1]
Content(v) == v[2]
IsNumber(v) == Type(v) \in {"unsigned", "integer"}
Scalars == {"null", "boolean", "string", "unsigned", "integer", "float"}

\* The part of v at the end of path p.
RECURSIVE ValueAt(_, _)
ValueAt(v, p) == IF p = <<>> THEN v ELSE ValueAt(Content(v)[Head(p)], Tail(p))

\* v with w at the end of path p, its last step perhaps a new key or the
\* index after the last.
RECURSIVE Assigned(_, _, _)
Assigned(v, p, w) ==
  IF p = <<>> THEN w
  ELSE LET k == Head(p)
           part == IF k \in DOMAIN Content(v) THEN Assigned(Content(v)[k], Tail(p), w) ELSE w
       IN IF Type(v) = "array"
          THEN Array(IF k \in DOMAIN Content(v) THEN [Content(v) EXCEPT ![k] = part]
                     ELSE Append(Content(v), part))
          ELSE Object((k :> part) @@ Content(v))

\* operator==: numbers are compared by what they say.
RECURSIVE Equal(_, _)
Equal(a, b) ==
  IF IsNumber(a) /\ IsNumber(b) THEN Content(a) = Content(b)
  ELSE IF Type(a) # Type(b) THEN FALSE
  ELSE CASE Type(a) \in {"array", "object"} ->
              /\ DOMAIN Content(a) = DOMAIN Content(b)
              /\ \A k \in DOMAIN Content(a) : Equal(Content(a)[k], Content(b)[k])
         [] OTHER -> a = b

\* The order of bytes in std::string, in which std::map keeps its keys.
Before(s, t) ==
  \/ \E k \in DOMAIN s \cap DOMAIN t :
        /\ s[k] < t[k]
        /\ \A j \in 1..(k - 1) : s[j] = t[j]
  \/ Len(s) < Len(t) /\ \A j \in DOMAIN s : s[j] = t[j]

Keys(f) ==
  FoldSet(LAMBDA k, s : SelectSeq(s, LAMBDA j : Before(j, k)) \o <<k>> \o SelectSeq(s, LAMBDA j : Before(k, j)),
          <<>>, DOMAIN f)
=============================================================================
