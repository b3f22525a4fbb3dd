------------------------------ MODULE JsonPatch ------------------------------
(***************************************************************************)
(* json_pointer, and what is made of it: patch and diff (RFC 6902),        *)
(* merge_patch (RFC 7396), flatten and unflatten.                          *)
(* Source: nlohmann/detail/json_pointer.hpp and nlohmann/json.hpp.         *)
(*                                                                         *)
(* A pointer is a string in a patch and a sequence of reference tokens     *)
(* once it is split.  Exception(n) in place of a result is the exception   *)
(* numbered n; 0 is std::invalid_argument from stoi, and "assert" the      *)
(* assertion that no add meets a parent that is neither null, object nor   *)
(* array.  An operation of a patch is a record of its members, which are   *)
(* all there; tokens that stoi reads with a sign or after spaces are left  *)
(* out.                                                                    *)
(***************************************************************************)
EXTENDS JsonValue

Exception(n) == <<"exception", n>>
Refused(r) == Type(r) = "exception"
Then(r, Go(_)) == IF Refused(r) THEN r ELSE Go(r)
IsPrimitive(v) == Type(v) \notin {"array", "object"}
Dash == <<45>>
IsDigit(b) == b \in 48..57

\* std::to_string of an index, from 0.
RECURSIVE Numeral(_)
Numeral(n) == IF n < 10 THEN <<48 + n>> ELSE Append(Numeral(n \div 10), 48 + (n % 10))

-----------------------------------------------------------------------------
(* json_pointer: from a string and to one.                                 *)

\* replace_substring: every f in s by t, which is not looked at again.
RECURSIVE ReplaceSubstring(_, _, _)
ReplaceSubstring(s, f, t) ==
  IF Len(s) < Len(f) THEN s
  ELSE IF IsPrefix(f, s) THEN t \o ReplaceSubstring(SubSeq(s, Len(f) + 1, Len(s)), f, t)
  ELSE <<Head(s)>> \o ReplaceSubstring(Tail(s), f, t)

Escape(s) == ReplaceSubstring(ReplaceSubstring(s, <<126>>, <<126, 48>>), <<47>>, <<126, 49>>)
Unescape(s) == ReplaceSubstring(ReplaceSubstring(s, <<126, 49>>, <<47>>), <<126, 48>>, <<126>>)

\* split: the tokens between the slashes.
Split(s) ==
  IF s = <<>> THEN <<"pointer", <<>> >>
  ELSE IF s[1] # 47 THEN Exception(107)
  ELSE IF \E k \in DOMAIN s : s[k] = 126 /\ (k = Len(s) \/ s[k + 1] \notin {48, 49}) THEN Exception(108)
  ELSE LET tokens == FoldLeft(LAMBDA ts, b : IF b = 47 THEN Append(ts, <<>>)
                                             ELSE [ts EXCEPT ![Len(ts)] = Append(@, b)], <<>>, s)
       IN <<"pointer", [k \in DOMAIN tokens |-> Unescape(tokens[k])]>>

\* array_index: <<"index", n>>, or an exception, 0 when stoi finds no digit.
ArrayIndex(t) ==
  IF t = <<>> \/ ~IsDigit(t[1]) THEN Exception(0)
  ELSE IF \E k \in DOMAIN t : ~IsDigit(t[k]) THEN Exception(404)
  ELSE <<"index", FoldLeft(LAMBDA n, b : n * 10 + b - 48, 0, t)>>

\* The index as get_checked and get_unchecked read it.
StepIndex(t) ==
  IF Len(t) > 1 /\ t[1] = 48 THEN Exception(106)
  ELSE IF ArrayIndex(t) = Exception(0) THEN Exception(109) ELSE ArrayIndex(t)

-----------------------------------------------------------------------------
(* The part of a value that a pointer leads to.                            *)

CheckedStep(v, t) ==
  CASE Type(v) = "object" -> IF t \in DOMAIN Content(v) THEN <<"key", t>> ELSE Exception(403)
    [] Type(v) = "array" ->
         IF t = Dash THEN Exception(402)
         ELSE Then(StepIndex(t), LAMBDA n :
                IF n[2] >= Len(Content(v)) THEN Exception(401) ELSE <<"key", n[2] + 1>>)
    [] OTHER -> Exception(404)

\* get_checked, at: the path of a pointer's tokens in v.
RECURSIVE GetChecked(_, _)
GetChecked(v, tokens) ==
  IF tokens = <<>> THEN <<"path", <<>> >>
  ELSE Then(CheckedStep(v, Head(tokens)), LAMBDA k :
         Then(GetChecked(Content(v)[k[2]], Tail(tokens)), LAMBDA rest : <<"path", <<k[2]>> \o rest[2]>>))

At(v, tokens) == Then(GetChecked(v, tokens), LAMBDA p : ValueAt(v, p[2]))

\* operator[] of an array: the elements that are missing up to index n are null.
Grown(s, n) == IF n < Len(s) THEN s ELSE s \o [k \in 1..(n + 1 - Len(s)) |-> Null]

\* What a null becomes when a token leads on from it.
Opened(v, t) ==
  IF Type(v) # "null" THEN v
  ELSE IF t = Dash \/ \A k \in DOMAIN t : IsDigit(t[k]) THEN EmptyArray ELSE EmptyObject

\* The key or index where get_unchecked goes on in v.
UncheckedStep(v, t) ==
  CASE Type(v) = "object" -> <<"key", t>>
    [] Type(v) = "array" ->
         IF t = Dash THEN <<"key", Len(Content(v)) + 1>>
         ELSE Then(StepIndex(t), LAMBDA n : <<"key", n[2] + 1>>)
    [] OTHER -> Exception(404)

\* The content of v with its part k there, null when it is new.
Widened(v, k) == IF Type(v) = "array" THEN Grown(Content(v), k - 1) ELSE Content(v) @@ (k :> Null)
WithPart(v, k, x) == Assigned(<<Type(v), Widened(v, k)>>, <<k>>, x)

\* get_unchecked: v with all that tokens lead through made, and their path.
RECURSIVE GetUnchecked(_, _)
GetUnchecked(v, tokens) ==
  IF tokens = <<>> THEN <<"made", v, <<>> >>
  ELSE LET w == Opened(v, Head(tokens)) IN
       Then(UncheckedStep(w, Head(tokens)), LAMBDA k :
         Then(GetUnchecked(Widened(w, k[2])[k[2]], Tail(tokens)), LAMBDA rest :
           <<"made", WithPart(w, k[2], rest[2]), <<k[2]>> \o rest[3]>>))

-----------------------------------------------------------------------------
(* patch.                                                                  *)

\* parent with val as its member or before its element last.
AddedTo(parent, last, val) ==
  CASE Type(parent) = "null" -> Object(last :> val)
    [] Type(parent) = "object" -> Object((last :> val) @@ Content(parent))
    [] Type(parent) = "array" ->
         IF last = Dash THEN Array(Append(Content(parent), val))
         ELSE Then(ArrayIndex(last), LAMBDA n :
                IF n[2] > Len(Content(parent)) THEN Exception(401)
                ELSE Array(InsertAt(Content(parent), n[2] + 1, val)))
    [] OTHER -> Exception("assert")

\* Of the tokens before the last only the first must lead to something.
OperationAdd(v, tokens, val) ==
  IF tokens = <<>> THEN val
  ELSE Then(IF Len(tokens) > 1 THEN GetChecked(v, <<Head(tokens)>>) ELSE v, LAMBDA top :
         Then(GetUnchecked(v, Front(tokens)), LAMBDA made :
           Then(AddedTo(ValueAt(made[2], made[3]), Last(tokens), val), LAMBDA parent :
             Assigned(made[2], made[3], parent))))

\* parent without its member or element last; of others nothing is removed.
RemovedFrom(parent, last) ==
  CASE Type(parent) = "object" ->
         IF last \in DOMAIN Content(parent)
         THEN Object([k \in DOMAIN Content(parent) \ {last} |-> Content(parent)[k]])
         ELSE Exception(403)
    [] Type(parent) = "array" ->
         Then(ArrayIndex(last), LAMBDA n :
           IF n[2] >= Len(Content(parent)) THEN Exception(401)
           ELSE Array(RemoveAt(Content(parent), n[2] + 1)))
    [] OTHER -> parent

OperationRemove(v, tokens) ==
  IF tokens = <<>> THEN Exception(405)
  ELSE Then(GetChecked(v, Front(tokens)), LAMBDA p :
         Then(RemovedFrom(ValueAt(v, p[2]), Last(tokens)), LAMBDA parent : Assigned(v, p[2], parent)))

OperationReplace(v, tokens, val) ==
  Then(GetChecked(v, tokens), LAMBDA p : Assigned(v, p[2], val))

OperationCopy(v, from, tokens) ==
  Then(At(v, from), LAMBDA part : OperationAdd(v, tokens, part))

OperationMove(v, from, tokens) ==
  Then(At(v, from), LAMBDA part :
    Then(OperationRemove(v, from), LAMBDA rest : OperationAdd(rest, tokens, part)))

\* What cannot be found fails the test; a pointer that is none is an error.
OperationTest(v, tokens, val) ==
  LET part == At(v, tokens) IN
  CASE Refused(part) /\ part[2] < 400 -> part
    [] ~Refused(part) /\ Equal(part, val) -> v
    [] OTHER -> Exception(501)

Operation(v, o) ==
  Then(Split(o.path), LAMBDA ptr :
    CASE o.op = "add" -> OperationAdd(v, ptr[2], o.value)
      [] o.op = "remove" -> OperationRemove(v, ptr[2])
      [] o.op = "replace" -> OperationReplace(v, ptr[2], o.value)
      [] o.op = "move" -> Then(Split(o.from), LAMBDA from : OperationMove(v, from[2], ptr[2]))
      [] o.op = "copy" -> Then(Split(o.from), LAMBDA from : OperationCopy(v, from[2], ptr[2]))
      [] o.op = "test" -> OperationTest(v, ptr[2], o.value))

\* The operations one after the other, up to the first that throws.
Patch(v, patch) == FoldLeft(LAMBDA r, o : Then(r, LAMBDA w : Operation(w, o)), v, patch)

-----------------------------------------------------------------------------
(* diff.                                                                   *)

Replaced(path, v) == [op |-> "replace", path |-> path, value |-> v]
Removed(path) == [op |-> "remove", path |-> path]
Added(path, v) == [op |-> "add", path |-> path, value |-> v]

RECURSIVE Diff(_, _, _)

\* Mutant of DiffArrays: elements are removed from the first on.
DiffArrays_Forward(s, t, path) ==
  LET both == IF Len(s) < Len(t) THEN Len(s) ELSE Len(t)
      at(k) == path \o <<47>> \o Numeral(k - 1)
  IN FlattenSeq([k \in 1..both |-> Diff(s[k], t[k], at(k))])
       \o [k \in 1..(Len(s) - both) |-> Removed(at(both + k))]
       \o [k \in 1..(Len(t) - both) |-> Added(at(both + k), t[both + k])]

\* Common elements first, then those of s that are too many, the last first
\* so that the indices stay right, or those of t that are missing.
DiffArrays(s, t, path) ==
  LET both == IF Len(s) < Len(t) THEN Len(s) ELSE Len(t)
      at(k) == path \o <<47>> \o Numeral(k - 1)
  IN FlattenSeq([k \in 1..both |-> Diff(s[k], t[k], at(k))])
       \o [k \in 1..(Len(s) - both) |-> Removed(at(Len(s) + 1 - k))]
       \o [k \in 1..(Len(t) - both) |-> Added(at(both + k), t[both + k])]

DiffObjects(f, g, path) ==
  LET at(k) == path \o <<47>> \o Escape(k)
      new == SelectSeq(Keys(g), LAMBDA k : k \notin DOMAIN f)
  IN FlattenSeq([j \in DOMAIN Keys(f) |->
                   LET k == Keys(f)[j] IN
                   IF k \in DOMAIN g THEN Diff(f[k], g[k], at(k)) ELSE <<Removed(at(k))>>])
       \o [j \in DOMAIN new |-> Added(at(new[j]), g[new[j]])]

Diff(source, target, path) ==
  IF Equal(source, target) THEN <<>>
  ELSE IF Type(source) # Type(target) \/ IsPrimitive(source) THEN <<Replaced(path, target)>>
  ELSE IF Type(source) = "array" THEN DiffArrays(Content(source), Content(target), path)
  ELSE DiffObjects(Content(source), Content(target), path)

-----------------------------------------------------------------------------
\* merge_patch.
RECURSIVE MergePatch(_, _)
MergePatch(v, patch) ==
  IF Type(patch) # "object" THEN patch
  ELSE LET f == IF Type(v) = "object" THEN Content(v) ELSE <<>>
           g == Content(patch)
           part(k) == IF k \in DOMAIN f THEN f[k] ELSE Null
       IN Object([k \in (DOMAIN f \cup DOMAIN g) \ {k \in DOMAIN g : g[k] = Null} |->
                    IF k \in DOMAIN g THEN MergePatch(part(k), g[k]) ELSE f[k]])

-----------------------------------------------------------------------------
(* flatten: an object from pointers to primitive values.                   *)

RECURSIVE FlattenAt(_, _)
FlattenAt(path, v) ==
  LET c == Content(v) IN
  CASE IsPrimitive(v) -> path :> v
    [] ~IsPrimitive(v) /\ c = <<>> -> path :> Null
    [] Type(v) = "array" /\ c # <<>> ->
         FoldSet(LAMBDA k, f : f @@ FlattenAt(path \o <<47>> \o Numeral(k - 1), c[k]), <<>>, DOMAIN c)
    [] Type(v) = "object" /\ c # <<>> ->
         FoldSet(LAMBDA k, f : f @@ FlattenAt(path \o <<47>> \o Escape(k), c[k]), <<>>, DOMAIN c)

Flatten(v) == Object(FlattenAt(<<>>, v))

\* The key or index where get_and_create goes on in v.
CreatedStep(v, t) ==
  CASE Type(v) = "object" -> <<"key", t>>
    [] Type(v) = "array" ->
         IF ArrayIndex(t) = Exception(0) THEN Exception(109)
         ELSE Then(ArrayIndex(t), LAMBDA n : <<"key", n[2] + 1>>)
    [] OTHER -> Exception(313)

\* v with x where tokens lead, through get_and_create: a null becomes an
\* array only for the token "0".
RECURSIVE Created(_, _, _)
Created(v, tokens, x) ==
  IF tokens = <<>> THEN x
  ELSE LET t == Head(tokens)
           w == IF Type(v) # "null" THEN v ELSE IF t = <<48>> THEN EmptyArray ELSE EmptyObject
       IN Then(CreatedStep(w, t), LAMBDA k :
            Then(Created(Widened(w, k[2])[k[2]], Tail(tokens), x), LAMBDA part : WithPart(w, k[2], part)))

\* The pointers in the order of the keys.
Unflatten(v) ==
  IF Type(v) # "object" THEN Exception(314)
  ELSE FoldLeft(LAMBDA r, k :
                  Then(r, LAMBDA w :
                    IF ~IsPrimitive(Content(v)[k]) THEN Exception(315)
                    ELSE Then(Split(k), LAMBDA ptr : Created(w, ptr[2], Content(v)[k]))),
                Null, Keys(Content(v)))
=============================================================================
