------------------------------ MODULE JsonParser -----------------------------
(***************************************************************************)
(* parser with json_sax_dom_parser, json_sax_dom_callback_parser or        *)
(* json_sax_acceptor: the tokens of a text put together into a value, or   *)
(* refused.  One action is what the parser does between two calls of       *)
(* get_token.                                                              *)
(* Source: nlohmann/detail/input/parser.hpp, json_sax.hpp; json::parse and *)
(* json::accept of nlohmann/json.hpp.                                      *)
(***************************************************************************)
EXTENDS JsonLexer, JsonValue

VARIABLES
  mode,            \* "throw" (parse), "quiet" (parse without exceptions), "accept",
                   \* "filter" (parse with a callback)
  rejected,        \* what the callback returns false for
  states,          \* TRUE for an open array, FALSE for an open object
  point,           \* where the parser waits for the token
  root,            \* the value built so far
  ref_stack,       \* the paths of the open arrays and objects
  object_element,  \* the path of the member the next value belongs to
  alive,           \* for each of ref_stack, whether it is no null pointer
  keep_stack,      \* what the callback said at the start of each, TRUE in front
  key_keep_stack,  \* what the callback said of the keys whose value did not come
  errored,
  outcome          \* what the call returned or threw, <<>> before

filter == <<alive, keep_stack, key_keep_stack>>
sax == <<root, ref_stack, object_element, filter>>
parser == <<mode, rejected, states, point, sax, errored, outcome>>

\* The callback is asked about values, keys, and the depths at which arrays
\* and objects start and end.
Nothing == [values |-> {}, keys |-> {}, at |-> {}]

StartParser(t, m, r) ==
  /\ Start(t)
  /\ rejected = r /\ alive = <<>> /\ keep_stack = <<TRUE>> /\ key_keep_stack = <<>>
  /\ mode = m /\ states = <<>> /\ point = "value"
  /\ root = Null /\ ref_stack = <<>> /\ object_element = <<>>
  /\ errored = FALSE /\ outcome = <<>>

-----------------------------------------------------------------------------
(* The events of the parser; the acceptor does nothing at any of them.     *)

\* handle_value: where value v goes and the root with it.
HandleValue(v) ==
  LET ref == Last(ref_stack)
      parent == ValueAt(root, ref)
      to == IF ref_stack = <<>> THEN <<>>
            ELSE IF Type(parent) = "array" THEN Append(ref, Len(Content(parent)) + 1)
            ELSE object_element
  IN [root |-> Assigned(root, to, v), to |-> to]

\* What the callback parser makes of v, its container kept or not, the callback
\* asked or not: the root, the path of v, whether it is there, and the keys.
NotHandled == [root |-> root, to |-> <<>>, kept |-> FALSE, keys |-> key_keep_stack]
Handled(v, keep, skip_callback) ==
  IF ~keep \/ ~(skip_callback \/ v \notin rejected.values) \/ (ref_stack # <<>> /\ ~Last(alive)) THEN NotHandled
  ELSE IF ref_stack = <<>> \/ Type(ValueAt(root, Last(ref_stack))) = "array"
  THEN [root |-> HandleValue(v).root, to |-> HandleValue(v).to, kept |-> TRUE, keys |-> key_keep_stack]
  ELSE IF ~Last(key_keep_stack) THEN [NotHandled EXCEPT !.keys = Front(@)]
  ELSE [root |-> Assigned(root, object_element, v), to |-> object_element, kept |-> TRUE,
        keys |-> Front(key_keep_stack)]

FilterValue(v) ==
  LET h == Handled(v, Last(keep_stack), FALSE) IN
  /\ root' = h.root /\ key_keep_stack' = h.keys
  /\ UNCHANGED <<ref_stack, object_element, alive, keep_stack>>

FilterStart(empty) ==
  LET keep == <<token[1], Len(ref_stack)>> \notin rejected.at
      h == Handled(empty, keep, TRUE)
  IN /\ keep_stack' = Append(keep_stack, keep)
     /\ root' = h.root /\ key_keep_stack' = h.keys
     /\ ref_stack' = Append(ref_stack, h.to) /\ alive' = Append(alive, h.kept)

\* Mutant of FilterKey: what the callback says of a key is not remembered.
FilterKey_Taken(k) ==
  LET keep == k \notin rejected.keys IN
  /\ key_keep_stack' = Append(key_keep_stack, TRUE)
  /\ IF keep /\ Last(alive)
     THEN /\ object_element' = Append(Last(ref_stack), k)
          /\ root' = Assigned(root, Append(Last(ref_stack), k), Discarded)
     ELSE UNCHANGED <<object_element, root>>
  /\ UNCHANGED <<ref_stack, alive, keep_stack>>

FilterKey(k) ==
  LET keep == k \notin rejected.keys IN
  /\ key_keep_stack' = Append(key_keep_stack, keep)
  /\ IF keep /\ Last(alive)
     THEN /\ object_element' = Append(Last(ref_stack), k)
          /\ root' = Assigned(root, Append(Last(ref_stack), k), Discarded)
     ELSE UNCHANGED <<object_element, root>>
  /\ UNCHANGED <<ref_stack, alive, keep_stack>>

\* The first discarded member of an object is erased, when another member ends.
Erased(v) ==
  LET f == Content(v)
      gone == SelectSeq(Keys(f), LAMBDA k : f[k] = Discarded)
  IN IF gone = <<>> THEN v ELSE Object([k \in DOMAIN f \ {gone[1]} |-> f[k]])

FilterEnd ==
  LET keep == Last(alive) => <<token[1], Len(ref_stack) - 1>> \notin rejected.at
      ended == IF keep THEN root ELSE Assigned(root, Last(ref_stack), Discarded)
      under == Front(ref_stack)
      parent == IF under # <<>> /\ Last(Front(alive)) THEN ValueAt(ended, Last(under)) ELSE Null
  IN /\ root' = IF token[1] = "end_object" /\ Type(parent) = "object"
                THEN Assigned(ended, Last(under), Erased(parent))
                ELSE IF token[1] = "end_array" /\ ~keep /\ Type(parent) = "array"
                THEN Assigned(ended, Last(under), Array(Front(Content(parent))))
                ELSE ended
     /\ ref_stack' = under /\ alive' = Front(alive) /\ keep_stack' = Front(keep_stack)
     /\ UNCHANGED key_keep_stack

DomValue(v) ==
  IF mode = "filter" THEN FilterValue(v)
  ELSE /\ root' = IF mode = "accept" THEN root ELSE HandleValue(v).root
       /\ UNCHANGED <<ref_stack, object_element, filter>>

DomStart(empty) ==
  /\ UNCHANGED object_element
  /\ IF mode = "filter" THEN FilterStart(empty)
     ELSE /\ IF mode = "accept" THEN UNCHANGED <<root, ref_stack>>
             ELSE /\ root' = HandleValue(empty).root
                  /\ ref_stack' = Append(ref_stack, HandleValue(empty).to)
          /\ UNCHANGED filter

\* key: operator[] of the map, which adds null when the key is new.
DomKey(k) ==
  LET to == Append(Last(ref_stack), k) IN
  IF mode = "filter" THEN FilterKey(k)
  ELSE /\ IF mode = "accept" THEN UNCHANGED <<root, object_element>>
          ELSE /\ object_element' = to
               /\ root' = IF k \in DOMAIN Content(ValueAt(root, Last(ref_stack))) THEN root
                          ELSE Assigned(root, to, Null)
       /\ UNCHANGED <<ref_stack, filter>>

DomEnd ==
  /\ UNCHANGED object_element
  /\ IF mode = "filter" THEN FilterEnd
     ELSE /\ ref_stack' = IF mode = "accept" THEN ref_stack ELSE Front(ref_stack)
          /\ UNCHANGED <<root, filter>>

-----------------------------------------------------------------------------
At(p) == point = p /\ label = "idle"

\* get_token, whose token is looked at at point p.
GetToken(p) == Scan /\ point' = p

\* The next step needs no new token.
Loop(p) == point' = p /\ UNCHANGED lexer

Finish(o) == outcome' = o /\ point' = "returned" /\ UNCHANGED lexer

\* parse_error of the sax: throws, or is remembered and parsing ends; parse
\* then still asks for the end of the input.
ParseError(id) ==
  /\ UNCHANGED <<mode, rejected, states, sax>>
  /\ errored' = (mode = "quiet")
  /\ \/ mode \in {"throw", "filter"} /\ Finish(<<"exception", id>>)
     \/ mode = "accept" /\ Finish(<<"accepted", FALSE>>)
     \/ mode = "quiet" /\ point # "end" /\ GetToken("end") /\ UNCHANGED outcome
     \/ mode = "quiet" /\ point = "end" /\ Finish(<<"discarded">>)

Goes == UNCHANGED <<mode, rejected, errored, outcome>>

\* A token that is not the one wanted here is a syntax error.
Wants(p, wanted) ==
  At(p) /\ token[1] \notin wanted /\ ParseError(101)

-----------------------------------------------------------------------------
(* sax_parse_internal.                                                     *)

BeginObject ==
  /\ At("value") /\ token[1] = "begin_object"
  /\ DomStart(EmptyObject) /\ GetToken("first key")
  /\ Goes /\ UNCHANGED states

FirstKey ==
  \/ /\ At("first key") /\ token[1] = "end_object"
     /\ DomEnd /\ Loop("evaluate")
     /\ Goes /\ UNCHANGED states
  \/ /\ At("first key") /\ token[1] = "value_string"
     /\ DomKey(token[2]) /\ GetToken("first separator")
     /\ Goes /\ UNCHANGED states
  \/ Wants("first key", {"end_object", "value_string"})

FirstSeparator ==
  \/ /\ At("first separator") /\ token[1] = "name_separator"
     /\ states' = Append(states, FALSE)
     /\ GetToken("value") /\ Goes /\ UNCHANGED sax
  \/ Wants("first separator", {"name_separator"})

BeginArray ==
  /\ At("value") /\ token[1] = "begin_array"
  /\ DomStart(EmptyArray) /\ GetToken("first element")
  /\ Goes /\ UNCHANGED states

FirstElement ==
  \/ /\ At("first element") /\ token[1] = "end_array"
     /\ DomEnd /\ Loop("evaluate")
     /\ Goes /\ UNCHANGED states
  \/ /\ At("first element") /\ token[1] # "end_array"
     /\ states' = Append(states, TRUE)
     /\ Loop("value") /\ Goes /\ UNCHANGED sax

\* The value of a token that is one.
ScalarTokens ==
  {"literal_true", "literal_false", "literal_null", "value_string",
   "value_unsigned", "value_integer", "value_float"}
TokenValue ==
  CASE token[1] = "literal_true" -> Boolean(TRUE)
    [] token[1] = "literal_false" -> Boolean(FALSE)
    [] token[1] = "literal_null" -> Null
    [] token[1] = "value_string" -> String(token[2])
    [] token[1] = "value_unsigned" -> <<"unsigned", token[2]>>
    [] token[1] = "value_integer" -> <<"integer", token[2]>>
    [] token[1] = "value_float" -> <<"float", token[2]>>

Infinite == token[1] = "value_float" /\ ~IsFinite(token[2])

ScalarValue ==
  /\ At("value") /\ token[1] \in ScalarTokens /\ ~Infinite
  /\ DomValue(TokenValue) /\ Loop("evaluate")
  /\ Goes /\ UNCHANGED states

NumberOverflow == At("value") /\ Infinite /\ ParseError(406)

Unexpected == Wants("value", ScalarTokens \cup {"begin_object", "begin_array"})

\* A value is complete: it was the text, or its array or object goes on.
Evaluate ==
  /\ At("evaluate")
  /\ GetToken(IF states = <<>> THEN "end" ELSE "next")
  /\ Goes /\ UNCHANGED <<states, sax>>

NextInArray ==
  \/ /\ At("next") /\ Last(states) /\ token[1] = "value_separator"
     /\ GetToken("value") /\ Goes /\ UNCHANGED <<states, sax>>
  \/ /\ At("next") /\ Last(states) /\ token[1] = "end_array"
     /\ DomEnd /\ Loop("evaluate")
     /\ states' = Front(states) /\ Goes
  \/ point = "next" /\ Last(states) /\ Wants("next", {"value_separator", "end_array"})

NextInObject ==
  \/ /\ At("next") /\ ~Last(states) /\ token[1] = "value_separator"
     /\ GetToken("key") /\ Goes /\ UNCHANGED <<states, sax>>
  \/ /\ At("next") /\ ~Last(states) /\ token[1] = "end_object"
     /\ DomEnd /\ Loop("evaluate")
     /\ states' = Front(states) /\ Goes
  \/ point = "next" /\ ~Last(states) /\ Wants("next", {"value_separator", "end_object"})

NextKey ==
  \/ /\ At("key") /\ token[1] = "value_string"
     /\ DomKey(token[2]) /\ GetToken("separator")
     /\ Goes /\ UNCHANGED states
  \/ Wants("key", {"value_string"})

NextSeparator ==
  \/ /\ At("separator") /\ token[1] = "name_separator"
     /\ GetToken("value") /\ Goes /\ UNCHANGED <<states, sax>>
  \/ Wants("separator", {"name_separator"})

\* The strict end of parse and sax_parse.
AtEnd ==
  \/ /\ At("end") /\ token[1] = "end_of_input"
     /\ Finish(IF errored THEN <<"discarded">>
               ELSE IF mode = "accept" THEN <<"accepted", TRUE>>
               ELSE <<"value", IF root = Discarded THEN Null ELSE root>>)
     /\ UNCHANGED <<mode, rejected, errored, states, sax>>
  \/ Wants("end", {"end_of_input"})

ParseStep ==
  \/ BeginObject \/ FirstKey \/ FirstSeparator \/ BeginArray \/ FirstElement
  \/ ScalarValue \/ NumberOverflow \/ Unexpected \/ Evaluate
  \/ NextInArray \/ NextInObject \/ NextKey \/ NextSeparator \/ AtEnd

JsonNext == (ScanStep /\ UNCHANGED parser) \/ ParseStep
=============================================================================
