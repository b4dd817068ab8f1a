----------------------------- MODULE JsonParser -----------------------------
(***************************************************************************)
(* The parser of json.hpp (class parser), the two builders it drives       *)
(* (json_sax_dom_parser, which main.cpp:178 uses, and the one that asks a  *)
(* callback what to keep), the acceptor, and the serializer's traversal of *)
(* a value.  One behaviour parses one text: each action takes one token    *)
(* and does what sax_parse_internal does with it, the calls of the builder *)
(* included.  A value token stands for the literals, numbers and strings   *)
(* of JsonText.                                                            *)
(***************************************************************************)
EXTENDS JsonValue

CONSTANTS
  Scalars,      \* what the value tokens hold
  Names,        \* the keys
  MaxTokens     \* the longest text

VARIABLES
  tokens,       \* the tokens read so far
  point,        \* where sax_parse_internal is
  states,       \* the open arrays and objects, as it keeps them
  sax,          \* the builder
  options       \* [sink, filter, ignore_trailing_commas]

parser == <<tokens, point, states, sax, options>>

\* A token is the tuple of its type and, for a value, the value.
Punctuation == {<<"[">>, <<"]">>, <<"{">>, <<"}">>, <<":">>, <<",">>}

Tokens ==
  Punctuation \cup {<<"value", v>> : v \in Scalars} \cup {<<"value", String(k)>> : k \in Names}
    \cup {<<"overflow">>, <<"parse_error">>, <<"end_of_input">>}

IsKey(t) == t[1] = "value" /\ Type(t[2]) = "string" /\ t[2][2] \in Names

----------------------------------------------------------------------------
(* The builders.  A pointer into the value under construction is the path  *)
(* of keys and indices to it; NoRef is nullptr.                            *)

NoRef == <<FALSE, <<>> >>

Ref(path) == <<TRUE, path>>

RECURSIVE At(_, _)
At(j, path) == IF path = <<>> THEN j ELSE At(j[2][path[1]], Tail(path))

RECURSIVE Set(_, _, _)
Set(j, path, v) ==
  IF path = <<>> THEN v
  ELSE << j[1], [x \in DOMAIN j[2] |-> IF x = path[1] THEN Set(j[2][x], Tail(path), v) ELSE j[2][x]] >>

\* What the callback answers: each filter rejects one kind of event.
Keep(filter, depth, event, j) ==
  CASE filter = "value"        -> ~(event = "value" /\ j = Unsigned(<<1>>))
    [] filter = "key"          -> ~(event = "key" /\ j = String(<<97>>))
    [] filter = "object_start" -> ~(event = "object_start" /\ depth > 0)
    [] filter = "array_start"  -> ~(event = "array_start" /\ depth > 0)
    [] filter = "object_end"   -> ~(event = "object_end" /\ depth > 0)
    [] filter = "array_end"    -> ~(event = "array_end" /\ depth > 0)
    [] OTHER                   -> TRUE

\* refs, keeps, key_keeps: ref_stack, keep_stack (TRUE at first) and
\* key_keep_stack; element: object_element.
NewSax == [root |-> Null, refs |-> <<>>, element |-> NoRef, keeps |-> <<TRUE>>, key_keeps |-> <<>>]

Top(k) == Last(k.refs)

\* Put v where the innermost open container wants it: the builder and a
\* pointer to the value.
Place(k, v) ==
  IF k.refs = <<>> THEN << [k EXCEPT !.root = v], Ref(<<>>) >>
  ELSE LET path == Top(k)[2]
           container == At(k.root, path)
       IN  IF Type(container) = "array"
           THEN << [k EXCEPT !.root = Set(@, path, Array(Append(container[2], v)))],
                   Ref(Append(path, Len(container[2]) + 1)) >>
           ELSE << [k EXCEPT !.root = Set(@, k.element[2], v)], k.element >>

\* handle_value of the builder that has a callback.
PlaceIfKept(k, v, filter, skip_callback) ==
  IF ~Last(k.keeps) THEN <<k, NoRef>>
  ELSE IF ~skip_callback /\ ~Keep(filter, Len(k.refs), "value", v) THEN <<k, NoRef>>
  ELSE IF k.refs = <<>> THEN Place(k, v)
  ELSE IF Top(k) = NoRef THEN <<k, NoRef>>
  ELSE IF Type(At(k.root, Top(k)[2])) = "array" THEN Place(k, v)
  ELSE LET popped == [k EXCEPT !.key_keeps = Front(@)]
       IN  IF Last(k.key_keeps) THEN Place(popped, v) ELSE <<popped, NoRef>>

handle_value(k, v, skip_callback) ==
  CASE options.sink = "dom"      -> Place(k, v)
    [] options.sink = "callback" -> PlaceIfKept(k, v, options.filter, skip_callback)
    [] options.sink = "accept"   -> <<k, NoRef>>

\* start_object and start_array.
Start(k, type) ==
  LET event == IF type = "array" THEN "array_start" ELSE "object_start"
      asked == IF options.sink # "callback" THEN k
               ELSE [k EXCEPT !.keeps = Append(@, Keep(options.filter, Len(k.refs), event, Discarded))]
      placed == handle_value(asked, <<type, <<>> >>, TRUE)
  IN  IF options.sink = "accept" THEN k ELSE [placed[1] EXCEPT !.refs = Append(@, placed[2])]

\* operator[] makes the member if it is not there.
MemberOf(k, name, default) ==
  LET path == Top(k)[2]
      object == At(k.root, path)
      member == IF name \in DOMAIN object[2] THEN object[2][name] ELSE Null
  IN  [k EXCEPT !.element = Ref(Append(path, name)),
                !.root = Set(@, path, Object(With(object[2], name, IF default = Null THEN member ELSE default)))]

key(k, name) ==
  CASE options.sink = "dom" -> MemberOf(k, name, Null)
    [] options.sink = "accept" -> k
    [] options.sink = "callback" ->
         LET keep == Keep(options.filter, Len(k.refs), "key", String(name))
             pushed == [k EXCEPT !.key_keeps = Append(@, keep)]
         IN  IF keep /\ Top(k) # NoRef THEN MemberOf(pushed, name, Discarded) ELSE pushed

\* The first discarded member or element of the innermost open container.
EraseDiscarded(k) ==
  IF k.refs = <<>> \/ Top(k) = NoRef THEN k
  ELSE LET j == At(k.root, Top(k)[2])
           gone == {x \in DOMAIN j[2] : j[2][x] = Discarded}
       IN  IF gone = {} THEN k
           ELSE IF Type(j) = "array"
           THEN [k EXCEPT !.root = Set(@, Top(k)[2], Array(RemoveAt(j[2], Min(gone))))]
           ELSE [k EXCEPT !.root = Set(@, Top(k)[2], Object(Without(j[2], Sorted(gone)[1])))]

\* end_object and end_array: a container the callback rejects is discarded,
\* then taken out of its parent.
End(k, type) ==
  LET event == IF type = "array" THEN "array_end" ELSE "object_end"
      ref == Top(k)
      keep == ref = NoRef \/ Keep(options.filter, Len(k.refs) - 1, event, At(k.root, ref[2]))
      marked == IF keep THEN k ELSE [k EXCEPT !.root = Set(@, ref[2], Discarded)]
      popped == [marked EXCEPT !.refs = Front(@), !.keeps = Front(@)]
      parent == Top(popped)[2]
  IN  CASE options.sink = "dom" -> [k EXCEPT !.refs = Front(@)]
        [] options.sink = "accept" -> k
        [] options.sink = "callback" /\ type = "object" -> EraseDiscarded(popped)
        [] options.sink = "callback" /\ type = "array" ->
             IF ~keep /\ popped.refs # <<>> /\ Type(At(popped.root, parent)) = "array"
             THEN [popped EXCEPT !.root = Set(@, parent, Array(Front(At(popped.root, parent)[2])))]
             ELSE popped

----------------------------------------------------------------------------
(* sax_parse_internal and parse.                                           *)

\* get_token.
Read(t) ==
  /\ point # "done" /\ point # "error" /\ Len(tokens) < MaxTokens
  /\ tokens' = Append(tokens, t)
  /\ UNCHANGED options

\* After a value: the end of the text, or what its container may go on with.
Evaluate(open) ==
  /\ states' = open
  /\ point' = CASE open = <<>> -> "end" [] open # <<>> /\ Last(open) = "array" -> "after_element"
                [] open # <<>> /\ Last(open) = "object" -> "after_member"

ValueExpected == point \in {"value", "first_element", "next_element"}

\* The first element of an array opens it in states.
Open == IF point = "first_element" THEN Append(states, "array") ELSE states

Scalar(t) ==
  /\ ValueExpected /\ t[1] = "value" /\ Read(t)
  /\ sax' = handle_value(sax, t[2], FALSE)[1]
  /\ Evaluate(Open)

BeginObject(t) ==
  /\ ValueExpected /\ t[1] = "{" /\ Read(t)
  /\ sax' = Start(sax, "object")
  /\ states' = Open /\ point' = "first_key"

BeginArray(t) ==
  /\ ValueExpected /\ t[1] = "[" /\ Read(t)
  /\ sax' = Start(sax, "array")
  /\ states' = Open /\ point' = "first_element"

\* A bug: the array stays open in states.
EndArrayStaysOpen(t) ==
  /\ t[1] = "]" /\ Read(t)
  /\ \/ point = "first_element" /\ Evaluate(states)
     \/ point = "after_element" /\ Evaluate(states)
     \/ point = "next_element" /\ options.ignore_trailing_commas /\ Evaluate(Front(states))
  /\ sax' = End(sax, "array")

\* An empty container was not opened in states; one with a trailing comma,
\* where those are ignored, was.
EndArray(t) ==
  /\ t[1] = "]" /\ Read(t)
  /\ \/ point = "first_element" /\ Evaluate(states)
     \/ point = "after_element" /\ Evaluate(Front(states))
     \/ point = "next_element" /\ options.ignore_trailing_commas /\ Evaluate(Front(states))
  /\ sax' = End(sax, "array")

EndObject(t) ==
  /\ t[1] = "}" /\ Read(t)
  /\ \/ point = "first_key" /\ Evaluate(states)
     \/ point = "after_member" /\ Evaluate(Front(states))
     \/ point = "next_key" /\ options.ignore_trailing_commas /\ Evaluate(Front(states))
  /\ sax' = End(sax, "object")

Key(t) ==
  /\ point \in {"first_key", "next_key"} /\ IsKey(t) /\ Read(t)
  /\ sax' = key(sax, t[2][2])
  /\ point' = IF point = "first_key" THEN "first_separator" ELSE "separator"
  /\ UNCHANGED states

Separator(t) ==
  /\ point \in {"first_separator", "separator"} /\ t[1] = ":" /\ Read(t)
  /\ states' = IF point = "first_separator" THEN Append(states, "object") ELSE states
  /\ point' = "value" /\ UNCHANGED sax

Comma(t) ==
  /\ point \in {"after_element", "after_member"} /\ t[1] = "," /\ Read(t)
  /\ point' = IF point = "after_element" THEN "next_element" ELSE "next_key"
  /\ UNCHANGED <<states, sax>>

\* parse() is strict: nothing may follow the value.  A root the callback
\* rejected is null.
EndOfInput(t) ==
  /\ point = "end" /\ t[1] = "end_of_input" /\ Read(t)
  /\ point' = "done"
  /\ sax' = [sax EXCEPT !.root = IF @ = Discarded THEN Null ELSE @]
  /\ UNCHANGED states

\* Every other token is an error: of the lexer, a number too large for a
\* double, or out of place.
Unexpected(t) ==
  /\ \/ t[1] \in {"parse_error", "overflow"}
     \/ ValueExpected /\ t[1] \in {"}", ":", ",", "end_of_input"}
     \/ point = "value" /\ t[1] = "]"
     \/ point = "next_element" /\ t[1] = "]" /\ ~options.ignore_trailing_commas
     \/ point = "first_key" /\ ~IsKey(t) /\ t[1] # "}"
     \/ point = "next_key" /\ ~IsKey(t) /\ ~(t[1] = "}" /\ options.ignore_trailing_commas)
     \/ point \in {"first_separator", "separator"} /\ t[1] # ":"
     \/ point = "after_element" /\ t[1] \notin {",", "]"}
     \/ point = "after_member" /\ t[1] \notin {",", "}"}
     \/ point = "end" /\ t[1] # "end_of_input"
  /\ Read(t) /\ point' = "error" /\ UNCHANGED <<states, sax>>

ParserInit ==
  /\ tokens = <<>> /\ point = "value" /\ states = <<>> /\ sax = NewSax
  /\ options \in
       {[sink |-> s, filter |-> "all", ignore_trailing_commas |-> b] : s \in {"dom", "accept"}, b \in BOOLEAN}
       \cup {[sink |-> "callback", filter |-> f, ignore_trailing_commas |-> FALSE] :
              f \in {"value", "key", "object_start", "array_start", "object_end", "array_end"}}

ParserNext ==
  \E t \in Tokens :
    \/ Scalar(t) \/ BeginObject(t) \/ BeginArray(t) \/ EndArray(t) \/ EndObject(t)
    \/ Key(t) \/ Separator(t) \/ Comma(t) \/ EndOfInput(t) \/ Unexpected(t)

ParserSpec == ParserInit /\ [][ParserNext]_parser

----------------------------------------------------------------------------
(* What a text means: a recursive descent that says of a sequence of       *)
(* tokens whether it is a value, cannot become one, or needs more.         *)

Verdict(is, at, v) == [is |-> is, at |-> at, v |-> v]

More == Verdict("more", 0, Null)

Wrong == Verdict("wrong", 0, Null)

\* Members and elements that were not kept are left out.
Kept(f) == [x \in {y \in DOMAIN f : f[y] # Discarded} |-> f[x]]

RECURSIVE ValueAt(_, _, _), ElementsAt(_, _, _, _, _), MembersAt(_, _, _, _, _)
ValueAt(ts, i, depth) ==
  LET filter == options.filter
  IN  IF i > Len(ts) THEN More
      ELSE CASE ts[i][1] = "value" ->
                  Verdict("ok", i + 1, IF Keep(filter, depth, "value", ts[i][2]) THEN ts[i][2] ELSE Discarded)
             [] ts[i][1] = "[" ->
                  LET r == ElementsAt(ts, i + 1, depth + 1, <<>>, TRUE)
                  IN  IF r.is = "ok" /\ ~(Keep(filter, depth, "array_start", Null) /\ Keep(filter, depth, "array_end", Null))
                      THEN [r EXCEPT !.v = Discarded] ELSE r
             [] ts[i][1] = "{" ->
                  LET r == MembersAt(ts, i + 1, depth + 1, <<>>, TRUE)
                  IN  IF r.is = "ok" /\ ~(Keep(filter, depth, "object_start", Null) /\ Keep(filter, depth, "object_end", Null))
                      THEN [r EXCEPT !.v = Discarded] ELSE r
             [] OTHER -> Wrong
ElementsAt(ts, i, depth, done, closable) ==
  IF i > Len(ts) THEN More
  ELSE IF ts[i][1] = "]" /\ (closable \/ options.ignore_trailing_commas)
  THEN Verdict("ok", i + 1, Array(done))
  ELSE LET r == ValueAt(ts, i, depth)
           all == IF r.v = Discarded THEN done ELSE Append(done, r.v)
       IN  IF r.is # "ok" THEN r
           ELSE IF r.at > Len(ts) THEN More
           ELSE CASE ts[r.at][1] = "]" -> Verdict("ok", r.at + 1, Array(all))
                  [] ts[r.at][1] = "," -> ElementsAt(ts, r.at + 1, depth, all, FALSE)
                  [] OTHER -> Wrong
MembersAt(ts, i, depth, done, closable) ==
  IF i > Len(ts) THEN More
  ELSE IF ts[i][1] = "}" /\ (closable \/ options.ignore_trailing_commas)
  THEN Verdict("ok", i + 1, Object(Kept(done)))
  ELSE IF ~IsKey(ts[i]) THEN Wrong
  ELSE IF i + 1 > Len(ts) THEN More
  ELSE IF ts[i + 1][1] # ":" THEN Wrong
  ELSE LET r == ValueAt(ts, i + 2, depth)
           name == ts[i][2][2]
           all == IF Keep(options.filter, depth, "key", ts[i][2]) THEN With(done, name, r.v) ELSE done
       IN  IF r.is # "ok" THEN r
           ELSE IF r.at > Len(ts) THEN More
           ELSE CASE ts[r.at][1] = "}" -> Verdict("ok", r.at + 1, Object(Kept(all)))
                  [] ts[r.at][1] = "," -> MembersAt(ts, r.at + 1, depth, all, FALSE)
                  [] OTHER -> Wrong

\* A whole text.
TextOf(ts) ==
  LET r == ValueAt(ts, 1, 0)
  IN  IF r.is # "ok" THEN r
      ELSE IF r.at > Len(ts) THEN More
      ELSE IF r.at = Len(ts) /\ ts[r.at][1] = "end_of_input"
      THEN [r EXCEPT !.v = IF @ = Discarded THEN Null ELSE @] ELSE Wrong

----------------------------------------------------------------------------
(* serializer::dump, up to blanks: the tokens it writes.                   *)

Separated(seqs) ==
  FlattenSeq([i \in DOMAIN seqs |-> IF i < Len(seqs) THEN Append(seqs[i], <<",">>) ELSE seqs[i]])

Word == [bytes |-> <<98, 121, 116, 101, 115>>, subtype |-> <<115, 117, 98, 116, 121, 112, 101>>]

RECURSIVE dump(_)
dump(j) ==
  CASE Type(j) = "object" /\ DOMAIN j[2] = {} -> << <<"{">>, <<"}">> >>
    [] Type(j) = "object" /\ DOMAIN j[2] # {} ->
         LET names == Keys(j)
         IN  << <<"{">> >>
             \o Separated([i \in DOMAIN names |-> << <<"value", String(names[i])>>, <<":">> >> \o dump(j[2][names[i]])])
             \o << <<"}">> >>
    [] Type(j) = "array" ->
         << <<"[">> >> \o Separated([i \in DOMAIN j[2] |-> dump(j[2][i])]) \o << <<"]">> >>
    [] Type(j) = "binary" ->
         dump(Object(With(With(<<>>, Word.bytes, Array([i \in DOMAIN j[2] |-> Unsigned(MagnitudeOf(j[2][i]))])),
                          Word.subtype, IF j[3] = NoSubtype THEN Null ELSE Unsigned(j[3]))))
    [] Type(j) = "float" /\ ~IsFinite(j[2]) -> << <<"value", Null>> >>
    [] Type(j) = "integer" /\ ~j[2] -> << <<"value", Unsigned(j[3])>> >>
    [] Type(j) = "discarded" -> << <<"parse_error">> >>
    [] OTHER -> << <<"value", j>> >>

----------------------------------------------------------------------------
(* Properties.                                                             *)

ParserTypeOK ==
  /\ tokens \in Seq(Tokens)
  /\ \A i \in DOMAIN states : states[i] \in {"array", "object"}
  /\ options.sink = "dom" => \A i \in DOMAIN sax.refs : sax.refs[i] # NoRef
  /\ \A i \in DOMAIN sax.refs : sax.refs[i] # NoRef => IsStructured(At(sax.root, sax.refs[i][2]))

RECURSIVE Clean(_)
Clean(j) ==
  IF ~IsStructured(j) THEN j
  ELSE << j[1], [x \in {y \in DOMAIN j[2] : j[2][y] # Discarded} |-> Clean(j[2][x])] >>

\* The parser accepts exactly the texts of the grammar: it reports an error
\* at the first token no text goes on with, and otherwise builds the value
\* the text means.  Of two members of one name the last counts.  With a
\* callback the value holds what the callback kept, up to members left in
\* the discarded state.
ParseAgrees ==
  LET r == TextOf(tokens)
  IN  CASE point = "error" -> r.is = "wrong"
        [] point = "done"  -> r.is = "ok" /\ (options.sink # "accept" => Clean(sax.root) = r.v)
        [] OTHER           -> r.is = "more"

\* What the serializer writes for the value of a text is a text with that
\* value.
DumpParses ==
  point = "done" /\ options.sink = "dom" =>
    LET r == TextOf(Append(dump(sax.root), <<"end_of_input">>)) IN r.is = "ok" /\ r.v = sax.root

\* parse and dump agree on what a text means, whoever consumes its events.
TextsAgree == ParseAgrees /\ DumpParses
============================================================================
