---------------------------- MODULE JsonDocument ----------------------------
(***************************************************************************)
(* A JSON document edited through the interface of basic_json              *)
(* (cpp/include/nlohmann/json.hpp): element access, the modifiers, JSON    *)
(* pointers, flatten and unflatten, JSON Patch, diff and JSON Merge Patch. *)
(*                                                                         *)
(* An operation returns <<code, j>>: the number of the exception it throws *)
(* (0 for none) and what it leaves the value as.  An operation that throws *)
(* half way leaves what it did until then, as the code does.  A pointer is *)
(* the sequence of its unescaped reference tokens; a token, like a key, is *)
(* a sequence of bytes.  An iterator is a position and whether it belongs  *)
(* to the value it is used on.                                             *)
(***************************************************************************)
EXTENDS JsonValue

CONSTANTS
  Documents,   \* the documents an editing session starts from
  Values,      \* what is stored by a call
  DocNames,    \* the keys calls use
  Pointers,    \* the pointers, as text, calls use
  Patches,     \* the JSON patches applied
  MaxCalls     \* the bound on the calls of a session

VARIABLES
  doc,         \* the value the calls are made on, Discarded when there are none
  other,       \* the value diff, swap, update and merge_patch take
  code,        \* the exception of the last call, 0 if none
  calls        \* how many calls were made

document == <<doc, other, code, calls>>

Done(j) == <<0, j>>

Throw(n, j) == <<n, j>>

\* What F makes of what r gives; the exception of r, if it threw, leaves j.
After(r, j, F(_)) == IF r[1] = 0 THEN F(r[2]) ELSE Throw(r[1], j)

Empty == <<>>

Member(j, k) == IF k \in DOMAIN j[2] THEN j[2][k] ELSE Null

----------------------------------------------------------------------------
(* Element access and modifiers.                                           *)

\* A null becomes an empty container the first time it is used as one.
AsContainer(j, type) == IF j = Null THEN <<type, Empty>> ELSE j

\* The element i of s, null past its end.
Element(s, i) == IF i < Len(s) THEN s[i + 1] ELSE Null

\* s with the element i set: operator[] fills the gap before it with null.
Put(s, i, v) ==
  [n \in 1 .. (IF i < Len(s) THEN Len(s) ELSE i + 1) |-> IF n = i + 1 THEN v ELSE Element(s, n - 1)]

at(j, i) ==
  CASE Type(j) # "array" -> Throw(304, Null)
    [] i >= Len(j[2])    -> Throw(401, Null)
    [] OTHER             -> Done(j[2][i + 1])

at_key(j, k) ==
  CASE Type(j) # "object"     -> Throw(304, Null)
    [] k \notin DOMAIN j[2]   -> Throw(403, Null)
    [] OTHER                  -> Done(j[2][k])

\* j[i] = v and j[k] = v.
set_index(j, i, v) ==
  LET a == AsContainer(j, "array")
  IN  IF Type(a) = "array" THEN Done(Array(Put(a[2], i, v)))
      ELSE Throw(305, j)

set_key(j, k, v) ==
  LET o == AsContainer(j, "object")
  IN  IF Type(o) = "object" THEN Done(Object(With(o[2], k, v))) ELSE Throw(305, j)

push_back(j, v) ==
  LET a == AsContainer(j, "array")
  IN  IF Type(a) = "array" THEN Done(Array(Append(a[2], v))) ELSE Throw(308, j)

emplace_back(j, v) ==
  LET r == push_back(j, v) IN IF r[1] = 0 THEN r ELSE Throw(311, j)

\* std::map::insert and emplace keep the value of a key that is there.
push_back_pair(j, k, v) ==
  LET o == AsContainer(j, "object")
  IN  IF Type(o) # "object" THEN Throw(308, j)
      ELSE Done(Object(IF k \in DOMAIN o[2] THEN o[2] ELSE With(o[2], k, v)))

emplace(j, k, v) ==
  LET r == push_back_pair(j, k, v) IN IF r[1] = 0 THEN r ELSE Throw(311, j)

\* push_back({k, v}): a member of an object, an array of two elsewhere.
push_back_list(j, k, v) ==
  IF Type(j) = "object" THEN push_back_pair(j, k, v)
  ELSE push_back(j, Array(<<String(k), v>>))

\* The overloads of insert for arrays, before the position i.
insert(j, own, i, vs) ==
  CASE Type(j) # "array" -> Throw(309, j)
    [] ~own              -> Throw(202, j)
    [] OTHER             -> Done(Array(SubSeq(j[2], 1, i) \o vs \o SubSeq(j[2], i + 1, Len(j[2]))))

\* A range of another value's elements: never one of the value itself.
insert_elements(j, own, i, from, itself) ==
  CASE Type(j) # "array" -> Throw(309, j)
    [] ~own              -> Throw(202, j)
    [] itself            -> Throw(211, j)
    [] OTHER             -> insert(j, own, i, from[2])

insert_members(j, from) ==
  CASE Type(j) # "object"    -> Throw(309, j)
    [] Type(from) # "object" -> Throw(202, j)
    [] OTHER -> Done(Object([k \in DOMAIN j[2] \cup DOMAIN from[2] |->
                               IF k \in DOMAIN j[2] THEN j[2][k] ELSE from[2][k]]))

\* The removal of the positions first + 1 .. last.
Cut(j, first, last) ==
  IF Type(j) = "array" THEN Array(SubSeq(j[2], 1, first) \o SubSeq(j[2], last + 1, Len(j[2])))
  ELSE LET gone == {Keys(j)[i] : i \in first + 1 .. last}
       IN  Object([k \in DOMAIN j[2] \ gone |-> j[2][k]])

erase_iterator(j, own, i) ==
  CASE ~own             -> Throw(202, j)
    [] j = Null         -> Throw(307, j)
    [] IsStructured(j)  -> Done(Cut(j, i, i + 1))
    [] i # 0            -> Throw(205, j)
    [] OTHER            -> Done(Null)

erase_range(j, own, first, last) ==
  CASE ~own                      -> Throw(203, j)
    [] j = Null                  -> Throw(307, j)
    [] IsStructured(j)           -> Done(Cut(j, first, last))
    [] ~(first = 0 /\ last = 1)  -> Throw(204, j)
    [] OTHER                     -> Done(Null)

erase_key(j, k) ==
  IF Type(j) = "object" THEN Done(Object(Without(j[2], k))) ELSE Throw(307, j)

erase_index(j, i) ==
  CASE Type(j) # "array" -> Throw(307, j)
    [] i >= Len(j[2])    -> Throw(401, j)
    [] OTHER             -> Done(Array(RemoveAt(j[2], i + 1)))

\* clear keeps the type, and the subtype of a binary value.
clear(j) ==
  CASE Type(j) = "integer"                       -> Integer(FALSE, Empty)
    [] Type(j) = "float"                         -> Float(Double(FALSE, 0, 0))
    [] Type(j) = "boolean"                       -> Boolean(FALSE)
    [] Type(j) = "binary"                        -> Binary(Empty, j[3])
    [] Type(j) \in {"null", "discarded"}         -> j
    [] OTHER                                     -> <<Type(j), Empty>>

\* update copies the members of from, in the order of their keys; with
\* merge_objects the members both have as objects are merged.  It stops at the
\* first member that cannot be merged.
RECURSIVE update(_, _, _), UpdateFrom(_, _, _, _)
update(j, from, merge_objects) ==
  LET o == AsContainer(j, "object")
  IN  IF Type(o) # "object" \/ Type(from) # "object" THEN Throw(312, o)
      ELSE UpdateFrom(o, from, Keys(from), merge_objects)
UpdateFrom(o, from, names, merge_objects) ==
  IF names = <<>> THEN Done(o)
  ELSE LET k == names[1]
           r == IF merge_objects /\ Type(from[2][k]) = "object" /\ k \in DOMAIN o[2]
                THEN update(o[2][k], from[2][k], TRUE)
                ELSE Done(from[2][k])
           set == Object(With(o[2], k, r[2]))
       IN  IF r[1] # 0 THEN Throw(r[1], set)
           ELSE UpdateFrom(set, from, Tail(names), merge_objects)

----------------------------------------------------------------------------
(* JSON pointers.                                                          *)

Slash == 47

Tilde == 126

Dash == <<45>>

IsDigit(c) == c \in 48 .. 57

RECURSIVE PositionText(_)
PositionText(n) == IF n < 10 THEN <<48 + n>> ELSE Append(PositionText(n \div 10), 48 + (n % 10))

RECURSIVE replace_substring(_, _, _)
replace_substring(s, f, t) ==
  CASE Len(s) < Len(f) -> s
    [] SubSeq(s, 1, Len(f)) = f ->
         t \o replace_substring(SubSeq(s, Len(f) + 1, Len(s)), f, t)
    [] OTHER -> <<s[1]>> \o replace_substring(Tail(s), f, t)

\* A bug: the slash is escaped first, and its tilde with the others.
EscapeSlashFirst(s) ==
  replace_substring(replace_substring(s, <<Slash>>, <<Tilde, 49>>), <<Tilde>>, <<Tilde, 48>>)

escape(s) ==
  replace_substring(replace_substring(s, <<Tilde>>, <<Tilde, 48>>), <<Slash>>, <<Tilde, 49>>)

unescape(s) ==
  replace_substring(replace_substring(s, <<Tilde, 49>>, <<Slash>>), <<Tilde, 48>>, <<Tilde>>)

\* The parts of s between slashes.
RECURSIVE Parts(_)
Parts(s) ==
  LET slashes == {i \in DOMAIN s : s[i] = Slash}
  IN  IF slashes = {} THEN <<s>>
      ELSE LET i == CHOOSE i \in slashes : \A k \in slashes : i <= k
           IN  <<SubSeq(s, 1, i - 1)>> \o Parts(SubSeq(s, i + 1, Len(s)))

BadEscape(s) ==
  \E i \in DOMAIN s : s[i] = Tilde /\ (i = Len(s) \/ s[i + 1] \notin {48, 49})

\* The reference tokens of a pointer's text.
split(s) ==
  IF s = <<>> THEN Done(<<>>)
  ELSE LET Tokens(parts) ==
             IF \E i \in DOMAIN parts : BadEscape(parts[i]) THEN Throw(108, <<>>)
             ELSE Done([i \in DOMAIN parts |-> unescape(parts[i])])
       IN  IF s[1] # Slash THEN Throw(107, <<>>) ELSE Tokens(Parts(Tail(s)))

\* The index a token stands for: tokens here are far from the 2^64 limit.
array_index(t) ==
  LET value[i \in 0 .. Len(t)] == IF i = 0 THEN 0 ELSE value[i - 1] * 10 + t[i] - 48
  IN  CASE Len(t) > 1 /\ t[1] = 48                      -> Throw(106, 0)
        [] Len(t) > 1 /\ t[1] \notin 49 .. 57           -> Throw(109, 0)
        [] t = <<>> \/ \E i \in DOMAIN t : ~IsDigit(t[i]) -> Throw(404, 0)
        [] OTHER                                        -> Done(value[Len(t)])

\* at(ptr): what the pointer leads to.
RECURSIVE get_checked(_, _)
get_checked(j, p) ==
  IF p = <<>> THEN Done(j)
  ELSE After(CASE Type(j) = "object"                -> at_key(j, p[1])
               [] Type(j) = "array" /\ p[1] = Dash  -> Throw(402, Null)
               [] Type(j) = "array" /\ p[1] # Dash  -> After(array_index(p[1]), Null, LAMBDA i : at(j, i))
               [] OTHER                             -> Throw(404, Null),
             Null, LAMBDA v : get_checked(v, Tail(p)))

\* What operator[](ptr), and unflatten, make of a null on the way.
UncheckedType(t) ==
  IF t = Dash \/ \A i \in DOMAIN t : IsDigit(t[i]) THEN "array" ELSE "object"

CreatedType(t) == IF t = <<48>> THEN "array" ELSE "object"

\* j with v stored where the pointer leads to.  Containers are created on the
\* way and stay there when a later token cannot be resolved.
RECURSIVE Resolve(_, _, _, _)
Resolve(unchecked, j, p, v) ==
  IF p = <<>> THEN Done(v)
  ELSE LET t == p[1]
           c == AsContainer(j, IF unchecked THEN UncheckedType(t) ELSE CreatedType(t))
           index == IF unchecked /\ t = Dash THEN Done(Size(c)) ELSE array_index(t)
       IN  CASE Type(c) = "object" ->
                  LET Set(r) == <<r[1], Object(With(c[2], t, r[2]))>>
                  IN  Set(Resolve(unchecked, Member(c, t), Tail(p), v))
             [] Type(c) = "array" ->
                  LET Set(i, r) == <<r[1], Array(Put(c[2], i, r[2]))>>
                  IN  After(index, c, LAMBDA i : Set(i, Resolve(unchecked, Element(c[2], i), Tail(p), v)))
             [] OTHER -> Throw(IF unchecked THEN 404 ELSE 313, j)

get_unchecked(j, p, v) == Resolve(TRUE, j, p, v)

get_and_create(j, p, v) == Resolve(FALSE, j, p, v)

\* A token that contains() takes for an index.  The empty token is let through.
IndexLike(t) ==
  /\ t # Dash
  /\ Len(t) = 1 => IsDigit(t[1])
  /\ Len(t) > 1 => t[1] \in 49 .. 57 /\ \A i \in DOMAIN t : IsDigit(t[i])

RECURSIVE contains(_, _)
contains(j, p) ==
  IF p = <<>> THEN Done(TRUE)
  ELSE CASE Type(j) = "object" ->
              IF p[1] \in DOMAIN j[2] THEN contains(j[2][p[1]], Tail(p)) ELSE Done(FALSE)
         [] Type(j) = "array" /\ IndexLike(p[1]) ->
              After(array_index(p[1]), FALSE,
                    LAMBDA i : IF i < Size(j) THEN contains(j[2][i + 1], Tail(p)) ELSE Done(FALSE))
         [] OTHER -> Done(FALSE)

----------------------------------------------------------------------------
(* flatten and unflatten.                                                  *)

\* The primitive values of j with their pointers; an empty container is null.
RECURSIVE Leaves(_, _)
Leaves(s, j) ==
  CASE Type(j) = "array" /\ j[2] # Empty ->
         UNION {Leaves(Append(s, Slash) \o PositionText(i - 1), j[2][i]) : i \in DOMAIN j[2]}
    [] Type(j) = "object" /\ j[2] # Empty ->
         UNION {Leaves(Append(s, Slash) \o escape(k), j[2][k]) : k \in DOMAIN j[2]}
    [] OTHER -> {<<s, IF IsStructured(j) THEN Null ELSE j>>}

flatten(j) ==
  LET leaves == Leaves(<<>>, j)
  IN  Object([s \in {x[1] : x \in leaves} |-> (CHOOSE x \in leaves : x[1] = s)[2]])

RECURSIVE UnflattenFrom(_, _, _)
UnflattenFrom(result, j, names) ==
  IF names = <<>> THEN Done(result)
  ELSE LET v == j[2][names[1]]
       IN  IF IsStructured(v) THEN Throw(315, Null)
           ELSE After(split(names[1]), Null,
                      LAMBDA p : After(get_and_create(result, p, v), Null,
                                       LAMBDA r : UnflattenFrom(r, j, Tail(names))))

unflatten(j) ==
  IF Type(j) = "object" THEN UnflattenFrom(Null, j, Keys(j)) ELSE Throw(314, Null)

----------------------------------------------------------------------------
(* JSON Patch.  An operation of a patch is a record of the members it has; *)
(* a member that is missing and one of the wrong type give the same        *)
(* exception and are not told apart.                                       *)

\* The exceptions of the class out_of_range.
OutOfRange == 401 .. 411

\* j with the value at p, which is there, replaced.
Replaced(j, p, v) == get_unchecked(j, p, v)

operation_add(j, p, v) ==
  IF p = <<>> THEN Done(v)
  ELSE LET last == Last(p)
           Added(parent) ==
             CASE Type(parent) \in {"null", "object"}   -> set_key(parent, last, v)
               [] Type(parent) = "array" /\ last = Dash -> push_back(parent, v)
               [] Type(parent) = "array" /\ last # Dash ->
                    After(array_index(last), parent,
                          LAMBDA i : IF i > Size(parent) THEN Throw(401, parent) ELSE insert(parent, TRUE, i, <<v>>))
               [] OTHER                                 -> Throw(411, parent)
           AddTo(parent) == After(Added(parent), j, LAMBDA new : Replaced(j, Front(p), new))
       IN  After(get_checked(j, IF Len(p) > 1 THEN <<p[1]>> ELSE <<>>), j,
                 LAMBDA top : After(get_checked(j, Front(p)), j, AddTo))

\* Below a value that is neither an object nor an array nothing is removed.
operation_remove(j, p) ==
  IF p = <<>> THEN Throw(405, j)
  ELSE LET Removed(parent) ==
             CASE Type(parent) = "object" ->
                    IF Last(p) \in DOMAIN parent[2] THEN erase_key(parent, Last(p)) ELSE Throw(403, parent)
               [] Type(parent) = "array"  -> After(array_index(Last(p)), parent, LAMBDA i : erase_index(parent, i))
               [] OTHER                   -> Done(parent)
           RemoveFrom(parent) == After(Removed(parent), j, LAMBDA new : Replaced(j, Front(p), new))
       IN  After(get_checked(j, Front(p)), j, RemoveFrom)

\* move takes the value out before it is known whether it can be put back.
operation_move(j, from, to) ==
  After(get_checked(j, from), j,
        LAMBDA v : After(operation_remove(j, from), j, LAMBDA rest : operation_add(rest, to, v)))

operation_copy(j, from, to) == After(get_checked(j, from), j, LAMBDA v : operation_add(j, to, v))

operation_test(j, p, v) ==
  LET Test(found) ==
        CASE found[1] \in OutOfRange -> Throw(501, j)
          [] found[1] = 0 -> IF Equal(found[2], v) THEN Done(j) ELSE Throw(501, j)
          [] OTHER -> Throw(found[1], j)
  IN  Test(get_checked(j, p))

\* The members an operation must have besides op and path.
Needs(op) ==
  CASE op \in {"add", "replace", "test"} -> {"value"}
    [] op \in {"move", "copy"}           -> {"from"}
    [] OTHER                             -> {}

Apply(j, o) ==
  LET Given(names) == names \subseteq DOMAIN o
      At(p) ==
        IF ~Given(Needs(o.op)) THEN Throw(105, j)
        ELSE CASE o.op = "add"     -> operation_add(j, p, o.value)
               [] o.op = "remove"  -> operation_remove(j, p)
               [] o.op = "replace" -> After(get_checked(j, p), j, LAMBDA old : Replaced(j, p, o.value))
               [] o.op = "move"    -> After(split(o.from), j, LAMBDA from : operation_move(j, from, p))
               [] o.op = "copy"    -> After(split(o.from), j, LAMBDA from : operation_copy(j, from, p))
               [] o.op = "test"    -> operation_test(j, p, o.value)
               [] OTHER            -> Throw(105, j)
  IN  IF Given({"op", "path"}) THEN After(split(o.path), j, At) ELSE Throw(105, j)

\* The operations before one that throws stay applied.
RECURSIVE patch_inplace(_, _)
patch_inplace(j, operations) ==
  IF operations = <<>> THEN Done(j)
  ELSE LET Rest(r) == IF r[1] = 0 THEN patch_inplace(r[2], Tail(operations)) ELSE r
       IN  Rest(Apply(j, operations[1]))

\* patch works on a copy: a patch that fails changes nothing.
patch(j, operations) == After(patch_inplace(j, operations), j, Done)

Below(path, token) == Append(path, Slash) \o token

\* A bug: the elements past the end of the target are removed from the first on.
RemovalsForward(path, size, kept) ==
  [i \in 1 .. size - kept |-> [op |-> "remove", path |-> Below(path, PositionText(kept + i - 1))]]

\* The elements past the end of the target, the last one first.
Removals(path, size, kept) ==
  [i \in 1 .. size - kept |-> [op |-> "remove", path |-> Below(path, PositionText(size - i))]]

RECURSIVE diff(_, _, _)
diff(source, target, path) ==
  LET s == source[2]
      t == target[2]
      both == IF Len(s) < Len(t) THEN Len(s) ELSE Len(t)
      new == Sorted(DOMAIN t \ DOMAIN s)
      Path(k) == Below(path, escape(k))
  IN  CASE Equal(source, target) -> <<>>
        [] Type(source) # Type(target) \/ ~IsStructured(source) ->
             << [op |-> "replace", path |-> path, value |-> target] >>
        [] Type(source) = "array" ->
             FlattenSeq([i \in 1 .. both |-> diff(s[i], t[i], Below(path, PositionText(i - 1)))])
             \o Removals(path, Len(s), both)
             \o [i \in 1 .. Len(t) - both |->
                   [op |-> "add", path |-> Below(path, Dash), value |-> t[both + i]]]
        [] OTHER ->
             FlattenSeq([i \in 1 .. Size(source) |->
               LET k == Keys(source)[i]
               IN  IF k \in DOMAIN t THEN diff(s[k], t[k], Path(k))
                   ELSE << [op |-> "remove", path |-> Path(k)] >>])
             \o [i \in DOMAIN new |-> [op |-> "add", path |-> Path(new[i]), value |-> t[new[i]]]]

RECURSIVE merge_patch(_, _)
merge_patch(j, p) ==
  IF Type(p) # "object" THEN p
  ELSE LET o == IF Type(j) = "object" THEN j ELSE Object(Empty)
           gone == {k \in DOMAIN p[2] : p[2][k] = Null}
       IN  Object([k \in (DOMAIN o[2] \cup DOMAIN p[2]) \ gone |->
             IF k \in DOMAIN p[2] THEN merge_patch(Member(o, k), p[2][k]) ELSE o[2][k]])

----------------------------------------------------------------------------
(* A session of calls.                                                     *)

Call(r) ==
  /\ calls < MaxCalls
  /\ calls' = calls + 1
  /\ code' = r[1]
  /\ doc' = r[2]
  /\ UNCHANGED other

Indices == 0 .. 2

Store(v) ==
  \/ \E i \in Indices : Call(set_index(doc, i, v))
  \/ \E k \in DocNames : Call(set_key(doc, k, v))
  \/ Call(push_back(doc, v))
  \/ Call(emplace_back(doc, v))
  \/ \E k \in DocNames : Call(push_back_pair(doc, k, v))
  \/ \E k \in DocNames : Call(emplace(doc, k, v))
  \/ \E k \in DocNames : Call(push_back_list(doc, k, v))

Insert ==
  \E own \in BOOLEAN, i \in 0 .. Size(doc) :
    \/ \E v \in Values : Call(insert(doc, own, i, <<v, v>>))
    \/ Type(other) = "array" /\ \E itself \in BOOLEAN :
         Call(insert_elements(doc, own, i, IF itself THEN doc ELSE other, itself))
    \/ Call(insert_members(doc, other))

\* Only positions of elements are given: erasing an end iterator is undefined.
Erase ==
  \/ \E own \in BOOLEAN, i \in 0 .. Size(doc) - 1 : Call(erase_iterator(doc, own, i))
  \/ \E own \in BOOLEAN, i \in 0 .. Size(doc) : \E k \in i .. Size(doc) :
       Call(erase_range(doc, own, i, k))
  \/ \E k \in DocNames : Call(erase_key(doc, k))
  \/ \E i \in Indices : Call(erase_index(doc, i))
  \/ Call(Done(clear(doc)))

Combine ==
  \/ \E merge_objects \in BOOLEAN : Call(update(doc, other, merge_objects))
  \/ Call(Done(merge_patch(doc, other)))
  \/ \E i \in DOMAIN Patches : Call(patch_inplace(doc, Patches[i]))

\* doc[ptr] = v
StoreAt(s, v) == Call(After(split(s), doc, LAMBDA p : get_unchecked(doc, p, v)))

\* swap with another value, and with a container of its own type.
Swap(contents) ==
  LET refused == contents /\ (Type(doc) # Type(other) \/ Type(doc) \notin {"array", "object", "string", "binary"})
  IN  /\ calls < MaxCalls
      /\ calls' = calls + 1
      /\ code' = IF refused THEN 310 ELSE 0
      /\ doc' = IF refused THEN doc ELSE other
      /\ other' = IF refused THEN other ELSE doc

DocumentInit ==
  /\ doc \in Documents
  /\ other \in Documents
  /\ code = 0
  /\ calls = 0

DocumentNext ==
  \/ \E v \in Values : Store(v)
  \/ Insert
  \/ Erase
  \/ Combine
  \/ \E s \in Pointers, v \in Values : StoreAt(s, v)
  \/ \E contents \in BOOLEAN : Swap(contents)

DocumentSpec == DocumentInit /\ [][DocumentNext]_document

----------------------------------------------------------------------------
(* Properties.                                                             *)

\* A document that flatten keeps whole: it has no empty container, which is
\* flattened to null, and no key "0", which unflatten takes for an index.
RECURSIVE Flattens(_)
Flattens(j) ==
  IsStructured(j) =>
    /\ j[2] # Empty
    /\ Type(j) = "object" => <<48>> \notin DOMAIN j[2]
    /\ \A k \in DOMAIN j[2] : Flattens(j[2][k])

\* unflatten gives back the document that flatten took apart, whatever slashes
\* and tildes its keys have (json_pointer::flatten, unflatten, escape, split).
FlattenRestores == Flattens(doc) => unflatten(flatten(doc)) = Done(doc)

\* Applying diff(doc, other) to doc succeeds and gives a value equal to other
\* (basic_json::diff, patch_inplace): the paths stay right while the operations
\* before them change the document.
PatchReaches ==
  LET Reached(r) == r[1] = 0 /\ Equal(r[2], other)
  IN  Reached(patch(doc, diff(doc, other, <<>>)))

\* contains(ptr) says whether at(ptr) finds something; it throws only for an
\* empty token below an array, where at(ptr) throws too (json_pointer::contains
\* and get_checked walk the document on their own).
ContainsMatchesAt ==
  LET Match(c, found, p) ==
        /\ c[2] = (found[1] = 0)
        /\ c[1] # 0 => c[1] = found[1] /\ <<>> \in Range(p)
      Agree(r) == r[1] = 0 => Match(contains(doc, r[2]), get_checked(doc, r[2]), r[2])
  IN  \A s \in Pointers : Agree(split(s))

\* Reference: what RFC 7386 asks of the target m of a patch p, at any depth.
RECURSIVE Merged(_, _)
Merged(m, p) ==
  IF Type(p) # "object" THEN m = p
  ELSE /\ Type(m) = "object"
       /\ \A k \in DOMAIN p[2] :
            IF p[2][k] = Null THEN k \notin DOMAIN m[2]
            ELSE k \in DOMAIN m[2] /\ Merged(m[2][k], p[2][k])

\* A merged document has what the patch sets and nothing of what it sets to
\* null, at any depth; the members the patch does not name stay; and merging it
\* twice is merging it once (basic_json::merge_patch).
MergeSettles ==
  LET Settled(merged) ==
        /\ Merged(merged, other)
        /\ merge_patch(merged, other) = merged
        /\ Type(doc) = "object" /\ Type(other) = "object" =>
             \A k \in DOMAIN doc[2] \ DOMAIN other[2] :
               k \in DOMAIN merged[2] /\ merged[2][k] = doc[2][k]
  IN  Settled(merge_patch(doc, other))

\* Pointers mean the same wherever a document is walked: by contains and at, by
\* flatten and unflatten.
PointersAgree == doc # Discarded => FlattenRestores /\ ContainsMatchesAt

\* A patch and a merge patch lead where they are meant to.
PatchesReach == doc # Discarded => PatchReaches /\ MergeSettles
============================================================================
