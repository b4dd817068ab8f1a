----------------------------- MODULE JsonBinary -----------------------------
(***************************************************************************)
(* The binary formats of json.hpp: binary_writer as operators from values  *)
(* to bytes, binary_reader as operators from bytes to values, for CBOR,    *)
(* MessagePack, UBJSON, BJData and BSON.  A reader looks at the bytes s    *)
(* from position at and returns where it stopped and what it read.         *)
(***************************************************************************)
EXTENDS JsonText

CONSTANTS
  Samples,     \* the values that are written
  Starts,      \* the formats that are read, each with the first bytes of the input
  Alphabet,    \* the bytes read after them, a function of the format's name
  MaxBytes,    \* the bound on how many
  MaxUncounted \* the longest container that is written without its length

VARIABLES
  sample,      \* the value that is written, Discarded when bytes are read
  format,      \* the format and its options
  input        \* what was written, or the bytes read so far

binary == <<sample, format, input>>

\* The reader met a byte it does not accept, or the end of the input: where
\* unexpect_eof reports it, and where the end is refused as a byte would be
\* (get_ubjson_size_value).
Fail == <<0, Null>>

Eof == <<-1, Null>>

Ok(r) == r[1] > 0

\* Reading goes on after r, unless r is a failure.
Then(r, F(_)) == IF Ok(r) THEN F(r) ELSE r

\* o.format, and what the formats leave open: the CBOR tags (o.tags), and
\* UBJSON's optimisations (o.use_count, o.use_type, o.draft3).
Options(name) ==
  [format |-> name, tags |-> "store", use_count |-> FALSE, use_type |-> FALSE, draft3 |-> FALSE]

\* CBOR, MessagePack and UBJSON write the most significant byte first.
LittleEndian(o) == o.format \in {"bjdata", "bson"}

get_number(o, s, at, n) ==
  IF at + n - 1 > Len(s) THEN Eof
  ELSE LET b == SubSeq(s, at, at + n - 1) IN <<at + n, IF LittleEndian(o) THEN Reverse(b) ELSE b>>

AsLength(r) == IF Ok(r) THEN <<r[1], Trim(r[2])>> ELSE r

AsUnsigned(r) == IF Ok(r) THEN <<r[1], Unsigned(Trim(r[2]))>> ELSE r

AsInteger(r) == IF Ok(r) THEN <<r[1], SignedOf(r[2])>> ELSE r

\* A half-precision number is decoded by hand.
HalfValue(b) ==
  LET exp  == (b[1] % 128) \div 4
      mant == (b[1] % 4) * 256 + b[2]
      negative == b[1] >= 128
  IN  CASE exp = 0  -> Ldexp(negative, mant, -24)
        [] exp = 31 -> Double(negative, 2047, IF mant = 0 THEN 0 ELSE 4194304)
        [] OTHER    -> Ldexp(negative, mant + 1024, exp - 25)

AsFloat(r) ==
  IF ~Ok(r) THEN r
  ELSE <<r[1], Float(CASE Len(r[2]) = 2 -> HalfValue(r[2]) [] Len(r[2]) = 4 -> Widen(r[2]) [] Len(r[2]) = 8 -> r[2])>>

\* get_string and get_binary read byte by byte up to a length.
get_bytes(s, at, m) ==
  IF Len(m) > 3 \/ at + NumberOf(m) - 1 > Len(s) THEN Eof
  ELSE <<at + NumberOf(m), SubSeq(s, at, at + NumberOf(m) - 1)>>

AsString(r) == IF Ok(r) THEN <<r[1], String(r[2])>> ELSE r

AsBinary(r, subtype) == IF Ok(r) THEN <<r[1], Binary(r[2], subtype)>> ELSE r

AsArray(r) == IF Ok(r) THEN <<r[1], Array(r[2])>> ELSE r

AsObject(r) == IF Ok(r) THEN <<r[1], Object(r[2])>> ELSE r

\* A length, where it only says how often to read on: the ones that do not
\* fit three bytes are all alike.
Count(m) == IF Len(m) > 3 THEN 16777216 ELSE NumberOf(m)

\* Of two members of one name the later one counts.
Merge(f, g) == [x \in DOMAIN f \cup DOMAIN g |-> IF x \in DOMAIN g THEN g[x] ELSE f[x]]

RECURSIVE Concat(_)
Concat(parts) ==
  LET n == Len(parts)
  IN  CASE n = 0 -> <<>>
        [] n = 1 -> parts[1]
        [] OTHER -> Concat(SubSeq(parts, 1, n \div 2)) \o Concat(SubSeq(parts, n \div 2 + 1, n))

----------------------------------------------------------------------------
(* CBOR.                                                                   *)

\* The length or number in the lower five bits of an initial byte, or in
\* the 1, 2, 4 or 8 bytes after it.
CborLength(s, at) ==
  LET low == s[at] % 32
  IN  CASE low < 24 -> <<at + 1, MagnitudeOf(low)>>
        [] low \in 24 .. 27 -> AsLength(get_number(Options("cbor"), s, at + 1, 2 ^ (low - 24)))
        [] OTHER -> Fail

CborUnsigned(s, at) == AsUnsigned(CborLength(s, at))

get_cbor_negative_integer(s, at) ==
  Then(CborLength(s, at), LAMBDA r : IF FitsSigned(r[2], 8) THEN <<r[1], Integer(TRUE, r[2])>> ELSE Fail)

\* A string (major = 96) or a byte string (major = 64): of known length, or
\* in chunks up to a 0xFF.
RECURSIVE CborBytes(_, _, _), CborChunks(_, _, _, _)
CborBytes(s, at, major) ==
  IF at > Len(s) THEN Eof
  ELSE IF s[at] \in major .. major + 27
  THEN Then(CborLength(s, at), LAMBDA r : get_bytes(s, r[1], r[2]))
  ELSE IF s[at] = major + 31 THEN CborChunks(s, at + 1, major, <<>>)
  ELSE Fail
CborChunks(s, at, major, done) ==
  IF at <= Len(s) /\ s[at] = 255 THEN <<at + 1, done>>
  ELSE Then(CborBytes(s, at, major), LAMBDA r : CborChunks(s, r[1], major, done \o r[2]))

get_cbor_string(s, at) == CborBytes(s, at, 96)

get_cbor_binary(s, at, subtype) == AsBinary(CborBytes(s, at, 64), subtype)

CborHalf(s, at) == AsFloat(get_number(Options("cbor"), s, at + 1, 2))

CborFloat(s, at) == AsFloat(get_number(Options("cbor"), s, at + 1, IF s[at] = 250 THEN 4 ELSE 8))

\* A tag is an error, is skipped, or is the subtype of the byte string that
\* must follow it; the short tags are skipped there, too.
CborTag(o, s, at) ==
  LET n == IF s[at] >= 216 THEN 2 ^ (s[at] - 216) ELSE 0
  IN  IF o.tags = "error" THEN Fail
      ELSE IF n = 0 THEN <<at + 1, <<>> >>
      ELSE AsLength(get_number(o, s, at + 1, n))

----------------------------------------------------------------------------
(* MessagePack.                                                            *)

get_msgpack_string(s, at) ==
  IF at > Len(s) THEN Eof
  ELSE IF s[at] \in 160 .. 191 THEN get_bytes(s, at + 1, MagnitudeOf(s[at] % 32))
  ELSE IF s[at] \in 217 .. 219
  THEN Then(get_number(Options("msgpack"), s, at + 1, 2 ^ (s[at] - 217)), LAMBDA r : get_bytes(s, r[1], Trim(r[2])))
  ELSE Fail

\* bin 8-32 have a length, ext 8-32 a length and a subtype, fixext 1-16 a
\* subtype.
get_msgpack_binary(s, at) ==
  LET b == s[at]
      o == Options("msgpack")
      Subtype(r) == IF b <= 198 THEN <<r[1], NoSubtype>> ELSE AsLength(get_number(o, s, r[1], 1))
  IN  Then(IF b <= 201 THEN get_number(o, s, at + 1, 2 ^ ((b - 196) % 3)) ELSE <<at + 1, MagnitudeOf(2 ^ (b - 212))>>,
           LAMBDA len : Then(Subtype(len), LAMBDA t : AsBinary(get_bytes(s, t[1], Trim(len[2])), t[2])))

MsgpackNumber(s, at) ==
  LET b == s[at]
      Read_(n) == get_number(Options("msgpack"), s, at + 1, n)
  IN  CASE b <= 127 -> <<at + 1, Unsigned(MagnitudeOf(b))>>
        [] b >= 224 -> <<at + 1, SignedOf(<<b>>)>>
        [] b \in 202 .. 203 -> AsFloat(Read_(IF b = 202 THEN 4 ELSE 8))
        [] b \in 204 .. 207 -> AsUnsigned(Read_(2 ^ (b - 204)))
        [] b \in 208 .. 211 -> AsInteger(Read_(2 ^ (b - 208)))

\* The length of an array or a map.
MsgpackLength(s, at) ==
  IF s[at] <= 159 THEN <<at + 1, MagnitudeOf(s[at] % 16)>>
  ELSE AsLength(get_number(Options("msgpack"), s, at + 1, IF s[at] % 2 = 0 THEN 2 ELSE 4))

----------------------------------------------------------------------------
(* UBJSON and BJData.                                                      *)

Ch == [N |-> 78, Z |-> 90, T |-> 84, F |-> 70, B |-> 66, U |-> 85, i |-> 105, I |-> 73, l |-> 108, L |-> 76,
       u |-> 117, m |-> 109, M |-> 77, h |-> 104, d |-> 100, D |-> 68, H |-> 72, C |-> 67, S |-> 83,
       open |-> 91, close |-> 93, begin |-> 123, end |-> 125, type |-> 36, count |-> 35]

IsBjdata(o) == o.format = "bjdata"

SignedMarkers == {Ch.i, Ch.I, Ch.l, Ch.L}

IntMarkers(o) == SignedMarkers \cup {Ch.U} \cup (IF IsBjdata(o) THEN {Ch.u, Ch.m, Ch.M} ELSE {})

FloatMarkers(o) == {Ch.d, Ch.D} \cup (IF IsBjdata(o) THEN {Ch.h} ELSE {})

Width(p) ==
  CASE p \in {Ch.U, Ch.i, Ch.B, Ch.C} -> 1 [] p \in {Ch.I, Ch.u, Ch.h} -> 2
    [] p \in {Ch.l, Ch.m, Ch.d} -> 4       [] p \in {Ch.L, Ch.M, Ch.D} -> 8

\* Where the first byte other than 'N' is, from at on.
RECURSIVE get_ignore_noop(_, _)
get_ignore_noop(s, at) == IF at <= Len(s) /\ s[at] = Ch.N THEN get_ignore_noop(s, at + 1) ELSE at

\* A string after its 'S', or a key.  A negative length reads nothing.
get_ubjson_string(o, s, at) ==
  LET Negative_(r) == s[at] \in SignedMarkers /\ r[2][1] >= 128
  IN  IF at > Len(s) THEN Eof
      ELSE IF s[at] \notin IntMarkers(o) THEN Fail
      ELSE Then(get_number(o, s, at + 1, Width(s[at])),
                LAMBDA r : get_bytes(s, r[1], IF Negative_(r) THEN <<>> ELSE Trim(r[2])))

\* A size: where it ends, its value, and the dimensions where BJData gives
\* those of an array instead.  prefix is the marker, 0 if it is still to be
\* read; nested says that dimensions are not allowed.  A product of dimensions
\* above 1000, more elements than any input here has, is kept at 1000: the
\* overflow the code reports (408) is then the end of the input.
SizeNumber(r, signed) ==
  Then(r, LAMBDA n : IF signed /\ n[2][1] >= 128 THEN Fail ELSE <<n[1], Count(Trim(n[2])), <<>> >>)

SizeOfDimensions(r) ==
  LET Row(dim) == Len(dim) = 1 \/ (Len(dim) = 2 /\ dim[1] = 1)
      Times(m, n) == IF m * n > 1000 THEN 1000 ELSE m * n
  IN  Then(r, LAMBDA d :
        IF Row(d[2]) THEN <<d[1], Last(d[2]), <<>> >>
        ELSE IF d[2] = <<>> \/ \E k \in DOMAIN d[2] : d[2][k] = 0 THEN <<d[1], 0, <<>> >>
        ELSE <<d[1], FoldLeft(Times, 1, d[2]), d[2]>>)

RECURSIVE get_ubjson_size_value(_, _, _, _, _), get_ubjson_size_type(_, _, _, _), Dimensions(_, _, _, _)
get_ubjson_size_value(o, s, at, prefix, nested) ==
  LET from == IF prefix = 0 THEN get_ignore_noop(s, at) + 1 ELSE at
      p    == IF prefix = 0 THEN s[from - 1] ELSE prefix
  IN  IF from - 1 > Len(s) THEN Eof
      ELSE IF p \in IntMarkers(o) THEN SizeNumber(get_number(o, s, from, Width(p)), p \in SignedMarkers)
      ELSE IF p = Ch.open /\ IsBjdata(o) /\ ~nested
      THEN SizeOfDimensions(Dimensions(o, s, get_ubjson_size_type(o, s, from, TRUE), <<>>))
      ELSE Fail
\* get_ubjson_ndarray_size: the dimensions after the head h of their array,
\* counted and of one type, counted, or up to a ']'.
Dimensions(o, s, h, done) ==
  LET counted == h.size >= 0
      More(r) ==
        Dimensions(o, s, [h EXCEPT !.at = IF counted THEN r[1] ELSE get_ignore_noop(s, r[1])], Append(done, r[2]))
  IN  IF h.at <= 0 THEN <<h.at, Null>>
      ELSE IF counted /\ (h.type = Ch.N \/ Len(done) = h.size) THEN <<h.at, done>>
      ELSE IF counted THEN Then(get_ubjson_size_value(o, s, h.at, h.type, TRUE), More)
      ELSE IF h.at > Len(s) THEN Eof
      ELSE IF s[h.at] = Ch.close THEN <<h.at + 1, done>>
      ELSE Then(get_ubjson_size_value(o, s, h.at + 1, s[h.at], TRUE), More)
\* The optional '$' type and '#' size at the start of a container.  Without
\* a size, at is where the first element or the end is.
get_ubjson_size_type(o, s, at, inside_ndarray) ==
  LET Header(a, size, type, dim) == [at |-> a, size |-> size, type |-> type, dim |-> dim]
      Failed(r) == Header(r[1], 0, 0, <<>>)
      Sized(r, type, dimensions) ==
        IF ~Ok(r) THEN Failed(r) ELSE IF r[3] # <<>> /\ ~dimensions THEN Failed(Fail) ELSE Header(r[1], r[2], type, r[3])
      p == get_ignore_noop(s, at)
      q == get_ignore_noop(s, p + 2)
  IN  IF p > Len(s) THEN Header(p, -1, 0, <<>>)
      ELSE IF s[p] = Ch.type
      THEN IF p + 1 > Len(s) THEN Failed(Eof)
           ELSE IF IsBjdata(o) /\ s[p + 1] \in {Ch.F, Ch.H, Ch.N, Ch.S, Ch.T, Ch.Z, Ch.open, Ch.begin} THEN Failed(Fail)
           ELSE IF q > Len(s) THEN Failed(Eof)
           ELSE IF s[q] # Ch.count THEN Failed(Fail)
           ELSE Sized(get_ubjson_size_value(o, s, q + 1, 0, FALSE), s[p + 1], ~inside_ndarray)
      ELSE IF s[p] = Ch.count THEN Sized(get_ubjson_size_value(o, s, p + 1, 0, FALSE), 0, FALSE)
      ELSE Header(p, -1, 0, <<>>)

\* A number given by its digits goes through the lexer.  What digits with a
\* fraction or an exponent stand for is left out.
get_ubjson_high_precision_number(o, s, at) ==
  LET Scan(r) == IF r[2] = <<>> \/ ~IsNumber(r[2]) THEN Fail ELSE <<r[1], Value(NumberClass(r[2]), r[2])>>
  IN  Then(get_ubjson_size_value(o, s, at, 0, TRUE),
           LAMBDA size : Then(get_bytes(s, size[1], MagnitudeOf(size[2])), Scan))

UbjsonScalar(o, s, at, p) ==
  LET r == get_number(o, s, at, Width(p))
  IN  CASE p = Ch.Z -> <<at, Null>>
        [] p = Ch.T -> <<at, Boolean(TRUE)>>
        [] p = Ch.F -> <<at, Boolean(FALSE)>>
        [] p \in IntMarkers(o) -> IF p \in SignedMarkers THEN AsInteger(r) ELSE AsUnsigned(r)
        [] p = Ch.B /\ IsBjdata(o) -> AsUnsigned(r)
        [] p \in FloatMarkers(o) -> AsFloat(r)
        [] p = Ch.H -> get_ubjson_high_precision_number(o, s, at)
        [] p = Ch.C -> IF Ok(r) /\ r[2][1] > 127 THEN Fail ELSE AsString(r)
        [] p = Ch.S -> AsString(get_ubjson_string(o, s, at))
        [] OTHER -> Fail

\* An array with dimensions is an object of its sizes, its type and its
\* data.  The keys and the names of the types are shortened, in the order
\* of the ones the code has.
ArrayData == <<95, 68>>

ArraySize == <<95, 83>>

ArrayType == <<95, 84>>

bjd_types_map ==
  [p \in {Ch.B, Ch.C, Ch.D, Ch.I, Ch.L, Ch.M, Ch.U, Ch.d, Ch.i, Ch.l, Ch.m, Ch.u} |-> String(<<p>>)]

----------------------------------------------------------------------------
(* Values.  The loops over elements and members are the same in all        *)
(* formats: n of them, or up to a stop byte.  prefix is the type all       *)
(* elements of a UBJSON container share, 0 elsewhere.                      *)

\* Types whose values take no bytes.
NoBytes == {Ch.Z, Ch.T, Ch.F}

ReadName(o, s, at) ==
  CASE o.format = "cbor" -> get_cbor_string(s, at)
    [] o.format = "msgpack" -> get_msgpack_string(s, at)
    [] OTHER -> get_ubjson_string(o, s, at)

RECURSIVE ReadValue(_, _, _, _), Elements(_, _, _, _, _), Members(_, _, _, _, _),
          ElementsTo(_, _, _, _, _), MembersTo(_, _, _, _, _), parse_cbor_internal(_, _, _),
          parse_msgpack_internal(_, _), get_ubjson_value(_, _, _, _),
          get_ubjson_array(_, _, _), get_ubjson_object(_, _, _)
ReadValue(o, s, at, prefix) ==
  CASE o.format = "cbor" -> parse_cbor_internal(o, s, at)
    [] o.format = "msgpack" -> parse_msgpack_internal(s, at)
    [] o.format \in {"ubjson", "bjdata"} /\ prefix # 0 -> get_ubjson_value(o, s, at, prefix)
    [] o.format \in {"ubjson", "bjdata"} /\ prefix = 0 ->
         LET p == get_ignore_noop(s, at) IN IF p > Len(s) THEN Eof ELSE get_ubjson_value(o, s, p + 1, s[p])
Elements(o, s, at, prefix, n) ==
  LET most == IF prefix \in NoBytes \/ n <= Len(s) THEN n ELSE Len(s) + 1
      half == most \div 2
  IN  CASE most = 0 -> <<at, <<>> >>
        [] most = 1 -> Then(ReadValue(o, s, at, prefix), LAMBDA r : <<r[1], <<r[2]>> >>)
        [] OTHER -> Then(Elements(o, s, at, prefix, half),
                         LAMBDA l : Then(Elements(o, s, l[1], prefix, most - half),
                                         LAMBDA r : <<r[1], l[2] \o r[2]>>))
Members(o, s, at, prefix, n) ==
  LET most == IF n <= Len(s) THEN n ELSE Len(s) + 1
      half == most \div 2
  IN  CASE most = 0 -> <<at, <<>> >>
        [] most = 1 -> Then(ReadName(o, s, at),
                            LAMBDA name : Then(ReadValue(o, s, name[1], prefix),
                                               LAMBDA r : <<r[1], With(<<>>, name[2], r[2])>>))
        [] OTHER -> Then(Members(o, s, at, prefix, half),
                         LAMBDA l : Then(Members(o, s, l[1], prefix, most - half),
                                         LAMBDA r : <<r[1], Merge(l[2], r[2])>>))
ElementsTo(o, s, at, stop, done) ==
  LET p == IF o.format = "cbor" THEN at ELSE get_ignore_noop(s, at)
  IN  IF p <= Len(s) /\ s[p] = stop THEN <<p + 1, done>>
      ELSE Then(ReadValue(o, s, p, 0), LAMBDA r : ElementsTo(o, s, r[1], stop, Append(done, r[2])))
MembersTo(o, s, at, stop, done) ==
  LET p == IF o.format = "cbor" THEN at ELSE get_ignore_noop(s, at)
  IN  IF p <= Len(s) /\ s[p] = stop THEN <<p + 1, done>>
      ELSE Then(Members(o, s, p, 0, 1), LAMBDA r : MembersTo(o, s, r[1], stop, Merge(done, r[2])))
parse_cbor_internal(o, s, at) ==
  LET b == s[at]
      ArrayOf(len) == AsArray(Elements(o, s, len[1], 0, Count(len[2])))
      ObjectOf(len) == AsObject(Members(o, s, len[1], 0, Count(len[2])))
      Tagged(tag) == IF o.tags = "store" /\ b >= 216 THEN get_cbor_binary(s, tag[1], tag[2])
                     ELSE parse_cbor_internal(o, s, tag[1])
  IN  IF at > Len(s) THEN Eof
      ELSE CASE b \in 0 .. 27 -> CborUnsigned(s, at)
             [] b \in 32 .. 59 -> get_cbor_negative_integer(s, at)
             [] b \in 64 .. 91 \cup {95} -> get_cbor_binary(s, at, NoSubtype)
             [] b \in 96 .. 123 \cup {127} -> AsString(get_cbor_string(s, at))
             [] b \in 128 .. 155 -> Then(CborLength(s, at), ArrayOf)
             [] b = 159 -> AsArray(ElementsTo(o, s, at + 1, 255, <<>>))
             [] b \in 160 .. 187 -> Then(CborLength(s, at), ObjectOf)
             [] b = 191 -> AsObject(MembersTo(o, s, at + 1, 255, <<>>))
             [] b \in 198 .. 212 \cup 216 .. 219 -> Then(CborTag(o, s, at), Tagged)
             [] b \in 244 .. 245 -> <<at + 1, Boolean(b = 245)>>
             [] b = 246 -> <<at + 1, Null>>
             [] b = 249 -> CborHalf(s, at)
             [] b \in 250 .. 251 -> CborFloat(s, at)
             [] OTHER -> Fail
parse_msgpack_internal(s, at) ==
  LET b == s[at]
      o == Options("msgpack")
      ArrayOf(len) == AsArray(Elements(o, s, len[1], 0, Count(len[2])))
      ObjectOf(len) == AsObject(Members(o, s, len[1], 0, Count(len[2])))
  IN  IF at > Len(s) THEN Eof
      ELSE CASE b \in 0 .. 127 \cup 202 .. 211 \cup 224 .. 255 -> MsgpackNumber(s, at)
             [] b \in 128 .. 143 \cup 222 .. 223 -> Then(MsgpackLength(s, at), ObjectOf)
             [] b \in 144 .. 159 \cup 220 .. 221 -> Then(MsgpackLength(s, at), ArrayOf)
             [] b \in 160 .. 191 \cup 217 .. 219 -> AsString(get_msgpack_string(s, at))
             [] b = 192 -> <<at + 1, Null>>
             [] b = 193 -> Fail
             [] b \in 194 .. 195 -> <<at + 1, Boolean(b = 195)>>
             [] b \in 196 .. 201 \cup 212 .. 216 -> get_msgpack_binary(s, at)
get_ubjson_value(o, s, at, prefix) ==
  CASE prefix = Ch.open -> get_ubjson_array(o, s, at)
    [] prefix = Ch.begin -> get_ubjson_object(o, s, at)
    [] OTHER -> UbjsonScalar(o, s, at, prefix)
get_ubjson_array(o, s, at) ==
  LET Sizes(h) == Array([i \in DOMAIN h.dim |-> Unsigned(MagnitudeOf(h.dim[i]))])
      Shaped(h, data) ==
        Object(With(With(With(<<>>, ArrayData, Array(data)), ArraySize, Sizes(h)), ArrayType, bjd_types_map[h.type]))
      type(h) == IF h.dim # <<>> /\ h.type \in {Ch.B, Ch.C} THEN Ch.U ELSE h.type
      ArrayOf(h) ==
        IF h.at <= 0 THEN <<h.at, Null>>
        ELSE IF h.dim # <<>> /\ h.type \notin DOMAIN bjd_types_map THEN Fail
        ELSE IF h.dim = <<>> /\ IsBjdata(o) /\ h.size >= 0 /\ h.type = Ch.B
        THEN AsBinary(get_bytes(s, h.at, MagnitudeOf(h.size)), NoSubtype)
        ELSE IF h.size < 0 THEN AsArray(ElementsTo(o, s, h.at, Ch.close, <<>>))
        ELSE IF h.type = Ch.N THEN <<h.at, Array(<<>>)>>
        ELSE Then(Elements(o, s, h.at, type(h), h.size),
                  LAMBDA r : <<r[1], IF h.dim = <<>> THEN Array(r[2]) ELSE Shaped(h, r[2])>>)
  IN  ArrayOf(get_ubjson_size_type(o, s, at, FALSE))
get_ubjson_object(o, s, at) ==
  LET ObjectOf(h) ==
        IF h.at <= 0 THEN <<h.at, Null>>
        ELSE IF h.dim # <<>> THEN Fail
        ELSE IF h.size < 0 THEN AsObject(MembersTo(o, s, h.at, Ch.end, <<>>))
        ELSE AsObject(Members(o, s, h.at, h.type, h.size))
  IN  ObjectOf(get_ubjson_size_type(o, s, at, FALSE))

----------------------------------------------------------------------------
(* BSON.                                                                   *)

get_bson_cstr(s, at) ==
  LET zeros == {i \in at .. Len(s) : s[i] = 0}
  IN  IF zeros = {} THEN Eof ELSE <<Min(zeros) + 1, SubSeq(s, at, Min(zeros) - 1)>>

\* A bug: the final zero is taken for a part of the string.
BsonStringWithZero(s, at) ==
  LET Characters(len) ==
        IF len[2][1] >= 128 \/ Trim(len[2]) = <<>> THEN Fail ELSE get_bytes(s, len[1], Trim(len[2]))
  IN  Then(get_number(Options("bson"), s, at, 4), Characters)

\* The length counts the final zero, which is skipped unseen.
get_bson_string(s, at) ==
  LET Characters(len) ==
        IF len[2][1] >= 128 \/ Trim(len[2]) = <<>> THEN Fail
        ELSE Then(get_bytes(s, len[1], Trim(len[2])), LAMBDA r : <<r[1], Front(r[2])>>)
  IN  Then(get_number(Options("bson"), s, at, 4), Characters)

get_bson_binary(s, at) ==
  LET Data(len) ==
        IF len[2][1] >= 128 THEN Fail
        ELSE Then(AsLength(get_number(Options("bson"), s, len[1], 1)),
                  LAMBDA subtype : AsBinary(get_bytes(s, subtype[1], Trim(len[2])), subtype[2]))
  IN  Then(get_number(Options("bson"), s, at, 4), Data)

\* The size of a document is read and not looked at.
RECURSIVE BsonDocument(_, _, _), parse_bson_element_list(_, _, _, _), parse_bson_element_internal(_, _, _)
BsonDocument(s, at, is_array) ==
  Then(get_number(Options("bson"), s, at, 4), LAMBDA size : parse_bson_element_list(s, size[1], is_array, <<>>))
parse_bson_element_list(s, at, is_array, done) ==
  LET More(name, r) ==
        parse_bson_element_list(s, r[1], is_array, IF is_array THEN Append(done, r[2]) ELSE With(done, name, r[2]))
  IN  IF at > Len(s) THEN Eof
      ELSE IF s[at] = 0 THEN <<at + 1, IF is_array THEN Array(done) ELSE Object(done)>>
      ELSE Then(get_bson_cstr(s, at + 1),
                LAMBDA name : Then(parse_bson_element_internal(s, name[1], s[at]), LAMBDA r : More(name[2], r)))
parse_bson_element_internal(s, at, element_type) ==
  LET Number(n) == get_number(Options("bson"), s, at, n)
  IN  CASE element_type = 1  -> AsFloat(Number(8))
        [] element_type = 2  -> AsString(get_bson_string(s, at))
        [] element_type = 3  -> BsonDocument(s, at, FALSE)
        [] element_type = 4  -> BsonDocument(s, at, TRUE)
        [] element_type = 5  -> get_bson_binary(s, at)
        [] element_type = 8  -> Then(Number(1), LAMBDA r : <<r[1], Boolean(r[2][1] # 0)>>)
        [] element_type = 10 -> <<at, Null>>
        [] element_type = 16 -> AsInteger(Number(4))
        [] element_type = 17 -> AsUnsigned(Number(8))
        [] element_type = 18 -> AsInteger(Number(8))
        [] OTHER -> Fail

parse_bson_internal(s, at) == BsonDocument(s, at, FALSE)

\* A bug: what follows the value is not looked at.
sax_parse_lax(o, s) == IF o.format = "bson" THEN parse_bson_internal(s, 1) ELSE ReadValue(o, s, 1, 0)

\* sax_parse: a whole input, with nothing after the value but, in UBJSON,
\* no-ops.
sax_parse(o, s) ==
  LET End(r) == IF o.format \in {"ubjson", "bjdata"} THEN get_ignore_noop(s, r[1]) ELSE r[1]
  IN  Then(IF o.format = "bson" THEN parse_bson_internal(s, 1) ELSE ReadValue(o, s, 1, 0),
           LAMBDA r : IF End(r) <= Len(s) THEN Fail ELSE r)

----------------------------------------------------------------------------
(* binary_writer.                                                          *)

\* An integer as write_number casts it.
write_number(o, j, n) ==
  LET b == IF Type(j) = "integer" THEN SignedBytes(j[2], j[3], n) ELSE Bytes(j[2], n)
  IN  IF LittleEndian(o) THEN Reverse(b) ELSE b

Negative(j) == Type(j) = "integer" /\ j[2]

Magnitude(j) == j[Len(j)]

\* The smallest of 1, 2, 4 and 8 bytes a magnitude fits in.
Size1248(m) == CASE Len(m) <= 1 -> 1 [] Len(m) = 2 -> 2 [] Len(m) \in 3 .. 4 -> 4 [] OTHER -> 8

\* A bug: 24 is taken for a number that the initial byte holds.
CborHeadTooSmall(major, m) ==
  IF Fits(m, 1) /\ NumberOf(m) <= 24 THEN <<major + NumberOf(m)>>
  ELSE <<major + 24 + Log2(Size1248(m))>> \o Bytes(m, Size1248(m))

\* CBOR: small numbers are in the initial byte.
CborHead(major, m) ==
  IF Fits(m, 1) /\ NumberOf(m) <= 23 THEN <<major + NumberOf(m)>>
  ELSE LET n == Size1248(m)
       IN  <<major + 24 + Log2(n)>> \o Bytes(m, n)

WriteCborInteger(j) == CborHead(IF Negative(j) THEN 32 ELSE 0, Magnitude(j))

\* A double that is a float is written as one; of a NaN the upper bits of
\* the payload stay.
write_compact_float(d, single, double) ==
  CASE IsNaN(d) -> <<single, d[1], 192 + (d[2] % 8) * 8 + d[3] \div 32,
                     (d[3] % 32) * 8 + d[4] \div 32, (d[4] % 32) * 8 + d[5] \div 32>>
    [] IsInf(d) -> <<single, d[1], 128, 0, 0>>
    [] IsFinite(d) /\ Narrow(d) # <<>> -> <<single>> \o Narrow(d)
    [] OTHER -> <<double>> \o d

WriteCborFloat(d) ==
  CASE IsNaN(d) -> <<249, 126, 0>>
    [] IsInf(d) -> <<249, IF d[1] < 128 THEN 124 ELSE 252, 0>>
    [] OTHER -> write_compact_float(d, 250, 251)

WriteCborString(s) == CborHead(96, MagnitudeOf(Len(s))) \o s

\* The subtype is a tag.
WriteCborBinary(s, subtype) ==
  (IF subtype = NoSubtype THEN <<>>
   ELSE <<216 + Log2(Size1248(subtype))>> \o Bytes(subtype, Size1248(subtype)))
  \o CborHead(64, MagnitudeOf(Len(s))) \o s

RECURSIVE write_cbor(_)
write_cbor(j) ==
  CASE Type(j) = "null" -> <<246>>
    [] Type(j) = "boolean" -> <<IF j[2] THEN 245 ELSE 244>>
    [] Type(j) \in {"integer", "unsigned"} -> WriteCborInteger(j)
    [] Type(j) = "float" -> WriteCborFloat(j[2])
    [] Type(j) = "string" -> WriteCborString(j[2])
    [] Type(j) = "binary" -> WriteCborBinary(j[2], j[3])
    [] Type(j) = "array" ->
         CborHead(128, MagnitudeOf(Len(j[2]))) \o Concat([i \in DOMAIN j[2] |-> write_cbor(j[2][i])])
    [] Type(j) = "object" ->
         LET names == Keys(j)
         IN  CborHead(160, MagnitudeOf(Len(names)))
             \o Concat([i \in DOMAIN names |-> WriteCborString(names[i]) \o write_cbor(j[2][names[i]])])
    [] OTHER -> <<>>

\* MessagePack.
WriteMsgpackInteger(j) ==
  LET m == Magnitude(j)
      n == Size1248(m)
      signed == CHOOSE k \in {1, 2, 4, 8} : FitsSigned(m, k) /\ \A i \in {1, 2, 4, 8} : FitsSigned(m, i) => k <= i
  IN  CASE ~Negative(j) /\ FitsSigned(m, 1) -> <<NumberOf(m)>>
        [] ~Negative(j) /\ ~FitsSigned(m, 1) -> <<204 + Log2(n)>> \o Bytes(m, n)
        [] Negative(j) /\ Fits(m, 1) /\ NumberOf(m) <= 31 -> <<255 - NumberOf(m)>>
        [] OTHER -> <<208 + Log2(signed)>> \o SignedBytes(TRUE, m, signed)

\* The first byte and the length of a string, an array or a map: fixed + n up
\* to most, then the wider forms.
MsgpackHead(n, fixed, most, widths) ==
  LET m == MagnitudeOf(n)
      i == Min({k \in DOMAIN widths : Fits(m, widths[k][2])})
  IN  IF n <= most THEN <<fixed + n>> ELSE <<widths[i][1]>> \o Bytes(m, widths[i][2])

WriteMsgpackString(s) == MsgpackHead(Len(s), 160, 31, << <<217, 1>>, <<218, 2>>, <<219, 4>> >>) \o s

WriteMsgpackBinary(s, subtype) ==
  LET m == MagnitudeOf(Len(s))
      n == Size1248(m)
      ext == subtype # NoSubtype
  IN  (IF ext /\ Len(s) \in {1, 2, 4, 8, 16} THEN <<212 + Log2(Len(s))>>
       ELSE <<(IF ext THEN 199 ELSE 196) + Log2(n)>> \o Bytes(m, n))
      \o (IF ext THEN Bytes(subtype, 1) ELSE <<>>) \o s

RECURSIVE write_msgpack(_)
write_msgpack(j) ==
  CASE Type(j) = "null" -> <<192>>
    [] Type(j) = "boolean" -> <<IF j[2] THEN 195 ELSE 194>>
    [] Type(j) \in {"integer", "unsigned"} -> WriteMsgpackInteger(j)
    [] Type(j) = "float" -> write_compact_float(j[2], 202, 203)
    [] Type(j) = "string" -> WriteMsgpackString(j[2])
    [] Type(j) = "binary" -> WriteMsgpackBinary(j[2], j[3])
    [] Type(j) = "array" ->
         MsgpackHead(Len(j[2]), 144, 15, << <<220, 2>>, <<221, 4>> >>)
         \o Concat([i \in DOMAIN j[2] |-> write_msgpack(j[2][i])])
    [] Type(j) = "object" ->
         LET names == Keys(j)
         IN  MsgpackHead(Len(names), 128, 15, << <<222, 2>>, <<223, 4>> >>)
             \o Concat([i \in DOMAIN names |-> WriteMsgpackString(names[i]) \o write_msgpack(j[2][names[i]])])
    [] OTHER -> <<>>

\* UBJSON: the marker of an unsigned number, of a signed one, and, decided
\* once more where all elements of a container share one, of any value.
UnsignedMarker(o, m) ==
  CASE FitsSigned(m, 1) -> Ch.i
    [] ~FitsSigned(m, 1) /\ Fits(m, 1) -> Ch.U
    [] Len(m) = 2 /\ FitsSigned(m, 2) -> Ch.I
    [] Len(m) = 2 /\ ~FitsSigned(m, 2) -> IF IsBjdata(o) THEN Ch.u ELSE Ch.l
    [] Len(m) > 2 /\ FitsSigned(m, 4) -> Ch.l
    [] Len(m) = 4 /\ ~FitsSigned(m, 4) -> IF IsBjdata(o) THEN Ch.m ELSE Ch.L
    [] Len(m) > 4 /\ FitsSigned(m, 8) -> Ch.L
    [] Len(m) = 8 /\ ~FitsSigned(m, 8) -> IF IsBjdata(o) THEN Ch.M ELSE Ch.H

SignedMarker(o, negative, m) ==
  IF ~negative THEN UnsignedMarker(o, m)
  ELSE CASE FitsSigned(m, 1) -> Ch.i
         [] ~FitsSigned(m, 1) /\ FitsSigned(m, 2) -> Ch.I
         [] ~FitsSigned(m, 2) /\ FitsSigned(m, 4) -> Ch.l
         [] OTHER -> Ch.L

UbjsonNumber(o, j, add_prefix) ==
  LET p == IF Type(j) = "unsigned" THEN UnsignedMarker(o, j[2]) ELSE SignedMarker(o, j[2], j[3])
      text == dump_integer(j)
      length == Unsigned(MagnitudeOf(Len(text)))
  IN  (IF add_prefix THEN <<p>> ELSE <<>>)
      \o (IF p = Ch.H THEN <<UnsignedMarker(o, length[2])>> \o write_number(o, length, 1) \o text
          ELSE write_number(o, j, Width(p)))

UbjsonLength(o, n) == UbjsonNumber(o, Unsigned(MagnitudeOf(n)), TRUE)

ubjson_prefix(o, j) ==
  LET Bits(n) == FitsSigned(Magnitude(j), n)
      unsigned == ~Negative(j)
      All == << <<Ch.i, Bits(1)>>, <<Ch.U, unsigned /\ Fits(Magnitude(j), 1)>>, <<Ch.I, Bits(2)>>,
                <<Ch.u, IsBjdata(o) /\ unsigned /\ Fits(Magnitude(j), 2)>>, <<Ch.l, Bits(4)>>,
                <<Ch.m, IsBjdata(o) /\ unsigned /\ Fits(Magnitude(j), 4)>>, <<Ch.L, Bits(8)>>,
                <<Ch.M, IsBjdata(o) /\ Type(j) = "unsigned">>, <<Ch.H, TRUE>> >>
  IN  CASE Type(j) = "null" -> Ch.Z
        [] Type(j) = "boolean" -> IF j[2] THEN Ch.T ELSE Ch.F
        [] Type(j) \in {"integer", "unsigned"} -> All[Min({k \in DOMAIN All : All[k][2]})][1]
        [] Type(j) = "float" -> Ch.D
        [] Type(j) = "string" -> Ch.S
        [] Type(j) \in {"array", "binary"} -> Ch.open
        [] Type(j) = "object" -> Ch.begin
        [] OTHER -> Ch.N

\* The type all values of a container share, if it can stand before them.
SharedPrefix(o, js) ==
  LET p == ubjson_prefix(o, js[1])
  IN  IF /\ o.use_type /\ js # <<>>
         /\ \A i \in DOMAIN js : ubjson_prefix(o, js[i]) = p
         /\ ~(IsBjdata(o) /\ p \in {Ch.open, Ch.begin, Ch.S, Ch.H, Ch.T, Ch.F, Ch.N, Ch.Z})
      THEN p ELSE 0

\* What precedes the values of a container: its bracket, type and count.
UbjsonHead(o, bracket, add_prefix, type, n) ==
  (IF add_prefix THEN <<bracket>> ELSE <<>>)
  \o (IF type # 0 THEN <<Ch.type, type>> ELSE <<>>)
  \o (IF o.use_count THEN <<Ch.count>> \o UbjsonLength(o, n) ELSE <<>>)

WriteUbjsonBinary(o, s, add_prefix) ==
  LET p == IF IsBjdata(o) /\ o.draft3 THEN Ch.B ELSE Ch.U
      typed == o.use_type /\ (s # <<>> \/ p = Ch.B)
  IN  UbjsonHead(o, Ch.open, add_prefix, IF typed THEN p ELSE 0, Len(s))
      \o (IF o.use_type THEN s ELSE Concat([i \in DOMAIN s |-> <<p, s[i]>>]))
      \o (IF o.use_count THEN <<>> ELSE <<Ch.close>>)

Product(js) ==
  LET times[k \in 0 .. Len(js)] == IF k = 0 THEN 1 ELSE times[k - 1] * NumberOf(js[k][2])
  IN  IF js = <<>> THEN 0 ELSE times[Len(js)]

\* An object that describes an array with dimensions: its marker, 0 if the
\* type is unknown or the data are not as many as the sizes say.
NdarrayType(f) ==
  IF /\ DOMAIN f = {ArrayData, ArraySize, ArrayType}
     /\ \E p \in DOMAIN bjd_types_map : bjd_types_map[p] = f[ArrayType]
     /\ Size(f[ArrayData]) = Product(f[ArraySize][2])
  THEN f[ArrayType][2][1] ELSE 0

NdarrayData(o, p, j) ==
  CASE p = Ch.d -> Reverse(Narrow(j[2])) [] p = Ch.D -> Reverse(j[2]) [] OTHER -> write_number(o, j, Width(p))

RECURSIVE write_ubjson(_, _, _)
write_ubjson(o, j, add_prefix) ==
  CASE Type(j) = "null" -> IF add_prefix THEN <<Ch.Z>> ELSE <<>>
    [] Type(j) = "boolean" -> IF add_prefix THEN <<IF j[2] THEN Ch.T ELSE Ch.F>> ELSE <<>>
    [] Type(j) \in {"integer", "unsigned"} -> UbjsonNumber(o, j, add_prefix)
    [] Type(j) = "float" -> (IF add_prefix THEN <<Ch.D>> ELSE <<>>) \o (IF IsBjdata(o) THEN Reverse(j[2]) ELSE j[2])
    [] Type(j) = "string" -> (IF add_prefix THEN <<Ch.S>> ELSE <<>>) \o UbjsonLength(o, Len(j[2])) \o j[2]
    [] Type(j) = "binary" -> WriteUbjsonBinary(o, j[2], add_prefix)
    [] Type(j) = "array" ->
         LET p == SharedPrefix(o, j[2])
         IN  UbjsonHead(o, Ch.open, add_prefix, p, Len(j[2]))
             \o Concat([i \in DOMAIN j[2] |-> write_ubjson(o, j[2][i], p = 0)])
             \o (IF o.use_count THEN <<>> ELSE <<Ch.close>>)
    [] Type(j) = "object" ->
         LET names == Keys(j)
             p  == SharedPrefix(o, [i \in DOMAIN names |-> j[2][names[i]]])
             nd == IF IsBjdata(o) THEN NdarrayType(j[2]) ELSE 0
             data == j[2][ArrayData][2]
         IN  IF nd # 0
             THEN <<Ch.open, Ch.type, nd, Ch.count>> \o write_ubjson(o, j[2][ArraySize], TRUE)
                  \o Concat([i \in DOMAIN data |-> NdarrayData(o, nd, data[i])])
             ELSE UbjsonHead(o, Ch.begin, add_prefix, p, Len(names))
                  \o Concat([i \in DOMAIN names |->
                       UbjsonLength(o, Len(names[i])) \o names[i] \o write_ubjson(o, j[2][names[i]], p = 0)])
                  \o (IF o.use_count THEN <<>> ELSE <<Ch.end>>)
    [] OTHER -> <<>>

\* BSON: the sizes are computed before anything is written.
calc_bson_entry_header_size(name) == 1 + Len(name) + 1

\* std::to_string(array_index).
IndexText(i) == Digits(MagnitudeOf(i - 1))

BsonIntegerSize(j) == IF FitsSigned(Magnitude(j), 4) THEN 4 ELSE 8

RECURSIVE Total(_)
Total(ns) ==
  LET n == Len(ns)
  IN  CASE n = 0 -> 0
        [] n = 1 -> ns[1]
        [] OTHER -> Total(SubSeq(ns, 1, n \div 2)) + Total(SubSeq(ns, n \div 2 + 1, n))

RECURSIVE calc_bson_object_size(_), calc_bson_array_size(_), calc_bson_element_size(_, _)
calc_bson_object_size(f) ==
  LET names == Sorted(DOMAIN f)
  IN  4 + Total([i \in DOMAIN names |-> calc_bson_element_size(names[i], f[names[i]])]) + 1
calc_bson_array_size(js) ==
  4 + Total([i \in DOMAIN js |-> calc_bson_element_size(IndexText(i), js[i])]) + 1
calc_bson_element_size(name, j) ==
  calc_bson_entry_header_size(name)
  + CASE Type(j) = "object" -> calc_bson_object_size(j[2])
      [] Type(j) = "array" -> calc_bson_array_size(j[2])
      [] Type(j) \in {"binary", "string"} -> 4 + Len(j[2]) + 1
      [] Type(j) = "boolean" -> 1
      [] Type(j) = "float" -> 8
      [] Type(j) \in {"integer", "unsigned"} -> BsonIntegerSize(j)
      [] Type(j) = "null" -> 0

BsonInt32(n) == Reverse(Bytes(MagnitudeOf(n), 4))

write_bson_entry_header(name, element_type) == <<element_type>> \o name \o <<0>>

BsonNumber(j) ==
  LET n == BsonIntegerSize(j)
  IN  << CASE n = 4 -> 16
           [] n = 8 /\ Type(j) = "unsigned" /\ ~FitsSigned(Magnitude(j), 8) -> 17
           [] OTHER -> 18,
         write_number(Options("bson"), j, n) >>

RECURSIVE write_bson_object(_), write_bson_element(_, _), write_bson_array(_)
write_bson_object(f) ==
  LET names == Sorted(DOMAIN f)
  IN  BsonInt32(calc_bson_object_size(f))
      \o Concat([i \in DOMAIN names |-> write_bson_element(names[i], f[names[i]])]) \o <<0>>
write_bson_array(js) ==
  BsonInt32(calc_bson_array_size(js))
  \o Concat([i \in DOMAIN js |-> write_bson_element(IndexText(i), js[i])]) \o <<0>>
write_bson_element(name, j) ==
  LET Element(type, bytes) == write_bson_entry_header(name, type) \o bytes
  IN  CASE Type(j) = "object" -> Element(3, write_bson_object(j[2]))
        [] Type(j) = "array" -> Element(4, write_bson_array(j[2]))
        [] Type(j) = "binary" ->
             Element(5, BsonInt32(Len(j[2])) \o (IF j[3] = NoSubtype THEN <<0>> ELSE Bytes(j[3], 1)) \o j[2])
        [] Type(j) = "boolean" -> Element(8, <<IF j[2] THEN 1 ELSE 0>>)
        [] Type(j) = "float" -> Element(1, Reverse(j[2]))
        [] Type(j) \in {"integer", "unsigned"} -> Element(BsonNumber(j)[1], BsonNumber(j)[2])
        [] Type(j) = "string" -> Element(2, BsonInt32(Len(j[2]) + 1) \o j[2] \o <<0>>)
        [] Type(j) = "null" -> Element(10, <<>>)

\* What each format can write: BSON objects only, and no zero byte in a key.
RECURSIVE HasZeroKey(_)
HasZeroKey(j) ==
  /\ IsStructured(j)
  /\ \/ Type(j) = "object" /\ \E k \in DOMAIN j[2] : \E i \in DOMAIN k : k[i] = 0
     \/ \E x \in DOMAIN j[2] : HasZeroKey(j[2][x])

CanWrite(o, j) == o.format = "bson" => Type(j) = "object" /\ ~HasZeroKey(j)

to_bytes(o, j) ==
  CASE o.format = "cbor" -> write_cbor(j)
    [] o.format = "msgpack" -> write_msgpack(j)
    [] o.format \in {"ubjson", "bjdata"} -> write_ubjson(o, j, TRUE)
    [] o.format = "bson" -> write_bson_object(j[2])

\* The formats, with the options that change what is written.
Formats ==
  {Options("cbor"), Options("msgpack"), Options("ubjson"), Options("bjdata"), Options("bson")}
  \cup {[Options(f) EXCEPT !.use_count = TRUE, !.use_type = t] : f \in {"ubjson", "bjdata"}, t \in BOOLEAN}
  \cup {[Options("bjdata") EXCEPT !.use_count = TRUE, !.use_type = TRUE, !.draft3 = TRUE]}

----------------------------------------------------------------------------
(* What a format keeps of a value, up to the type of an integer that is    *)
(* not negative and the payload of a NaN.                                  *)

Numbers(s) == Array([i \in DOMAIN s |-> Unsigned(MagnitudeOf(s[i]))])

RECURSIVE Canonical(_)
Canonical(j) ==
  CASE Type(j) = "integer" /\ ~j[2] -> Unsigned(j[3])
    [] Type(j) = "float" /\ IsNaN(j[2]) -> Float(QuietNaN)
    [] IsStructured(j) -> <<j[1], [x \in DOMAIN j[2] |-> Canonical(j[2][x])]>>
    [] OTHER -> j

RECURSIVE Preserved(_, _)
Preserved(o, j) ==
  CASE Type(j) = "binary" ->
        (CASE o.format = "cbor" -> j
           [] o.format = "msgpack" -> IF j[3] = NoSubtype THEN j ELSE Binary(j[2], Trim(Bytes(j[3], 1)))
           [] o.format = "bson" -> Binary(j[2], IF j[3] = NoSubtype THEN <<>> ELSE Trim(Bytes(j[3], 1)))
           [] o.format \in {"ubjson", "bjdata"} ->
                IF IsBjdata(o) /\ o.draft3 THEN Binary(j[2], NoSubtype) ELSE Numbers(j[2]))
    [] Type(j) = "object" /\ IsBjdata(o) /\ NdarrayType(j[2]) # 0 ->
         LET f == j[2]
             dim == f[ArraySize][2]
         IN  IF Len(dim) > 1 /\ ~(Len(dim) = 2 /\ dim[1] = Unsigned(<<1>>)) /\ Size(f[ArrayData]) > 0 THEN j
             ELSE IF o.format = "bjdata" /\ f[ArrayType] = bjd_types_map[Ch.B]
             THEN Binary([i \in DOMAIN f[ArrayData][2] |-> NumberOf(f[ArrayData][2][i][2])], NoSubtype)
             ELSE f[ArrayData]
    [] IsStructured(j) /\ ~(Type(j) = "object" /\ IsBjdata(o) /\ NdarrayType(j[2]) # 0) ->
         <<j[1], [x \in DOMAIN j[2] |-> Preserved(o, j[2][x])]>>
    [] OTHER -> j

----------------------------------------------------------------------------
(* A value is written in one of the formats, or an input grows byte by     *)
(* byte for as long as the reader asks for more.                           *)

NoFormat == [format |-> "none"]

Uncounted(o) == o.format = "bson" \/ (o.format \in {"ubjson", "bjdata"} /\ ~o.use_count)

write(o) ==
  /\ sample # Discarded /\ format = NoFormat
  /\ Uncounted(o) /\ Type(sample) \in {"array", "object", "binary"} =>
       Cardinality(DOMAIN sample[2]) <= MaxUncounted
  /\ CanWrite(o, sample)
  /\ format' = o
  /\ input' = to_bytes(o, sample)
  /\ UNCHANGED sample

\* How many bytes of the input are not of its start.
Grown == Len(input) - Max({Len(x.bytes) : x \in {y \in Starts : y.format = format /\ IsPrefix(y.bytes, input)}})

get ==
  /\ sample = Discarded /\ format # NoFormat
  /\ sax_parse(format, input) = Eof
  /\ Grown < MaxBytes
  /\ \E b \in Alphabet[format.format] : input' = Append(input, b)
  /\ UNCHANGED <<sample, format>>

BinaryInit ==
  \/ sample \in Samples /\ format = NoFormat /\ input = <<>>
  \/ sample = Discarded /\ \E x \in Starts : format = x.format /\ input = x.bytes

BinaryNext ==
  \/ \E o \in Formats : write(o)
  \/ get

BinarySpec == BinaryInit /\ [][BinaryNext]_binary

----------------------------------------------------------------------------
(* Properties.                                                             *)

ShortMessage == 32

Written == sample # Discarded /\ format # NoFormat

Reading == sample = Discarded /\ format # NoFormat

\* What binary_writer writes, binary_reader reads back: the value the format
\* keeps, over the lengths and numbers at which the encoding changes.  The size in
\* front of a BSON document, which calc_bson_object_size computes before anything
\* is written and the reader skips, is the number of bytes written.
RoundTrip ==
  Written =>
    LET Gives(r) == Ok(r) /\ Canonical(r[2]) = Canonical(Preserved(format, sample))
    IN  /\ Gives(sax_parse(format, input))
        /\ format.format = "bson" => calc_bson_object_size(sample[2]) = Len(input)

\* A reader can tell where a message ends: it asks for more after every part of
\* a message and refuses a byte after it, a no-op of UBJSON apart (sax_parse with
\* strict, unexpect_eof).  Messages up to ShortMessage bytes are cut.
SelfDelimiting ==
  /\ Written /\ Len(input) <= ShortMessage =>
       \A n \in 0 .. Len(input) - 1 : sax_parse(format, SubSeq(input, 1, n))[1] = -1
  /\ (Written \/ (Reading /\ Ok(sax_parse(format, input)))) =>
       \A b \in Alphabet[format.format] :
         LET r == sax_parse(format, Append(input, b))
         IN  IF b = Ch.N /\ format.format \in {"ubjson", "bjdata"} THEN Ok(r) ELSE r = Fail

\* Whatever input a reader accepts, its value is one the writer can write, and
\* reading that gives the value again: the reader builds no value (a length, a
\* subtype, a type of array) the writer has no form for.
AcceptedRewrites ==
  LET Gives(again, j) == Ok(again) /\ Canonical(again[2]) = Canonical(Preserved(format, j))
      Rewrites(r) ==
        Ok(r) => CanWrite(format, r[2]) /\ Gives(sax_parse(format, to_bytes(format, r[2])), r[2])
  IN  Reading => Rewrites(sax_parse(format, input))
============================================================================
