----------------------------- MODULE JsonValue -----------------------------
(***************************************************************************)
(* The values of the JSON library every message of the daemon goes         *)
(* through (cpp/include/nlohmann/json.hpp), and the arithmetic the text    *)
(* and binary formats do on them.  TLC's integers have 32 bits, so a       *)
(* 64-bit number is its magnitude: the sequence of its bytes, the most     *)
(* significant first and without leading zeros.  A negative x is kept as   *)
(* the magnitude of -1 - x, whose complemented bytes are x in two's        *)
(* complement.  A floating-point number is the eight bytes of its IEEE     *)
(* representation.                                                         *)
(*                                                                         *)
(* A value is a tuple that starts with the name of its type; text and keys *)
(* are sequences of bytes.                                                 *)
(***************************************************************************)
EXTENDS Integers, SequencesExt

Byte == 0 .. 255

Null == <<"null">>

Discarded == <<"discarded">>

Boolean(b) == <<"boolean", b>>

Unsigned(m) == <<"unsigned", m>>

\* A signed 64-bit number: m if it is not negative, -1 - m if it is.
Integer(negative, m) == <<"integer", negative, m>>

Float(d) == <<"float", d>>

String(s) == <<"string", s>>

NoSubtype == <<-1>>

\* subtype is NoSubtype or the magnitude of the subtype.
Binary(s, subtype) == <<"binary", s, subtype>>

Array(s) == <<"array", s>>

Object(f) == <<"object", f>>

Type(j) == j[1]

IsStructured(j) == Type(j) \in {"array", "object"}

----------------------------------------------------------------------------
(* Magnitudes and bytes.                                                   *)

RECURSIVE Trim(_)
Trim(s) == IF s = <<>> \/ s[1] # 0 THEN s ELSE Trim(Tail(s))

\* The last n bytes of m, with zeros before it where it is shorter.
Bytes(m, n) ==
  [i \in 1 .. n |-> IF i + Len(m) > n THEN m[i + Len(m) - n] ELSE 0]

Complement(s) == [i \in DOMAIN s |-> 255 - s[i]]

RECURSIVE MagnitudeOf(_)
MagnitudeOf(n) == IF n = 0 THEN <<>> ELSE Append(MagnitudeOf(n \div 256), n % 256)

\* The number a magnitude of at most three bytes stands for.
RECURSIVE NumberOf(_)
NumberOf(m) == IF m = <<>> THEN 0 ELSE NumberOf(Front(m)) * 256 + Last(m)

\* m * k + d, for k and d up to a million.
MulAdd(m, k, d) ==
  LET carry[i \in 0 .. Len(m)] == IF i = Len(m) THEN d ELSE (m[i + 1] * k + carry[i + 1]) \div 256
  IN  MagnitudeOf(carry[0]) \o [i \in DOMAIN m |-> (m[i] * k + carry[i]) % 256]

\* The quotient and the remainder of m by k.
DivMod(m, k) ==
  LET rest[i \in 0 .. Len(m)] == IF i = 0 THEN 0 ELSE (rest[i - 1] * 256 + m[i]) % k
  IN  << Trim([i \in DOMAIN m |-> (rest[i - 1] * 256 + m[i]) \div k]), rest[Len(m)] >>

\* m fits in n bytes as an unsigned, and as a signed number.
Fits(m, n) == Len(m) <= n

FitsSigned(m, n) == Len(m) < n \/ (Len(m) = n /\ m[1] < 128)

\* The n bytes of a signed number.
SignedBytes(negative, m, n) == IF negative THEN Complement(Bytes(m, n)) ELSE Bytes(m, n)

\* The signed number whose two's complement the bytes s are.
SignedOf(s) ==
  IF s[1] >= 128 THEN Integer(TRUE, Trim(Complement(s))) ELSE Integer(FALSE, Trim(s))

\* The conversion between the two 64-bit types.
ToSigned(m) == SignedOf(Bytes(m, 8))

\* An integer of either type as a signed number, as get<int64_t>() gives it.
SignedValue(j) == IF Type(j) = "unsigned" THEN ToSigned(j[2]) ELSE j

----------------------------------------------------------------------------
(* IEEE 754.  A double is a sign, an exponent and a fraction of which only *)
(* the 23 upper bits can be set in what is built here.                     *)

RECURSIVE Log2(_)
Log2(n) == IF n <= 1 THEN 0 ELSE 1 + Log2(n \div 2)

Double(negative, exponent, fraction) ==
  << (IF negative THEN 128 ELSE 0) + exponent \div 16,
     (exponent % 16) * 16 + fraction \div 524288,
     (fraction \div 2048) % 256, (fraction \div 8) % 256, (fraction % 8) * 32, 0, 0, 0 >>

\* (-1)^negative * n * 2^power, for n < 2^24.
Ldexp(negative, n, power) ==
  IF n = 0 THEN Double(negative, 0, 0)
  ELSE LET k == Log2(n) IN Double(negative, k + power + 1023, (n - 2 ^ k) * 2 ^ (23 - k))

IsNaN(d) ==
  /\ d[1] % 128 = 127 /\ d[2] >= 240
  /\ d[2] % 16 # 0 \/ \E i \in 3 .. 8 : d[i] # 0

IsInf(d) == d[1] % 128 = 127 /\ d[2] = 240 /\ \A i \in 3 .. 8 : d[i] = 0

IsFinite(d) == ~(d[1] % 128 = 127 /\ d[2] >= 240)

QuietNaN == <<127, 248, 0, 0, 0, 0, 0, 0>>

\* The double of a single-precision number's four bytes.
Widen(s) ==
  LET negative == s[1] >= 128
      exponent == (s[1] % 128) * 2 + s[2] \div 128
      fraction == (s[2] % 128) * 65536 + s[3] * 256 + s[4]
  IN  CASE exponent = 0   -> Ldexp(negative, fraction, -149)
        [] exponent = 255 -> Double(negative, 2047, fraction)
        [] OTHER          -> Ldexp(negative, fraction + 8388608, exponent - 150)

\* The single-precision number equal to a finite double, <<>> if there is none.
Narrow(d) ==
  LET exponent == (d[1] % 128) * 16 + d[2] \div 16
      fraction == (d[2] % 16) * 524288 + d[3] * 2048 + d[4] * 8 + d[5] \div 32
      sign     == (d[1] \div 128) * 128
      shift    == 897 - exponent
      whole    == fraction + 8388608
      Single(e, f) == <<sign + e \div 2, (e % 2) * 128 + f \div 65536, (f \div 256) % 256, f % 256>>
  IN  CASE d[5] % 32 # 0 \/ d[6] # 0 \/ d[7] # 0 \/ d[8] # 0 -> <<>>
        [] exponent = 0 /\ fraction = 0 -> Single(0, 0)
        [] exponent \in 897 .. 1150 -> Single(exponent - 896, fraction)
        [] exponent \in 874 .. 896 /\ whole % 2 ^ shift = 0 -> Single(0, whole \div 2 ^ shift)
        [] OTHER -> <<>>

\* The double of an integer below 2^24: larger ones are not compared with
\* floating-point numbers here.
DoubleOf(j) ==
  LET negative == Type(j) = "integer" /\ j[2]
      n == NumberOf(j[Len(j)])
  IN  Ldexp(negative, IF negative THEN n + 1 ELSE n, 0)

----------------------------------------------------------------------------
(* Keys: an object iterates in the order std::less gives its keys.         *)

RECURSIVE Less(_, _)
Less(s, t) ==
  /\ t # <<>>
  /\ \/ s = <<>>
     \/ s[1] < t[1]
     \/ s[1] = t[1] /\ Less(Tail(s), Tail(t))

RECURSIVE Sorted(_)
Sorted(S) ==
  IF S = {} THEN <<>>
  ELSE LET first == CHOOSE s \in S : \A t \in S \ {s} : Less(s, t)
       IN  <<first>> \o Sorted(S \ {first})

Keys(j) == Sorted(DOMAIN j[2])

\* f with the value of one key set.
With(f, k, v) == [x \in DOMAIN f \cup {k} |-> IF x = k THEN v ELSE f[x]]

Without(f, k) == [x \in DOMAIN f \ {k} |-> f[x]]

Size(j) ==
  CASE Type(j) = "null" -> 0
    [] Type(j) = "array" -> Len(j[2])
    [] Type(j) = "object" -> Cardinality(DOMAIN j[2])
    [] OTHER -> 1

----------------------------------------------------------------------------
(* operator==.  An unsigned number is cast to a signed one before the two  *)
(* types are compared, an integer to a double before it is compared with   *)
(* a floating-point number.                                                *)

SameDouble(d, e) ==
  /\ ~IsNaN(d) /\ ~IsNaN(e)
  /\ d = e \/ {d, e} = {Double(FALSE, 0, 0), Double(TRUE, 0, 0)}

RECURSIVE Equal(_, _)
Equal(a, b) ==
  LET types == {Type(a), Type(b)}
  IN  CASE types = {"array"} ->
             Len(a[2]) = Len(b[2]) /\ \A i \in DOMAIN a[2] : Equal(a[2][i], b[2][i])
        [] types = {"object"} ->
             DOMAIN a[2] = DOMAIN b[2] /\ \A k \in DOMAIN a[2] : Equal(a[2][k], b[2][k])
        [] types = {"float"} -> SameDouble(a[2], b[2])
        [] types = {"discarded"} -> FALSE
        [] types = {"integer", "unsigned"} -> SignedValue(a) = SignedValue(b)
        [] "float" \in types /\ types \ {"float"} \in {{"integer"}, {"unsigned"}} ->
             LET D(j) == IF Type(j) = "float" THEN j[2] ELSE DoubleOf(j)
             IN  SameDouble(D(a), D(b))
        [] OTHER -> a = b
============================================================================
