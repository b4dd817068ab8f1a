------------------------------- MODULE MCJson -------------------------------
(***************************************************************************)
(* The parts of json.hpp side by side, for one TLC run: a behaviour is one *)
(* of the lexer, of the parser, of the binary formats or of an editing     *)
(* session, while the other parts stay as they start.                      *)
(***************************************************************************)
EXTENDS JsonBinary, JsonParser, JsonDocument

VARIABLE part  \* which of the four the behaviour is about

all == <<part, lexer, parser, binary, document>>

----------------------------------------------------------------------------
(* The values of the constants.                                            *)

One == Unsigned(<<1>>)

A == <<97>>

MCScalars == {One}

MCNames == {A, <<98>>}

\* Numbers and lengths at which the encodings change.
Magnitudes ==
  {<<>>, <<1>>, <<23>>, <<24>>, <<31>>, <<32>>, <<127>>, <<128>>, <<255>>, <<1, 0>>, <<127, 255>>,
   <<128, 0>>, <<255, 255>>, <<1, 0, 0>>, <<127, 255, 255, 255>>, <<128, 0, 0, 0>>,
   <<255, 255, 255, 255>>, <<1, 0, 0, 0, 0>>, <<127, 255, 255, 255, 255, 255, 255, 255>>}

Large == {<<128, 0, 0, 0, 0, 0, 0, 0>>, <<255, 255, 255, 255, 255, 255, 255, 255>>}

Floats ==
  {QuietNaN, <<127, 240, 0, 0, 0, 0, 0, 0>>, <<255, 240, 0, 0, 0, 0, 0, 0>>,
   <<63, 185, 153, 153, 153, 153, 153, 154>>, Ldexp(FALSE, 3, -1), Ldexp(TRUE, 0, 0),
   Ldexp(FALSE, 1, -149), Ldexp(FALSE, 1, -150), Ldexp(FALSE, 16777215, 104), Ldexp(FALSE, 1, 128)}

Fill(n) == [i \in 1 .. n |-> i % 128]

Number(n) == Unsigned(MagnitudeOf(n))

Basic ==
  {Null, Boolean(TRUE), Boolean(FALSE)}
  \cup {Unsigned(m) : m \in Magnitudes \cup Large}
  \cup {Integer(negative, m) : negative \in BOOLEAN, m \in Magnitudes}
  \cup {Float(d) : d \in Floats}
  \cup {String(Fill(n)) : n \in {0, 1, 23, 24, 31, 32}}
  \cup {Binary(Fill(n), t) : n \in {0, 1, 2, 3, 4, 8, 16, 23, 24},
                             t \in {NoSubtype, <<>>, <<5>>, <<200>>, <<1, 0>>}}

Singleton(k, v) == Object(With(<<>>, k, v))

\* Arrays with dimensions, as BJData writes and reads them.
Ndarray(type, dimensions, data) ==
  Object(With(With(With(<<>>, ArrayData, Array(data)), ArraySize,
                   Array([i \in DOMAIN dimensions |-> Number(dimensions[i])])),
              ArrayType, bjd_types_map[type]))

Ndarrays ==
  {Ndarray(Ch.U, <<2, 2>>, <<One, Number(2), Number(3), Number(255)>>),
   Ndarray(Ch.U, <<2>>, <<One, Number(2)>>),
   Ndarray(Ch.I, <<1, 2>>, <<Integer(TRUE, <<1>>), Number(300)>>),
   Ndarray(Ch.B, <<2>>, <<One, Number(2)>>),
   Ndarray(Ch.B, <<2, 1>>, <<One, Number(2)>>),
   Ndarray(Ch.d, <<2, 1>>, <<Float(Ldexp(FALSE, 3, -1)), Float(Ldexp(FALSE, 3, -1))>>),
   Ndarray(Ch.U, <<2, 0>>, <<>>), Ndarray(Ch.U, <<>>, <<>>), Ndarray(Ch.U, <<3>>, <<One>>)}

\* Pairs of elements that share a type, differ in it or in its width.
Firsts ==
  {Null, Boolean(TRUE), Boolean(FALSE), One, Integer(FALSE, <<1>>), Number(200), String(<<>>),
   String(A), Array(<<>>), Array(<<Null>>), Object(<<>>), Binary(<<>>, NoSubtype),
   Binary(<<1>>, NoSubtype), Unsigned(<<255, 255, 255, 255, 255, 255, 255, 255>>)}

Seconds ==
  {Null, Boolean(TRUE), Unsigned(<<128, 0, 0, 0, 0, 0, 0, 0>>), One, Number(200), String(<<>>),
   Array(<<>>), Array(<<One, Number(2)>>), Object(<<>>), Binary(<<1>>, <<1>>)}

MCSamples ==
  Basic \cup {Array(<<v>>) : v \in Basic} \cup {Singleton(A, v) : v \in Basic}
  \cup {Array(<<v, w>>) : v \in Firsts, w \in Seconds}
  \cup {String(Fill(n)) : n \in {255, 256}} \cup {Binary(Fill(n), NoSubtype) : n \in {255, 256}}
  \cup {Array([i \in 1 .. n |-> Number(i)]) : n \in {15, 16, 23, 24, 255, 256}}
  \cup {Object([k \in {<<i>> : i \in 1 .. n} |-> Null]) : n \in {15, 16, 23, 24}}
  \cup {Singleton(A, Array([i \in 1 .. 11 |-> Null]))}
  \cup Ndarrays \cup {Object(With(With(<<>>, <<98>>, d), A, Array(<<d>>))) : d \in Ndarrays}

\* Inputs of the readers: bytes of every class, after nothing or after the head
\* of a document or of a typed container.
MCStarts ==
  {[format |-> [Options("cbor") EXCEPT !.tags = t], bytes |-> <<>>] : t \in {"store", "ignore", "error"}}
  \cup {[format |-> Options(f), bytes |-> <<>>] : f \in {"msgpack", "ubjson", "bjdata"}}
  \cup {[format |-> Options("bson"), bytes |-> b] :
          b \in {<<5, 0, 0, 0>>, <<5, 0, 0, 0, 2, 97, 0, 2, 0, 0, 0>>, <<5, 0, 0, 0, 5, 0>>, <<5, 0, 0, 0, 4, 0, 6, 0, 0, 0>>}}
  \cup {[format |-> Options(f), bytes |-> b] :
          f \in {"ubjson", "bjdata"}, b \in {<<Ch.open, Ch.type>>, <<Ch.begin, Ch.type, Ch.i, Ch.count>>}}
  \cup {[format |-> Options("bjdata"), bytes |-> <<Ch.open, Ch.type, Ch.U, Ch.count, Ch.open>>]}

MCAlphabet ==
  [cbor    |-> {0, 24, 32, 65, 95, 97, 129, 159, 161, 191, 216, 246, 249, 255},
   msgpack |-> {0, 1, 129, 145, 161, 192, 193, 196, 199, 204, 208, 212, 217, 220},
   ubjson  |-> {0, 1, 53, Ch.N, Ch.Z, Ch.U, Ch.C, Ch.H, Ch.open, Ch.close, Ch.begin, Ch.end, Ch.type, Ch.count},
   bjdata  |-> {0, 1, 2, Ch.N, Ch.Z, Ch.U, Ch.B, Ch.S, Ch.open, Ch.close, Ch.begin, Ch.end, Ch.type, Ch.count},
   bson    |-> {0, 1, 2, 3, 5, 8, 10, 16, 97},
   none    |-> {}]

MCDocuments ==
  {Null, Integer(FALSE, <<1>>), Array(<<One, Null>>),
   Array(<<Array(<<One>>), One, One>>), Singleton(A, Singleton(<<126, 47>>, One)),
   Singleton(A, Array(<<One, Singleton(A, Null)>>)), Singleton(<<48>>, One),
   Object(With(With(<<>>, A, Null), <<126, 47>>, Singleton(A, One)))}

MCValues == {Null, Array(<<One>>)}

MCDocNames == {A, <<126, 47>>}

MCPointers ==
  {<<>>, <<47>>, A, <<47, 97>>, <<47, 97, 47, 126, 48, 126, 49>>, <<47, 97, 47, 48>>, <<47, 48, 49>>,
   <<47, 49, 97>>, <<47, 97, 48>>, <<47, 45>>, <<47, 48, 47, 49>>, <<47, 50>>, <<47, 126>>, <<47, 97, 47>>}

MCPatches ==
  LET a == <<47, 97>>
      zero == <<47, 48>>
  IN  << << [op |-> "remove", path |-> a], [op |-> "add", path |-> zero, value |-> One] >>,
         << [op |-> "move", from |-> a, path |-> a \o <<47, 98>>] >>,
         << [op |-> "copy", from |-> zero, path |-> <<47, 45>>], [op |-> "test", path |-> zero, value |-> One],
            [op |-> "replace", path |-> <<>>, value |-> Array(<<>>)] >>,
         << [op |-> "move", from |-> zero, path |-> <<47, 49>>] >>,
         << [op |-> "test", path |-> <<47, 48, 49>>, value |-> Null], [op |-> "add", path |-> A, value |-> Null] >>,
         << [op |-> "add", path |-> a \o zero, value |-> One], [op |-> "add", path |-> a] >>,
         << [op |-> "remove", path |-> <<>>] >>,
         << [op |-> "none", path |-> <<>>] >> >>

----------------------------------------------------------------------------
(* The composition.                                                        *)

LexerIdle == LexerInit /\ mode = "start" /\ ignore_comments

ParserIdle == ParserInit /\ options.sink = "dom" /\ options.ignore_trailing_commas

BinaryIdle == sample = Null /\ format = NoFormat /\ input = <<>>

DocumentIdle == doc = Discarded /\ other = Null /\ code = 0 /\ calls = 0

Init ==
  \/ part = "lexer" /\ LexerInit /\ ParserIdle /\ BinaryIdle /\ DocumentIdle
  \/ part = "parser" /\ LexerIdle /\ ParserInit /\ BinaryIdle /\ DocumentIdle
  \/ part = "binary" /\ LexerIdle /\ ParserIdle /\ BinaryInit /\ DocumentIdle
  \/ part = "document" /\ LexerIdle /\ ParserIdle /\ BinaryIdle /\ DocumentInit

Next ==
  /\ UNCHANGED part
  /\ \/ part = "lexer" /\ LexerNext /\ UNCHANGED <<parser, binary, document>>
     \/ part = "parser" /\ ParserNext /\ UNCHANGED <<lexer, binary, document>>
     \/ part = "binary" /\ BinaryNext /\ UNCHANGED <<lexer, parser, document>>
     \/ part = "document" /\ DocumentNext /\ UNCHANGED <<lexer, parser, binary>>

Spec == Init /\ [][Next]_all

\* The lexer, the parser and an editing session stay in their types: a code
\* point fits 16 bits, what the parser's stack points to is a container.
TypeOK ==
  /\ part \in {"lexer", "parser", "binary", "document"}
  /\ LexerTypeOK /\ ParserTypeOK
  /\ \A i \in DOMAIN input : input[i] \in Byte
  /\ calls \in 0 .. MaxCalls /\ (doc = Discarded <=> part # "document")
============================================================================
