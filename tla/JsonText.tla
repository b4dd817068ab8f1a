------------------------------ MODULE JsonText ------------------------------
(***************************************************************************)
(* Text in json.hpp: the lexer (class lexer), which main.cpp:178 runs over *)
(* every message of the coordinator, and the part of the serializer that   *)
(* writes strings and integers, which main.cpp:275 runs over every         *)
(* notification.                                                           *)
(*                                                                         *)
(* One behaviour scans one token: each action takes the next byte of the   *)
(* input and does what the branch of the code that meets it does.  A byte  *)
(* that is given back (unget) is not taken.  What the scanner should       *)
(* accept, and the value it should give, are defined apart from it, by     *)
(* arithmetic on code points and on decimal digits.                        *)
(***************************************************************************)
EXTENDS JsonValue

CONSTANTS
  FirstBytes,    \* the bytes offered before and in comments, and as first byte
  StringBytes,   \* the bytes offered inside a string
  EscapeBytes,   \* the bytes offered after a backslash
  HexBytes,      \* the bytes offered inside a \u escape
  NumberBytes,   \* the bytes offered inside a number
  Units,         \* how much input there is: see Get
  BufferSize     \* the serializer's string buffer (512 in the code)

VARIABLES
  mode,          \* where scan() is
  need,          \* the ranges of the bytes that have to follow, with their
                 \*   bounds: next_byte_in_range, scan_literal, get_codepoint
  codepoint,     \* codepoint1, or codepoint2 in mode "low"
  high,          \* codepoint1 when it is a high surrogate
  number_type,
  token_string,  \* the bytes of the token
  token_buffer,  \* the bytes of a string's value, or of a number
  value,         \* the value of a number
  current,       \* the byte scan() returned at, EOF at the end
  token,         \* what scan() returned, "none" while it runs
  ignore_comments,
  units          \* the input left

lexer == <<mode, need, codepoint, high, number_type, token_string, token_buffer, value,
           current, token, ignore_comments, units>>

EOF == -1

Digit == 48 .. 57

Hex == Digit \cup (65 .. 70) \cup (97 .. 102)

HexValue(c) == CASE c \in Digit -> c - 48 [] c \in 65 .. 70 -> c - 55 [] OTHER -> c - 87

NumberModes == {"minus", "zero", "any1", "decimal1", "decimal2", "exponent", "sign", "any2"}

\* What is offered next: EOF always, and bytes of the set for the place.
Offered ==
  {EOF} \cup
  CASE mode \in {"start", "space", "comment", "line", "block", "star"} -> FirstBytes
    [] mode = "string"    -> StringBytes
    [] mode = "escape"    -> EscapeBytes
    [] mode \in NumberModes -> NumberBytes
    [] mode = "utf8"      -> {need[1][1] - 1, need[1][1], need[1][2], need[1][2] + 1}
    [] mode \in {"hex", "low"} /\ Len(need) <= 4 -> HexBytes
    [] OTHER              -> {need[1][1], need[1][1] + 1}

----------------------------------------------------------------------------
(* get, and the ways a step of the scan can end.                           *)

\* The bytes cost units: a number, a blank or a comment byte one, a
\* character of a string two, one of several bytes or a \u escape all.
Get(c, cost) ==
  /\ token = "none"
  /\ c \in Offered
  /\ cost <= units
  /\ units' = units - cost

\* get() appends to token_string, reset() starts it with the current byte;
\* what precedes the token is left out here.
Take(c) == token_string' = IF c = EOF THEN token_string ELSE Append(token_string, c)

Reset(c) == token_string' = <<c>>

Goto(m) == mode' = m /\ UNCHANGED <<token, current>>

Return(t, c) == token' = t /\ current' = c /\ mode' = "done"

KeepRest == UNCHANGED <<need, codepoint, high, number_type, value, ignore_comments>>

Add(s) == token_buffer' = token_buffer \o s

----------------------------------------------------------------------------
(* scan: the byte order mark, blanks, comments and the first byte of a     *)
(* token.                                                                  *)

skip_bom(c) ==
  /\ \/ /\ mode = "start" /\ c = 239
        /\ need' = <<<<187, 187>>, <<191, 191>>>> /\ Goto("bom")
     \/ /\ mode = "bom" /\ c = need[1][1]
        /\ need' = Tail(need) /\ Goto(IF Len(need) = 1 THEN "space" ELSE "bom")
     \/ mode = "bom" /\ c # need[1][1] /\ Return("parse_error", c) /\ UNCHANGED need
  /\ Get(c, 0)
  /\ UNCHANGED <<codepoint, high, number_type, token_string, token_buffer, value, ignore_comments>>

skip_whitespace(c) ==
  /\ mode \in {"start", "space"} /\ c \in {32, 9, 10, 13}
  /\ Get(c, 1) /\ Goto("space")
  /\ KeepRest /\ UNCHANGED <<token_string, token_buffer>>

scan_comment(c) ==
  /\ \/ mode \in {"start", "space"} /\ c = 47 /\ ignore_comments /\ Goto("comment")
     \/ mode = "comment" /\ c = 47 /\ Goto("line")
     \/ mode = "comment" /\ c = 42 /\ Goto("block")
     \/ mode = "comment" /\ c \notin {47, 42} /\ Return("parse_error", c)
     \/ mode = "line" /\ Goto(IF c \in {10, 13, EOF, 0} THEN "space" ELSE "line")
     \/ mode = "block" /\ c \in {EOF, 0} /\ Return("parse_error", c)
     \/ mode = "block" /\ c \notin {EOF, 0} /\ Goto(IF c = 42 THEN "star" ELSE "block")
     \/ mode = "star" /\ c = 47 /\ Goto("space")
  /\ Get(c, 1)
  /\ KeepRest /\ UNCHANGED <<token_string, token_buffer>>

\* After a star that does not close the comment, the byte is read again.
UngetInComment(c) ==
  /\ mode = "star" /\ c # 47 /\ token = "none" /\ c \in Offered
  /\ Goto("block")
  /\ KeepRest /\ UNCHANGED <<token_string, token_buffer, units>>

Structural == [c \in {91, 93, 123, 125, 58, 44} |->
  CASE c = 91 -> "begin_array" [] c = 93 -> "end_array" [] c = 123 -> "begin_object"
    [] c = 125 -> "end_object" [] c = 58 -> "name_separator" [] c = 44 -> "value_separator"]

\* scan() returns a structural token, the end, or an error.
scan(c) ==
  /\ mode \in {"start", "space"}
  /\ \/ c \in DOMAIN Structural /\ Return(Structural[c], c)
     \/ c \in {EOF, 0} /\ Return("end_of_input", c)
     \/ /\ c \notin DOMAIN Structural \cup Digit \cup {EOF, 0, 32, 9, 10, 13, 116, 102, 110, 34, 45}
        /\ c = 47 => ~ignore_comments
        /\ c = 239 => mode = "space"
        /\ Return("parse_error", c)
  /\ Get(c, 0) /\ Take(c)
  /\ KeepRest /\ UNCHANGED token_buffer

Literals == [c \in {116, 102, 110} |->
  CASE c = 116 -> <<114, 117, 101>> [] c = 102 -> <<97, 108, 115, 101>> [] c = 110 -> <<117, 108, 108>>]

LiteralToken(c) ==
  CASE c = 116 -> "literal_true" [] c = 102 -> "literal_false" [] c = 110 -> "literal_null"

scan_literal(c) ==
  /\ \/ /\ mode \in {"start", "space"} /\ c \in DOMAIN Literals
        /\ need' = [i \in DOMAIN Literals[c] |-> <<Literals[c][i], Literals[c][i]>>]
        /\ Goto("literal") /\ Reset(c)
     \/ /\ mode = "literal" /\ c = need[1][1] /\ need' = Tail(need)
        /\ IF Len(need) = 1 THEN Return(LiteralToken(token_string[1]), c) ELSE Goto("literal")
        /\ Take(c)
     \/ /\ mode = "literal" /\ c # need[1][1] /\ UNCHANGED need
        /\ Return("parse_error", c) /\ Take(c)
  /\ Get(c, 0)
  /\ UNCHANGED <<codepoint, high, number_type, token_buffer, value, ignore_comments>>

----------------------------------------------------------------------------
(* scan_string.                                                            *)

BeginString(c) ==
  /\ mode \in {"start", "space"} /\ c = 34
  /\ Get(c, 0) /\ Reset(c) /\ Goto("string") /\ token_buffer' = <<>>
  /\ KeepRest

EndString(c) ==
  /\ mode = "string"
  /\ \/ c = EOF /\ Return("parse_error", c)
     \/ c = 34 /\ Return("value_string", c)
  /\ Get(c, 0) /\ Take(c)
  /\ KeepRest /\ UNCHANGED token_buffer

ControlCharacter(c) ==
  /\ mode = "string" /\ c \in 0 .. 31
  /\ Return("parse_error", c) /\ Get(c, 0) /\ Take(c)
  /\ KeepRest /\ UNCHANGED token_buffer

Ascii(c) ==
  /\ mode = "string" /\ c \in (32 .. 127) \ {34, 92}
  /\ Get(c, 2) /\ Take(c) /\ Add(<<c>>) /\ Goto("string")
  /\ KeepRest

Unescaped == [c \in {34, 92, 47, 98, 102, 110, 114, 116} |->
  CASE c = 98 -> 8 [] c = 102 -> 12 [] c = 110 -> 10 [] c = 114 -> 13 [] c = 116 -> 9 [] OTHER -> c]

Escape(c) ==
  /\ \/ mode = "string" /\ c = 92 /\ Goto("escape") /\ UNCHANGED token_buffer /\ Get(c, 0)
     \/ mode = "escape" /\ c \in DOMAIN Unescaped /\ Goto("string") /\ Add(<<Unescaped[c]>>) /\ Get(c, 2)
     \/ /\ mode = "escape" /\ c \notin DOMAIN Unescaped \cup {117} /\ Return("parse_error", c)
        /\ UNCHANGED token_buffer /\ Get(c, 0)
  /\ Take(c) /\ KeepRest

\* The UTF-8 bytes of a code point.
Encode(cp) ==
  LET Six(n) == 128 + (n % 64)
  IN  CASE cp < 128    -> <<cp>>
        [] cp <= 2047  -> <<192 + (cp \div 64), Six(cp)>>
        [] cp <= 65535 -> <<224 + (cp \div 4096), Six(cp \div 64), Six(cp)>>
        [] OTHER -> <<240 + (cp \div 262144), Six(cp \div 4096), Six(cp \div 64), Six(cp)>>

FourDigits == [i \in 1 .. 4 |-> <<48, 102>>]

\* 'u' after the backslash starts get_codepoint.
BeginCodepoint(c) ==
  /\ mode = "escape" /\ c = 117
  /\ Get(c, Units) /\ Take(c) /\ Goto("hex")
  /\ need' = FourDigits /\ codepoint' = 0
  /\ UNCHANGED <<high, number_type, token_buffer, value, ignore_comments>>

\* codepoint1 is complete: a high surrogate needs a second escape, a low one
\* is an error, anything else is a character.
Codepoint1(cp, c) ==
  \/ cp \in 55296 .. 56319 /\ high' = cp /\ Goto("low")
     /\ need' = <<<<92, 92>>, <<117, 117>>>> \o FourDigits /\ UNCHANGED token_buffer
  \/ cp \in 56320 .. 57343 /\ Return("parse_error", c)
     /\ UNCHANGED <<high, token_buffer>> /\ need' = <<>>
  \/ cp \notin 55296 .. 57343 /\ Goto("string") /\ Add(Encode(cp))
     /\ UNCHANGED high /\ need' = <<>>

Codepoint2(cp, c) ==
  /\ IF cp \in 56320 .. 57343
     THEN Goto("string") /\ Add(Encode(high * 1024 + cp - 56613888))
     ELSE Return("parse_error", c) /\ UNCHANGED token_buffer
  /\ UNCHANGED high /\ need' = <<>>

get_codepoint(c) ==
  /\ mode = "hex" \/ (mode = "low" /\ Len(need) <= 4)
  /\ Get(c, 0) /\ Take(c)
  /\ LET cp == codepoint * 16 + HexValue(c)
     IN  \/ /\ c \in Hex /\ Len(need) > 1
            /\ codepoint' = cp /\ need' = Tail(need) /\ Goto(mode)
            /\ UNCHANGED <<high, token_buffer>>
         \/ /\ c \in Hex /\ Len(need) = 1 /\ codepoint' = 0
            /\ IF mode = "hex" THEN Codepoint1(cp, c) ELSE Codepoint2(cp, c)
         \/ /\ c \notin Hex /\ Return("parse_error", c)
            /\ UNCHANGED <<high, token_buffer, need, codepoint>>
  /\ UNCHANGED <<number_type, value, ignore_comments>>

\* "\u" has to follow a high surrogate.
LowSurrogate(c) ==
  /\ mode = "low" /\ Len(need) > 4
  /\ Get(c, 0) /\ Take(c)
  /\ IF c = need[1][1] THEN Goto("low") /\ need' = Tail(need)
                       ELSE Return("parse_error", c) /\ UNCHANGED need
  /\ UNCHANGED <<codepoint, high, number_type, token_buffer, value, ignore_comments>>

Trail == <<128, 191>>

\* The ranges of the bytes that may follow a lead byte.
LeadRanges(c) ==
  CASE c \in 194 .. 223 -> <<Trail>>
    [] c = 224 -> << <<160, 191>>, Trail >>
    [] c \in (225 .. 236) \cup {238, 239} -> <<Trail, Trail>>
    [] c = 237 -> << <<128, 159>>, Trail >>
    [] c = 240 -> << <<144, 191>>, Trail, Trail >>
    [] c \in 241 .. 243 -> <<Trail, Trail, Trail>>
    [] c = 244 -> << <<128, 143>>, Trail, Trail >>

LeadByte(c) ==
  /\ mode = "string" /\ c \in 194 .. 244
  /\ Get(c, Units) /\ Take(c) /\ Add(<<c>>) /\ Goto("utf8")
  /\ need' = LeadRanges(c)
  /\ UNCHANGED <<codepoint, high, number_type, value, ignore_comments>>

\* Bytes 80..C1 and F5..FF start no character.
IllFormed(c) ==
  /\ mode = "string" /\ c \in (128 .. 193) \cup (245 .. 255)
  /\ Return("parse_error", c) /\ Get(c, 0) /\ Take(c)
  /\ KeepRest /\ UNCHANGED token_buffer

AnyTrail(c) ==
  /\ mode = "utf8"
  /\ Get(c, 0) /\ Take(c)
  /\ IF c \in 128 .. 191
     THEN need' = Tail(need) /\ Add(<<c>>) /\ Goto(IF Len(need) = 1 THEN "string" ELSE "utf8")
     ELSE Return("parse_error", c) /\ UNCHANGED <<need, token_buffer>>
  /\ UNCHANGED <<codepoint, high, number_type, value, ignore_comments>>

next_byte_in_range(c) ==
  /\ mode = "utf8"
  /\ Get(c, 0) /\ Take(c)
  /\ IF c \in need[1][1] .. need[1][2]
     THEN need' = Tail(need) /\ Add(<<c>>) /\ Goto(IF Len(need) = 1 THEN "string" ELSE "utf8")
     ELSE Return("parse_error", c) /\ UNCHANGED <<need, token_buffer>>
  /\ UNCHANGED <<codepoint, high, number_type, value, ignore_comments>>

----------------------------------------------------------------------------
(* scan_number: an automaton over the bytes, then a conversion.            *)

BeginNumber(c) ==
  /\ mode \in {"start", "space"} /\ c \in Digit \cup {45}
  /\ Get(c, 1) /\ Reset(c) /\ token_buffer' = <<c>>
  /\ Goto(CASE c = 45 -> "minus" [] c = 48 -> "zero" [] OTHER -> "any1")
  /\ number_type' = IF c = 45 THEN "integer" ELSE "unsigned"
  /\ UNCHANGED <<need, codepoint, high, value, ignore_comments>>

\* Where each state goes with a byte it accepts; a byte it does not ends the
\* number in the states of Final and is an error in the others.
NumberNext(m, c) ==
  CASE m = "minus" /\ c = 48 -> "zero"
    [] m = "minus" /\ c \in 49 .. 57 -> "any1"
    [] m \in {"zero", "any1"} /\ c = 46 -> "decimal1"
    [] m \in {"zero", "any1", "decimal2"} /\ c \in {101, 69} -> "exponent"
    [] m = "any1" /\ c \in Digit -> "any1"
    [] m \in {"decimal1", "decimal2"} /\ c \in Digit -> "decimal2"
    [] m = "exponent" /\ c \in {43, 45} -> "sign"
    [] m \in {"exponent", "sign", "any2"} /\ c \in Digit -> "any2"
    [] OTHER -> "none"

Final == {"zero", "any1", "decimal2", "any2"}

NumberByte(c) ==
  /\ mode \in NumberModes /\ NumberNext(mode, c) # "none"
  /\ Get(c, 1) /\ Take(c) /\ Add(<<c>>) /\ Goto(NumberNext(mode, c))
  /\ number_type' = IF NumberNext(mode, c) \in {"decimal1", "exponent"} THEN "float" ELSE number_type
  /\ UNCHANGED <<need, codepoint, high, value, ignore_comments>>

NumberError(c) ==
  /\ mode \in NumberModes \ Final /\ NumberNext(mode, c) = "none"
  /\ Return("parse_error", c) /\ Get(c, 0) /\ Take(c)
  /\ KeepRest /\ UNCHANGED token_buffer

\* The value of decimal digits, by strtoull.
RECURSIVE SmallDecimal(_)
SmallDecimal(s) == IF s = <<>> THEN 0 ELSE SmallDecimal(Front(s)) * 10 + Last(s) - 48

RECURSIVE Decimal(_)
Decimal(s) ==
  LET n == Len(s)
  IN  IF n <= 6 THEN MagnitudeOf(SmallDecimal(s))
      ELSE MulAdd(Decimal(SubSeq(s, 1, n - 6)), 1000000, SmallDecimal(SubSeq(s, n - 5, n)))

\* -1 - x for x = -m, m > 0.
MinusOne(m) ==
  LET dec[i \in 0 .. Len(m)] ==
        IF i = 0 THEN <<>>
        ELSE IF \A k \in i + 1 .. Len(m) : m[k] = 0 THEN Append(dec[i - 1], (m[i] + 255) % 256)
        ELSE Append(dec[i - 1], m[i])
  IN  Trim(dec[Len(m)])

\* A bug: the limit of a negative number is taken for that of an unsigned one.
WideValue(type, s) ==
  LET m == Decimal(IF s[1] = 45 THEN Tail(s) ELSE s)
  IN  CASE type = "unsigned" /\ Fits(m, 8) -> Unsigned(m)
        [] type = "integer" /\ m = <<>> -> Integer(FALSE, <<>>)
        [] type = "integer" /\ m # <<>> /\ Fits(MinusOne(m), 8) -> Integer(TRUE, MinusOne(m))
        [] OTHER -> Float(s)

\* The value of the token's bytes: ERANGE makes a floating-point number of
\* an integer.  The value of such a number stays its text here.
Value(type, s) ==
  LET m == Decimal(IF s[1] = 45 THEN Tail(s) ELSE s)
  IN  CASE type = "unsigned" /\ Fits(m, 8) -> Unsigned(m)
        [] type = "integer" /\ m = <<>> -> Integer(FALSE, <<>>)
        [] type = "integer" /\ m # <<>> /\ FitsSigned(MinusOne(m), 8) -> Integer(TRUE, MinusOne(m))
        [] OTHER -> Float(s)

\* The byte after the number is given back.
NumberDone(c) ==
  /\ mode \in Final /\ NumberNext(mode, c) = "none"
  /\ Get(c, 0) /\ Return("value_number", c)
  /\ value' = Value(number_type, token_buffer)
  /\ UNCHANGED <<need, codepoint, high, number_type, token_string, token_buffer, ignore_comments>>

----------------------------------------------------------------------------
\* 2^64 - 1 and 2^63 in decimal.
MaxUnsigned == <<49,56,52,52,54,55,52,52,48,55,51,55,48,57,53,53,49,54,49,53>>

MaxNegative == <<57,50,50,51,51,55,50,48,51,54,56,53,52,55,55,53,56,48,56>>

Above(s) == [s EXCEPT ![Len(s)] = @ + 1]

\* A scan may be found after the digits of a number at one of the limits.
LongNumbers ==
  {MaxUnsigned, Above(MaxUnsigned), MaxNegative, <<45>> \o MaxNegative, <<45>> \o Above(MaxNegative)}

LexerInit ==
  /\ need = <<>> /\ value = Null /\ codepoint = 0 /\ high = 0 /\ current = EOF /\ token = "none"
  /\ \/ /\ mode = "start" /\ units = Units /\ number_type = "unsigned" /\ token_string = <<>> /\ token_buffer = <<>>
        /\ ignore_comments \in BOOLEAN
     \/ /\ mode = "any1" /\ units = 2 /\ ignore_comments = FALSE
        /\ token_string \in LongNumbers /\ token_buffer = token_string
        /\ number_type = IF token_string[1] = 45 THEN "integer" ELSE "unsigned"

LexerNext ==
  /\ token = "none"
  /\ \E c \in Offered :
       \/ skip_bom(c) \/ skip_whitespace(c) \/ scan_comment(c) \/ UngetInComment(c)
       \/ scan(c) \/ scan_literal(c)
       \/ BeginString(c) \/ EndString(c) \/ ControlCharacter(c) \/ Ascii(c) \/ Escape(c)
       \/ BeginCodepoint(c) \/ get_codepoint(c) \/ LowSurrogate(c)
       \/ LeadByte(c) \/ IllFormed(c) \/ next_byte_in_range(c)
       \/ BeginNumber(c) \/ NumberByte(c) \/ NumberError(c) \/ NumberDone(c)

LexerSpec == LexerInit /\ [][LexerNext]_lexer

----------------------------------------------------------------------------
(* The serializer: count_digits, dump_integer, decode and dump_escaped.    *)

RECURSIVE count_digits(_)
count_digits(m) ==
  LET n == NumberOf(m)
  IN  IF Len(m) <= 2 /\ n < 10000
      THEN CASE n < 10 -> 1 [] n < 100 -> 2 [] n < 1000 -> 3 [] OTHER -> 4
      ELSE 4 + count_digits(DivMod(m, 10000)[1])

RECURSIVE Digits(_)
Digits(m) ==
  LET Pair(n) == <<48 + (n \div 10), 48 + (n % 10)>>
      n == NumberOf(m)
  IN  IF Len(m) <= 1 /\ n < 100
      THEN IF n >= 10 THEN Pair(n) ELSE <<48 + n>>
      ELSE Digits(DivMod(m, 100)[1]) \o Pair(DivMod(m, 100)[2])

\* |x| of a negative x, without overflow for the smallest one.
remove_sign(m) == MulAdd(m, 1, 1)

\* The digits fill the buffer from its end, which count_digits places; what
\* they do not reach keeps whatever it held.
dump_integer(j) ==
  LET negative == Type(j) = "integer" /\ j[2]
      m == j[Len(j)]
      digits == Digits(IF negative THEN remove_sign(m) ELSE m)
      n_chars == count_digits(IF negative THEN remove_sign(m) ELSE m) + (IF negative THEN 1 ELSE 0)
  IN  [i \in 1 .. n_chars |->
         CASE i + Len(digits) > n_chars -> digits[i + Len(digits) - n_chars]
           [] i = 1 /\ negative -> 45
           [] OTHER -> 0]

\* The classes of bytes and the transitions of the table utf8d.
ByteType(b) ==
  CASE b < 128 -> 0 [] b < 144 -> 1 [] b < 160 -> 9 [] b < 192 -> 7 [] b < 194 -> 8
    [] b < 224 -> 2 [] b = 224 -> 10 [] b = 237 -> 4 [] b < 240 -> 3 [] b = 240 -> 11
    [] b < 244 -> 6 [] b = 244 -> 5 [] OTHER -> 8

Transition(state, type) ==
  CASE state = 0 -> <<0, 1, 2, 3, 5, 8, 7, 1, 1, 1, 4, 6>>[type + 1]
    [] state = 2 /\ type \in {1, 7, 9} -> 0
    [] \/ state = 3 /\ type \in {1, 7, 9}
       \/ state = 4 /\ type = 7
       \/ state = 5 /\ type \in {1, 9} -> 2
    [] \/ state = 6 /\ type \in {7, 9}
       \/ state = 7 /\ type \in {1, 7, 9}
       \/ state = 8 /\ type = 1 -> 3
    [] OTHER -> 1

\* The new state and code point after a byte: state 0 accepts, 1 rejects.
decode(state, codep, byte) ==
  LET type == ByteType(byte)
  IN  << Transition(state, type),
         IF state # 0 THEN (byte % 64) + codep * 64
         ELSE IF type <= 8 THEN byte % (2 ^ (8 - type)) ELSE 0 >>

HexText(n) ==
  LET Char(d) == IF d < 10 THEN 48 + d ELSE 87 + d
  IN  <<92, 117, Char(n \div 4096), Char((n \div 256) % 16), Char((n \div 16) % 16), Char(n % 16)>>

\* What one accepted code point adds to the buffer.
DumpCodepoint(cp, byte, ascii) ==
  CASE cp = 8  -> <<92, 98>>  [] cp = 9  -> <<92, 116>> [] cp = 10 -> <<92, 110>>
    [] cp = 12 -> <<92, 102>> [] cp = 13 -> <<92, 114>> [] cp = 34 -> <<92, 34>>
    [] cp = 92 -> <<92, 92>>
    [] cp \notin {8, 9, 10, 12, 13, 34, 92} ->
         IF cp <= 31 \/ (ascii /\ cp >= 127)
         THEN IF cp <= 65535 THEN HexText(cp)
              ELSE HexText(55232 + (cp \div 1024)) \o HexText(56320 + (cp % 1024))
         ELSE <<byte>>

\* The state of dump_escaped: the automaton, the buffer, what was written
\* out, bytes_after_last_accept, undumped_chars, and whether a write could
\* have passed the end of the buffer.
DumpStart == [state |-> 0, cp |-> 0, buffer |-> <<>>, out |-> <<>>, last |-> 0, undumped |-> 0,
              at |-> 1, threw |-> FALSE, over |-> FALSE]

\* Write the buffer out when fewer than 13 bytes are left.
Flushed(d, buffer, size) ==
  IF size - Len(buffer) < 13
  THEN [d EXCEPT !.buffer = <<>>, !.out = @ \o buffer, !.last = 0, !.undumped = 0]
  ELSE [d EXCEPT !.buffer = buffer, !.last = Len(buffer), !.undumped = 0]

Replacement(ascii) == IF ascii THEN HexText(65533) ELSE <<239, 191, 189>>

DumpAccept(d, byte, ascii, size) ==
  LET text == DumpCodepoint(d.cp, byte, ascii)
      room == IF Len(text) >= 6 THEN Len(text) + 1 ELSE Len(text)
  IN  Flushed([d EXCEPT !.at = @ + 1, !.over = @ \/ Len(d.buffer) + room > size],
              d.buffer \o text, size)

\* A bug: the byte that broke off a character is skipped with it.
DumpRejectSkips(d, handler, ascii, size) ==
  LET reset == [d EXCEPT !.state = 0, !.undumped = 0, !.buffer = SubSeq(@, 1, d.last), !.at = @ + 1]
  IN  CASE handler = "strict"  -> [d EXCEPT !.threw = TRUE]
        [] handler = "ignore"  -> reset
        [] handler = "replace" -> Flushed(reset, reset.buffer \o Replacement(ascii), size)

\* Outside strict mode an invalid byte is read again if it broke off a
\* character: it may start one.
DumpReject(d, handler, ascii, size) ==
  LET reset == [d EXCEPT !.state = 0, !.undumped = 0, !.buffer = SubSeq(@, 1, d.last),
                         !.at = IF d.undumped > 0 THEN @ ELSE @ + 1]
  IN  CASE handler = "strict"  -> [d EXCEPT !.threw = TRUE]
        [] handler = "ignore"  -> reset
        [] handler = "replace" -> Flushed(reset, reset.buffer \o Replacement(ascii), size)

DumpMore(d, byte, ascii, size) ==
  [d EXCEPT !.at = @ + 1, !.undumped = @ + 1, !.over = @ \/ Len(d.buffer) >= size,
            !.buffer = IF ascii THEN @ ELSE Append(@, byte)]

\* The end of the string: a character that is not complete is an error too.
DumpEnd(d, handler, ascii) ==
  CASE d.state = 0 -> [d EXCEPT !.out = @ \o d.buffer]
    [] d.state # 0 /\ handler = "strict" -> [d EXCEPT !.threw = TRUE]
    [] d.state # 0 /\ handler # "strict" ->
         [d EXCEPT !.out = @ \o SubSeq(d.buffer, 1, d.last)
                             \o (IF handler = "replace" THEN Replacement(ascii) ELSE <<>>)]

RECURSIVE DumpFrom(_, _, _, _, _)
DumpFrom(d, s, handler, ascii, size) ==
  IF d.threw THEN d
  ELSE IF d.at > Len(s) THEN DumpEnd(d, handler, ascii)
  ELSE LET byte == s[d.at]
           next == decode(d.state, d.cp, byte)
           e    == [d EXCEPT !.state = next[1], !.cp = next[2]]
       IN  DumpFrom(CASE next[1] = 0 -> DumpAccept(e, byte, ascii, size)
                      [] next[1] = 1 -> DumpReject(e, handler, ascii, size)
                      [] OTHER       -> DumpMore(e, byte, ascii, size),
                    s, handler, ascii, size)

\* The serializer's buffer has 512 bytes; a smaller one is flushed sooner.
dump_escaped(s, handler, ascii) == DumpFrom(DumpStart, s, handler, ascii, BufferSize)

----------------------------------------------------------------------------
(* What strings and numbers should be.                                     *)

\* The length and code point of the UTF-8 character s starts with, by its
\* definition: the shortest form of a code point that is no surrogate.
CharacterAt(s) ==
  LET n == CASE s[1] < 128 -> 1 [] s[1] \in 192 .. 223 -> 2 [] s[1] \in 224 .. 239 -> 3
             [] s[1] \in 240 .. 247 -> 4 [] OTHER -> 0
      trail == SubSeq(s, 2, n)
      lead == IF n = 1 THEN s[1] ELSE s[1] % (2 ^ (7 - n))
      cp == CASE n = 1 -> lead [] n = 2 -> lead * 64 + (s[2] % 64)
              [] n = 3 -> lead * 4096 + (s[2] % 64) * 64 + (s[3] % 64)
              [] n = 4 -> lead * 262144 + (s[2] % 64) * 4096 + (s[3] % 64) * 64 + (s[4] % 64)
  IN  IF /\ n > 0 /\ Len(s) >= n /\ \A i \in DOMAIN trail : trail[i] \in 128 .. 191
         /\ cp >= <<0, 128, 2048, 65536>>[n] /\ cp <= 1114111 /\ cp \notin 55296 .. 57343
      THEN <<n, cp>> ELSE <<0, 0>>

RECURSIVE WellFormed(_)
WellFormed(s) ==
  s = <<>> \/ LET n == CharacterAt(s)[1] IN n > 0 /\ WellFormed(SubSeq(s, n + 1, Len(s)))

Bad == [ok |-> FALSE, out |-> <<>>]

\* What a string literal means: its bytes without the quotes, unescaped.
RECURSIVE Meaning(_)
Meaning(s) ==
  LET Rest(n, bytes) ==
        LET r == Meaning(SubSeq(s, n + 1, Len(s)))
        IN  IF r.ok THEN [r EXCEPT !.out = bytes \o @] ELSE Bad
      HexAt(i) == IF Len(s) >= i + 5 /\ s[i] = 92 /\ s[i + 1] = 117 /\ \A k \in i + 2 .. i + 5 : s[k] \in Hex
                  THEN HexValue(s[i + 2]) * 4096 + HexValue(s[i + 3]) * 256
                       + HexValue(s[i + 4]) * 16 + HexValue(s[i + 5])
                  ELSE -1
      first == HexAt(1)
      second == HexAt(7)
  IN  CASE s = <<>> -> [ok |-> TRUE, out |-> <<>>]
        [] s # <<>> /\ s[1] = 92 ->
             CASE Len(s) > 1 /\ s[2] \in DOMAIN Unescaped -> Rest(2, <<Unescaped[s[2]]>>)
               [] first \in (0 .. 55295) \cup (57344 .. 65535) -> Rest(6, Encode(first))
               [] first \in 55296 .. 56319 /\ second \in 56320 .. 57343 ->
                    Rest(12, Encode(65536 + (first - 55296) * 1024 + (second - 56320)))
               [] OTHER -> Bad
        [] s # <<>> /\ s[1] \notin (0 .. 31) \cup {34, 92} /\ CharacterAt(s)[1] > 0 ->
             Rest(CharacterAt(s)[1], SubSeq(s, 1, CharacterAt(s)[1]))
        [] OTHER -> Bad

AllDigits(s) == s # <<>> /\ \A i \in DOMAIN s : s[i] \in Digit

IsInt(s) == AllDigits(s) /\ (Len(s) > 1 => s[1] # 48)

IsFraction(s) == s = <<>> \/ (s[1] = 46 /\ AllDigits(Tail(s)))

IsExponent(s) ==
  \/ s = <<>>
  \/ /\ s[1] \in {101, 69}
     /\ AllDigits(Tail(s)) \/ (Len(s) > 2 /\ s[2] \in {43, 45} /\ AllDigits(SubSeq(s, 3, Len(s))))

Unsigned_(s) == IF s # <<>> /\ s[1] = 45 THEN Tail(s) ELSE s

\* The grammar of numbers.
IsNumber(s) ==
  LET t == Unsigned_(s)
  IN  \E i \in 1 .. Len(t) : \E j \in i .. Len(t) :
        IsInt(SubSeq(t, 1, i)) /\ IsFraction(SubSeq(t, i + 1, j)) /\ IsExponent(SubSeq(t, j + 1, Len(t)))

AtMost(s, t) == Len(s) < Len(t) \/ (Len(s) = Len(t) /\ ~Less(t, s))

NumberClass(s) ==
  CASE IsInt(s) /\ AtMost(s, MaxUnsigned) -> "unsigned"
    [] s[1] = 45 /\ IsInt(Tail(s)) /\ AtMost(Tail(s), MaxNegative) -> "integer"
    [] OTHER -> "float"

----------------------------------------------------------------------------
(* Properties.                                                             *)

LexerTypeOK ==
  /\ mode \in NumberModes \cup {"start", "bom", "space", "comment", "line", "block", "star", "literal",
                               "string", "escape", "hex", "low", "utf8", "done"}
  /\ token \in {"none", "parse_error", "end_of_input", "value_string", "value_number", "literal_true",
                "literal_false", "literal_null"} \cup Range(Structural)
  /\ codepoint \in 0 .. 65535 /\ high \in {0} \cup (55296 .. 56319)
  /\ \A i \in DOMAIN token_string : token_string[i] \in Byte
  /\ \A i \in DOMAIN token_buffer : token_buffer[i] \in Byte
  /\ current \in Byte \cup {EOF} /\ units \in 0 .. Units /\ ignore_comments \in BOOLEAN
  /\ number_type \in {"unsigned", "integer", "float"}

InString == token_string # <<>> /\ token_string[1] = 34

\* Bytes that complete an escape, or a character, the input breaks off.
Completions(s) ==
  LET escapes == {i \in DOMAIN s : s[i] = 92}
      zeros == [i \in 1 .. 5 - Len(s) + Max(escapes) |-> 48]
  IN  IF escapes # {} THEN {<<>>, zeros, zeros \o <<92, 117, 68, 67, 48, 48>>}
      ELSE {<<>>, <<128>>, <<128, 128>>, <<128, 128, 128>>, <<160, 128>>, <<144, 128, 128>>}

\* scan_string accepts exactly the string literals, with exactly their value:
\* an accepted token means what token_buffer holds, and when a byte is
\* refused no continuation of what was read is a literal.
StringsAgree ==
  /\ token = "value_string" =>
       Meaning(SubSeq(token_string, 2, Len(token_string) - 1)) = [ok |-> TRUE, out |-> token_buffer]
  /\ token = "parse_error" /\ InString /\ current # EOF =>
       \A more \in Completions(token_string) : ~Meaning(Tail(token_string) \o more).ok

\* scan_number takes the longest number the input starts with, refuses what
\* no digit can complete, gives 64-bit integers up to the limits of their
\* types and floating-point numbers beyond, and dump_integer writes an
\* integer as the text it was read from.
NumbersAgree ==
  /\ token = "value_number" =>
       /\ IsNumber(token_string) /\ token_buffer = token_string
       /\ current # EOF => \A more \in {<<>>, <<48>>} : ~IsNumber(Append(token_string, current) \o more)
       /\ Type(value) = NumberClass(token_string)
       /\ Type(value) # "float" =>
            dump_integer(value) = IF token_string = <<45, 48>> THEN <<48>> ELSE token_string
  /\ token = "parse_error" /\ token_string # <<>> /\ token_string[1] \in Digit \cup {45} =>
       \A more \in {<<>>, <<48>>} : ~IsNumber(token_string \o more) \/ current = EOF

\* dump_escaped throws in strict mode exactly for text that is not UTF-8.
\* What it writes is a literal for the text it was given; the other error
\* handlers write a literal for any bytes at all, and lose nothing of a
\* character that follows the invalid ones.  It stays within its buffer.
StringsDumpBack ==
  InString /\ token # "none" =>
    \A ascii \in BOOLEAN :
      LET s == IF 92 \in ToSet(token_string) THEN token_buffer ELSE Tail(token_string)
          strict == dump_escaped(s, "strict", ascii)
      IN  /\ strict.threw <=> ~WellFormed(s)
          /\ ~strict.threw => /\ Meaning(strict.out) = [ok |-> TRUE, out |-> s]
                              /\ ascii => \A i \in DOMAIN strict.out : strict.out[i] < 128
          /\ ~strict.over
          /\ strict.threw => \A handler \in {"ignore", "replace"} :
               LET d == dump_escaped(Append(s, 97), handler, ascii)
                   m == Meaning(d.out)
               IN  ~d.threw /\ ~d.over /\ m.ok /\ m.out # <<>> /\ m.out[Len(m.out)] = 97

\* scan() returns exactly the tokens of the grammar, with exactly the values they
\* stand for.
TokensAgree == StringsAgree /\ NumbersAgree
============================================================================
