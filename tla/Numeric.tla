------------------------------- MODULE Numeric -------------------------------
(***************************************************************************)
(* Numbers and the strings they are read from and written to (value.rs and *)
(* numeric.rs): the integer and the float coercion of a string, the        *)
(* classification that also tells whether numifying warns, %g rendering,   *)
(* and the digits a number can carry to be rendered from.                  *)
(*                                                                         *)
(* A string is a sequence of symbols: a byte, or a word that is recognized *)
(* or refused as a whole.  A finite float is an exact decimal: the         *)
(* rounding to 53 bits is left out, and Exact tells the strings it cannot  *)
(* change the integer of.  The limits of floats and the widths of integers *)
(* are constants, so that they can be small.                               *)
(***************************************************************************)
EXTENDS Integers, Sequences, SequencesExt, FiniteSets

CONSTANTS
  IMax,        \* i64::MAX
  FMax,        \* the least magnitude that is infinite, above every integer and
               \* not above 10^MaxFinite
  MaxFinite,   \* MAX_FINITE_DIGITS
  Precision,   \* significant digits of a rendering: 15
  MinExp,      \* how far below zero an exponent may be in fixed notation: 4
  IntCache,    \* digits an integer's cache holds: 12
  FloatCache,  \* and a float's: 10
  ExpCache     \* the largest exponent a float's cache holds: 127

IMin == -IMax - 1
UMax == (2 * IMax) + 1

(* 10^k, and what is left of m without its last k digits.                  *)
Tens(k) == LET power[i \in 0..k] == IF i = 0 THEN 1 ELSE power[i - 1] * 10 IN power[k]
Shortened(m, k) == LET left[i \in 0..k] == IF i = 0 THEN m ELSE left[i - 1] \div 10 IN left[k]

WidthAssumption ==
  /\ IMax \in Nat /\ IntCache \in Nat /\ FloatCache \in Nat /\ ExpCache \in Nat
  /\ Precision \in Nat \ {0} /\ MaxFinite \in Nat /\ FMax \in (UMax + 1)..Tens(MaxFinite)
  /\ MinExp \in Nat

DigitChars == <<"0", "1", "2", "3", "4", "5", "6", "7", "8", "9">>
IsDigit(c) == Contains(DigitChars, c)
Digit(c) == CHOOSE d \in 0..9 : DigitChars[d + 1] = c
Space == " "
Signs == {"-", "+"}

Number(digits) ==
  LET value[k \in 0..Len(digits)] == IF k = 0 THEN 0 ELSE (value[k - 1] * 10) + Digit(digits[k])
  IN  value[Len(digits)]

(* The symbol after the first i, "" at the end.                            *)
Sym(s, i) == IF i < Len(s) THEN s[i + 1] ELSE ""

(* The largest n for which P holds of every k below it.                    *)
RunOf(s, i, P(_)) ==
  CHOOSE n \in 0..Len(s) - i : /\ \A k \in 0..n - 1 : P(Sym(s, i + k))
                               /\ n = Len(s) - i \/ ~P(Sym(s, i + n))

DigitRun(s, i) == RunOf(s, i, IsDigit)

Unspaced(s) == SubSeq(s, 1 + RunOf(s, 0, LAMBDA c : c = Space), Len(s))

\* Variant: a plus is left in place.
SplitSignMinus(s) ==
  LET t == Unspaced(s)
  IN  [negative |-> Sym(t, 0) = "-", rest |-> IF Sym(t, 0) = "-" THEN Tail(t) ELSE t]

SplitSign(s) ==
  LET t == Unspaced(s)
  IN  [negative |-> Sym(t, 0) = "-", rest |-> IF Sym(t, 0) \in Signs THEN Tail(t) ELSE t]

-----------------------------------------------------------------------------
(* Floats.                                                                 *)

NaN == [class |-> "nan"]
Inf(negative) == [class |-> "inf", negative |-> negative]

Finite(negative, m, e) == [class |-> "finite", negative |-> negative, m |-> m, e |-> e]

(* The integer part of m * 10^e.                                           *)
Scaled(m, e) == IF e >= 0 THEN m * Tens(e) ELSE Shortened(m, -e)

(* m * 10^e, in its one normal form.                                       *)
Decimal(negative, m, e) ==
  LET zeros == CHOOSE k \in 0..m : Shortened(m, k) % 10 # 0 /\ m = Shortened(m, k) * Tens(k)
  IN  IF m = 0 THEN Finite(negative, 0, 0)
      ELSE IF e > MaxFinite \/ Scaled(m, e) >= FMax THEN Inf(negative)
      ELSE Finite(negative, Shortened(m, zeros), e + zeros)

Truncated(f) == Scaled(f.m, f.e)

Wrapped(u) == IF u <= IMax THEN u ELSE u - (UMax + 1)

\* Variant: what is beyond the unsigned range saturates in the signed one.
FloatToIntSaturated(f) ==
  CASE f.class = "nan" -> 0
    [] f.class = "inf" -> IF f.negative THEN IMin ELSE IMax
    [] OTHER ->
         LET n == Truncated(f)
         IN  IF f.negative THEN IF n > IMax THEN IMin ELSE -n
             ELSE IF n > UMax THEN IMax ELSE Wrapped(n)

FloatToInt(f) ==
  CASE f.class = "nan" -> 0
    [] f.class = "inf" -> IF f.negative THEN IMin ELSE -1
    [] OTHER ->
         LET n == Truncated(f)
         IN  IF f.negative THEN IF n > IMax THEN IMin ELSE -n
             ELSE IF n > UMax THEN -1 ELSE Wrapped(n)

-----------------------------------------------------------------------------
(* Reading.                                                                *)

ParseInt(s) ==
  LET t == SplitSign(s)
      n == DigitRun(t.rest, 0)
      value == Number(SubSeq(t.rest, 1, n))
  IN  IF n = 0 THEN 0
      ELSE IF t.negative THEN IF value <= IMax THEN -value ELSE IMin
      ELSE IF value <= UMax THEN Wrapped(value) ELSE -1

(* The dot and the exponent belong to a token that has mantissa digits,    *)
(* and an exponent needs digits of its own.                                *)
Mantissa(rest) ==
  LET whole == DigitRun(rest, 0)
      dot == Sym(rest, whole) = "."
      part == IF dot THEN DigitRun(rest, whole + 1) ELSE 0
  IN  [whole |-> whole, part |-> part,
       len |-> IF dot /\ whole + part > 0 THEN whole + 1 + part ELSE whole]

Exponent(rest, at) ==
  LET mark == at + 1 + (IF Sym(rest, at + 1) \in Signs THEN 1 ELSE 0)
      power == IF at > 0 /\ Sym(rest, at) = "e" /\ mark <= Len(rest) THEN DigitRun(rest, mark) ELSE 0
      value == Number(SubSeq(rest, mark + 1, mark + power))
  IN  [power |-> power, end |-> IF power > 0 THEN mark + power ELSE at,
       value |-> IF Sym(rest, mark - 1) = "-" THEN -value ELSE value]

(* The value, and how much of the rest after the sign it was read from.    *)
Spanned(negative, rest, m, e) ==
  CASE Sym(rest, 0) = "inf" -> <<Inf(negative), IF Sym(rest, 1) = "inity" THEN 2 ELSE 1>>
    [] Sym(rest, 0) = "nan" -> <<NaN, 1>>
    [] OTHER ->
         IF m.len = 0 THEN <<Decimal(FALSE, 0, 0), 0>>
         ELSE IF /\ e.power = 0 /\ m.whole > MaxFinite
                 /\ m.whole - RunOf(rest, 0, LAMBDA c : c = "0") > MaxFinite
         THEN <<Inf(negative), m.len>>
         ELSE <<Decimal(negative, Number(SubSeq(rest, 1, m.whole) \o SubSeq(rest, m.whole + 2, m.whole + 1 + m.part)),
                        e.value - m.part), e.end>>

ParseFloatSpanned(s) ==
  LET Cut(t, m) == Spanned(t.negative, t.rest, m, Exponent(t.rest, m.len))
      Split(t) == Cut(t, Mantissa(t.rest))
  IN  Split(SplitSign(s))

ButTrue == <<"0", " but true">>

Integer(n) == [kind |-> "Integer", n |-> n]
Unsigned(n) == [kind |-> "Unsigned", n |-> n]
Float(f) == [kind |-> "Float", f |-> f]

Trimmed(s) == SubSeq(s, 1, Len(s) - RunOf(Reverse(s), 0, LAMBDA c : c = Space))

(* What a string numifies as, and whether numifying it warns: the parse    *)
(* knows how far it came.                                                  *)
NumberIn(t, n, value, parsed) ==
  LET digits == n > 0 /\ Sym(t.rest, n) \notin {".", "e"} IN
  CASE digits /\ value <= IMax + (IF t.negative THEN 1 ELSE 0) ->
         <<Integer(IF t.negative THEN -value ELSE value), n # Len(t.rest)>>
    [] digits /\ ~t.negative /\ value \in (IMax + 1)..UMax -> <<Unsigned(value), n # Len(t.rest)>>
    [] OTHER -> <<Float(parsed[1]), parsed[2] # Len(t.rest) \/ t.rest = <<>> >>

ClassifyNumeric(s) ==
  LET Run(token, t, n) == NumberIn(t, n, Number(SubSeq(t.rest, 1, n)), ParseFloatSpanned(token))
      Split(token, t) == Run(token, t, DigitRun(t.rest, 0))
      Token(token) == Split(token, SplitSign(token))
  IN  IF s = ButTrue THEN <<Integer(0), FALSE>> ELSE Token(Trimmed(s))

(* The grammar of a silent string, stated apart from the parse.            *)
StringWouldWarn(s) ==
  LET token == Trimmed(Unspaced(s))
      body == IF Sym(token, 0) \in Signs THEN Tail(token) ELSE token
      whole == DigitRun(body, 0)
      dot == IF Sym(body, whole) = "." THEN 1 ELSE 0
      part == IF dot = 1 THEN DigitRun(body, whole + 1) ELSE 0
      mantissa == whole + dot + part
      mark == mantissa + 1 + (IF Sym(body, mantissa + 1) \in Signs THEN 1 ELSE 0)
  IN  ~ \/ s = ButTrue
        \/ body \in {<<"inf">>, <<"inf", "inity">>, <<"nan">>}
        \/ /\ whole + part > 0
           /\ \/ mantissa = Len(body)
              \/ /\ Sym(body, mantissa) = "e"
                 /\ mark < Len(body) /\ mark + DigitRun(body, mark) = Len(body)

-----------------------------------------------------------------------------
(* Coercions of a number.                                                  *)

NumberToInt(x) ==
  CASE x.kind = "Integer" -> x.n [] x.kind = "Unsigned" -> Wrapped(x.n) [] OTHER -> FloatToInt(x.f)

(* A string whose integer is the same by way of a float.  Exponents and    *)
(* words are the documented exception, at which the integer parse stops;   *)
(* and with a dot the float is rounded before it is cut off, which changes *)
(* no integer as long as it has no more digits than Precision.             *)
Exact(s) ==
  /\ ToSet(s) \cap {"e", "inf", "nan"} = {}
  /\ "." \in ToSet(s) => Len(SelectSeq(s, IsDigit)) <= Precision

NumberToFloat(x) ==
  CASE x.kind = "Float" -> x.f
    [] x.kind # "Float" /\ x.n < 0 -> Decimal(TRUE, -x.n, 0)
    [] OTHER -> Decimal(FALSE, x.n, 0)

-----------------------------------------------------------------------------
(* Writing.                                                                *)

DigitsOf(n) ==
  LET left[k \in 0..n + 1] == IF k = 0 THEN n ELSE left[k - 1] \div 10
      count == CHOOSE k \in 1..n + 1 : left[k] = 0 /\ (k = 1 \/ left[k - 1] # 0)
  IN  [i \in 1..count |-> left[count - i] % 10]

Chars(digits) == [i \in DOMAIN digits |-> DigitChars[digits[i] + 1]]
Zeros(n) == [i \in 1..n |-> "0"]
Minus(negative) == IF negative THEN <<"-">> ELSE <<>>
Abs(n) == IF n < 0 THEN -n ELSE n

(* %g: exponent notation below -MinExp and from Precision on, where the    *)
(* exponent has two digits at least.                                       *)
PresentFloat(digits, exp, negative) ==
  LET ascii == Chars(digits)
      count == Len(digits)
  IN  Minus(negative) \o
      CASE exp < -MinExp \/ exp >= Precision ->
             SubSeq(ascii, 1, 1) \o (IF count > 1 THEN <<".">> \o Tail(ascii) ELSE <<>>)
               \o <<"e", IF exp < 0 THEN "-" ELSE "+">>
               \o (IF Abs(exp) < 10 THEN <<"0">> ELSE <<>>) \o Chars(DigitsOf(Abs(exp)))
        [] exp \in 0..Precision - 1 ->
             IF count <= exp + 1 THEN ascii \o Zeros(exp + 1 - count)
             ELSE SubSeq(ascii, 1, exp + 1) \o <<".">> \o SubSeq(ascii, exp + 2, count)
        [] OTHER -> <<"0", ".">> \o Zeros(-exp - 1) \o ascii

(* The significant digits and decimal exponent of a finite float other     *)
(* than zero.                                                              *)
FloatDigits(f) == DigitsOf(f.m)
FloatExp(f) == f.e + Len(DigitsOf(f.m)) - 1

FormatFloat(f) ==
  CASE f.class = "nan" -> <<"nan">>
    [] f.class = "inf" -> Minus(f.negative) \o <<"inf">>
    [] f.class = "finite" /\ f.m = 0 -> <<"0">>
    [] OTHER           -> PresentFloat(FloatDigits(f), FloatExp(f), f.negative)

FormatInt(n) == Minus(n < 0) \o Chars(DigitsOf(Abs(n)))

-----------------------------------------------------------------------------
(* The digits beside a number, two to a byte, all of them or none.         *)

Empty == [count |-> 0, exp |-> 0, bytes |-> <<>>]

\* Variant: digits past the capacity are left off.
BuildTruncated(digits, exp, capacity) ==
  LET kept == SubSeq(digits, 1, IF Len(digits) > capacity THEN capacity ELSE Len(digits))
  IN  [count |-> Len(kept), exp |-> exp,
       bytes |-> [b \in 1..(Len(kept) + 1) \div 2 |->
                    (kept[(2 * b) - 1] * 16) + (IF 2 * b <= Len(kept) THEN kept[2 * b] ELSE 0)]]

Build(digits, exp, capacity) ==
  IF digits = <<>> \/ Len(digits) > capacity \/ exp > ExpCache \/ exp < -ExpCache - 1 THEN Empty
  ELSE [count |-> Len(digits), exp |-> exp,
        bytes |-> [b \in 1..(Len(digits) + 1) \div 2 |->
                     (digits[(2 * b) - 1] * 16) + (IF 2 * b <= Len(digits) THEN digits[2 * b] ELSE 0)]]

CachedDigits(c) ==
  [i \in 1..c.count |-> LET byte == c.bytes[(i + 1) \div 2]
                        IN  IF i % 2 = 1 THEN byte \div 16 ELSE byte % 16]

Filled(x) ==
  CASE x.kind # "Float" -> Build(DigitsOf(Abs(x.n)), 0, IntCache)
    [] x.kind = "Float" /\ (x.f.class # "finite" \/ x.f.m = 0) -> Empty
    [] OTHER -> Build(FloatDigits(x.f), FloatExp(x.f), FloatCache)

(* A number's rendering, from its digits when it carries them.             *)
Render(x, cache) ==
  IF cache.count = 0
  THEN IF x.kind = "Float" THEN FormatFloat(x.f) ELSE FormatInt(x.n)
  ELSE IF x.kind = "Float" THEN PresentFloat(CachedDigits(cache), cache.exp, x.f.negative)
       ELSE Minus(x.n < 0) \o Chars(CachedDigits(cache))
=============================================================================
