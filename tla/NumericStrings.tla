---------------------------- MODULE NumericStrings ----------------------------
(***************************************************************************)
(* Every string over an alphabet, grown symbol by symbol, read as a number *)
(* and written back: the readers of value.rs scan a string independently   *)
(* of each other and have to agree on it.                                  *)
(***************************************************************************)
EXTENDS Numeric

CONSTANTS
  Alphabet,  \* symbols
  MaxWord    \* bound on the length of a string

VARIABLE word

WordInit == word = <<>>

Push(c) == Len(word) < MaxWord /\ word' = Append(word, c)

WordNext == \E c \in Alphabet : Push(c)

WordSpec == WordInit /\ [][WordNext]_word

-----------------------------------------------------------------------------
Read == ClassifyNumeric(word)

(* The one walk that numifies a string and finds whether that warns agrees *)
(* with the grammar of a silent string, which is scanned on its own        *)
(* (classify_numeric_noting_warning, string_would_warn).                   *)
WarnsAsGrammar == Read[2] = StringWouldWarn(word)

(* An integer asked of a string is the integer its number gives, at every  *)
(* limit of the widths: wrapped above IMax, saturated beyond UMax, clamped *)
(* below IMin, and cut off at the dot (parse_int, Numeric::to_int).        *)
ReadsOneInteger == Exact(word) => NumberToInt(Read[1]) = ParseInt(word)

SameFloat(f, g) ==
  /\ f.class = g.class
  /\ f.class = "inf" => f.negative = g.negative
  /\ f.class = "finite" => f.m = g.m /\ f.e = g.e /\ (f.m = 0 \/ f.negative = g.negative)

RoundTrips(x) == x.kind = "Float" /\ x.f.class = "finite" => x.f.m < Tens(Precision)

(* A number renders the same from the digits it carries as from its value, *)
(* and a rendering that Precision does not cut reads back, silently, as    *)
(* the number.                                                             *)
RendersBack ==
  \A x \in {Read[1]} : \A string \in {Render(x, Filled(x))} :
    /\ string = Render(x, Empty)
    /\ RoundTrips(x) =>
         \A back \in {ClassifyNumeric(string)} :
           ~back[2] /\ SameFloat(NumberToFloat(x), NumberToFloat(back[1]))
=============================================================================
