------------------------------- MODULE Utf8Scan -------------------------------
(***************************************************************************)
(* Bytes and characters (string.rs and cow_buffer.rs): the decoder of      *)
(* Perl's extended UTF-8 and what it tells a classification, and the two   *)
(* encodings of a Latin-1 string.  A byte is its value; offsets count from *)
(* zero, as in the code.                                                   *)
(***************************************************************************)
EXTENDS ScanLattice, Integers, Sequences, FiniteSets, SequencesExt

At(s, i) == s[i + 1]
Bytes(s, from, to) == SubSeq(s, from + 1, to)  \* s[from..to]

IsContinuation(b) == b \div 64 = 2
HasHigh(block) == \E i \in DOMAIN block : block[i] >= 128

-----------------------------------------------------------------------------
(* decode_one.                                                             *)

(* The length its lead byte gives a sequence, none for a continuation.     *)
SeqLen(lead) ==
  CASE lead < 128          -> 1
    [] lead \in 128..191   -> 0
    [] lead \in 192..223   -> 2
    [] lead \in 224..239   -> 3
    [] lead \in 240..247   -> 4
    [] lead \in 248..251   -> 5
    [] lead \in 252..253   -> 6
    [] lead = 254          -> 7
    [] lead = 255          -> 13

(* The bytes of the sequence at an offset.                                 *)
Sequence(s, at) == Bytes(s, at, at + SeqLen(At(s, at)))

LeadBase == <<0, 192, 224, 240, 248, 252>>
MinForLen == <<0, 128, 2048, 65536, 2097152, 67108864>>

(* The code point of a form of at most six bytes.                          *)
Value(c) ==
  LET value[k \in 0..Len(c) - 1] ==
        IF k = 0 THEN At(c, 0) - LeadBase[Len(c)] ELSE value[k - 1] * 64 + (At(c, k) % 64)
  IN  value[Len(c) - 1]

(* A form must be as short as its value allows and no greater than IV_MAX. *)
(* Values of the FE form are above 2^31 and those of the FF form between   *)
(* 2^36 and 2^63: the leading continuations say so.                        *)
IsMinimal(c) ==
  CASE Len(c) = 7  -> At(c, 1) >= 130
    [] Len(c) = 13 -> At(c, 1) = 128 /\ At(c, 2) < 136 /\ \E k \in 1..6 : At(c, k) # 128
    [] OTHER       -> Value(c) >= MinForLen[Len(c)]

WellFormed(c) == (\A k \in 1..Len(c) - 1 : IsContinuation(At(c, k))) /\ IsMinimal(c)

Decodes(s, at) ==
  LET n == SeqLen(At(s, at)) IN n # 0 /\ at + n <= Len(s) /\ WellFormed(Sequence(s, at))

(* The class of the one character that decodes at an offset.               *)
ClassOf(c) ==
  IF Len(c) = 1 THEN "Ascii"
  ELSE IF Len(c) > 4 \/ Value(c) > 1114111 \/ Value(c) \in 55296..57343 THEN "ExtendedUtf8"
  ELSE IF Value(c) > 255 THEN "Utf8NonLatin1" ELSE "Utf8Latin1"

CharClass(s, at) == ClassOf(Sequence(s, at))

(* A cut that splits no sequence.                                          *)
CutIsClean(s, offset, len) ==
  /\ offset = 0 \/ offset >= Len(s) \/ ~IsContinuation(At(s, offset))
  /\ offset + len >= Len(s) \/ ~IsContinuation(At(s, offset + len))

-----------------------------------------------------------------------------
(* A whole classification: the class of the bytes and, unless they are     *)
(* malformed, the number of their characters.                              *)

(* The class of content in which both a and b occur.                       *)
ClassJoin(a, b) ==
  CHOOSE c \in {a, b} : \A d \in {a, b} :
    LET rank(x) == CASE x = "Ascii" -> 0 [] x = "Utf8Latin1" -> 1 [] x = "Utf8NonLatin1" -> 2
                     [] x = "ExtendedUtf8" -> 3 [] x = "MalformedUtf8" -> 4
    IN  rank(d) <= rank(c)

ClassifyFull(s) ==
  LET Before(class, rest) ==
        [class |-> ClassJoin(class, rest.class),
         chars |-> IF rest.class = "MalformedUtf8" THEN 0 ELSE rest.chars + 1]
      from[at \in 0..Len(s)] ==
        IF at = Len(s) THEN [class |-> "Ascii", chars |-> 0]
        ELSE IF ~Decodes(s, at) THEN [class |-> "MalformedUtf8", chars |-> 0]
        ELSE Before(CharClass(s, at), from[at + SeqLen(At(s, at))])
  IN  from[0]

-----------------------------------------------------------------------------
(* The encodings of characters up to U+00FF.                               *)

FirstVariant(s) == SelectInSeq(s, LAMBDA b : b >= 128) - 1  \* -1 for none
VariantCount(s) == Cardinality({i \in DOMAIN s : s[i] >= 128})

Widen(b) == IF b < 128 THEN <<b>> ELSE <<192 + (b \div 64), 128 + (b % 64)>>
Narrowed(lead, cont) == (lead % 4) * 64 + (cont % 64)

UpgradedBytes(s) == FlattenSeq([i \in DOMAIN s |-> Widen(s[i])])

(* Whether every byte belongs to an encoding of such a character.          *)
Contracts(s) ==
  LET ok[i \in 0..Len(s)] ==
        IF i = Len(s) THEN TRUE
        ELSE IF At(s, i) < 128 THEN ok[i + 1]
        ELSE At(s, i) \in {194, 195} /\ i + 1 < Len(s) /\ IsContinuation(At(s, i + 1)) /\ ok[i + 2]
  IN  ok[0]

LatinContractions(s) == VariantCount(s) \div 2

DowngradedBytes(s) ==
  LET from[i \in 0..Len(s) + 1] ==
        IF i >= Len(s) THEN <<>>
        ELSE IF At(s, i) < 128 THEN <<At(s, i)>> \o from[i + 1]
        ELSE <<Narrowed(At(s, i), At(s, i + 1))>> \o from[i + 2]
  IN  from[0]

(* The characters of a string as the bytes of their encoding, the one      *)
(* order-preserving form every string has.                                 *)
Characters(s) == IF s.utf8 THEN s.bytes ELSE UpgradedBytes(s.bytes)
=============================================================================
