----------------------------- MODULE ScanLattice -----------------------------
(***************************************************************************)
(* The scan lattice of perl-core's strings (string.rs, mod scan): what is  *)
(* known about the bytes of a string without looking at them again.  A     *)
(* state is a set of certified facts; the meet of two states is the union  *)
(* of their facts, closed under derivation and put back into a state.      *)
(*                                                                         *)
(* The bytes themselves are abstracted to their content class, the one of  *)
(* the five terminals a full classification returns for them.              *)
(***************************************************************************)

Terminal == {"Ascii", "Utf8Latin1", "Utf8NonLatin1", "ExtendedUtf8", "MalformedUtf8"}

ScanState ==
  Terminal \cup {"Unknown", "ValidUtf8", "Utf8NonAscii", "NonAscii",
                 "MaybeUtf8Latin1", "MaybeExtendedUtf8", "PerlValidNonAscii"}

\* The classes known-valid content can have, in the order of their join.
ValidRange == {"Ascii", "Utf8Latin1", "Utf8NonLatin1"}

-----------------------------------------------------------------------------
(* The assertion set of a state.                                           *)

Facts(s) ==
  CASE s = "Unknown"           -> {}
    [] s = "PerlValidNonAscii" -> {"PERL_VALID", "HIGH_BIT"}
    [] s = "Ascii"             -> {"RUST_VALID", "PERL_VALID", "ALL_LE_00FF", "ALL_ASCII"}
    [] s = "Utf8Latin1"        -> {"RUST_VALID", "PERL_VALID", "ALL_LE_00FF", "CONTAINS_GE_0080"}
    [] s = "MaybeUtf8Latin1"   -> {"RUST_VALID", "PERL_VALID", "ALL_LE_00FF"}
    [] s = "Utf8NonLatin1"     -> {"RUST_VALID", "PERL_VALID", "CONTAINS_GE_0100"}
    [] s = "ValidUtf8"         -> {"RUST_VALID", "PERL_VALID"}
    [] s = "Utf8NonAscii"      -> {"RUST_VALID", "PERL_VALID", "CONTAINS_GE_0080"}
    [] s = "ExtendedUtf8"      -> {"PERL_VALID", "RUST_INVALID"}
    [] s = "MaybeExtendedUtf8" -> {"PERL_VALID"}
    [] s = "MalformedUtf8"     -> {"MALFORMED"}
    [] s = "NonAscii"          -> {"HIGH_BIT"}

(* Closure of a fact set: under Rust validity a high-bit byte is a code    *)
(* point at or above U+0080, and the stronger witness implies the weaker.  *)
Derive(f) ==
  IF \/ "RUST_VALID" \in f /\ "HIGH_BIT" \in f
     \/ "CONTAINS_GE_0100" \in f
     \/ "RUST_INVALID" \in f
  THEN f \cup {"CONTAINS_GE_0080"}
  ELSE f

(* The most precise state whose facts are all in f, malformed first.       *)
CanonicalValid(f) ==
  IF "ALL_ASCII" \in f THEN "Ascii"
  ELSE IF "CONTAINS_GE_0100" \in f THEN "Utf8NonLatin1"
  ELSE IF "ALL_LE_00FF" \in f
       THEN IF "CONTAINS_GE_0080" \in f THEN "Utf8Latin1" ELSE "MaybeUtf8Latin1"
       ELSE IF "CONTAINS_GE_0080" \in f THEN "Utf8NonAscii" ELSE "ValidUtf8"

Canonical(f) ==
  IF "MALFORMED" \in f THEN "MalformedUtf8"
  ELSE IF "RUST_INVALID" \in f THEN "ExtendedUtf8"
  ELSE IF "RUST_VALID" \in f THEN CanonicalValid(f)
  ELSE IF "PERL_VALID" \in f
       THEN IF "HIGH_BIT" \in f THEN "PerlValidNonAscii" ELSE "MaybeExtendedUtf8"
       ELSE IF "HIGH_BIT" \in f THEN "NonAscii" ELSE "Unknown"

Meet(a, b) == Canonical(Derive(Facts(a) \cup Facts(b)))

-----------------------------------------------------------------------------
(* The predicates readers ask of a state before they scan.                 *)

IsRustValid(s) ==
  s \in {"Ascii", "Utf8Latin1", "MaybeUtf8Latin1", "Utf8NonLatin1", "ValidUtf8", "Utf8NonAscii"}

IsPerlDecodable(s) ==
  IsRustValid(s) \/ s \in {"ExtendedUtf8", "MaybeExtendedUtf8", "PerlValidNonAscii"}

IsKnownLatin1Range(s) == s \in {"Ascii", "Utf8Latin1", "MaybeUtf8Latin1"}

IsTerminal(s) == s \in Terminal

IsKnownNonAscii(s) ==
  s \notin {"Unknown", "Ascii", "ValidUtf8", "MaybeUtf8Latin1", "MaybeExtendedUtf8"}

IsKnownBeyondLatin1(s) == s \in {"Utf8NonLatin1", "ExtendedUtf8"}

(* The class of the concatenation of two known-valid pieces.               *)
RangeJoin(a, b) ==
  IF "Utf8NonLatin1" \in {a, b} THEN "Utf8NonLatin1"
  ELSE IF "Utf8Latin1" \in {a, b} THEN "Utf8Latin1" ELSE "Ascii"

(* The state of a heap buffer after an append, from its prior state; kind  *)
(* is the appended content's class, or "Unknown" for raw non-ASCII bytes.  *)
AppendTransition(prior, kind) ==
  CASE kind = "Unknown" -> "Unknown"
    [] kind = "Ascii"   -> prior
    [] OTHER ->
       CASE prior \in ValidRange      -> RangeJoin(prior, kind)
         [] prior \in {"ValidUtf8", "Utf8NonAscii"} ->
              IF kind = "Utf8NonLatin1" THEN "Utf8NonLatin1" ELSE "Utf8NonAscii"
         [] prior = "MaybeUtf8Latin1" -> kind
         [] prior \in {"ExtendedUtf8", "MaybeExtendedUtf8", "PerlValidNonAscii"} -> prior
         [] prior \in {"Unknown", "MalformedUtf8", "NonAscii"} -> "Unknown"

(* The state a slice is born with; clean says the cut splits no sequence.  *)
SliceBirth(parent, clean) ==
  IF clean
  THEN CASE parent = "Ascii" -> "Ascii"
         [] parent \in {"Utf8Latin1", "MaybeUtf8Latin1"} -> "MaybeUtf8Latin1"
         [] parent \in {"Utf8NonLatin1", "Utf8NonAscii", "ValidUtf8"} -> "ValidUtf8"
         [] parent \in {"ExtendedUtf8", "MaybeExtendedUtf8", "PerlValidNonAscii"} -> "MaybeExtendedUtf8"
         [] parent \in {"Unknown", "MalformedUtf8", "NonAscii"} -> "Unknown"
  ELSE CASE parent = "Ascii" -> "Ascii"
         [] parent \in {"Unknown", "MalformedUtf8", "NonAscii"} -> "Unknown"
         [] OTHER -> "MalformedUtf8"

-----------------------------------------------------------------------------
(* What the states mean: the facts that hold of bytes of a content class,  *)
(* and the classes a state does not exclude.                               *)

FactsHeld(c) ==
  CASE c = "Ascii"         -> {"RUST_VALID", "PERL_VALID", "ALL_LE_00FF", "ALL_ASCII"}
    [] c = "Utf8Latin1"    -> {"RUST_VALID", "PERL_VALID", "ALL_LE_00FF", "CONTAINS_GE_0080", "HIGH_BIT"}
    [] c = "Utf8NonLatin1" -> {"RUST_VALID", "PERL_VALID", "CONTAINS_GE_0080", "CONTAINS_GE_0100", "HIGH_BIT"}
    [] c = "ExtendedUtf8"  -> {"PERL_VALID", "RUST_INVALID", "CONTAINS_GE_0080", "CONTAINS_GE_0100", "HIGH_BIT"}
    [] c = "MalformedUtf8" -> {"MALFORMED", "HIGH_BIT"}

Certifies(s, c) == Facts(s) \subseteq FactsHeld(c)

Classes(s) == {c \in Terminal : Certifies(s, c)}
=============================================================================
