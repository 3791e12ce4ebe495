--------------------------- MODULE Strings_proofs ---------------------------
(***************************************************************************)
(* Proofs about ScanLattice, ScanSlot, Utf8Scan, StringBuffer, ByteWalks   *)
(* and StringCompare.                                                      *)
(*                                                                         *)
(* The lattice: the meet of two states loses nothing and claims nothing,   *)
(* an append and a slice give states that are true of what they make.      *)
(*                                                                         *)
(* The slot, for any number of readers, any questions and any births:      *)
(* racing readers never make it or a count say something false of the      *)
(* bytes, every answer is the fresh walk's, and the slot only narrows.     *)
(*                                                                         *)
(* The bytes, for texts of any length: what a classification tells, what   *)
(* it tells of a text put behind another and of a part, and that an        *)
(* upgrade and a downgrade undo each other.                                *)
(*                                                                         *)
(* One string through any history of operations: its state and count are   *)
(* true of its bytes, and transforms leave its characters alone.           *)
(*                                                                         *)
(* The byte loops below it, over any text: what the blocked walks find is  *)
(* what the bytes are, and the rewrites in place undo each other.          *)
(*                                                                         *)
(* Two strings: equality, the ordering and the digest agree with the       *)
(* characters, whatever is known of either.                                *)
(***************************************************************************)
EXTENDS ScanSlot, StringBuffer, ByteWalks, StringCompare, SequenceTheorems, FiniteSetTheorems,
        WellFoundedInduction, TLAPS

-----------------------------------------------------------------------------
(* The lattice.                                                            *)

(* Which states assert each fact: the predicates of the scan module say    *)
(* the same as the fact table.                                             *)
LEMMA FactsMembership ==
  ASSUME NEW s \in ScanState
  PROVE  /\ "RUST_VALID" \in Facts(s) <=> IsRustValid(s)
         /\ "PERL_VALID" \in Facts(s) <=> IsPerlDecodable(s)
         /\ "ALL_LE_00FF" \in Facts(s) <=> IsKnownLatin1Range(s)
         /\ "ALL_ASCII" \in Facts(s) <=> s = "Ascii"
         /\ "CONTAINS_GE_0080" \in Facts(s) <=> s \in {"Utf8Latin1", "Utf8NonAscii"}
         /\ "CONTAINS_GE_0100" \in Facts(s) <=> s = "Utf8NonLatin1"
         /\ "RUST_INVALID" \in Facts(s) <=> s = "ExtendedUtf8"
         /\ "MALFORMED" \in Facts(s) <=> s = "MalformedUtf8"
         /\ "HIGH_BIT" \in Facts(s) <=> s \in {"NonAscii", "PerlValidNonAscii"}
  BY DEF Facts, ScanState, Terminal, IsRustValid, IsPerlDecodable, IsKnownLatin1Range

(* Which states are true of each content class.                            *)
LEMMA CertifiesTable ==
  ASSUME NEW s \in ScanState
  PROVE  /\ Certifies(s, "Ascii") <=>
              s \in {"Unknown", "Ascii", "MaybeUtf8Latin1", "ValidUtf8", "MaybeExtendedUtf8"}
         /\ Certifies(s, "Utf8Latin1") <=> s \notin {"Ascii", "Utf8NonLatin1", "ExtendedUtf8", "MalformedUtf8"}
         /\ Certifies(s, "Utf8NonLatin1") <=>
              s \notin {"Ascii", "Utf8Latin1", "MaybeUtf8Latin1", "ExtendedUtf8", "MalformedUtf8"}
         /\ Certifies(s, "ExtendedUtf8") <=>
              s \in {"Unknown", "ExtendedUtf8", "MaybeExtendedUtf8", "PerlValidNonAscii", "NonAscii"}
         /\ Certifies(s, "MalformedUtf8") <=> s \in {"Unknown", "MalformedUtf8", "NonAscii"}
  BY DEF Certifies, Facts, FactsHeld, ScanState, Terminal

(* The facts of a meet, before they are put back into a state.             *)
LEMMA DeriveFacts ==
  ASSUME NEW a \in ScanState, NEW b \in ScanState
  PROVE  LET D == Derive(Facts(a) \cup Facts(b)) IN
         /\ "RUST_VALID" \in D <=> IsRustValid(a) \/ IsRustValid(b)
         /\ "PERL_VALID" \in D <=> IsPerlDecodable(a) \/ IsPerlDecodable(b)
         /\ "ALL_LE_00FF" \in D <=> IsKnownLatin1Range(a) \/ IsKnownLatin1Range(b)
         /\ "ALL_ASCII" \in D <=> a = "Ascii" \/ b = "Ascii"
         /\ "CONTAINS_GE_0100" \in D <=> a = "Utf8NonLatin1" \/ b = "Utf8NonLatin1"
         /\ "RUST_INVALID" \in D <=> a = "ExtendedUtf8" \/ b = "ExtendedUtf8"
         /\ "MALFORMED" \in D <=> a = "MalformedUtf8" \/ b = "MalformedUtf8"
         /\ "HIGH_BIT" \in D <=> \/ a \in {"NonAscii", "PerlValidNonAscii"}
                                 \/ b \in {"NonAscii", "PerlValidNonAscii"}
         /\ "CONTAINS_GE_0080" \in D <=>
              \/ a \in {"Utf8Latin1", "Utf8NonAscii", "Utf8NonLatin1", "ExtendedUtf8"}
              \/ b \in {"Utf8Latin1", "Utf8NonAscii", "Utf8NonLatin1", "ExtendedUtf8"}
              \/ /\ IsRustValid(a) \/ IsRustValid(b)
                 /\ a \in {"NonAscii", "PerlValidNonAscii"} \/ b \in {"NonAscii", "PerlValidNonAscii"}
<1> DEFINE F == Facts(a) \cup Facts(b)
           D == Derive(F)
<1>1. /\ \A x \in {"RUST_VALID", "PERL_VALID", "ALL_LE_00FF", "ALL_ASCII", "CONTAINS_GE_0100",
                   "RUST_INVALID", "MALFORMED", "HIGH_BIT"} :
           x \in D <=> x \in Facts(a) \/ x \in Facts(b)
      /\ "CONTAINS_GE_0080" \in D <=>
           \/ "CONTAINS_GE_0080" \in F \/ "CONTAINS_GE_0100" \in F \/ "RUST_INVALID" \in F
           \/ "RUST_VALID" \in F /\ "HIGH_BIT" \in F
  BY DEF Derive
<1>2. \A x : x \in F <=> x \in Facts(a) \/ x \in Facts(b)
  OBVIOUS
<1> QED
  BY <1>1, <1>2, FactsMembership

(* For two states true of some class c, the meet is a state, and it is     *)
(* true of a class exactly when both are.                                  *)
THEOREM MeetExact ==
  ASSUME NEW a \in ScanState, NEW b \in ScanState, NEW c \in Terminal,
         Certifies(a, c), Certifies(b, c)
  PROVE  /\ Meet(a, b) \in ScanState
         /\ Classes(Meet(a, b)) = Classes(a) \cap Classes(b)
<1> DEFINE D == Derive(Facts(a) \cup Facts(b))
<1>1. Meet(a, b) = Canonical(D)
  BY DEF Meet
<1>2. Canonical(D) \in ScanState
  BY DEF Canonical, CanonicalValid, ScanState, Terminal
<1>3. ASSUME NEW d \in Terminal
      PROVE  Certifies(Canonical(D), d) <=> Certifies(a, d) /\ Certifies(b, d)
  <2> DEFINE M == Canonical(D)
  <2> USE DEF IsRustValid, IsPerlDecodable, IsKnownLatin1Range
  <2> HIDE DEF D, M
  <2>0. M \in ScanState
    BY <1>2 DEF M
  <2>1. CASE c = "Ascii"
    <3>1. M = Canonical(D) /\ Certifies(a, "Ascii") /\ Certifies(b, "Ascii")
      BY <2>1 DEF M
    <3> QED
      BY <2>0, <3>1, CertifiesTable, DeriveFacts DEF Canonical, CanonicalValid, D, Terminal
  <2>2. CASE c = "Utf8Latin1"
    <3>1. M = Canonical(D) /\ Certifies(a, "Utf8Latin1") /\ Certifies(b, "Utf8Latin1")
      BY <2>2 DEF M
    <3>2. /\ a \notin {"Ascii", "ExtendedUtf8", "MalformedUtf8"}
          /\ b \notin {"Ascii", "ExtendedUtf8", "MalformedUtf8"}
      BY <3>1, CertifiesTable
    <3>3. CASE IsRustValid(a) \/ IsRustValid(b)
      <4>1. M = CanonicalValid(D)
        BY <3>1, <3>2, <3>3, DeriveFacts DEF Canonical, D
      <4>2. CASE a = "Utf8NonLatin1" \/ b = "Utf8NonLatin1"
        <5>1. M = "Utf8NonLatin1"
          BY <3>2, <4>1, <4>2, DeriveFacts DEF CanonicalValid, D
        <5> QED
          BY <2>0, <3>1, <4>2, <5>1, CertifiesTable DEF Terminal
      <4>3. CASE a # "Utf8NonLatin1" /\ b # "Utf8NonLatin1"
        <5> DEFINE latin1 == IsKnownLatin1Range(a) \/ IsKnownLatin1Range(b)
                   high == \/ a \in {"Utf8Latin1", "Utf8NonAscii", "NonAscii", "PerlValidNonAscii"}
                           \/ b \in {"Utf8Latin1", "Utf8NonAscii", "NonAscii", "PerlValidNonAscii"}
        <5>1. M = IF latin1 THEN IF high THEN "Utf8Latin1" ELSE "MaybeUtf8Latin1"
                  ELSE IF high THEN "Utf8NonAscii" ELSE "ValidUtf8"
          BY <3>2, <3>3, <4>1, <4>3, DeriveFacts DEF CanonicalValid, D
        <5> QED
          BY <2>0, <3>1, <3>2, <3>3, <4>3, <5>1, CertifiesTable DEF Terminal, ScanState
      <4> QED
        BY <4>2, <4>3
    <3>4. CASE ~(IsRustValid(a) \/ IsRustValid(b))
      <4>1. M = IF IsPerlDecodable(a) \/ IsPerlDecodable(b)
                THEN IF a \in {"NonAscii", "PerlValidNonAscii"} \/ b \in {"NonAscii", "PerlValidNonAscii"}
                     THEN "PerlValidNonAscii" ELSE "MaybeExtendedUtf8"
                ELSE IF a = "NonAscii" \/ b = "NonAscii" THEN "NonAscii" ELSE "Unknown"
        BY <3>1, <3>2, <3>4, DeriveFacts DEF Canonical, D
      <4> QED
        BY <2>0, <3>1, <3>2, <3>4, <4>1, CertifiesTable DEF Terminal, ScanState
    <3> QED
      BY <3>3, <3>4
  <2>3. CASE c = "Utf8NonLatin1"
    <3>1. M = Canonical(D) /\ Certifies(a, "Utf8NonLatin1") /\ Certifies(b, "Utf8NonLatin1")
      BY <2>3 DEF M
    <3>2. /\ a \notin {"Ascii", "ExtendedUtf8", "MalformedUtf8"}
          /\ b \notin {"Ascii", "ExtendedUtf8", "MalformedUtf8"}
      BY <3>1, CertifiesTable
    <3>3. CASE IsRustValid(a) \/ IsRustValid(b)
      <4>1. M = CanonicalValid(D)
        BY <3>1, <3>2, <3>3, DeriveFacts DEF Canonical, D
      <4>2. CASE a = "Utf8NonLatin1" \/ b = "Utf8NonLatin1"
        <5>1. M = "Utf8NonLatin1"
          BY <3>2, <4>1, <4>2, DeriveFacts DEF CanonicalValid, D
        <5> QED
          BY <2>0, <3>1, <4>2, <5>1, CertifiesTable DEF Terminal
      <4>3. CASE a # "Utf8NonLatin1" /\ b # "Utf8NonLatin1"
        <5> DEFINE latin1 == IsKnownLatin1Range(a) \/ IsKnownLatin1Range(b)
                   high == \/ a \in {"Utf8Latin1", "Utf8NonAscii", "NonAscii", "PerlValidNonAscii"}
                           \/ b \in {"Utf8Latin1", "Utf8NonAscii", "NonAscii", "PerlValidNonAscii"}
        <5>1. M = IF latin1 THEN IF high THEN "Utf8Latin1" ELSE "MaybeUtf8Latin1"
                  ELSE IF high THEN "Utf8NonAscii" ELSE "ValidUtf8"
          BY <3>2, <3>3, <4>1, <4>3, DeriveFacts DEF CanonicalValid, D
        <5> QED
          BY <2>0, <3>1, <3>2, <3>3, <4>3, <5>1, CertifiesTable DEF Terminal, ScanState
      <4> QED
        BY <4>2, <4>3
    <3>4. CASE ~(IsRustValid(a) \/ IsRustValid(b))
      <4>1. M = IF IsPerlDecodable(a) \/ IsPerlDecodable(b)
                THEN IF a \in {"NonAscii", "PerlValidNonAscii"} \/ b \in {"NonAscii", "PerlValidNonAscii"}
                     THEN "PerlValidNonAscii" ELSE "MaybeExtendedUtf8"
                ELSE IF a = "NonAscii" \/ b = "NonAscii" THEN "NonAscii" ELSE "Unknown"
        BY <3>1, <3>2, <3>4, DeriveFacts DEF Canonical, D
      <4> QED
        BY <2>0, <3>1, <3>2, <3>4, <4>1, CertifiesTable DEF Terminal, ScanState
    <3> QED
      BY <3>3, <3>4
  <2>4. CASE c = "ExtendedUtf8"
    <3>1. M = Canonical(D) /\ Certifies(a, "ExtendedUtf8") /\ Certifies(b, "ExtendedUtf8")
      BY <2>4 DEF M
    <3> QED
      BY <2>0, <3>1, CertifiesTable, DeriveFacts DEF Canonical, CanonicalValid, D, Terminal
  <2>5. CASE c = "MalformedUtf8"
    <3>1. M = Canonical(D) /\ Certifies(a, "MalformedUtf8") /\ Certifies(b, "MalformedUtf8")
      BY <2>5 DEF M
    <3> QED
      BY <2>0, <3>1, CertifiesTable, DeriveFacts DEF Canonical, CanonicalValid, D, Terminal
  <2> QED
    BY <2>1, <2>2, <2>3, <2>4, <2>5 DEF M, Terminal
<1> QED
  BY <1>1, <1>2, <1>3 DEF Classes

(* The meet of two truths is a truth, and is one no less precise.          *)
COROLLARY MeetSound ==
  ASSUME NEW a \in ScanState, NEW b \in ScanState, NEW c \in Terminal,
         Certifies(a, c), Certifies(b, c)
  PROVE  Certifies(Meet(a, b), c)
  BY MeetExact DEF Classes

-----------------------------------------------------------------------------
(* The tables of append_transition_heap and slice_birth, against what they *)
(* stand for: the class content has after text of a known range is put     *)
(* behind it, and the classes a part of it can have.                       *)

(* Valid text put behind valid text takes the wider of their ranges; what  *)
(* is beyond Rust's range, or malformed, stays so.                         *)
Extended(c, k) == IF c \in ValidRange THEN RangeJoin(c, k) ELSE c

(* A part cut between characters may leave out what made the whole wide.   *)
Parts(c) ==
  CASE c = "Ascii"         -> {"Ascii"}
    [] c = "Utf8Latin1"    -> {"Ascii", "Utf8Latin1"}
    [] c = "Utf8NonLatin1" -> ValidRange
    [] c = "ExtendedUtf8"  -> ValidRange \cup {"ExtendedUtf8"}
    [] c = "MalformedUtf8" -> Terminal

(* append_transition_heap is sound for every prior state and every known   *)
(* range: what the state before was true of, the state after is true of    *)
(* once the text is appended.                                              *)
THEOREM AppendSound ==
  ASSUME NEW s \in ScanState, NEW c \in Terminal, Certifies(s, c), NEW k \in ValidRange
  PROVE  /\ AppendTransition(s, k) \in ScanState
         /\ Certifies(AppendTransition(s, k), Extended(c, k))
<1>1. Extended(c, k) = CASE c = "ExtendedUtf8" -> "ExtendedUtf8"
                         [] c = "MalformedUtf8" -> "MalformedUtf8"
                         [] OTHER -> RangeJoin(c, k)
  BY DEF Extended, ValidRange, Terminal
<1>2. CASE k = "Ascii"
  <2>1. AppendTransition(s, k) = s
    BY <1>2 DEF AppendTransition
  <2>2. Extended(c, k) = c
    BY <1>1, <1>2 DEF Terminal, RangeJoin
  <2> QED
    BY <2>1, <2>2
<1>3. CASE k # "Ascii" /\ c \in ValidRange
  <2>1. k = "Utf8Latin1" \/ k = "Utf8NonLatin1"
    BY <1>3 DEF ValidRange
  <2>2. Extended(c, k) = IF k = "Utf8NonLatin1" \/ c = "Utf8NonLatin1" THEN "Utf8NonLatin1" ELSE "Utf8Latin1"
    BY <1>3, <2>1 DEF Extended, RangeJoin
  <2>3. AppendTransition(s, k) =
          CASE s \in ValidRange      -> RangeJoin(s, k)
            [] s \in {"ValidUtf8", "Utf8NonAscii"} ->
                 IF k = "Utf8NonLatin1" THEN "Utf8NonLatin1" ELSE "Utf8NonAscii"
            [] s = "MaybeUtf8Latin1" -> k
            [] s \in {"ExtendedUtf8", "MaybeExtendedUtf8", "PerlValidNonAscii"} -> s
            [] s \in {"Unknown", "MalformedUtf8", "NonAscii"} -> "Unknown"
    BY <2>1 DEF AppendTransition
  <2> QED
    BY <1>3, <2>1, <2>2, <2>3, CertifiesTable DEF RangeJoin, ValidRange, ScanState, Terminal
<1>4. CASE k # "Ascii" /\ c \notin ValidRange
  <2>1. k = "Utf8Latin1" \/ k = "Utf8NonLatin1"
    BY <1>4 DEF ValidRange
  <2>2. Extended(c, k) = c /\ c \in {"ExtendedUtf8", "MalformedUtf8"}
    BY <1>4 DEF Extended, ValidRange, Terminal
  <2>3. AppendTransition(s, k) =
          CASE s \in ValidRange      -> RangeJoin(s, k)
            [] s \in {"ValidUtf8", "Utf8NonAscii"} ->
                 IF k = "Utf8NonLatin1" THEN "Utf8NonLatin1" ELSE "Utf8NonAscii"
            [] s = "MaybeUtf8Latin1" -> k
            [] s \in {"ExtendedUtf8", "MaybeExtendedUtf8", "PerlValidNonAscii"} -> s
            [] s \in {"Unknown", "MalformedUtf8", "NonAscii"} -> "Unknown"
    BY <2>1 DEF AppendTransition
  <2> QED
    BY <1>4, <2>1, <2>2, <2>3, CertifiesTable DEF ValidRange, ScanState, Terminal
<1> QED
  BY <1>2, <1>3, <1>4

(* slice_birth of a clean cut is exact: the classes the state of the part  *)
(* leaves open are those a part of some content the parent may be can      *)
(* have, so the table forfeits nothing that could be kept without a scan.   *)
THEOREM CleanSliceExact ==
  ASSUME NEW s \in ScanState
  PROVE  /\ SliceBirth(s, TRUE) \in ScanState
         /\ Classes(SliceBirth(s, TRUE)) = UNION {Parts(c) : c \in Classes(s)}
<1>1. SliceBirth(s, TRUE) \in ScanState
  BY DEF SliceBirth, ScanState, Terminal
<1>2. PICK b \in ScanState : b = SliceBirth(s, TRUE)
  BY <1>1
<1>3. b = CASE s = "Ascii" -> "Ascii"
            [] s \in {"Utf8Latin1", "MaybeUtf8Latin1"} -> "MaybeUtf8Latin1"
            [] s \in {"Utf8NonLatin1", "Utf8NonAscii", "ValidUtf8"} -> "ValidUtf8"
            [] s \in {"ExtendedUtf8", "MaybeExtendedUtf8", "PerlValidNonAscii"} -> "MaybeExtendedUtf8"
            [] s \in {"Unknown", "MalformedUtf8", "NonAscii"} -> "Unknown"
  BY <1>2 DEF SliceBirth
<1>4. /\ Parts("Ascii") = {"Ascii"} /\ Parts("Utf8Latin1") = {"Ascii", "Utf8Latin1"}
      /\ Parts("Utf8NonLatin1") = ValidRange
      /\ Parts("ExtendedUtf8") = ValidRange \cup {"ExtendedUtf8"}
      /\ Parts("MalformedUtf8") = Terminal
  BY DEF Parts
<1>5. \A d \in Terminal : Certifies(b, d) <=> \E c \in Terminal : Certifies(s, c) /\ d \in Parts(c)
  <2> SUFFICES ASSUME NEW d \in Terminal
               PROVE  Certifies(b, d) <=> \E c \in Terminal : Certifies(s, c) /\ d \in Parts(c)
    OBVIOUS
  <2>1. (\E c \in Terminal : Certifies(s, c) /\ d \in Parts(c)) <=>
          \/ Certifies(s, "Ascii") /\ d = "Ascii"
          \/ Certifies(s, "Utf8Latin1") /\ d \in {"Ascii", "Utf8Latin1"}
          \/ Certifies(s, "Utf8NonLatin1") /\ d \in ValidRange
          \/ Certifies(s, "ExtendedUtf8") /\ d \in ValidRange \cup {"ExtendedUtf8"}
          \/ Certifies(s, "MalformedUtf8")
    BY <1>4 DEF Terminal
  <2> QED
    BY <1>3, <2>1, CertifiesTable DEF ValidRange, ScanState, Terminal
<1>6. \A c \in Terminal : Parts(c) \subseteq Terminal
  BY <1>4 DEF Terminal, ValidRange
<1>7. Classes(b) = UNION {Parts(c) : c \in Classes(s)}
  BY <1>5, <1>6 DEF Classes
<1> QED
  BY <1>1, <1>2, <1>7

(* A cut inside a character leaves its part malformed, and ASCII has no    *)
(* such cut: of all other content the state of a dirty cut is true.        *)
THEOREM DirtySliceSound ==
  ASSUME NEW s \in ScanState, NEW c \in Terminal \ {"Ascii"}, Certifies(s, c)
  PROVE  Certifies(SliceBirth(s, FALSE), "MalformedUtf8")
<1>1. s # "Ascii"
  BY CertifiesTable DEF Terminal
<1>2. SliceBirth(s, FALSE) \in {"Unknown", "MalformedUtf8"}
  BY <1>1 DEF SliceBirth
<1> QED
  BY <1>2, CertifiesTable DEF ScanState, Terminal

-----------------------------------------------------------------------------
(* The slot.                                                               *)

(* The certification a reader computed is true of the bytes: the walk       *)
(* itself, or a probe that keeps a validity the reader had loaded.         *)
LEMMA WalkTrue ==
  ASSUME NEW o \in AllOps, NEW st \in ScanState,
         class \in Terminal, Certifies(st, class)
  PROVE  Walk(o, st) \in ScanState /\ Certifies(Walk(o, st), class)
<1>1. Walk(o, st) \in ScanState
  BY DEF Walk, ScanState, Terminal
<1>2. class \in ScanState /\ Certifies(class, class)
  BY CertifiesTable DEF ScanState, Terminal
<1>3. CASE Walk(o, st) = class
  BY <1>1, <1>2, <1>3
<1>4. CASE Walk(o, st) # class
  <2>1. class # "Ascii" /\ Walk(o, st) = IF st = "ValidUtf8" THEN "Utf8NonAscii" ELSE "NonAscii"
    BY <1>4 DEF Walk
  <2> QED
    BY <1>1, <2>1, CertifiesTable DEF Terminal
<1> QED
  BY <1>3, <1>4

(* An answer given from a state that is true of the bytes is the walk's,    *)
(* but for as_str's refusal of PerlValidNonAscii.                          *)
LEMMA DecidedTrue ==
  ASSUME NEW o \in AllOps, NEW st \in ScanState,
         class \in Terminal, Certifies(st, class), form \in Forms, Decided(o, st),
         ~(o = "as_str" /\ form = "Adopted" /\ st = "PerlValidNonAscii")
  PROVE  DecidedAnswer(o, st) = WalkedAnswer(o)
<1> USE CertifiesTable DEF Terminal
<1>1. CASE o = "as_str"
  BY <1>1 DEF Decided, DecidedAnswer, WalkedAnswer, IsRustValid, AsStrRefused, Forms
<1>2. CASE o = "is_ascii"
  BY <1>2 DEF Decided, DecidedAnswer, WalkedAnswer, AsciiRefused, IsKnownNonAscii
<1>3. CASE o = "is_perl_utf8_valid"
  BY <1>3 DEF Decided, DecidedAnswer, WalkedAnswer, IsPerlDecodable, IsRustValid
<1>4. CASE o = "char_len"
  BY <1>4 DEF Decided, DecidedAnswer, WalkedAnswer, ByteLen, CharCount, NoChars
<1>5. CASE o = "hash"
  BY <1>5 DEF Decided, DecidedAnswer, WalkedAnswer
<1> QED
  BY <1>1, <1>2, <1>3, <1>4, <1>5 DEF AllOps

-----------------------------------------------------------------------------
(* The inductive invariant.  SlotTrue alone is inductive; the answers need *)
(* to know which question a reader on a side stage is asking, and that a   *)
(* reader on its way has not answered yet.                                 *)
StageOp ==
  /\ answer = [r \in Readers |-> answer[r]]
  /\ \A r \in Readers :
       /\ pc[r] # "idle" => answer[r] = NoAnswer
       /\ pc[r] = "match" => op[r] = "hash"
       /\ pc[r] = "count" => op[r] = "char_len"

IInv == TypeOK /\ SlotTrue /\ StageOp /\ CertificationKept /\ AnswersTrue

(* The invariant holds of a slot just born.                               *)
LEMMA InitInv == Init => IInv
<1> SUFFICES ASSUME Init PROVE IInv
  OBVIOUS
<1> USE DEF Init
<1>1. TypeOK
  <2>1. birth \in ScanState
    BY BirthsAssumption
  <2> QED
    BY <2>1 DEF TypeOK, ScanState, Stages, AllOps
<1>2. Certifies("Unknown", class)
  BY CertifiesTable DEF ScanState, Terminal
<1>3. SlotTrue
  BY <1>2 DEF SlotTrue
<1> QED
  BY <1>1, <1>3 DEF IInv, StageOp, CertificationKept, AnswersTrue

(* What a reader knows is true of the bytes.                               *)
LEMMA KnownTrue ==
  ASSUME IInv, NEW r \in Readers
  PROVE  Known(r) \in ScanState /\ Certifies(Known(r), class)
<1>1. /\ class \in Terminal /\ slot \in ScanState /\ birth \in ScanState
      /\ Certifies(slot, class) /\ Certifies(birth, class)
  BY DEF IInv, TypeOK, SlotTrue
<1>2. Meet(birth, slot) \in ScanState /\ Certifies(Meet(birth, slot), class)
  BY <1>1, MeetExact, MeetSound
<1> QED
  BY <1>1, <1>2 DEF Known

(* The slot narrows: an action that changes it stores a meet with what was *)
(* there.                                                                  *)
LEMMA SlotNarrows ==
  ASSUME IInv, NEW r \in Readers, CasSucceeds(r)
  PROVE  /\ slot' \in ScanState /\ Certifies(slot', class)
         /\ Classes(slot') = Classes(slot) \cap Classes(cert[r])
<1>1. /\ class \in Terminal /\ slot \in ScanState /\ cert[r] \in ScanState
      /\ Certifies(slot, class) /\ Certifies(cert[r], class)
  BY DEF IInv, TypeOK, SlotTrue
<1>2. slot' = Meet(slot, cert[r])
  BY DEF CasSucceeds
<1> QED
  BY <1>1, <1>2, MeetExact, MeetSound

(* A step of reader r leaves the content and the other readers alone.      *)
Frame(r) ==
  /\ UNCHANGED <<form, class>>
  /\ \A q \in Readers \ {r} : answer'[q] = answer[q] /\ op'[q] = op[q] /\ seen'[q] = seen[q]

(* Answers stay true when the only new one is true.                        *)
LEMMA AnswerFrame ==
  ASSUME IInv, NEW r \in Readers, Frame(r),
         \/ answer'[r] = NoAnswer
         \/ answer'[r] = Answer(op[r], WalkedAnswer(op[r])) /\ op'[r] = op[r]
         \/ RefusedUnasked(r)'
  PROVE  AnswersTrue'
<1>1. \A o : WalkedAnswer(o)' = WalkedAnswer(o)
  BY DEF Frame, WalkedAnswer, CharCount
<1>2. ASSUME NEW q \in Readers, q # r
      PROVE  \/ answer'[q] = NoAnswer
             \/ answer'[q] = Answer(op'[q], WalkedAnswer(op'[q]))
             \/ RefusedUnasked(q)'
  BY <1>2 DEF Frame, IInv, AnswersTrue, RefusedUnasked
<1> QED
  BY <1>1, <1>2 DEF AnswersTrue

(* Every step of every reader keeps the invariant.                         *)
LEMMA NextInv == IInv /\ [Next]_vars => IInv'
<1> SUFFICES ASSUME IInv, [Next]_vars PROVE IInv'
  OBVIOUS
<1> USE OpsAssumption, CharsAssumption
<1>0. CharCount \in Nat /\ Chars \in Nat
  BY DEF CharCount, NoChars
<1>1. ASSUME NEW r \in Readers, NEW o \in Ops, Begin(r, o) PROVE IInv'
  <2>0. Certifies("Unknown", class) /\ "Unknown" \in ScanState
    BY CertifiesTable DEF IInv, TypeOK, Terminal, ScanState
  <2>1. TypeOK'
    BY <1>1, <1>0, <2>0 DEF Begin, IInv, TypeOK, Stages
  <2>2. SlotTrue'
    BY <1>1, <1>0, <2>0 DEF Begin, IInv, TypeOK, SlotTrue, CharCount
  <2>3. StageOp'
    BY <1>1, <2>0 DEF Begin, IInv, TypeOK, StageOp
  <2>4. CertificationKept'
    BY <1>1, <2>0 DEF Begin, IInv, TypeOK, CertificationKept
  <2>5. Frame(r)
    BY <1>1 DEF Begin, Frame, IInv, TypeOK, StageOp
  <2>6. AnswersTrue'
    <3>1. answer'[r] = NoAnswer
      BY <1>1 DEF Begin, IInv, StageOp
    <3> QED
      BY <3>1, <2>5, AnswerFrame
  <2> QED
    BY <2>1, <2>2, <2>3, <2>4, <2>6 DEF IInv
<1>2. ASSUME NEW r \in Readers, Peek(r) PROVE IInv'
  <2>0. Known(r) \in ScanState /\ Certifies(Known(r), class)
    BY KnownTrue
  <2>1. TypeOK'
    BY <1>2, <1>0, <2>0 DEF Peek, Finish, Goto, Undecided, IInv, TypeOK, Stages
  <2>2. SlotTrue'
    BY <1>2, <1>0, <2>0 DEF Peek, Finish, Goto, Undecided, IInv, TypeOK, SlotTrue, CharCount
  <2>3. StageOp'
    BY <1>2, <2>0 DEF Peek, Finish, Goto, Undecided, IInv, TypeOK, StageOp
  <2>4. CertificationKept'
    BY <1>2, <2>0 DEF Peek, Finish, Goto, Undecided, IInv, TypeOK, CertificationKept
  <2>5. Frame(r) /\ op'[r] = op[r]
    BY <1>2 DEF Peek, Finish, Goto, Undecided, Frame, IInv, TypeOK, StageOp
  <2>6. AnswersTrue'
    <3>1. CASE Decided(op[r], Known(r))
      <4>1. /\ answer'[r] = Answer(op[r], DecidedAnswer(op[r], Known(r)))
            /\ seen'[r] = Known(r)
        BY <1>2, <3>1 DEF Peek, Finish, IInv, TypeOK, StageOp
      <4>2. CASE op[r] = "as_str" /\ form = "Adopted" /\ Known(r) = "PerlValidNonAscii"
        <5>1. DecidedAnswer("as_str", "PerlValidNonAscii") = IsRustValid("PerlValidNonAscii")
          BY DEF DecidedAnswer
        <5>2. IsRustValid("PerlValidNonAscii") = FALSE
          BY DEF IsRustValid
        <5>3. answer'[r] = Answer("as_str", FALSE)
          BY <4>1, <4>2, <5>1, <5>2
        <5> QED
          BY <1>2, <4>1, <4>2, <5>3, <2>5, AnswerFrame DEF RefusedUnasked, Peek
      <4>3. CASE ~(op[r] = "as_str" /\ form = "Adopted" /\ Known(r) = "PerlValidNonAscii")
        <5>1. DecidedAnswer(op[r], Known(r)) = WalkedAnswer(op[r])
          BY <2>0, <3>1, <4>3, DecidedTrue DEF IInv, TypeOK
        <5> QED
          BY <4>1, <5>1, <2>5, AnswerFrame
      <4> QED
        BY <4>2, <4>3
    <3>2. CASE ~Decided(op[r], Known(r)) /\ op[r] = "char_len" /\ cnt[r] > 0
      <4>1. answer'[r] = Answer("char_len", cnt[r])
        BY <1>2, <3>2 DEF Peek, Finish, IInv, StageOp
      <4>2. cnt[r] = WalkedAnswer("char_len")
        BY <3>2 DEF IInv, TypeOK, SlotTrue, WalkedAnswer
      <4> QED
        BY <3>2, <4>1, <4>2, <2>5, AnswerFrame
    <3>3. CASE ~Decided(op[r], Known(r)) /\ ~(op[r] = "char_len" /\ cnt[r] > 0)
      <4>1. answer'[r] = NoAnswer
        BY <1>2, <3>3 DEF Peek, Goto, IInv, StageOp
      <4> QED
        BY <4>1, <2>5, AnswerFrame
    <3> QED
      BY <3>1, <3>2, <3>3
  <2> QED
    BY <2>1, <2>2, <2>3, <2>4, <2>6 DEF IInv
<1>3. ASSUME NEW r \in Readers, Match(r) PROVE IInv'
  <2>0. Known(r) \in ScanState /\ Certifies(Known(r), class)
    BY KnownTrue
  <2>1. TypeOK'
    BY <1>3, <1>0, <2>0 DEF Match, Finish, Goto, IInv, TypeOK, Stages
  <2>2. SlotTrue'
    BY <1>3, <1>0, <2>0 DEF Match, Finish, Goto, IInv, TypeOK, SlotTrue, CharCount
  <2>3. StageOp'
    BY <1>3, <2>0 DEF Match, Finish, Goto, IInv, TypeOK, StageOp
  <2>4. CertificationKept'
    BY <1>3, <2>0 DEF Match, Finish, Goto, IInv, TypeOK, CertificationKept
  <2>5. Frame(r) /\ op'[r] = op[r]
    BY <1>3 DEF Match, Finish, Goto, Frame, IInv, TypeOK, StageOp
  <2>6. AnswersTrue'
    <3>1. CASE pc'[r] = "idle"
      <4>1. answer'[r] = Answer("hash", IF Known(r) = "Utf8Latin1" THEN "downgraded" ELSE "raw")
        BY <1>3, <3>1 DEF Match, Finish, Goto, IInv, TypeOK, StageOp
      <4>2. IF Known(r) = "Utf8Latin1" THEN class = "Utf8Latin1"
            ELSE class \notin {"Ascii", "Utf8Latin1"}
        BY <1>3, <2>0, <3>1, CertifiesTable DEF Match, Finish, Goto, IInv, TypeOK, Terminal, IsKnownBeyondLatin1
      <4>3. answer'[r] = Answer(op[r], WalkedAnswer(op[r]))
        BY <1>3, <4>1, <4>2 DEF Match, IInv, StageOp, WalkedAnswer
      <4> QED
        BY <4>3, <2>5, AnswerFrame
    <3>2. CASE pc'[r] # "idle"
      <4>1. answer'[r] = NoAnswer
        BY <1>3, <3>2 DEF Match, Finish, Goto, IInv, TypeOK, StageOp
      <4> QED
        BY <4>1, <2>5, AnswerFrame
    <3> QED
      BY <3>1, <3>2
  <2> QED
    BY <2>1, <2>2, <2>3, <2>4, <2>6 DEF IInv
<1>4. ASSUME NEW r \in Readers, LoadCount(r) PROVE IInv'
  <2>1. TypeOK'
    BY <1>4, <1>0 DEF LoadCount, Finish, Goto, IInv, TypeOK, Stages
  <2>2. SlotTrue'
    BY <1>4, <1>0 DEF LoadCount, Finish, Goto, IInv, TypeOK, SlotTrue, CharCount
  <2>3. StageOp'
    BY <1>4 DEF LoadCount, Finish, Goto, IInv, TypeOK, StageOp
  <2>4. CertificationKept'
    BY <1>4 DEF LoadCount, Finish, Goto, IInv, TypeOK, CertificationKept
  <2>5. Frame(r) /\ op'[r] = op[r]
    BY <1>4 DEF LoadCount, Finish, Goto, Frame, IInv, TypeOK, StageOp
  <2>6. AnswersTrue'
    <3>1. CASE count # 0
      <4>1. answer'[r] = Answer("char_len", count) /\ op[r] = "char_len"
        BY <1>4, <3>1 DEF LoadCount, Finish, IInv, TypeOK, StageOp
      <4>2. count = WalkedAnswer("char_len")
        BY <3>1 DEF IInv, SlotTrue, WalkedAnswer
      <4> QED
        BY <4>1, <4>2, <2>5, AnswerFrame
    <3>2. CASE count = 0
      <4>1. answer'[r] = NoAnswer
        BY <1>4, <3>2 DEF LoadCount, Goto, IInv, StageOp
      <4> QED
        BY <4>1, <2>5, AnswerFrame
    <3> QED
      BY <3>1, <3>2
  <2> QED
    BY <2>1, <2>2, <2>3, <2>4, <2>6 DEF IInv
<1>5. ASSUME NEW r \in Readers, Classify(r) PROVE IInv'
  <2>0. Walk(op[r], seen[r]) \in ScanState /\ Certifies(Walk(op[r], seen[r]), class)
    BY WalkTrue DEF IInv, TypeOK, SlotTrue
  <2>1. TypeOK'
    BY <1>5, <1>0, <2>0 DEF Classify, Finish, Goto, IInv, TypeOK, Stages
  <2>2. SlotTrue'
    BY <1>5, <1>0, <2>0 DEF Classify, Finish, Goto, IInv, TypeOK, SlotTrue, CharCount
  <2>3. StageOp'
    BY <1>5, <2>0 DEF Classify, Finish, Goto, IInv, TypeOK, StageOp
  <2>4. CertificationKept'
    BY <1>5, <2>0 DEF Classify, Finish, Goto, IInv, TypeOK, CertificationKept
  <2>5. Frame(r) /\ op'[r] = op[r]
    BY <1>5 DEF Classify, Finish, Goto, Frame, IInv, TypeOK, StageOp
  <2>6. AnswersTrue'
    <3>1. answer'[r] \in {NoAnswer, Answer(op[r], WalkedAnswer(op[r]))}
      BY <1>5 DEF Classify, Goto, Finish, IInv, TypeOK, StageOp
    <3> QED
      BY <3>1, <2>5, AnswerFrame
  <2> QED
    BY <2>1, <2>2, <2>3, <2>4, <2>6 DEF IInv
<1>6. ASSUME NEW r \in Readers, Reload(r), pc[r] \in {"load", "cas"} PROVE IInv'
  <2>0. Meet(slot, cert[r]) = slot => Classes(slot) \subseteq Classes(cert[r])
    BY MeetExact DEF IInv, TypeOK, SlotTrue
  <2>1. TypeOK'
    BY <1>6, <1>0, <2>0 DEF Reload, Goto, IInv, TypeOK, Stages
  <2>2. SlotTrue'
    BY <1>6, <1>0, <2>0 DEF Reload, Goto, IInv, TypeOK, SlotTrue, CharCount
  <2>3. StageOp'
    BY <1>6, <2>0 DEF Reload, Goto, IInv, TypeOK, StageOp
  <2>4. CertificationKept'
    BY <1>6, <2>0 DEF Reload, Goto, IInv, TypeOK, CertificationKept
  <2>5. Frame(r) /\ op'[r] = op[r]
    BY <1>6 DEF Reload, Goto, Frame, IInv, TypeOK, StageOp
  <2>6. AnswersTrue'
    <3>1. answer'[r] = NoAnswer
      BY <1>6 DEF Reload, Goto, IInv, StageOp
    <3> QED
      BY <3>1, <2>5, AnswerFrame
  <2> QED
    BY <2>1, <2>2, <2>3, <2>4, <2>6 DEF IInv
<1>7. ASSUME NEW r \in Readers, CasSucceeds(r) PROVE IInv'
  <2>0. /\ slot' \in ScanState /\ Certifies(slot', class)
        /\ Classes(slot') = Classes(slot) \cap Classes(cert[r])
    BY <1>7, SlotNarrows
  <2>1. TypeOK'
    BY <1>7, <1>0, <2>0 DEF CasSucceeds, Goto, IInv, TypeOK, Stages
  <2>2. SlotTrue'
    BY <1>7, <1>0, <2>0 DEF CasSucceeds, Goto, IInv, TypeOK, SlotTrue, CharCount
  <2>3. StageOp'
    BY <1>7, <2>0 DEF CasSucceeds, Goto, IInv, TypeOK, StageOp
  <2>4. CertificationKept'
    BY <1>7, <2>0 DEF CasSucceeds, Goto, IInv, TypeOK, CertificationKept
  <2>5. Frame(r) /\ op'[r] = op[r]
    BY <1>7 DEF CasSucceeds, Goto, Frame, IInv, TypeOK, StageOp
  <2>6. AnswersTrue'
    <3>1. answer'[r] = NoAnswer
      BY <1>7 DEF CasSucceeds, Goto, IInv, StageOp
    <3> QED
      BY <3>1, <2>5, AnswerFrame
  <2> QED
    BY <2>1, <2>2, <2>3, <2>4, <2>6 DEF IInv
<1>8. ASSUME NEW r \in Readers, Fill(r) PROVE IInv'
  <2>1. TypeOK'
    BY <1>8, <1>0 DEF Fill, Finish, KeepsCount, IInv, TypeOK, Stages
  <2>2. SlotTrue'
    BY <1>8, <1>0 DEF Fill, Finish, KeepsCount, IInv, TypeOK, SlotTrue, CharCount
  <2>3. StageOp'
    BY <1>8 DEF Fill, Finish, KeepsCount, IInv, TypeOK, StageOp
  <2>4. CertificationKept'
    BY <1>8 DEF Fill, Finish, KeepsCount, IInv, TypeOK, CertificationKept
  <2>5. Frame(r) /\ op'[r] = op[r]
    BY <1>8 DEF Fill, Finish, Frame, IInv, TypeOK, StageOp
  <2>6. AnswersTrue'
    <3>1. answer'[r] = Answer(op[r], WalkedAnswer(op[r]))
      BY <1>8 DEF Fill, Finish, IInv, StageOp
    <3> QED
      BY <3>1, <2>5, AnswerFrame
  <2> QED
    BY <2>1, <2>2, <2>3, <2>4, <2>6 DEF IInv
<1>9. CASE UNCHANGED vars
  BY <1>9 DEF vars, IInv, TypeOK, SlotTrue, StageOp, CertificationKept, AnswersTrue,
       RefusedUnasked, CharCount, WalkedAnswer
<1> QED
  BY <1>1, <1>2, <1>3, <1>4, <1>5, <1>6, <1>7, <1>8, <1>9 DEF Next, Step, Load, CasFails

-----------------------------------------------------------------------------
(* The inductive invariant holds in every reachable state.                 *)
LEMMA Inductive == Spec => []IInv
<1>1. Init => IInv
  BY InitInv
<1>2. IInv /\ [Next]_vars => IInv'
  BY NextInv
<1> QED
  BY <1>1, <1>2, PTL DEF Spec

(* The variables keep their types (ScanState::from_u8 never sees a byte    *)
(* that is no state).                                                      *)
THEOREM TypeCorrect == Spec => []TypeOK
<1>1. IInv => TypeOK
  BY DEF IInv
<1> QED
  BY <1>1, Inductive, PTL

(* The slot, the envelope and every state and count in flight are true of  *)
(* the bytes, for any number of racing readers.                            *)
THEOREM SlotIsTrue == Spec => []SlotTrue
<1>1. IInv => SlotTrue
  BY DEF IInv
<1> QED
  BY <1>1, Inductive, PTL

(* No answer depends on the race that produced it.                         *)
THEOREM AnswersAreTrue == Spec => []AnswersTrue
<1>1. IInv => AnswersTrue
  BY DEF IInv
<1> QED
  BY <1>1, Inductive, PTL

(* What a walk certified has reached the slot when narrow_scan returns.    *)
THEOREM NothingPaidForIsLost == Spec => []CertificationKept
<1>1. IInv => CertificationKept
  BY DEF IInv
<1> QED
  BY <1>1, Inductive, PTL

(* No step widens the slot.                                                *)
THEOREM SlotOnlyNarrows == Spec => NarrowOnly
<1>1. IInv /\ [Next]_vars => [Classes(slot') \subseteq Classes(slot)]_vars
  <2> SUFFICES ASSUME IInv, Next
               PROVE  Classes(slot') \subseteq Classes(slot)
    BY DEF vars
  <2>1. CASE \E r \in Readers : CasSucceeds(r)
    BY <2>1, SlotNarrows
  <2>2. CASE slot' = slot
    BY <2>2
  <2> QED
    BY <2>1, <2>2 DEF Next, Step, Begin, Peek, Match, LoadCount, Classify, Load, CasFails, Reload, Fill
<1> QED
  BY <1>1, Inductive, PTL DEF Spec, NarrowOnly

-----------------------------------------------------------------------------
(* Walks from the end of a sequence to its front.                          *)

(* A non-empty set of natural numbers has a least element.                 *)
LEMMA LeastExists ==
  ASSUME NEW S, S \subseteq Nat, S # {}
  PROVE  \E n \in S : \A m \in S : n <= m
<1> DEFINE R == OpToRel(<, Nat)
<1>1. PICK n \in S : \A m \in S : ~(<<m, n>> \in R)
  <2> HIDE DEF R
  <2>1. IsWellFoundedOn(R, Nat)
    BY NatLessThanWellFounded DEF R
  <2> QED
    BY <2>1, WFMin
<1>2. \A m \in S : ~(m < n)
  BY <1>1 DEF OpToRel
<1> QED
  BY <1>2

(* Induction up to a bound, over a set instead of a predicate: a set that  *)
(* holds 0 and, with every number below the bound, the next one, holds     *)
(* every number up to the bound.                                           *)
LEMMA UpTo ==
  ASSUME NEW N \in Nat, NEW S, 0 \in S, \A i \in 0..(N - 1) : i \in S => i + 1 \in S
  PROVE  \A i \in 0..N : i \in S
<1> DEFINE T == {i \in 0..N : i \notin S}
<1>1. SUFFICES ASSUME T # {} PROVE FALSE
  OBVIOUS
<1>2. PICK n \in T : \A m \in T : n <= m
  <2>1. T \subseteq Nat
    OBVIOUS
  <2> HIDE DEF T
  <2> QED
    BY <1>1, <2>1, LeastExists
<1>3. n \in 0..N /\ n \notin S /\ n # 0
  BY <1>2
<1>4. n - 1 \in 0..(N - 1)
  BY <1>3
<1>5. n - 1 \in S
  BY <1>2, <1>3, <1>4
<1>6. (n - 1) + 1 \in S
  BY <1>4, <1>5
<1> QED
  BY <1>3, <1>6

(* Induction down from a bound: a set that holds a number whenever it      *)
(* holds those between the number and the bound holds every number.        *)
LEMMA DownFrom ==
  ASSUME NEW N \in Nat, NEW S, \A i \in 0..N : (\A j \in (i + 1)..N : j \in S) => i \in S
  PROVE  \A i \in 0..N : i \in S
<1> DEFINE T == {k \in 0..N : N - k \notin S}
<1>1. SUFFICES ASSUME NEW m \in 0..N, m \notin S PROVE FALSE
  OBVIOUS
<1>2. N - m \in T
  <2>1. N - m \in 0..N /\ N - (N - m) = m
    OBVIOUS
  <2> QED
    BY <1>1, <2>1
<1>3. PICK k \in T : \A l \in T : k <= l
  <2>1. T \subseteq Nat
    OBVIOUS
  <2> HIDE DEF T
  <2> QED
    BY <1>2, <2>1, LeastExists
<1>4. k \in 0..N /\ N - k \notin S /\ N - k \in 0..N
  BY <1>3
<1>5. ASSUME NEW j \in (N - k + 1)..N PROVE j \in S
  <2>1. N - j \in 0..N /\ N - j < k /\ N - (N - j) = j
    BY <1>4
  <2>2. N - j \notin T
    BY <1>3, <1>4, <2>1
  <2> QED
    BY <2>1, <2>2
<1> QED
  BY <1>4, <1>5

(* A walk over positions up to N: what it finds from a position on is told *)
(* where it stops, and by the position and what it finds from the next one *)
(* where it goes on.                                                       *)
Walkable(N, R, Stop, E, J, G) ==
  \E f \in [0..N -> R] : \A i \in 0..N : f[i] = IF i \in Stop THEN E[i] ELSE G[<<i, f[J[i]]>>]

(* A walk that always goes forward finds something from every position.    *)
LEMMA WalkExists ==
  ASSUME NEW N \in Nat, NEW R, NEW Stop, NEW E \in [0..N -> R], NEW J, NEW G \in [(0..N) \X R -> R],
         \A i \in 0..N : i \notin Stop => J[i] \in (i + 1)..N
  PROVE  Walkable(N, R, Stop, E, J, G)
<1> DEFINE Is(f, k) == /\ f \in [(N - k)..N -> R]
                       /\ \A i \in (N - k)..N : f[i] = IF i \in Stop THEN E[i] ELSE G[<<i, f[J[i]]>>]
           S == {k \in 0..N : \E f : Is(f, k)}
<1>1. 0 \in S
  <2>1. N \in Stop
    OBVIOUS
  <2> DEFINE f == [i \in (N - 0)..N |-> E[i]]
  <2>2. \A i \in (N - 0)..N : i = N /\ E[i] \in R
    OBVIOUS
  <2>3. f \in [(N - 0)..N -> R] /\ \A i \in (N - 0)..N : f[i] = E[i]
    BY <2>2
  <2>4. Is(f, 0)
    BY <2>1, <2>2, <2>3
  <2> HIDE DEF Is, f
  <2>5. \E h : Is(h, 0)
    BY <2>4
  <2> QED
    BY <2>5
<1>2. ASSUME NEW k \in 0..(N - 1), k \in S
      PROVE  k + 1 \in S
  <2>1. PICK f : Is(f, k)
    BY <1>2
  <2>2. PICK a \in 0..N : a = N - (k + 1)
    OBVIOUS
  <2>3. a + 1 = N - k /\ \A i \in a..N : i = a \/ i \in (N - k)..N
    BY <2>2
  <2> DEFINE here == IF a \in Stop THEN E[a] ELSE G[<<a, f[J[a]]>>]
             g == [i \in a..N |-> IF i = a THEN here ELSE f[i]]
  <2>4. here \in R
    <3>1. CASE a \in Stop
      BY <3>1
    <3>2. CASE a \notin Stop
      <4>1. J[a] \in (N - k)..N
        BY <2>3, <3>2
      <4>2. f[J[a]] \in R
        BY <2>1, <4>1
      <4> QED
        BY <3>2, <4>2
    <3> QED
      BY <3>1, <3>2
  <2> HIDE DEF here
  <2>5. g \in [a..N -> R]
    <3>1. \A i \in a..N : (IF i = a THEN here ELSE f[i]) \in R
      BY <2>1, <2>3, <2>4
    <3> QED
      BY <3>1
  <2>6. \A i \in (N - k)..N : i \in a..N /\ i # a /\ g[i] = f[i]
    BY <2>2
  <2>7. ASSUME NEW i \in a..N
        PROVE  g[i] = IF i \in Stop THEN E[i] ELSE G[<<i, g[J[i]]>>]
    <3>1. i \notin Stop => J[i] \in (N - k)..N /\ g[J[i]] = f[J[i]]
      BY <2>3, <2>6
    <3>2. CASE i = a
      <4>1. g[i] = here
        BY <3>2
      <4> HIDE DEF g
      <4> QED
        BY <3>1, <3>2, <4>1 DEF here
    <3>3. CASE i # a
      <4>1. i \in (N - k)..N /\ g[i] = f[i]
        BY <2>3, <2>6, <3>3
      <4> HIDE DEF g
      <4> QED
        BY <2>1, <3>1, <4>1
    <3> QED
      BY <3>2, <3>3
  <2>8. Is(g, k + 1)
    BY <2>2, <2>5, <2>7
  <2> HIDE DEF g, Is
  <2>9. k + 1 \in 0..N
    OBVIOUS
  <2> QED
    BY <2>8, <2>9
<1>3. \A k \in 0..N : k \in S
  <2> HIDE DEF S
  <2> QED
    BY <1>1, <1>2, UpTo
<1>4. PICK f : Is(f, N)
  <2>1. N \in 0..N
    OBVIOUS
  <2>2. N \in S
    BY <1>3, <2>1
  <2> HIDE DEF Is
  <2> QED
    BY <2>2
<1>5. N - N = 0
  OBVIOUS
<1> QED
  BY <1>4, <1>5 DEF Walkable

-----------------------------------------------------------------------------
(* Bytes and characters.                                                   *)

Byte == 0..255
Text == Seq(Byte)
Places(s) == 0..(Len(s) - 1)

(* The byte at a place.                                                    *)
LEMMA ByteAt ==
  ASSUME NEW s \in Text
  PROVE  Len(s) \in Nat /\ \A i \in Places(s) : At(s, i) \in Byte /\ At(s, i) = s[i + 1] /\ i + 1 \in 1..Len(s)
<1>1. Len(s) \in Nat /\ \A i \in 1..Len(s) : s[i] \in Byte
  BY LenProperties, ElementOfSeq DEF Text
<1>2. \A i \in Places(s) : i + 1 \in 1..Len(s)
  BY <1>1 DEF Places
<1> QED
  BY <1>1, <1>2 DEF At

(* A part of a text.                                                       *)
LEMMA PartIs ==
  ASSUME NEW s \in Text, NEW a \in Nat, NEW b \in Nat, a <= b, b <= Len(s)
  PROVE  /\ Bytes(s, a, b) \in Text /\ Len(Bytes(s, a, b)) = b - a
         /\ \A i \in 0..(b - a - 1) : At(Bytes(s, a, b), i) = At(s, a + i)
<1>1. \A i \in (a + 1)..b : s[i] \in Byte
  BY LenProperties, ElementOfSeq DEF Text
<1>2. PICK m \in Int, n \in Int : m = a + 1 /\ n = b
  <2>1. a + 1 \in Int /\ b \in Int
    OBVIOUS
  <2> QED
    BY <2>1, Zenon
<1>3. /\ SubSeq(s, m, n) \in Seq(Byte)
      /\ Len(SubSeq(s, m, n)) = IF m <= n THEN n - m + 1 ELSE 0
      /\ \A i \in 1..(n - m + 1) : SubSeq(s, m, n)[i] = s[m + i - 1]
  BY <1>1, <1>2, SubSeqProperties
<1>4. Bytes(s, a, b) = SubSeq(s, m, n)
  BY <1>2 DEF Bytes
<1>5. \A i \in 0..(b - a - 1) : i + 1 \in 1..(n - m + 1) /\ m + (i + 1) - 1 = (a + i) + 1
  BY <1>2
<1> HIDE DEF Byte
<1> QED
  BY <1>2, <1>3, <1>4, <1>5 DEF At, Text

(* Texts that agree everywhere are one.                                    *)
LEMMA SameText ==
  ASSUME NEW s \in Text, NEW t \in Text, Len(s) = Len(t), \A i \in Places(s) : At(s, i) = At(t, i)
  PROVE  s = t
<1>1. \A i \in 1..Len(s) : i - 1 \in Places(s) /\ (i - 1) + 1 = i
  BY ByteAt DEF Places
<1>2. \A i \in 1..Len(s) : s[i] = t[i]
  BY <1>1 DEF At
<1> QED
  BY <1>2, SeqEqual DEF Text

(* Two texts, one after the other.                                         *)
LEMMA JoinedIs ==
  ASSUME NEW s \in Text, NEW t \in Text
  PROVE  /\ s \o t \in Text /\ Len(s \o t) = Len(s) + Len(t)
         /\ \A i \in Places(s) : At(s \o t, i) = At(s, i)
         /\ \A i \in Places(t) : At(s \o t, Len(s) + i) = At(t, i)
<1>0. Len(s) \in Nat /\ Len(t) \in Nat
  BY ByteAt
<1>1. /\ s \o t \in Seq(Byte) /\ Len(s \o t) = Len(s) + Len(t)
      /\ \A i \in 1..Len(s) + Len(t) : (s \o t)[i] = IF i <= Len(s) THEN s[i] ELSE t[i - Len(s)]
  BY ConcatProperties DEF Text
<1>2. \A i \in Places(s) : i + 1 \in 1..Len(s) + Len(t) /\ i + 1 <= Len(s)
  BY <1>0 DEF Places
<1>3. \A i \in Places(t) : /\ (Len(s) + i) + 1 \in 1..Len(s) + Len(t) /\ ~((Len(s) + i) + 1 <= Len(s))
                           /\ ((Len(s) + i) + 1) - Len(s) = i + 1
  BY <1>0 DEF Places
<1> HIDE DEF Places
<1> QED
  BY <1>1, <1>2, <1>3 DEF At, Text

-----------------------------------------------------------------------------
(* Sequences.                                                              *)

(* What a lead byte says of its sequence.                                  *)
LEMMA SeqLenIs ==
  ASSUME NEW b \in Byte
  PROVE  /\ SeqLen(b) \in {0, 1, 2, 3, 4, 5, 6, 7, 13}
         /\ SeqLen(b) = 0 <=> IsContinuation(b)
         /\ SeqLen(b) = 1 <=> b < 128
         /\ SeqLen(b) = 2 <=> b \in 192..223
         /\ IsContinuation(b) <=> b \in 128..191
<1>1. SeqLen(b) = IF b < 128 THEN 1 ELSE IF b < 192 THEN 0 ELSE IF b < 224 THEN 2 ELSE IF b < 240 THEN 3
                  ELSE IF b < 248 THEN 4 ELSE IF b < 252 THEN 5 ELSE IF b < 254 THEN 6
                  ELSE IF b = 254 THEN 7 ELSE 13
  BY DEF SeqLen, Byte
<1>2. IsContinuation(b) <=> b \in 128..191
  BY DEF IsContinuation, Byte
<1> QED
  BY <1>1, <1>2 DEF Byte

(* A class has a rank, and a join is the greater one.                      *)
Rank(c) ==
  CASE c = "Ascii" -> 0 [] c = "Utf8Latin1" -> 1 [] c = "Utf8NonLatin1" -> 2
    [] c = "ExtendedUtf8" -> 3 [] c = "MalformedUtf8" -> 4

(* The ranks, and that they order the classes.                             *)
LEMMA RankIs ==
  /\ Rank("Ascii") = 0 /\ Rank("Utf8Latin1") = 1 /\ Rank("Utf8NonLatin1") = 2
  /\ Rank("ExtendedUtf8") = 3 /\ Rank("MalformedUtf8") = 4
  /\ \A c \in Terminal : Rank(c) \in 0..4
BY DEF Rank, Terminal

(* The class of a joint is one of the two, and ranks with neither below    *)
(* it.                                                                     *)
LEMMA JoinIs ==
  ASSUME NEW a \in Terminal, NEW b \in Terminal
  PROVE  /\ ClassJoin(a, b) \in {a, b}
         /\ Rank(a) <= Rank(ClassJoin(a, b)) /\ Rank(b) <= Rank(ClassJoin(a, b))
<1> DEFINE Is(c) == \A d \in {a, b} : Rank(d) <= Rank(c)
<1>1. ClassJoin(a, b) = CHOOSE c \in {a, b} : Is(c)
  BY DEF ClassJoin, Rank
<1>2. \E c \in {a, b} : Is(c)
  <2>1. Rank(a) \in 0..4 /\ Rank(b) \in 0..4
    BY RankIs
  <2>2. CASE Rank(a) <= Rank(b)
    BY <2>1, <2>2
  <2>3. CASE Rank(b) <= Rank(a)
    BY <2>1, <2>3
  <2> QED
    BY <2>1, <2>2, <2>3
<1>3. ClassJoin(a, b) \in {a, b} /\ Is(ClassJoin(a, b))
  <2> HIDE DEF Is
  <2> QED
    BY <1>1, <1>2
<1> QED
  BY <1>3

(* A decoded character is never malformed, and ASCII just for one byte.    *)
LEMMA ClassOfIs ==
  ASSUME NEW c
  PROVE  /\ ClassOf(c) \in Terminal /\ ClassOf(c) # "MalformedUtf8"
         /\ ClassOf(c) = "Ascii" <=> Len(c) = 1
BY DEF ClassOf, Terminal

(* A sequence is told by its bytes, wherever it is.                        *)
LEMMA SameSequence ==
  ASSUME NEW s \in Text, NEW t \in Text, NEW i \in Places(s), NEW j \in Places(t), NEW n,
         n = SeqLen(At(s, i)), i + n <= Len(s), j + n <= Len(t), At(s, i) = At(t, j),
         \A k \in 0..(n - 1) : At(s, i + k) = At(t, j + k)
  PROVE  (Decodes(s, i) <=> Decodes(t, j)) /\ CharClass(s, i) = CharClass(t, j)
<1>0. Len(s) \in Nat /\ Len(t) \in Nat /\ i \in Nat /\ j \in Nat /\ n \in Nat
  <2>1. Len(s) \in Nat /\ Len(t) \in Nat /\ At(s, i) \in Byte
    BY ByteAt
  <2>2. SeqLen(At(s, i)) \in {0, 1, 2, 3, 4, 5, 6, 7, 13}
    BY <2>1, SeqLenIs
  <2>3. n \in Nat
    BY <2>2
  <2> QED
    BY <2>1, <2>3 DEF Places
<1>1. Sequence(s, i) = Bytes(s, i, i + n) /\ Sequence(t, j) = Bytes(t, j, j + n)
  BY DEF Sequence
<1>2. PICK a \in Nat, b \in Nat : a = i + n /\ b = j + n
  <2>1. i + n \in Nat /\ j + n \in Nat
    BY <1>0
  <2> QED
    BY <2>1, Zenon
<1>3. /\ Bytes(s, i, a) \in Text /\ Len(Bytes(s, i, a)) = a - i
      /\ \A k \in 0..(a - i - 1) : At(Bytes(s, i, a), k) = At(s, i + k)
  <2>1. i <= a /\ a <= Len(s)
    BY <1>0, <1>2
  <2> QED
    BY <1>0, <2>1, PartIs
<1>4. /\ Bytes(t, j, b) \in Text /\ Len(Bytes(t, j, b)) = b - j
      /\ \A k \in 0..(b - j - 1) : At(Bytes(t, j, b), k) = At(t, j + k)
  <2>1. j <= b /\ b <= Len(t)
    BY <1>0, <1>2
  <2> QED
    BY <1>0, <2>1, PartIs
<1>5. a - i = n /\ b - j = n
  BY <1>0, <1>2
<1>6. \A k \in Places(Bytes(s, i, a)) : At(Bytes(s, i, a), k) = At(Bytes(t, j, b), k)
  BY <1>3, <1>4, <1>5 DEF Places
<1>7. Bytes(s, i, a) = Bytes(t, j, b)
  BY <1>3, <1>4, <1>5, <1>6, SameText
<1>8. Sequence(s, i) = Sequence(t, j)
  BY <1>1, <1>2, <1>7
<1> QED
  BY <1>8 DEF Decodes, CharClass

(* What decodes: a lead byte, the continuations it asks for, and a class.  *)
LEMMA DecodedIs ==
  ASSUME NEW s \in Text, NEW i \in Places(s), Decodes(s, i)
  PROVE  LET n == SeqLen(At(s, i)) IN
         /\ n \in Nat \ {0} /\ i + n <= Len(s) /\ ~IsContinuation(At(s, i))
         /\ \A k \in 1..(n - 1) : IsContinuation(At(s, i + k))
         /\ CharClass(s, i) \in Terminal /\ CharClass(s, i) # "MalformedUtf8"
         /\ CharClass(s, i) = "Ascii" <=> At(s, i) < 128
<1> DEFINE n == SeqLen(At(s, i))
           c == Sequence(s, i)
<1>0. Len(s) \in Nat /\ i \in Nat /\ At(s, i) \in Byte
  BY ByteAt DEF Places
<1>1. n \in Nat \ {0} /\ i + n <= Len(s) /\ WellFormed(c) /\ ~IsContinuation(At(s, i)) /\ (n = 1 <=> At(s, i) < 128)
  <2>1. n \in {0, 1, 2, 3, 4, 5, 6, 7, 13} /\ (n = 0 <=> IsContinuation(At(s, i))) /\ (n = 1 <=> At(s, i) < 128)
    BY <1>0, SeqLenIs
  <2>2. n # 0 /\ i + n <= Len(s) /\ WellFormed(c)
    BY DEF Decodes
  <2> HIDE DEF n, c
  <2> QED
    BY <2>1, <2>2
<1>2. PICK a \in Nat : a = i + n
  BY <1>0, <1>1
<1>3. /\ Len(Bytes(s, i, a)) = a - i
      /\ \A k \in 0..(a - i - 1) : At(Bytes(s, i, a), k) = At(s, i + k)
  <2>1. i <= a /\ a <= Len(s)
    BY <1>0, <1>1, <1>2
  <2> QED
    BY <1>0, <2>1, PartIs
<1>4. c = Bytes(s, i, a)
  BY <1>2 DEF Sequence
<1> HIDE DEF c, n
<1>5. Len(c) = n /\ \A k \in 0..(n - 1) : At(c, k) = At(s, i + k)
  BY <1>0, <1>1, <1>2, <1>3, <1>4
<1>6. \A k \in 1..(n - 1) : IsContinuation(At(s, i + k))
  <2>1. \A k \in 1..(n - 1) : IsContinuation(At(c, k))
    BY <1>1, <1>5 DEF WellFormed
  <2> QED
    BY <1>1, <1>5, <2>1
<1>7. CharClass(s, i) = ClassOf(c)
  BY DEF CharClass, c
<1> QED
  BY <1>1, <1>5, <1>6, <1>7, ClassOfIs DEF n

(* The code points of one byte and of two.                                 *)
LEMMA ValueOfOne ==
  ASSUME NEW c \in Text, Len(c) = 1
  PROVE  Value(c) = At(c, 0)
<1> DEFINE E(f) == [k \in 0..Len(c) - 1 |->
                      IF k = 0 THEN At(c, 0) - LeadBase[Len(c)] ELSE f[k - 1] * 64 + (At(c, k) % 64)]
           f == [k \in 0..Len(c) - 1 |-> At(c, 0) - LeadBase[Len(c)]]
<1>1. f = E(f)
  BY DEF LeadBase
<1>2. PICK q : q = CHOOSE g : g = E(g)
  OBVIOUS
<1>3. q = E(q)
  <2> HIDE DEF E, f
  <2> QED
    BY <1>1, <1>2
<1>4. Value(c) = q[Len(c) - 1]
  BY <1>2 DEF Value
<1>5. q[0] = At(c, 0) - LeadBase[1]
  BY <1>3
<1>6. At(c, 0) \in Int /\ LeadBase[1] = 0
  <2>1. 0 \in Places(c)
    BY DEF Places
  <2>2. At(c, 0) \in Byte
    BY <2>1, ByteAt
  <2> QED
    BY <2>2 DEF Byte, LeadBase
<1> QED
  BY <1>4, <1>5, <1>6

(* The code point of a form of two bytes.                                  *)
LEMMA ValueOfTwo ==
  ASSUME NEW c \in Text, Len(c) = 2
  PROVE  Value(c) = (At(c, 0) - 192) * 64 + (At(c, 1) % 64)
<1> DEFINE E(f) == [k \in 0..Len(c) - 1 |->
                      IF k = 0 THEN At(c, 0) - LeadBase[Len(c)] ELSE f[k - 1] * 64 + (At(c, k) % 64)]
           a == At(c, 0) - LeadBase[Len(c)]
           b == a * 64 + (At(c, 1) % 64)
           f == [k \in 0..Len(c) - 1 |-> IF k = 0 THEN a ELSE b]
<1>1. f = E(f)
  <2>1. \A k \in 0..Len(c) - 1 : k = 0 \/ k = 1
    OBVIOUS
  <2>2. 0 \in 0..Len(c) - 1 /\ f[0] = a
    OBVIOUS
  <2> QED
    BY <2>1, <2>2
<1>2. PICK q : q = CHOOSE g : g = E(g)
  OBVIOUS
<1>3. q = E(q)
  <2> HIDE DEF E, f
  <2> QED
    BY <1>1, <1>2
<1>4. Value(c) = q[Len(c) - 1]
  BY <1>2 DEF Value
<1>5. q[0] = At(c, 0) - LeadBase[2] /\ q[1] = q[0] * 64 + (At(c, 1) % 64)
  BY <1>3
<1>6. LeadBase[2] = 192
  BY DEF LeadBase
<1> QED
  BY <1>4, <1>5, <1>6

(* An ASCII byte is a character.                                           *)
LEMMA AsciiDecodes ==
  ASSUME NEW s \in Text, NEW i \in Places(s), At(s, i) < 128
  PROVE  Decodes(s, i) /\ SeqLen(At(s, i)) = 1
<1>0. Len(s) \in Nat /\ i \in Nat /\ At(s, i) \in Byte /\ i + 1 <= Len(s)
  BY ByteAt DEF Places
<1>1. SeqLen(At(s, i)) = 1
  BY <1>0, SeqLenIs
<1>2. PICK a \in Nat : a = i + 1
  BY <1>0
<1>3. Sequence(s, i) = Bytes(s, i, a)
  BY <1>1, <1>2 DEF Sequence
<1>4. PICK c \in Text : c = Bytes(s, i, a) /\ Len(c) = 1 /\ At(c, 0) = At(s, i)
  <2>1. /\ Bytes(s, i, a) \in Text /\ Len(Bytes(s, i, a)) = a - i
        /\ \A k \in 0..(a - i - 1) : At(Bytes(s, i, a), k) = At(s, i + k)
    <3>1. i <= a /\ a <= Len(s)
      BY <1>0, <1>2
    <3> QED
      BY <1>0, <3>1, PartIs
  <2>2. a - i = 1 /\ 0 \in 0..(a - i - 1) /\ i + 0 = i
    BY <1>2, <1>0
  <2> QED
    BY <2>1, <2>2
<1>5. Value(c) = At(s, i)
  BY <1>4, ValueOfOne
<1>6. IsMinimal(c)
  <2>1. MinForLen[1] = 0
    BY DEF MinForLen
  <2>2. IsMinimal(c) = (Value(c) >= MinForLen[1])
    BY <1>4 DEF IsMinimal
  <2>3. At(s, i) \in Nat
    <3>1. \A b \in Byte : b \in Nat
      BY DEF Byte
    <3> QED
      BY <1>0, <3>1
  <2>4. Value(c) >= MinForLen[1]
    BY <1>5, <2>1, <2>3
  <2> QED
    BY <2>2, <2>4
<1>7. WellFormed(c)
  BY <1>4, <1>6 DEF WellFormed
<1> QED
  BY <1>0, <1>1, <1>3, <1>4, <1>7 DEF Decodes

-----------------------------------------------------------------------------
(* Classification.                                                         *)

(* The places from p on where a character starts, if one does.             *)
Leads(s, p) == {i \in p..(Len(s) - 1) : ~IsContinuation(At(s, i))}

(* From p on, every lead decodes and every continuation belongs to a lead. *)
Sound(s, p) ==
  /\ \A i \in Leads(s, p) : Decodes(s, i)
  /\ \A i \in p..(Len(s) - 1) :
       IsContinuation(At(s, i)) => \E j \in Leads(s, p) : j < i /\ i < j + SeqLen(At(s, j))

(* c tells what there is from p on: its class is the greatest of those of  *)
(* its characters, and it counts them.                                     *)
Tells(c, s, p) ==
  /\ c.class \in Terminal /\ c.chars \in Nat
  /\ c.class = "MalformedUtf8" <=> ~Sound(s, p)
  /\ ~Sound(s, p) => c.chars = 0
  /\ Sound(s, p) => c.chars = Cardinality(Leads(s, p))
  /\ Sound(s, p) => \A r \in 0..3 : Rank(c.class) <= r <=> \A i \in Leads(s, p) : Rank(CharClass(s, i)) <= r

Finding(k, chars) == [class |-> k, chars |-> chars]

(* There are finitely many lead bytes behind a place.                      *)
LEMMA LeadsFinite ==
  ASSUME NEW s \in Text, NEW p \in Nat
  PROVE  IsFiniteSet(Leads(s, p)) /\ Cardinality(Leads(s, p)) \in Nat
<1>1. Len(s) \in Nat
  BY ByteAt
<1>2. PICK b \in Int : b = Len(s) - 1
  BY <1>1
<1>3. IsFiniteSet(p..b) /\ Leads(s, p) \in SUBSET (p..b)
  BY <1>2, FS_Interval DEF Leads
<1>4. IsFiniteSet(Leads(s, p))
  BY <1>3, FS_Subset
<1> QED
  BY <1>4, FS_CardinalityType

(* At the end there is nothing.                                            *)
LEMMA TellsAtEnd ==
  ASSUME NEW s \in Text
  PROVE  Tells(Finding("Ascii", 0), s, Len(s))
<1>1. Len(s) \in Nat
  BY ByteAt
<1>2. Leads(s, Len(s)) = {} /\ \A i \in Len(s)..(Len(s) - 1) : FALSE
  BY <1>1 DEF Leads
<1>3. Sound(s, Len(s))
  BY <1>2 DEF Sound
<1>4. Cardinality(Leads(s, Len(s))) = 0
  BY <1>2, FS_EmptySet
<1>5. Rank("Ascii") = 0 /\ "Ascii" \in Terminal
  BY RankIs DEF Terminal
<1> QED
  BY <1>2, <1>3, <1>4, <1>5 DEF Tells, Finding

(* What does not decode is malformed.                                      *)
LEMMA TellsStuck ==
  ASSUME NEW s \in Text, NEW p \in Places(s), ~Decodes(s, p)
  PROVE  Tells(Finding("MalformedUtf8", 0), s, p)
<1>1. Len(s) \in Nat /\ p \in Nat /\ p \in p..(Len(s) - 1)
  BY ByteAt DEF Places
<1>2. ~Sound(s, p)
  <2>1. CASE IsContinuation(At(s, p))
    <3>1. \A j \in Leads(s, p) : ~(j < p)
      BY <1>1 DEF Leads
    <3> QED
      BY <1>1, <2>1, <3>1 DEF Sound
  <2>2. CASE ~IsContinuation(At(s, p))
    <3>1. p \in Leads(s, p)
      BY <1>1, <2>2 DEF Leads
    <3> QED
      BY <3>1 DEF Sound
  <2> QED
    BY <2>1, <2>2
<1> QED
  BY <1>2 DEF Tells, Finding, Terminal

(* Past a character that decodes there is one lead less, and the rest is   *)
(* as sound as the whole.                                                  *)
LEMMA SoundOn ==
  ASSUME NEW s \in Text, NEW p \in Places(s), Decodes(s, p), NEW m, m = p + SeqLen(At(s, p))
  PROVE  /\ m \in (p + 1)..Len(s)
         /\ Leads(s, p) = Leads(s, m) \cup {p} /\ p \notin Leads(s, m)
         /\ Sound(s, p) <=> Sound(s, m)
<1> DEFINE n == SeqLen(At(s, p))
<1>1. Len(s) \in Nat /\ p \in Nat /\ p \in p..(Len(s) - 1)
  BY ByteAt DEF Places
<1>2. /\ n \in Nat \ {0} /\ p + n <= Len(s) /\ ~IsContinuation(At(s, p))
      /\ \A k \in 1..(n - 1) : IsContinuation(At(s, p + k))
  BY DecodedIs
<1>3. m = p + n
  OBVIOUS
<1> HIDE DEF n
<1>4. m \in (p + 1)..Len(s)
  BY <1>1, <1>2, <1>3
<1>5. \A i \in (p + 1)..(m - 1) : IsContinuation(At(s, i))
  <2> TAKE i \in (p + 1)..(m - 1)
  <2>1. i - p \in 1..(n - 1) /\ p + (i - p) = i
    BY <1>1, <1>2, <1>3
  <2> QED
    BY <1>2, <2>1
<1>6. Leads(s, p) = Leads(s, m) \cup {p} /\ p \notin Leads(s, m)
  <2>1. \A i \in p..(Len(s) - 1) : i = p \/ i \in (p + 1)..(m - 1) \/ i \in m..(Len(s) - 1)
    BY <1>1, <1>4
  <2>2. \A i \in m..(Len(s) - 1) : i \in p..(Len(s) - 1) /\ i # p
    BY <1>1, <1>4
  <2> QED
    BY <1>1, <1>2, <1>5, <2>1, <2>2 DEF Leads
<1>7. ASSUME Sound(s, p) PROVE Sound(s, m)
  <2>1. \A i \in Leads(s, m) : Decodes(s, i)
    BY <1>6, <1>7 DEF Sound
  <2>2. ASSUME NEW i \in m..(Len(s) - 1), IsContinuation(At(s, i))
        PROVE  \E j \in Leads(s, m) : j < i /\ i < j + SeqLen(At(s, j))
    <3>1. i \in p..(Len(s) - 1)
      BY <1>1, <1>4
    <3>2. PICK j \in Leads(s, p) : j < i /\ i < j + SeqLen(At(s, j))
      BY <1>7, <2>2, <3>1 DEF Sound
    <3>3. j # p
      BY <1>1, <1>4, <3>2
    <3> QED
      BY <1>6, <3>2, <3>3
  <2> QED
    BY <2>1, <2>2 DEF Sound
<1>8. ASSUME Sound(s, m) PROVE Sound(s, p)
  <2>1. \A i \in Leads(s, p) : Decodes(s, i)
    BY <1>6, <1>8 DEF Sound
  <2>2. ASSUME NEW i \in p..(Len(s) - 1), IsContinuation(At(s, i))
        PROVE  \E j \in Leads(s, p) : j < i /\ i < j + SeqLen(At(s, j))
    <3>1. CASE i \in m..(Len(s) - 1)
      <4>1. PICK j \in Leads(s, m) : j < i /\ i < j + SeqLen(At(s, j))
        BY <1>8, <2>2, <3>1 DEF Sound
      <4> QED
        BY <1>6, <4>1
    <3>2. CASE i \notin m..(Len(s) - 1)
      <4>1. p < i /\ i < m
        BY <1>1, <1>2, <1>4, <2>2, <3>2
      <4> QED
        BY <1>6, <4>1
    <3> QED
      BY <3>1, <3>2
  <2> QED
    BY <2>1, <2>2 DEF Sound
<1> QED
  BY <1>4, <1>6, <1>7, <1>8

(* A classification true of what follows a character is true with it.      *)
LEMMA TellsOn ==
  ASSUME NEW s \in Text, NEW p \in Places(s), Decodes(s, p), NEW rest, Tells(rest, s, p + SeqLen(At(s, p)))
  PROVE  Tells(Finding(ClassJoin(CharClass(s, p), rest.class),
                       IF rest.class = "MalformedUtf8" THEN 0 ELSE rest.chars + 1), s, p)
<1> DEFINE join == ClassJoin(CharClass(s, p), rest.class)
<1>0. Len(s) \in Nat /\ p \in Nat
  BY ByteAt DEF Places
<1>1. PICK m : m = p + SeqLen(At(s, p))
  OBVIOUS
<1>2. /\ m \in (p + 1)..Len(s)
      /\ Leads(s, p) = Leads(s, m) \cup {p} /\ p \notin Leads(s, m)
      /\ Sound(s, p) <=> Sound(s, m)
  BY <1>1, SoundOn
<1>3. Tells(rest, s, m)
  BY <1>1
<1>4. CharClass(s, p) \in Terminal /\ CharClass(s, p) # "MalformedUtf8"
  BY DecodedIs
<1>5. rest.class \in Terminal /\ rest.chars \in Nat
  BY <1>3 DEF Tells
<1>6. /\ join \in {CharClass(s, p), rest.class}
      /\ Rank(CharClass(s, p)) <= Rank(join) /\ Rank(rest.class) <= Rank(join)
  BY <1>4, <1>5, JoinIs
<1>7. \A c \in Terminal : Rank(c) \in 0..4 /\ (Rank(c) = 4 <=> c = "MalformedUtf8")
  BY RankIs DEF Terminal
<1> HIDE DEF join
<1>8. join \in Terminal /\ (join = "MalformedUtf8" <=> rest.class = "MalformedUtf8")
  BY <1>4, <1>5, <1>6, <1>7
<1>9. join = "MalformedUtf8" <=> ~Sound(s, p)
  BY <1>2, <1>3, <1>8 DEF Tells
<1>10. ASSUME Sound(s, p)
       PROVE  /\ rest.chars + 1 = Cardinality(Leads(s, p))
              /\ \A r \in 0..3 : Rank(join) <= r <=> \A i \in Leads(s, p) : Rank(CharClass(s, i)) <= r
  <2>1. /\ rest.chars = Cardinality(Leads(s, m))
        /\ \A r \in 0..3 : Rank(rest.class) <= r <=> \A i \in Leads(s, m) : Rank(CharClass(s, i)) <= r
    BY <1>2, <1>3, <1>10 DEF Tells
  <2>2. m \in Nat
    BY <1>0, <1>2
  <2>3. Cardinality(Leads(s, p)) = Cardinality(Leads(s, m)) + 1
    BY <1>2, <2>2, LeadsFinite, FS_AddElement
  <2>4. ASSUME NEW r \in 0..3
        PROVE  Rank(join) <= r <=> Rank(CharClass(s, p)) <= r /\ Rank(rest.class) <= r
    BY <1>4, <1>5, <1>6, <1>7, <1>8
  <2> QED
    BY <1>2, <2>1, <2>3, <2>4
<1>11. rest.class # "MalformedUtf8" <=> Sound(s, p)
  BY <1>8, <1>9
<1> QED
  BY <1>5, <1>8, <1>9, <1>10, <1>11 DEF Tells, Finding, join

(* A full classification tells what there is.                              *)
LEMMA ClassifyTells ==
  ASSUME NEW s \in Text
  PROVE  /\ Tells(ClassifyFull(s), s, 0)
         /\ ClassifyFull(s) = Finding(ClassifyFull(s).class, ClassifyFull(s).chars)
<1> DEFINE N == Len(s)
           Next1(at) == at + SeqLen(At(s, at))
           On(k, rest) == Finding(ClassJoin(k, rest.class),
                                      IF rest.class = "MalformedUtf8" THEN 0 ELSE rest.chars + 1)
           E(f) == [at \in 0..N |-> IF at = N THEN Finding("Ascii", 0)
                                    ELSE IF ~Decodes(s, at) THEN Finding("MalformedUtf8", 0)
                                    ELSE On(CharClass(s, at), f[Next1(at)])]
           R == [class : Terminal, chars : Nat]
<1>1. PICK q : q = CHOOSE f : f = E(f)
  OBVIOUS
<1>2. ClassifyFull(s) = q[0]
  BY <1>1 DEF ClassifyFull, Finding
<1>3. N \in Nat
  BY ByteAt
<1>4. \A at \in 0..N : at # N => at \in Places(s)
  BY <1>3 DEF Places
<1>5. \A at \in 0..N : at # N /\ Decodes(s, at) => Next1(at) \in (at + 1)..N
  BY <1>4, SoundOn
<1>6. \E f : f = E(f)
  <2> DEFINE Stop == {at \in 0..N : at = N \/ ~Decodes(s, at)}
             Final == [at \in 0..N |-> IF at = N THEN Finding("Ascii", 0) ELSE Finding("MalformedUtf8", 0)]
             J == [at \in 0..N |-> Next1(at)]
             G == [x \in (0..N) \X R |-> On(CharClass(s, x[1]), x[2])]
  <2>1. Final \in [0..N -> R]
    <3>1. Finding("Ascii", 0) \in R /\ Finding("MalformedUtf8", 0) \in R
      BY DEF Finding, Terminal
    <3> QED
      BY <3>1
  <2>2. G \in [(0..N) \X R -> R]
    <3>1. ASSUME NEW k \in Terminal, NEW rest \in R
          PROVE  On(k, rest) \in R
      <4>1. ClassJoin(k, rest.class) \in Terminal
        BY JoinIs
      <4>2. (IF rest.class = "MalformedUtf8" THEN 0 ELSE rest.chars + 1) \in Nat
        OBVIOUS
      <4> QED
        BY <4>1, <4>2 DEF Finding
    <3>2. \A at : CharClass(s, at) \in Terminal
      BY ClassOfIs DEF CharClass
    <3> HIDE DEF On, R
    <3>3. \A x \in (0..N) \X R : On(CharClass(s, x[1]), x[2]) \in R
      BY <3>1, <3>2
    <3> QED
      BY <3>3
  <2>3. \A i \in 0..N : i \notin Stop => J[i] \in (i + 1)..N
    BY <1>5
  <2>4. Walkable(N, R, Stop, Final, J, G)
    <3> HIDE DEF Stop, Final, J, G, R, N
    <3> QED
      BY <1>3, <2>1, <2>2, <2>3, WalkExists
  <2>5. PICK f \in [0..N -> R] : \A i \in 0..N : f[i] = IF i \in Stop THEN Final[i] ELSE G[<<i, f[J[i]]>>]
    <3> HIDE DEF Stop, Final, J, G, R, N
    <3> QED
      BY <2>4 DEF Walkable
  <2>6. ASSUME NEW i \in 0..N PROVE f[i] = E(f)[i]
    <3>1. CASE i \in Stop
      <4>1. f[i] = Final[i]
        BY <2>5, <3>1
      <4> QED
        BY <3>1, <4>1
    <3>2. CASE i \notin Stop
      <4>1. f[i] = G[<<i, f[J[i]]>>]
        BY <2>5, <3>2
      <4>2. J[i] \in 0..N /\ J[i] = Next1(i) /\ f[J[i]] \in R
        <5>1. J[i] \in (i + 1)..N
          BY <2>3, <3>2
        <5>2. J[i] \in 0..N
          BY <1>3, <5>1
        <5> HIDE DEF R, N
        <5> QED
          BY <2>5, <5>2
      <4>3. <<i, f[J[i]]>> \in (0..N) \X R
        <5> HIDE DEF J, R, N
        <5> QED
          BY <4>2
      <4>4. G[<<i, f[J[i]]>>] = On(CharClass(s, i), f[Next1(i)])
        <5> HIDE DEF J, R, N, On
        <5> QED
          BY <4>2, <4>3
      <4>5. i # N /\ Decodes(s, i)
        BY <3>2
      <4>6. E(f)[i] = On(CharClass(s, i), f[Next1(i)])
        <5> HIDE DEF On, Next1, N
        <5> QED
          BY <4>5
      <4> QED
        BY <4>1, <4>4, <4>6
    <3> QED
      BY <3>1, <3>2
  <2>7. f = E(f)
    <3>1. E(f) = [i \in 0..N |-> E(f)[i]] /\ f = [i \in 0..N |-> f[i]]
      <4> HIDE DEF On, Next1, N, R
      <4> QED
        BY <2>5
    <3> HIDE DEF E
    <3> QED
      BY <2>6, <3>1
  <2> QED
    BY <2>7
<1>7. q = E(q)
  <2> HIDE DEF E
  <2> QED
    BY <1>1, <1>6
<1>8. ASSUME NEW at \in 0..N
      PROVE  q[at] = IF at = N THEN Finding("Ascii", 0)
                     ELSE IF ~Decodes(s, at) THEN Finding("MalformedUtf8", 0)
                     ELSE On(CharClass(s, at), q[Next1(at)])
  <2> HIDE DEF On, Next1, N
  <2> QED
    BY <1>7
<1> DEFINE S == {at \in 0..N : Tells(q[at], s, at)}
<1>9. ASSUME NEW at \in 0..N, \A j \in (at + 1)..N : j \in S
      PROVE  at \in S
  <2>1. CASE at = N
    <3>1. q[at] = Finding("Ascii", 0)
      BY <1>8, <2>1
    <3>2. Tells(q[at], s, at)
      BY <2>1, <3>1, TellsAtEnd
    <3> QED
      BY <3>2
  <2>2. CASE at # N /\ ~Decodes(s, at)
    <3>1. q[at] = Finding("MalformedUtf8", 0)
      BY <1>8, <2>2
    <3>2. Tells(q[at], s, at)
      BY <1>4, <2>2, <3>1, TellsStuck
    <3> QED
      BY <3>2
  <2>3. CASE at # N /\ Decodes(s, at)
    <3>1. q[at] = On(CharClass(s, at), q[Next1(at)])
      <4> HIDE DEF On
      <4> QED
        BY <1>8, <2>3
    <3>2. Tells(q[Next1(at)], s, Next1(at))
      BY <1>5, <1>9, <2>3
    <3>3. Tells(q[at], s, at)
      BY <1>4, <2>3, <3>1, <3>2, TellsOn
    <3> QED
      BY <3>3
  <2> QED
    BY <2>1, <2>2, <2>3
<1>10. \A at \in 0..N : at \in S
  <2> HIDE DEF S, N
  <2> QED
    BY <1>3, <1>9, DownFrom
<1>11. 0 \in 0..N
  BY <1>3
<1>12. \E k, n : q[0] = Finding(k, n)
  BY <1>8, <1>11
<1>13. q[0] = Finding(q[0].class, q[0].chars)
  BY <1>12 DEF Finding
<1> QED
  BY <1>2, <1>10, <1>11, <1>13

-----------------------------------------------------------------------------
(* Windows: a text inside another.                                         *)

(* u is what s holds from d on, for the length of u.                       *)
Window(u, s, d) ==
  /\ d + Len(u) <= Len(s)
  /\ \A k \in Places(u) : At(u, k) = At(s, d + k)

(* A character of the window is one of the text, and the other way where   *)
(* the window holds all of it.                                             *)
LEMMA WindowDecodes ==
  ASSUME NEW u \in Text, NEW s \in Text, NEW d \in Nat, Window(u, s, d), NEW k \in Places(u)
  PROVE  /\ d + k \in Places(s) /\ At(u, k) = At(s, d + k)
         /\ Decodes(u, k) => Decodes(s, d + k) /\ CharClass(s, d + k) = CharClass(u, k)
         /\ Decodes(s, d + k) /\ k + SeqLen(At(u, k)) <= Len(u) => Decodes(u, k)
<1>0. Len(u) \in Nat /\ Len(s) \in Nat /\ At(u, k) \in Byte
  BY ByteAt
<1>1. k \in Nat /\ k < Len(u) /\ d + Len(u) <= Len(s)
  BY <1>0 DEF Places, Window
<1>2. PICK e \in Nat : e = d + k
  BY <1>1
<1>3. e \in Places(s) /\ At(u, k) = At(s, e)
  BY <1>0, <1>1, <1>2 DEF Places, Window
<1>4. PICK n \in Nat : n = SeqLen(At(u, k))
  <2>1. SeqLen(At(u, k)) \in {0, 1, 2, 3, 4, 5, 6, 7, 13}
    BY <1>0, SeqLenIs
  <2>2. SeqLen(At(u, k)) \in Nat
    BY <2>1
  <2> QED
    BY <2>2
<1>5. ASSUME k + n <= Len(u)
      PROVE  (Decodes(u, k) <=> Decodes(s, e)) /\ CharClass(u, k) = CharClass(s, e)
  <2>1. e + n <= Len(s)
    BY <1>0, <1>1, <1>2, <1>5
  <2>2. \A i \in 0..(n - 1) : At(u, k + i) = At(s, e + i)
    <3> TAKE i \in 0..(n - 1)
    <3>1. k + i \in Places(u) /\ d + (k + i) = e + i
      BY <1>0, <1>1, <1>2, <1>5 DEF Places
    <3> QED
      BY <3>1 DEF Window
  <2> QED
    BY <1>3, <1>4, <1>5, <2>1, <2>2, SameSequence
<1>6. Decodes(u, k) => k + n <= Len(u)
  BY <1>4, DecodedIs
<1> QED
  BY <1>2, <1>3, <1>4, <1>5, <1>6

(* A window whose ends split no sequence of a text that is sound from e on *)
(* is sound, and its characters are the text's.                            *)
LEMMA WindowSoundFrom ==
  ASSUME NEW u \in Text, NEW s \in Text, NEW d \in Nat, NEW e0 \in 0..d, Window(u, s, d), Sound(s, e0),
         d < Len(s) => d = e0 \/ ~IsContinuation(At(s, d)),
         d + Len(u) < Len(s) => ~IsContinuation(At(s, d + Len(u)))
  PROVE  /\ Sound(u, 0)
         /\ \A k \in Leads(u, 0) : d + k \in Leads(s, e0) /\ CharClass(s, d + k) = CharClass(u, k)
<1>0. Len(u) \in Nat /\ Len(s) \in Nat /\ d + Len(u) <= Len(s)
  BY ByteAt DEF Window
<1>1. \A k \in Leads(u, 0) : k \in Places(u) /\ k \in Nat /\ k < Len(u) /\ ~IsContinuation(At(u, k))
  BY <1>0 DEF Leads, Places
<1>2. \A k \in Places(u) : k \in Nat /\ k < Len(u) /\ d + k \in e0..(Len(s) - 1)
  BY <1>0 DEF Places
<1>3. \A k \in Leads(u, 0) : d + k \in Leads(s, e0)
  BY <1>1, <1>2, WindowDecodes DEF Leads
<1>4. ASSUME NEW k \in Leads(u, 0)
      PROVE  Decodes(u, k) /\ CharClass(s, d + k) = CharClass(u, k)
  <2>1. PICK e \in Nat : e = d + k
    BY <1>1
  <2>2. e \in Places(s) /\ At(u, k) = At(s, e) /\ Decodes(s, e)
    BY <1>1, <1>3, <2>1, WindowDecodes DEF Sound
  <2>3. PICK n \in Nat \ {0} : n = SeqLen(At(u, k)) /\ e + n <= Len(s) /\ \A i \in 1..(n - 1) : IsContinuation(At(s, e + i))
    BY <2>2, DecodedIs
  <2>4. k + n <= Len(u)
    <3>1. SUFFICES ASSUME k + n > Len(u) PROVE FALSE
      BY <1>0, <1>1
    <3>2. PICK i \in 1..(n - 1) : i = Len(u) - k
      <4>1. Len(u) - k \in 1..(n - 1)
        BY <1>0, <1>1, <3>1
      <4> QED
        BY <4>1
    <3>3. n \in Nat /\ e + n <= Len(s) /\ i \in Nat /\ i < n /\ k \in Nat
      BY <1>1, <2>3, <3>2
    <3>4. e + i = d + Len(u) /\ e + i < Len(s)
      BY <1>0, <2>1, <3>2, <3>3
    <3> QED
      BY <2>3, <3>4
  <2>5. Decodes(u, k)
    BY <1>1, <2>1, <2>2, <2>3, <2>4, WindowDecodes
  <2> QED
    BY <1>1, <2>5, WindowDecodes
<1>5. ASSUME NEW i \in 0..(Len(u) - 1), IsContinuation(At(u, i))
      PROVE  \E j \in Leads(u, 0) : j < i /\ i < j + SeqLen(At(u, j))
  <2>1. i \in Places(u) /\ At(u, i) = At(s, d + i) /\ d + i \in e0..(Len(s) - 1)
    BY <1>2, <1>5, WindowDecodes DEF Places
  <2>2. PICK j \in Leads(s, e0) : j < d + i /\ d + i < j + SeqLen(At(s, j))
    BY <1>5, <2>1 DEF Sound
  <2>3. j \in Nat /\ j < Len(s) /\ j \in Places(s) /\ ~IsContinuation(At(s, j))
    BY <1>0, <2>2 DEF Leads, Places
  <2>4. PICK n \in Nat \ {0} : n = SeqLen(At(s, j)) /\ j + n <= Len(s) /\ \A m \in 1..(n - 1) : IsContinuation(At(s, j + m))
    BY <2>2, <2>3, DecodedIs DEF Sound
  <2>5. d <= j
    <3>1. SUFFICES ASSUME j < d PROVE FALSE
      BY <2>3
    <3>2. PICK m \in 1..(n - 1) : m = d - j
      <4>1. d - j \in 1..(n - 1)
        BY <1>0, <2>1, <2>2, <2>3, <2>4, <3>1
      <4> QED
        BY <4>1
    <3>3. j + m = d
      BY <2>3, <3>2
    <3>4. d < Len(s)
      <4>1. d + i < Len(s)
        BY <1>0, <2>1
      <4> QED
        BY <1>0, <4>1
    <3>5. d # e0
      <4>1. j >= e0
        BY <1>0, <2>2 DEF Leads
      <4> QED
        BY <2>3, <3>1, <4>1
    <3> QED
      BY <2>4, <3>3, <3>4, <3>5
  <2>6. PICK k \in Nat : k = j - d
    BY <2>3, <2>5
  <2>7. k \in 0..(Len(u) - 1) /\ d + k = j /\ k < i
    BY <1>0, <1>2, <2>1, <2>2, <2>3, <2>6
  <2>8. At(u, k) = At(s, j)
    BY <2>7 DEF Window, Places
  <2>9. k \in Leads(u, 0)
    BY <2>3, <2>7, <2>8 DEF Leads
  <2>10. i < k + n
    BY <1>0, <1>2, <2>1, <2>2, <2>3, <2>4, <2>6
  <2> QED
    BY <2>4, <2>7, <2>8, <2>9, <2>10
<1> QED
  BY <1>3, <1>4, <1>5 DEF Sound

(* The same of a text that is sound.                                       *)
LEMMA WindowSound ==
  ASSUME NEW u \in Text, NEW s \in Text, NEW d \in Nat, Window(u, s, d), Sound(s, 0),
         d < Len(s) => d = 0 \/ ~IsContinuation(At(s, d)),
         d + Len(u) < Len(s) => ~IsContinuation(At(s, d + Len(u)))
  PROVE  /\ Sound(u, 0)
         /\ \A k \in Leads(u, 0) : d + k \in Leads(s, 0) /\ CharClass(s, d + k) = CharClass(u, k)
<1>1. PICK e \in 0..d : e = 0
  OBVIOUS
<1> QED
  BY <1>1, WindowSoundFrom

(* A window that splits a sequence of a sound text is not sound.           *)
LEMMA WindowSplit ==
  ASSUME NEW u \in Text, NEW s \in Text, NEW d \in Nat, Window(u, s, d), Sound(s, 0), Len(u) # 0,
         \/ d # 0 /\ IsContinuation(At(s, d))
         \/ d + Len(u) < Len(s) /\ IsContinuation(At(s, d + Len(u)))
  PROVE  ~Sound(u, 0)
<1>0. Len(u) \in Nat /\ Len(s) \in Nat /\ d + Len(u) <= Len(s)
  BY ByteAt DEF Window
<1>1. ASSUME IsContinuation(At(s, d)) PROVE ~Sound(u, 0)
  <2>1. 0 \in Places(u) /\ 0 \in 0..(Len(u) - 1) /\ d + 0 = d
    BY <1>0 DEF Places
  <2>2. IsContinuation(At(u, 0))
    BY <1>1, <2>1 DEF Window
  <2>3. \A j \in Leads(u, 0) : ~(j < 0)
    BY <1>0 DEF Leads
  <2> QED
    BY <2>1, <2>2, <2>3 DEF Sound
<1>2. ASSUME ~IsContinuation(At(s, d)), d + Len(u) < Len(s), IsContinuation(At(s, d + Len(u))), Sound(u, 0)
      PROVE  FALSE
  <2>1. PICK e \in Nat : e = d + Len(u) /\ e \in 0..(Len(s) - 1)
    BY <1>0, <1>2
  <2>2. PICK j \in Leads(s, 0) : j < e /\ e < j + SeqLen(At(s, j))
    BY <1>2, <2>1 DEF Sound
  <2>3. j \in Nat /\ j < Len(s) /\ j \in Places(s)
    BY <1>0, <2>2 DEF Leads, Places
  <2>4. PICK n \in Nat \ {0} : n = SeqLen(At(s, j)) /\ \A m \in 1..(n - 1) : IsContinuation(At(s, j + m))
    BY <2>2, <2>3, DecodedIs DEF Sound
  <2>5. d <= j
    <3>1. SUFFICES ASSUME j < d PROVE FALSE
      BY <2>3
    <3>2. PICK m \in 1..(n - 1) : m = d - j
      <4>1. d - j \in 1..(n - 1)
        BY <1>0, <2>1, <2>2, <2>3, <2>4, <3>1
      <4> QED
        BY <4>1
    <3>3. j + m = d
      BY <2>3, <3>2
    <3> QED
      BY <1>2, <2>4, <3>3
  <2>6. PICK k \in Nat : k = j - d
    BY <2>3, <2>5
  <2>7. k \in 0..(Len(u) - 1) /\ k \in Places(u) /\ d + k = j /\ Len(u) < k + n
    BY <1>0, <2>1, <2>2, <2>3, <2>4, <2>6 DEF Places
  <2>8. At(u, k) = At(s, j)
    BY <2>7 DEF Window
  <2>9. k \in Leads(u, 0)
    BY <2>2, <2>7, <2>8 DEF Leads
  <2>10. Decodes(u, k)
    BY <1>2, <2>9 DEF Sound
  <2>11. k + n <= Len(u)
    BY <2>4, <2>7, <2>8, <2>10, DecodedIs
  <2> QED
    BY <1>0, <2>4, <2>6, <2>7, <2>11
<1> QED
  BY <1>1, <1>2

-----------------------------------------------------------------------------
(* Classes of whole texts.                                                 *)

(* ASCII text is text without a variant byte, and each byte a character.   *)
LEMMA AsciiIs ==
  ASSUME NEW s \in Text
  PROVE  /\ ClassifyFull(s).class = "Ascii" <=> \A i \in Places(s) : At(s, i) < 128
         /\ ClassifyFull(s).class = "Ascii" => ClassifyFull(s).chars = Len(s)
<1> DEFINE c == ClassifyFull(s)
<1>0. Len(s) \in Nat /\ \A i \in Places(s) : At(s, i) \in Byte
  BY ByteAt
<1>1. Tells(c, s, 0)
  BY ClassifyTells
<1> HIDE DEF c
<1>2. ASSUME \A i \in Places(s) : At(s, i) < 128
      PROVE  c.class = "Ascii" /\ c.chars = Len(s)
  <2>1. \A i \in Places(s) : ~IsContinuation(At(s, i)) /\ Decodes(s, i)
    <3> TAKE i \in Places(s)
    <3>1. At(s, i) \in Byte /\ At(s, i) < 128 /\ Decodes(s, i)
      BY <1>0, <1>2, AsciiDecodes
    <3>2. ~(At(s, i) \in 128..191)
      BY <3>1 DEF Byte
    <3> QED
      BY <3>1, <3>2, SeqLenIs
  <2>2. Leads(s, 0) = 0..(Len(s) - 1)
    BY <2>1 DEF Leads, Places
  <2>3. Sound(s, 0)
    BY <2>1, <2>2 DEF Sound, Places
  <2>4. \A i \in Leads(s, 0) : Rank(CharClass(s, i)) <= 0
    <3>1. \A i \in Leads(s, 0) : CharClass(s, i) = "Ascii"
      BY <1>2, <2>1, <2>2, DecodedIs DEF Places
    <3> QED
      BY <3>1, RankIs
  <2>5. Rank(c.class) <= 0
    BY <1>1, <2>3, <2>4 DEF Tells
  <2>6. c.class = "Ascii"
    BY <1>1, <2>5, RankIs DEF Tells, Terminal
  <2>7. Cardinality(Leads(s, 0)) = Len(s)
    <3>1. PICK b \in Int : b = Len(s) - 1
      BY <1>0
    <3>2. Cardinality(0..b) = IF 0 > b THEN 0 ELSE b - 0 + 1
      BY FS_Interval
    <3> QED
      BY <1>0, <2>2, <3>1, <3>2
  <2> QED
    BY <1>1, <2>3, <2>6, <2>7 DEF Tells
<1>3. ASSUME c.class = "Ascii"
      PROVE  \A i \in Places(s) : At(s, i) < 128
  <2>1. Sound(s, 0)
    BY <1>1, <1>3 DEF Tells
  <2>2. \A i \in Leads(s, 0) : At(s, i) < 128 /\ Decodes(s, i)
    <3> TAKE i \in Leads(s, 0)
    <3>1. i \in Places(s) /\ Decodes(s, i)
      BY <2>1 DEF Sound, Leads, Places
    <3>2. Rank(CharClass(s, i)) <= 0
      BY <1>1, <1>3, <2>1, RankIs DEF Tells
    <3>3. CharClass(s, i) = "Ascii"
      BY <3>1, <3>2, DecodedIs, RankIs DEF Terminal
    <3> QED
      BY <3>1, <3>3, DecodedIs
  <2>3. ASSUME NEW i \in Places(s), IsContinuation(At(s, i)) PROVE FALSE
    <3>1. PICK j \in Leads(s, 0) : j < i /\ i < j + SeqLen(At(s, j))
      BY <2>1, <2>3 DEF Sound, Places
    <3>2. j \in Int /\ At(s, j) < 128 /\ j \in Places(s)
      BY <2>2, <3>1 DEF Leads, Places
    <3>3. SeqLen(At(s, j)) = 1
      BY <3>2, AsciiDecodes
    <3> QED
      BY <3>1, <3>2, <3>3 DEF Places
  <2> QED
    BY <2>2, <2>3 DEF Leads, Places
<1> QED
  BY <1>2, <1>3 DEF c

(* No variant is counted exactly where there is none.                      *)
LEMMA VariantsCounted ==
  ASSUME NEW s \in Text
  PROVE  VariantCount(s) = 0 <=> ClassifyFull(s).class = "Ascii"
<1>0. DOMAIN s = 1..Len(s) /\ Len(s) \in Nat
  BY LenProperties DEF Text
<1> DEFINE V == {i \in DOMAIN s : s[i] >= 128}
<1>1. IsFiniteSet(V)
  <2>1. IsFiniteSet(1..Len(s)) /\ V \in SUBSET (1..Len(s))
    BY <1>0, FS_Interval
  <2> QED
    BY <2>1, FS_Subset
<1>2. VariantCount(s) = 0 <=> V = {}
  BY <1>1, FS_EmptySet DEF VariantCount
<1>3. V = {} <=> \A i \in Places(s) : At(s, i) < 128
  <2>1. \A i \in 1..Len(s) : i - 1 \in Places(s) /\ (i - 1) + 1 = i /\ s[i] \in Byte
    BY <1>0, ElementOfSeq DEF Places, Text
  <2>2. \A i \in Places(s) : i + 1 \in 1..Len(s) /\ At(s, i) = s[i + 1] /\ At(s, i) \in Byte
    BY ByteAt
  <2>3. \A b \in Byte : b \in Int
    BY DEF Byte
  <2>4. ASSUME V = {}, NEW i \in Places(s) PROVE At(s, i) < 128
    <3>1. ~(s[i + 1] >= 128) /\ s[i + 1] \in Int
      BY <1>0, <2>2, <2>3, <2>4
    <3>2. At(s, i) = s[i + 1]
      BY <2>2
    <3> QED
      BY <3>1, <3>2
  <2>5. ASSUME \A i \in Places(s) : At(s, i) < 128, NEW i \in 1..Len(s) PROVE ~(s[i] >= 128)
    <3>1. At(s, i - 1) < 128 /\ At(s, i - 1) = s[i] /\ s[i] \in Int
      BY <2>1, <2>3, <2>5 DEF At
    <3> QED
      BY <3>1
  <2> QED
    BY <1>0, <2>4, <2>5
<1> QED
  BY <1>2, <1>3, AsciiIs

(* The join of two sound texts is sound, has the characters of both, and   *)
(* its class is the greater.                                               *)
LEMMA JoinTells ==
  ASSUME NEW s \in Text, NEW t \in Text, Sound(s, 0), Sound(t, 0)
  PROVE  /\ Sound(s \o t, 0)
         /\ ClassifyFull(s \o t).chars = ClassifyFull(s).chars + ClassifyFull(t).chars
         /\ \A r \in 0..3 : Rank(ClassifyFull(s \o t).class) <= r
                            <=> Rank(ClassifyFull(s).class) <= r /\ Rank(ClassifyFull(t).class) <= r
<1>1. PICK u \in Text : /\ u = s \o t /\ Len(u) = Len(s) + Len(t)
                        /\ \A i \in Places(s) : At(u, i) = At(s, i)
                        /\ \A i \in Places(t) : At(u, Len(s) + i) = At(t, i)
  BY JoinedIs
<1>2. PICK d \in Nat : d = Len(s)
  BY ByteAt
<1>3. Len(s) \in Nat /\ Len(t) \in Nat /\ Len(u) \in Nat
  BY ByteAt
<1>4. Window(s, u, 0) /\ Window(t, u, d)
  <2>1. \A i \in Places(s) : 0 + i = i
    BY <1>3 DEF Places
  <2> QED
    BY <1>1, <1>2, <1>3, <2>1 DEF Window
<1> DEFINE Moved == {d + k : k \in Leads(t, 0)}
<1>5. \A i \in 0..(Len(s) - 1) : i \in Places(s) /\ i \in 0..(Len(u) - 1) /\ 0 + i = i
  BY <1>1, <1>3 DEF Places
<1>6. \A k \in 0..(Len(t) - 1) : k \in Places(t) /\ d + k \in 0..(Len(u) - 1)
  BY <1>1, <1>2, <1>3 DEF Places
<1>7. \A i \in 0..(Len(u) - 1) : i \in 0..(Len(s) - 1) \/ \E k \in 0..(Len(t) - 1) : i = d + k
  <2> TAKE i \in 0..(Len(u) - 1)
  <2>1. CASE i < Len(s)
    BY <1>3, <2>1
  <2>2. CASE ~(i < Len(s))
    <3>1. i - d \in 0..(Len(t) - 1) /\ i = d + (i - d)
      BY <1>1, <1>2, <1>3, <2>2
    <3> QED
      BY <3>1
  <2> QED
    BY <2>1, <2>2
<1>8. Leads(u, 0) = Leads(s, 0) \cup Moved
  <2>1. \A i \in 0..(Len(s) - 1) : At(u, i) = At(s, i)
    BY <1>1, <1>5
  <2>2. \A k \in 0..(Len(t) - 1) : At(u, d + k) = At(t, k)
    BY <1>1, <1>2, <1>6
  <2>3. ASSUME NEW i \in Leads(u, 0) PROVE i \in Leads(s, 0) \cup Moved
    <3>1. CASE i \in 0..(Len(s) - 1)
      BY <2>1, <2>3, <3>1 DEF Leads
    <3>2. CASE \E k \in 0..(Len(t) - 1) : i = d + k
      <4>1. PICK k \in 0..(Len(t) - 1) : i = d + k
        BY <3>2
      <4>2. k \in Leads(t, 0)
        BY <2>2, <2>3, <4>1 DEF Leads
      <4> QED
        BY <4>1, <4>2
    <3> QED
      BY <1>7, <2>3, <3>1, <3>2 DEF Leads
  <2>4. \A i \in Leads(s, 0) : i \in Leads(u, 0)
    BY <1>5, <2>1 DEF Leads
  <2>5. \A k \in Leads(t, 0) : d + k \in Leads(u, 0)
    BY <1>6, <2>2 DEF Leads
  <2> QED
    BY <2>3, <2>4, <2>5
<1>9. \A i \in Leads(s, 0) : /\ Decodes(u, i) /\ CharClass(u, i) = CharClass(s, i)
                             /\ i \in Places(s) /\ At(u, i) = At(s, i)
  <2> TAKE i \in Leads(s, 0)
  <2>1. i \in Places(s) /\ 0 + i = i /\ Decodes(s, i)
    BY <1>5 DEF Leads, Sound
  <2> QED
    BY <1>1, <1>4, <2>1, WindowDecodes
<1>10. \A k \in Leads(t, 0) : /\ Decodes(u, d + k) /\ CharClass(u, d + k) = CharClass(t, k)
                              /\ k \in Places(t) /\ At(u, d + k) = At(t, k)
  <2> TAKE k \in Leads(t, 0)
  <2>1. k \in Places(t) /\ Decodes(t, k)
    BY <1>6 DEF Leads, Sound
  <2> QED
    BY <1>4, <2>1, WindowDecodes
<1>11. ASSUME NEW i \in 0..(Len(u) - 1), IsContinuation(At(u, i))
       PROVE  \E j \in Leads(u, 0) : j < i /\ i < j + SeqLen(At(u, j))
  <2>1. CASE i \in 0..(Len(s) - 1)
    <3>1. IsContinuation(At(s, i))
      BY <1>1, <1>5, <1>11, <2>1
    <3>2. PICK j \in Leads(s, 0) : j < i /\ i < j + SeqLen(At(s, j))
      BY <2>1, <3>1 DEF Sound
    <3> QED
      BY <1>8, <1>9, <3>2
  <2>2. CASE \E k \in 0..(Len(t) - 1) : i = d + k
    <3>1. PICK k \in 0..(Len(t) - 1) : i = d + k
      BY <2>2
    <3>2. IsContinuation(At(t, k))
      BY <1>1, <1>2, <1>6, <1>11, <3>1
    <3>3. PICK j \in Leads(t, 0) : j < k /\ k < j + SeqLen(At(t, j))
      BY <3>1, <3>2 DEF Sound
    <3>4. d + j \in Leads(u, 0) /\ At(u, d + j) = At(t, j) /\ At(t, j) \in Byte
      BY <1>8, <1>10, <3>3, ByteAt
    <3>5. j \in Nat /\ k \in Nat /\ SeqLen(At(t, j)) \in Nat
      <4>1. SeqLen(At(t, j)) \in {0, 1, 2, 3, 4, 5, 6, 7, 13}
        BY <3>4, SeqLenIs
      <4> QED
        BY <4>1, <3>1 DEF Leads
    <3>6. d + j < i /\ i < (d + j) + SeqLen(At(t, j))
      BY <3>1, <3>3, <3>5
    <3> QED
      BY <3>4, <3>6
  <2> QED
    BY <1>7, <2>1, <2>2
<1>12. Sound(u, 0)
  BY <1>8, <1>9, <1>10, <1>11 DEF Sound
<1>13. Cardinality(Leads(u, 0)) = Cardinality(Leads(s, 0)) + Cardinality(Leads(t, 0))
  <2>1. IsFiniteSet(Leads(s, 0)) /\ IsFiniteSet(Leads(t, 0)) /\ Cardinality(Leads(s, 0)) \in Nat
        /\ Cardinality(Leads(t, 0)) \in Nat
    BY LeadsFinite
  <2>2. IsFiniteSet(Moved) /\ Cardinality(Moved) = Cardinality(Leads(t, 0))
    <3> DEFINE f == [k \in Leads(t, 0) |-> d + k]
    <3>1. \A k \in Leads(t, 0) : k \in Nat
      BY DEF Leads
    <3>2. f \in Bijection(Leads(t, 0), Moved)
      BY <3>1 DEF Bijection, Injection, Surjection, IsInjective
    <3> HIDE DEF f, Moved
    <3>3. ExistsBijection(Leads(t, 0), Moved)
      BY <3>2 DEF ExistsBijection
    <3> QED
      BY <2>1, <3>3, FS_Bijection
  <2>3. Leads(s, 0) \cap Moved = {}
    BY <1>2, <1>3 DEF Leads
  <2> HIDE DEF Moved
  <2>4. Cardinality(Leads(s, 0) \cup Moved) =
          Cardinality(Leads(s, 0)) + Cardinality(Moved) - Cardinality(Leads(s, 0) \cap Moved)
    BY <2>1, <2>2, FS_Union
  <2>5. Cardinality(Leads(s, 0) \cap Moved) = 0
    BY <2>3, FS_EmptySet
  <2>6. Leads(u, 0) = Leads(s, 0) \cup Moved
    BY <1>8 DEF Moved
  <2>7. PICK m \in Nat, n \in Nat : m = Cardinality(Leads(s, 0)) /\ n = Cardinality(Moved)
    BY <2>1, <2>2
  <2>8. Cardinality(Leads(u, 0)) = m + n - 0
    BY <2>4, <2>5, <2>6, <2>7
  <2> QED
    BY <2>2, <2>7, <2>8
<1>14. Tells(ClassifyFull(s), s, 0) /\ Tells(ClassifyFull(t), t, 0) /\ Tells(ClassifyFull(u), u, 0)
  BY ClassifyTells
<1>15. ASSUME NEW r \in 0..3
       PROVE  (\A i \in Leads(u, 0) : Rank(CharClass(u, i)) <= r)
              <=> /\ \A i \in Leads(s, 0) : Rank(CharClass(s, i)) <= r
                  /\ \A k \in Leads(t, 0) : Rank(CharClass(t, k)) <= r
  BY <1>8, <1>9, <1>10
<1> QED
  BY <1>1, <1>12, <1>13, <1>14, <1>15 DEF Tells

(* Valid text put behind a text: the table's class, and, unless the whole  *)
(* is malformed, the characters of both.                                   *)
LEMMA AppendedIs ==
  ASSUME NEW s \in Text, NEW t \in Text, ClassifyFull(t).class \in ValidRange
  PROVE  /\ s \o t \in Text
         /\ ClassifyFull(s \o t).class = Extended(ClassifyFull(s).class, ClassifyFull(t).class)
         /\ ClassifyFull(s).class # "MalformedUtf8" =>
              ClassifyFull(s \o t).chars = ClassifyFull(s).chars + ClassifyFull(t).chars
<1>1. PICK u \in Text : /\ u = s \o t /\ Len(u) = Len(s) + Len(t)
                        /\ \A i \in Places(s) : At(u, i) = At(s, i)
                        /\ \A i \in Places(t) : At(u, Len(s) + i) = At(t, i)
  BY JoinedIs
<1>2. PICK a \in Terminal, b \in ValidRange, c \in Terminal :
        a = ClassifyFull(s).class /\ b = ClassifyFull(t).class /\ c = ClassifyFull(u).class
  BY ClassifyTells DEF Tells
<1>3. /\ a = "MalformedUtf8" <=> ~Sound(s, 0)
      /\ c = "MalformedUtf8" <=> ~Sound(u, 0)
      /\ Sound(t, 0)
  <2>1. b # "MalformedUtf8"
    BY DEF ValidRange
  <2> QED
    BY <1>2, <2>1, ClassifyTells DEF Tells
<1>4. CASE Sound(s, 0)
  <2>1. a # "MalformedUtf8"
    BY <1>3, <1>4
  <2>2. /\ Sound(u, 0) /\ ClassifyFull(u).chars = ClassifyFull(s).chars + ClassifyFull(t).chars
        /\ \A r \in 0..3 : Rank(c) <= r <=> Rank(a) <= r /\ Rank(b) <= r
    BY <1>1, <1>2, <1>3, <1>4, JoinTells
  <2>3. c # "MalformedUtf8"
    BY <1>3, <2>2
  <2>4. c = Extended(a, b)
    <3>1. a \in {"Ascii", "Utf8Latin1", "Utf8NonLatin1", "ExtendedUtf8"}
          /\ c \in {"Ascii", "Utf8Latin1", "Utf8NonLatin1", "ExtendedUtf8"}
          /\ b \in {"Ascii", "Utf8Latin1", "Utf8NonLatin1"}
      BY <1>2, <2>1, <2>3 DEF Terminal, ValidRange
    <3>2. /\ Rank(c) <= 0 <=> Rank(a) <= 0 /\ Rank(b) <= 0
          /\ Rank(c) <= 1 <=> Rank(a) <= 1 /\ Rank(b) <= 1
          /\ Rank(c) <= 2 <=> Rank(a) <= 2 /\ Rank(b) <= 2
      BY <2>2
    <3>3. c = "Ascii" <=> a = "Ascii" /\ b = "Ascii"
      BY <3>1, <3>2, RankIs
    <3>4. c = "ExtendedUtf8" <=> a = "ExtendedUtf8"
      BY <3>1, <3>2, RankIs
    <3>5. c \in {"Ascii", "Utf8Latin1"} <=> a \in {"Ascii", "Utf8Latin1"} /\ b \in {"Ascii", "Utf8Latin1"}
      BY <3>1, <3>2, RankIs
    <3> QED
      BY <3>1, <3>3, <3>4, <3>5 DEF Extended, ValidRange, RangeJoin
  <2> QED
    BY <1>1, <1>2, <2>2, <2>4
<1>5. CASE ~Sound(s, 0)
  <2>1. ASSUME Sound(u, 0) PROVE FALSE
    <3>0. Len(s) \in Nat /\ Len(t) \in Nat
      BY ByteAt
    <3>1. Window(s, u, 0)
      <4>1. \A i \in Places(s) : 0 + i = i
        BY <3>0 DEF Places
      <4> QED
        BY <1>1, <3>0, <4>1 DEF Window
    <3>2. 0 + Len(s) < Len(u) => ~IsContinuation(At(u, 0 + Len(s)))
      <4>1. SUFFICES ASSUME 0 + Len(s) < Len(u), IsContinuation(At(u, 0 + Len(s))) PROVE FALSE
        OBVIOUS
      <4>2. 0 \in Places(t) /\ 0 \in 0..(Len(t) - 1) /\ 0 + Len(s) = Len(s) + 0
        BY <1>1, <3>0, <4>1 DEF Places
      <4>3. IsContinuation(At(t, 0))
        BY <1>1, <4>1, <4>2
      <4>4. PICK j \in Leads(t, 0) : j < 0
        BY <1>3, <4>2, <4>3 DEF Sound
      <4> QED
        BY <3>0, <4>4 DEF Leads
    <3>3. Sound(s, 0)
      BY <2>1, <3>1, <3>2, WindowSound
    <3> QED
      BY <1>5, <3>3
  <2>2. a = "MalformedUtf8" /\ c = "MalformedUtf8"
    BY <1>3, <1>5, <2>1
  <2>3. Extended(a, b) = "MalformedUtf8"
    BY <2>2 DEF Extended, ValidRange
  <2> QED
    BY <1>1, <1>2, <2>2, <2>3
<1> QED
  BY <1>4, <1>5

(* A part of a text, by where its ends are: cut between characters its     *)
(* class is one the table allows; cut inside one it is malformed, unless   *)
(* the text was, and the text was not ASCII.                               *)
LEMMA CutIs ==
  ASSUME NEW s \in Text, NEW a \in Nat, NEW n \in Nat, a + n <= Len(s),
         NEW u \in Text, u = Bytes(s, a, a + n)
  PROVE  /\ CutIsClean(s, a, n) => ClassifyFull(u).class \in Parts(ClassifyFull(s).class)
         /\ ~CutIsClean(s, a, n) => ClassifyFull(s).class # "Ascii"
         /\ ~CutIsClean(s, a, n) /\ n # 0 /\ ClassifyFull(s).class # "MalformedUtf8" =>
              ClassifyFull(u).class = "MalformedUtf8"
<1>0. Len(s) \in Nat
  BY ByteAt
<1>1. PICK b \in Nat : b = a + n
  OBVIOUS
<1>2. Len(u) = n /\ \A i \in 0..(n - 1) : At(u, i) = At(s, a + i)
  <2>1. a <= b /\ b <= Len(s) /\ b - a = n
    BY <1>1
  <2>2. /\ Len(Bytes(s, a, b)) = b - a
        /\ \A i \in 0..(b - a - 1) : At(Bytes(s, a, b), i) = At(s, a + i)
    BY <1>0, <1>1, <2>1, PartIs
  <2> QED
    BY <1>1, <2>1, <2>2
<1>3. Window(u, s, a)
  BY <1>2 DEF Window, Places
<1>4. PICK c \in Terminal, d \in Terminal : c = ClassifyFull(s).class /\ d = ClassifyFull(u).class
  BY ClassifyTells DEF Tells
<1>5. Tells(ClassifyFull(s), s, 0) /\ Tells(ClassifyFull(u), u, 0)
  BY ClassifyTells
<1>6. CutIsClean(s, a, n) <=> /\ a < Len(s) => a = 0 \/ ~IsContinuation(At(s, a))
                              /\ a + n < Len(s) => ~IsContinuation(At(s, a + n))
  BY <1>0 DEF CutIsClean
<1>7. /\ c = "MalformedUtf8" <=> ~Sound(s, 0)
      /\ d = "MalformedUtf8" <=> ~Sound(u, 0)
  BY <1>4, <1>5 DEF Tells
<1>8. ASSUME CutIsClean(s, a, n), Sound(s, 0)
      PROVE  d \in Parts(c)
  <2>1. /\ Sound(u, 0)
        /\ \A k \in Leads(u, 0) : a + k \in Leads(s, 0) /\ CharClass(s, a + k) = CharClass(u, k)
    BY <1>2, <1>3, <1>6, <1>8, WindowSound
  <2>2. ASSUME NEW r \in 0..3, Rank(c) <= r PROVE Rank(d) <= r
    <3>1. \A i \in Leads(s, 0) : Rank(CharClass(s, i)) <= r
      BY <1>4, <1>5, <1>8, <2>2 DEF Tells
    <3>2. \A k \in Leads(u, 0) : Rank(CharClass(u, k)) <= r
      BY <2>1, <3>1
    <3> QED
      BY <1>4, <1>5, <2>1, <3>2 DEF Tells
  <2>3. /\ c \in {"Ascii", "Utf8Latin1", "Utf8NonLatin1", "ExtendedUtf8"}
        /\ d \in {"Ascii", "Utf8Latin1", "Utf8NonLatin1", "ExtendedUtf8"}
    BY <1>7, <1>8, <2>1 DEF Terminal
  <2>4. (Rank(c) <= 0 => Rank(d) <= 0) /\ (Rank(c) <= 1 => Rank(d) <= 1) /\ (Rank(c) <= 2 => Rank(d) <= 2)
    BY <2>2
  <2>5. (c = "Ascii" => d = "Ascii") /\ (c = "Utf8Latin1" => d \in {"Ascii", "Utf8Latin1"})
        /\ (c = "Utf8NonLatin1" => d # "ExtendedUtf8")
    BY <2>3, <2>4, RankIs
  <2> QED
    BY <2>3, <2>5 DEF Parts, ValidRange
<1>9. ~Sound(s, 0) => d \in Parts(c)
  BY <1>7 DEF Parts
<1>10. ASSUME ~CutIsClean(s, a, n)
       PROVE  \E i \in Places(s) : IsContinuation(At(s, i))
  BY <1>0, <1>6, <1>10 DEF Places
<1>11. ~CutIsClean(s, a, n) => c # "Ascii"
  <2>1. ASSUME NEW i \in Places(s), IsContinuation(At(s, i)), At(s, i) < 128 PROVE FALSE
    <3>1. At(s, i) \in Byte /\ At(s, i) \in 128..191
      BY <2>1, ByteAt, SeqLenIs
    <3>2. \A x \in 128..191 : ~(x < 128)
      OBVIOUS
    <3> QED
      BY <2>1, <3>1, <3>2
  <2> QED
    BY <1>4, <1>10, <2>1, AsciiIs
<1>12. ASSUME ~CutIsClean(s, a, n), n # 0, Sound(s, 0) PROVE d = "MalformedUtf8"
  BY <1>2, <1>3, <1>6, <1>7, <1>12, WindowSplit
<1> QED
  BY <1>4, <1>7, <1>8, <1>9, <1>11, <1>12

-----------------------------------------------------------------------------
(* The encodings of characters up to U+00FF.                               *)

(* The quotient and the remainder of a byte past ASCII, by 64.             *)
LEMMA HighByte ==
  ASSUME NEW b \in Byte, b >= 128
  PROVE  /\ b \div 64 \in {2, 3} /\ b % 64 \in 0..63 /\ b = (b \div 64) * 64 + (b % 64)
         /\ (128 + (b % 64)) % 64 = b % 64
BY DEF Byte

(* The encoding of one character is a text of that character.              *)
LEMMA WidenIs ==
  ASSUME NEW b \in Byte
  PROVE  /\ Widen(b) \in Text
         /\ b < 128 => Widen(b) = <<b>> /\ Len(Widen(b)) = 1
         /\ b >= 128 => /\ Len(Widen(b)) = 2
                        /\ At(Widen(b), 0) = 192 + (b \div 64) /\ At(Widen(b), 1) = 128 + (b % 64)
<1>1. CASE b < 128
  <2>1. Widen(b) = <<b>>
    BY <1>1 DEF Widen
  <2>2. <<b>> \in Seq(Byte) /\ Len(<<b>>) = 1
    <3> HIDE DEF Byte
    <3> QED
      OBVIOUS
  <2> QED
    BY <1>1, <2>1, <2>2 DEF Text, Byte
<1>2. CASE b >= 128
  <2>1. PICK m \in Byte, n \in Byte : m = 192 + (b \div 64) /\ n = 128 + (b % 64)
    <3>1. 192 + (b \div 64) \in Byte /\ 128 + (b % 64) \in Byte
      BY <1>2, HighByte DEF Byte
    <3> QED
      BY <3>1
  <2>2. Widen(b) = <<m, n>>
    BY <1>2, <2>1 DEF Widen, Byte
  <2>3. <<m, n>> \in Seq(Byte) /\ Len(<<m, n>>) = 2
    <3> HIDE DEF Byte
    <3> QED
      OBVIOUS
  <2>4. At(<<m, n>>, 0) = m /\ At(<<m, n>>, 1) = n
    BY DEF At
  <2> QED
    BY <1>2, <2>1, <2>2, <2>3, <2>4 DEF Text, Byte
<1> QED
  BY <1>1, <1>2 DEF Byte

(* It is of the class its byte says.                                       *)
LEMMA WidenClass ==
  ASSUME NEW b \in Byte
  PROVE  /\ ClassifyFull(Widen(b)).class = IF b < 128 THEN "Ascii" ELSE "Utf8Latin1"
         /\ ClassifyFull(Widen(b)).chars = 1
<1>1. PICK w \in Text : w = Widen(b)
  BY WidenIs
<1>2. CASE b < 128
  <2>1. w = <<b>> /\ Len(w) = 1
    BY <1>1, <1>2, WidenIs
  <2>2. \A i \in Places(w) : At(w, i) = b
    BY <2>1 DEF Places, At
  <2> QED
    BY <1>1, <1>2, <2>1, <2>2, AsciiIs
<1>3. CASE b >= 128
  <2>1. /\ Len(w) = 2 /\ At(w, 0) = 192 + (b \div 64) /\ At(w, 1) = 128 + (b % 64)
    BY <1>1, <1>3, WidenIs
  <2>2. 0 \in Places(w) /\ 1 \in Places(w) /\ \A i \in Places(w) : i = 0 \/ i = 1
    BY <2>1 DEF Places
  <2>3. At(w, 0) \in {194, 195} /\ At(w, 1) \in 128..191 /\ At(w, 0) \in Byte /\ At(w, 1) \in Byte
    <3>1. b \div 64 \in {2, 3} /\ b % 64 \in 0..63
      BY <1>3, HighByte
    <3>2. At(w, 0) \in {194, 195}
      BY <2>1, <3>1
    <3>3. At(w, 1) \in 128..191
      BY <2>1, <3>1
    <3> QED
      BY <2>2, <3>2, <3>3, ByteAt
  <2>4. SeqLen(At(w, 0)) = 2 /\ IsContinuation(At(w, 1)) /\ ~IsContinuation(At(w, 0))
    <3>1. At(w, 0) \in 192..223 /\ ~(At(w, 0) \in 128..191)
      BY <2>3
    <3> QED
      BY <2>3, <3>1, SeqLenIs
  <2>5. Sequence(w, 0) = w
    <3>1. PICK z \in Nat, e \in Nat : z = 0 /\ e = 0 + 2
      OBVIOUS
    <3>2. z <= e /\ e <= Len(w)
      BY <2>1, <3>1
    <3>3. /\ Bytes(w, z, e) \in Text /\ Len(Bytes(w, z, e)) = e - z
          /\ \A i \in 0..(e - z - 1) : At(Bytes(w, z, e), i) = At(w, z + i)
      BY <3>2, PartIs
    <3>4. \A i \in Places(Bytes(w, z, e)) : i \in 0..(e - z - 1) /\ z + i = i
      <4>1. e - z = 2
        BY <3>1
      <4>2. Places(Bytes(w, z, e)) = 0..(2 - 1)
        BY <3>3, <4>1 DEF Places
      <4> QED
        BY <3>1, <4>1, <4>2
    <3>5. Bytes(w, z, e) = w
      BY <2>1, <3>1, <3>3, <3>4, SameText
    <3> QED
      BY <2>4, <3>1, <3>5 DEF Sequence
  <2>6. Value(w) = b
    <3>1. Value(w) = (At(w, 0) - 192) * 64 + (At(w, 1) % 64)
      BY <2>1, ValueOfTwo
    <3>2. At(w, 0) - 192 = b \div 64 /\ At(w, 1) % 64 = b % 64
      BY <1>3, <2>1, HighByte
    <3> QED
      BY <1>3, <3>1, <3>2, HighByte
  <2>7. WellFormed(w)
    <3>1. MinForLen[2] = 128
      BY DEF MinForLen
    <3>4. IsMinimal(w) = (Value(w) >= MinForLen[2])
      BY <2>1 DEF IsMinimal
    <3>2. IsMinimal(w)
      BY <1>3, <2>6, <3>1, <3>4
    <3>3. \A k \in 1..Len(w) - 1 : k = 1
      BY <2>1
    <3> QED
      BY <2>4, <3>2, <3>3 DEF WellFormed
  <2>8. Decodes(w, 0)
    BY <2>1, <2>4, <2>5, <2>7 DEF Decodes
  <2>9. CharClass(w, 0) = "Utf8Latin1"
    <3>1. ~(Value(w) > 1114111) /\ ~(Value(w) \in 55296..57343) /\ ~(Value(w) > 255)
      BY <2>6 DEF Byte
    <3> QED
      <4>1. ClassOf(w) = "Utf8Latin1"
        BY <2>1, <3>1 DEF ClassOf
      <4> QED
        BY <2>5, <4>1 DEF CharClass
  <2>10. Leads(w, 0) = {0}
    BY <2>1, <2>2, <2>4 DEF Leads, Places
  <2>11. Sound(w, 0)
    <3>1. \A i \in 0..(Len(w) - 1) : i = 0 \/ i = 1
      BY <2>1
    <3>2. 0 < 1 /\ 1 < 0 + SeqLen(At(w, 0))
      BY <2>4
    <3> QED
      BY <2>4, <2>8, <2>10, <3>1, <3>2 DEF Sound
  <2>12. Cardinality(Leads(w, 0)) = 1
    BY <2>10, FS_Singleton
  <2>13. Tells(ClassifyFull(w), w, 0)
    BY ClassifyTells
  <2>14. \A r \in 0..3 : Rank(ClassifyFull(w).class) <= r <=> 1 <= r
    BY <2>9, <2>10, <2>11, <2>13, RankIs DEF Tells
  <2>15. ClassifyFull(w).class = "Utf8Latin1"
    <3>1. PICK c \in Terminal : c = ClassifyFull(w).class
      BY <2>13 DEF Tells
    <3>2. Rank(c) <= 1 /\ ~(Rank(c) <= 0)
      BY <2>14, <3>1
    <3>3. c \in {"Ascii", "Utf8Latin1", "Utf8NonLatin1", "ExtendedUtf8", "MalformedUtf8"}
      BY <3>1 DEF Terminal
    <3> QED
      BY <3>1, <3>2, <3>3, RankIs
  <2>16. ClassifyFull(w).chars = 1
    BY <2>11, <2>12, <2>13 DEF Tells
  <2>17. ~(b < 128)
    BY <1>3 DEF Byte
  <2> QED
    BY <1>1, <2>15, <2>16, <2>17
<1> QED
  BY <1>2, <1>3 DEF Byte

(* A text built up piece by piece: f[i] is what the first i pieces make.   *)
Built(f, N, W) ==
  /\ f \in [0..N -> Text] /\ f[0] = <<>>
  /\ \A i \in 1..N : f[i] = f[i - 1] \o W[i]

(* Pieces can be put together.                                             *)
LEMMA BuildExists ==
  ASSUME NEW N \in Nat, NEW W \in [1..N -> Text]
  PROVE  \E f : Built(f, N, W)
<1> DEFINE S == {n \in 0..N : \E f : Built(f, n, W)}
<1>1. 0 \in S
  <2>1. [i \in 0..0 |-> <<>>] \in [0..0 -> Text] /\ [i \in 0..0 |-> <<>>][0] = <<>>
    <3>1. <<>> \in Text
      BY DEF Text
    <3> QED
      BY <3>1
  <2>2. Built([i \in 0..0 |-> <<>>], 0, W)
    BY <2>1 DEF Built
  <2>3. \E f : Built(f, 0, W)
    BY <2>2
  <2> QED
    BY <2>3
<1>2. ASSUME NEW n \in 0..(N - 1), n \in S PROVE n + 1 \in S
  <2>1. PICK f : Built(f, n, W)
    BY <1>2
  <2>2. PICK m \in 1..N : m = n + 1
    OBVIOUS
  <2> DEFINE g == [i \in 0..m |-> IF i = m THEN f[n] \o W[m] ELSE f[i]]
  <2>3. f[n] \in Text /\ W[m] \in Text /\ f[n] \o W[m] \in Text
    <3>1. f[n] \in Text
      BY <2>1 DEF Built
    <3> QED
      BY <3>1, JoinedIs
  <2>4. \A i \in 0..m : i = m \/ (i \in 0..n /\ i # m)
    BY <2>2
  <2>5. g \in [0..m -> Text]
    <3>1. \A i \in 0..m : (IF i = m THEN f[n] \o W[m] ELSE f[i]) \in Text
      BY <2>1, <2>3, <2>4 DEF Built
    <3> QED
      BY <3>1
  <2>6. \A i \in 0..n : i \in 0..m /\ g[i] = f[i]
    BY <2>2
  <2>7. g[m] = f[n] \o W[m]
    BY <2>2
  <2> HIDE DEF g
  <2>8. g[0] = <<>>
    BY <2>1, <2>6 DEF Built
  <2>9. ASSUME NEW i \in 1..m PROVE g[i] = g[i - 1] \o W[i]
    <3>1. CASE i = m
      <4>1. i - 1 = n /\ n \in 0..n
        BY <2>2, <3>1
      <4> QED
        BY <2>6, <2>7, <3>1, <4>1
    <3>2. CASE i # m
      <4>1. i \in 1..n /\ i \in 0..n /\ i - 1 \in 0..n
        BY <2>2, <3>2
      <4> QED
        BY <2>1, <2>6, <4>1 DEF Built
    <3> QED
      BY <3>1, <3>2
  <2>10. Built(g, m, W)
    BY <2>5, <2>8, <2>9 DEF Built
  <2>11. \E h : Built(h, m, W)
    BY <2>10
  <2> QED
    BY <2>2, <2>11
<1>3. N \in S
  <2>1. \A n \in 0..N : n \in S
    <3> HIDE DEF S
    <3> QED
      BY <1>1, <1>2, UpTo
  <2> QED
    BY <2>1
<1> QED
  BY <1>3

(* What flattening makes of them.                                          *)
LEMMA FlattenIs ==
  ASSUME NEW N \in Nat, NEW W \in [1..N -> Text]
  PROVE  \E f : Built(f, N, W) /\ FlattenSeq(W) = f[N]
<1>4. Len(W) = N
  <2>1. W \in Seq(Text)
    OBVIOUS
  <2>2. Len(W) \in Nat /\ DOMAIN W = 1..Len(W)
    BY <2>1, LenProperties
  <2>3. DOMAIN W = 1..N
    OBVIOUS
  <2>4. \A a, b \in Nat : 1..a = 1..b => a = b
    <3> TAKE a, b \in Nat
    <3>1. CASE a < b
      <4>1. b \in 1..b /\ b \notin 1..a
        BY <3>1
      <4> QED
        BY <4>1
    <3>2. CASE b < a
      <4>1. a \in 1..a /\ a \notin 1..b
        BY <3>2
      <4> QED
        BY <4>1
    <3> QED
      BY <3>1, <3>2
  <2> QED
    BY <2>2, <2>3, <2>4
<1>5. PICK f : Built(f, N, W)
  BY BuildExists
<1>6. CASE N = 0
  <2>1. W = <<>>
    BY <1>6
  <2>2. FlattenSeq(W) = <<>>
    BY <1>4, <1>6, <2>1 DEF FlattenSeq
  <2>3. f[N] = <<>>
    BY <1>5, <1>6 DEF Built
  <2> QED
    BY <1>5, <2>2, <2>3
<1>7. CASE N # 0
  <2> DEFINE E(g) == [i \in 1..N |-> IF i = 1 THEN W[i] ELSE g[i - 1] \o W[i]]
  <2>1. PICK q : q = CHOOSE g : g = E(g)
    OBVIOUS
  <2>2. FlattenSeq(W) = q[N]
    BY <1>4, <1>7, <2>1 DEF FlattenSeq
  <2>3. \A i \in 1..N : W[i] \in Text /\ <<>> \o W[i] = W[i]
    <3> TAKE i \in 1..N
    <3>1. W[i] \in Text
      OBVIOUS
    <3> QED
      BY <3>1, ConcatEmptySeq DEF Text
  <2>4. \E g : g = E(g)
    <3> DEFINE h == [i \in 1..N |-> f[i]]
    <3>1. ASSUME NEW i \in 1..N PROVE h[i] = IF i = 1 THEN W[i] ELSE h[i - 1] \o W[i]
      <4>1. f[i] = f[i - 1] \o W[i] /\ f[0] = <<>>
        BY <1>5 DEF Built
      <4>2. CASE i = 1
        <5>0. i - 1 = 0
          BY <4>2
        <5>1. f[i] = <<>> \o W[i]
          BY <4>1, <5>0, Zenon
        <5>2. f[i] = W[i] /\ h[i] = f[i]
          BY <2>3, <5>1
        <5> QED
          BY <4>2, <5>2
      <4>3. CASE i # 1
        <5>1. i - 1 \in 1..N
          BY <4>3
        <5> QED
          BY <4>1, <4>3, <5>1
      <4> QED
        BY <4>2, <4>3
    <3>2. h = E(h)
      BY <3>1
    <3> HIDE DEF h, E
    <3> QED
      BY <3>2
  <2>5. q = E(q)
    <3> HIDE DEF E
    <3> QED
      BY <2>1, <2>4
  <2> DEFINE S == {i \in 0..N : i = 0 \/ q[i] \in Text}
             p == [i \in 0..N |-> IF i = 0 THEN <<>> ELSE q[i]]
  <2>6. ASSUME NEW i \in 0..(N - 1), i \in S PROVE i + 1 \in S
    <3>1. PICK m \in 1..N : m = i + 1
      OBVIOUS
    <3>2. q[m] = IF m = 1 THEN W[m] ELSE q[m - 1] \o W[m]
      BY <2>5
    <3>3. m - 1 = i /\ (m # 1 => q[i] \in Text) /\ W[m] \in Text
      BY <2>3, <2>6, <3>1
    <3>4. q[m] \in Text
      BY <3>2, <3>3, JoinedIs
    <3> QED
      BY <3>1, <3>4
  <2>7. \A i \in 0..N : i \in S
    <3>1. 0 \in S
      OBVIOUS
    <3> HIDE DEF S
    <3> QED
      BY <2>6, <3>1, UpTo
  <2>8. p \in [0..N -> Text]
    <3>1. <<>> \in Text
      BY DEF Text
    <3> QED
      BY <2>7, <3>1
  <2>9. ASSUME NEW i \in 1..N PROVE p[i] = p[i - 1] \o W[i]
    <3>1. q[i] = IF i = 1 THEN W[i] ELSE q[i - 1] \o W[i]
      BY <2>5
    <3>2. p[i] = q[i] /\ (i = 1 => p[i - 1] = <<>>) /\ (i # 1 => p[i - 1] = q[i - 1])
      OBVIOUS
    <3> HIDE DEF p
    <3> QED
      BY <2>3, <3>1, <3>2
  <2>10. p[0] = <<>> /\ p[N] = q[N]
    BY <1>7
  <2>11. Built(p, N, W)
    <3> HIDE DEF p
    <3> QED
      BY <2>8, <2>9, <2>10 DEF Built
  <2> HIDE DEF p
  <2> QED
    BY <2>2, <2>10, <2>11
<1> QED
  BY <1>6, <1>7

(* The pieces an upgrade puts together.                                    *)
Widened(s) == [i \in 1..Len(s) |-> Widen(s[i])]

(* The pieces an upgrade is made of.                                       *)
LEMMA WidenedIs ==
  ASSUME NEW s \in Text
  PROVE  /\ Len(s) \in Nat /\ Widened(s) \in [1..Len(s) -> Text]
         /\ \A i \in 1..Len(s) : s[i] \in Byte /\ Widened(s)[i] = Widen(s[i])
<1>1. Len(s) \in Nat /\ \A i \in 1..Len(s) : s[i] \in Byte
  BY LenProperties, ElementOfSeq DEF Text
<1>2. \A i \in 1..Len(s) : Widen(s[i]) \in Text
  BY <1>1, WidenIs
<1> QED
  BY <1>1, <1>2 DEF Widened

(* An upgrade is what they make.                                           *)
LEMMA UpgradeIs ==
  ASSUME NEW s \in Text
  PROVE  \E f : Built(f, Len(s), Widened(s)) /\ UpgradedBytes(s) = f[Len(s)]
<1>1. PICK N \in Nat : N = Len(s)
  BY ByteAt
<1>2. PICK W \in [1..N -> Text] : W = Widened(s)
  BY <1>1, WidenedIs
<1>3. UpgradedBytes(s) = FlattenSeq(W)
  <2>1. DOMAIN s = 1..Len(s)
    BY LenProperties DEF Text
  <2> QED
    BY <1>2, <2>1 DEF UpgradedBytes, Widened
<1> QED
  BY <1>1, <1>2, <1>3, FlattenIs

(* Each piece is a window of the whole, where those before it end.         *)
LEMMA BuiltWindow ==
  ASSUME NEW N \in Nat, NEW W \in [1..N -> Text], NEW f, Built(f, N, W), NEW i \in 1..N
  PROVE  /\ f[N] \in Text /\ f[i] \in Text /\ f[i - 1] \in Text
         /\ Len(f[i - 1]) \in Nat /\ Len(f[i]) = Len(f[i - 1]) + Len(W[i]) /\ Len(f[i]) <= Len(f[N])
         /\ Window(W[i], f[N], Len(f[i - 1]))
<1>1. \A j \in 0..N : f[j] \in Text
  BY DEF Built
<1>2. N \in 0..N /\ i \in 0..N /\ i - 1 \in 0..N
  OBVIOUS
<1>3. PICK u \in Text, t \in Text, w \in Text : u = f[i - 1] /\ t = f[i] /\ w = W[i] /\ t = u \o w
  BY <1>1, <1>2 DEF Built
<1>4. /\ Len(t) = Len(u) + Len(w) /\ Len(u) \in Nat /\ Len(w) \in Nat
      /\ \A k \in Places(w) : At(t, Len(u) + k) = At(w, k)
  BY <1>3, JoinedIs, ByteAt
<1> DEFINE S == {j \in 0..N : j < i \/ Window(t, f[j], 0)}
<1>5. 0 \in S
  OBVIOUS
<1>6. ASSUME NEW j \in 0..(N - 1), j \in S PROVE j + 1 \in S
  <2>1. PICK n \in 1..N : n = j + 1
    OBVIOUS
  <2>2. PICK x \in Text, y \in Text : x = f[j] /\ y = W[n] /\ f[n] = x \o y
    <3>1. n - 1 = j /\ j \in 0..N
      BY <2>1
    <3>2. f[n] = f[n - 1] \o W[n]
      BY DEF Built
    <3> QED
      BY <1>1, <3>1, <3>2
  <2>3. ASSUME n = i PROVE Window(t, f[n], 0)
    <3>1. Window(t, t, 0)
      BY <1>4 DEF Window, Places
    <3> QED
      BY <1>3, <2>3, <3>1
  <2>4. ASSUME n > i PROVE Window(t, f[n], 0)
    <3>1. Window(t, x, 0)
      <4>1. ~(j < i)
        BY <2>1, <2>4
      <4> QED
        BY <1>6, <2>2, <4>1
    <3>2. Len(x \o y) = Len(x) + Len(y) /\ Len(x) \in Nat /\ Len(y) \in Nat /\ Len(t) \in Nat
      BY JoinedIs, ByteAt
    <3>3. \A k \in Places(x) : At(x \o y, k) = At(x, k)
      BY JoinedIs
    <3>4. \A k \in Places(t) : k \in Places(x) /\ 0 + k = k
      BY <3>1, <3>2 DEF Window, Places
    <3>5. Window(t, x \o y, 0)
      BY <3>1, <3>2, <3>3, <3>4 DEF Window
    <3> QED
      BY <2>2, <3>5
  <2>5. n \in 0..N /\ (n < i \/ Window(t, f[n], 0))
    <3>1. n \in 0..N /\ (n < i \/ n = i \/ n > i)
      OBVIOUS
    <3> QED
      BY <2>3, <2>4, <3>1
  <2> QED
    BY <2>1, <2>5
<1>7. Window(t, f[N], 0)
  <2>1. \A j \in 0..N : j \in S
    <3> HIDE DEF S
    <3> QED
      BY <1>5, <1>6, UpTo
  <2> QED
    BY <1>2, <2>1
<1>8. Len(t) <= Len(f[N])
  <2>1. Len(f[N]) \in Nat
    BY <1>1, <1>2, ByteAt
  <2> QED
    BY <1>4, <1>7, <2>1 DEF Window
<1>9. Window(w, f[N], Len(u))
  <2>1. ASSUME NEW k \in Places(w) PROVE At(w, k) = At(f[N], Len(u) + k)
    <3>1. Len(u) + k \in Places(t) /\ 0 + (Len(u) + k) = Len(u) + k
      BY <1>4 DEF Places
    <3> QED
      BY <1>4, <1>7, <3>1 DEF Window
  <2> QED
    BY <1>4, <1>8, <2>1 DEF Window
<1> QED
  BY <1>1, <1>2, <1>3, <1>4, <1>8, <1>9

(* Nothing at all is ASCII.                                                *)
LEMMA NothingIs ==
  <<>> \in Text /\ ClassifyFull(<<>>).class = "Ascii" /\ ClassifyFull(<<>>).chars = 0 /\ Len(<<>>) = 0
<1>1. <<>> \in Text /\ Len(<<>>) = 0
  BY DEF Text
<1>2. PICK s \in Text : s = <<>> /\ Len(s) = 0
  BY <1>1
<1>3. \A i \in Places(s) : At(s, i) < 128
  BY <1>2 DEF Places
<1> QED
  BY <1>2, <1>3, AsciiIs

(* What the first n bytes become: n characters, and Latin-1 as soon as one *)
(* of the bytes is past ASCII.                                             *)
Becomes(u, s, n) ==
  /\ Len(u) <= 2 * n /\ ClassifyFull(u).chars = n
  /\ ClassifyFull(u).class = IF \A j \in 1..n : s[j] < 128 THEN "Ascii" ELSE "Utf8Latin1"
  /\ (\A j \in 1..n : s[j] < 128) => Len(u) = n /\ \A j \in 1..n : u[j] = s[j]

(* An upgrade of a text.                                                   *)
LEMMA UpgradedIs ==
  ASSUME NEW s \in Text
  PROVE  /\ UpgradedBytes(s) \in Text /\ Len(UpgradedBytes(s)) <= 2 * Len(s)
         /\ ClassifyFull(UpgradedBytes(s)).chars = Len(s)
         /\ ClassifyFull(UpgradedBytes(s)).class =
              IF ClassifyFull(s).class = "Ascii" THEN "Ascii" ELSE "Utf8Latin1"
         /\ ClassifyFull(s).class = "Ascii" => UpgradedBytes(s) = s
<1>1. PICK N \in Nat : N = Len(s)
  BY ByteAt
<1>2. PICK f : Built(f, N, Widened(s)) /\ UpgradedBytes(s) = f[N]
  BY <1>1, UpgradeIs
<1>3. \A i \in 1..N : s[i] \in Byte /\ Widened(s)[i] = Widen(s[i])
  BY <1>1, WidenedIs
<1> DEFINE S == {i \in 0..N : Becomes(f[i], s, i)}
<1>4. 0 \in S
  <2>1. f[0] = <<>>
    BY <1>2 DEF Built
  <2>2. Becomes(<<>>, s, 0)
    BY NothingIs DEF Becomes
  <2> QED
    BY <2>1, <2>2
<1>5. ASSUME NEW i \in 0..(N - 1), i \in S PROVE i + 1 \in S
  <2>1. PICK n \in 1..N : n = i + 1
    OBVIOUS
  <2>2. PICK u \in Text, w \in Text, b \in Byte : u = f[i] /\ w = Widen(b) /\ b = s[n]
    <3>1. f[i] \in Text /\ s[n] \in Byte
      BY <1>2, <1>3 DEF Built
    <3> QED
      BY <3>1, WidenIs
  <2>3. f[n] = u \o w
    <3>1. n - 1 = i
      BY <2>1
    <3>2. f[n] = f[n - 1] \o Widened(s)[n]
      BY <1>2 DEF Built
    <3> QED
      BY <1>3, <2>2, <3>1, <3>2
  <2>4. Becomes(u, s, i)
    BY <1>5, <2>2
  <2>5. ClassifyFull(w).class = (IF b < 128 THEN "Ascii" ELSE "Utf8Latin1") /\ ClassifyFull(w).chars = 1
    BY <2>2, WidenClass
  <2>6. /\ u \o w \in Text
        /\ ClassifyFull(u \o w).class = Extended(ClassifyFull(u).class, ClassifyFull(w).class)
        /\ ClassifyFull(u).class # "MalformedUtf8" =>
             ClassifyFull(u \o w).chars = ClassifyFull(u).chars + ClassifyFull(w).chars
    BY <2>5, AppendedIs DEF ValidRange
  <2>7. (\A j \in 1..n : s[j] < 128) <=> (\A j \in 1..i : s[j] < 128) /\ b < 128
    <3>1. \A j \in 1..n : j = n \/ j \in 1..i
      BY <2>1
    <3>2. \A j \in 1..i : j \in 1..n
      BY <2>1
    <3> QED
      BY <2>2, <3>1, <3>2
  <2>8. ClassifyFull(u \o w).class = (IF \A j \in 1..n : s[j] < 128 THEN "Ascii" ELSE "Utf8Latin1")
    BY <2>4, <2>5, <2>6, <2>7 DEF Becomes, Extended, RangeJoin, ValidRange
  <2>9. ClassifyFull(u \o w).chars = n
    <3>1. ClassifyFull(u).class # "MalformedUtf8" /\ ClassifyFull(u).chars = i
      BY <2>4 DEF Becomes
    <3> QED
      BY <2>1, <2>5, <2>6, <3>1
  <2>10. Len(u \o w) = Len(u) + Len(w) /\ Len(u) \in Nat /\ Len(w) \in {1, 2} /\ (b < 128 => w = <<b>> /\ Len(w) = 1)
    <3>1. Len(w) \in {1, 2} /\ (b < 128 => w = <<b>> /\ Len(w) = 1)
      <4>1. w = Widen(b)
        BY <2>2
      <4>2. b < 128 \/ b >= 128
        BY DEF Byte
      <4>3. /\ b < 128 => Widen(b) = <<b>> /\ Len(Widen(b)) = 1
            /\ b >= 128 => Len(Widen(b)) = 2
        BY WidenIs
      <4> QED
        BY <4>1, <4>2, <4>3
    <3> QED
      BY <3>1, JoinedIs, ByteAt
  <2>11. Len(u \o w) <= 2 * n
    <3>1. Len(u) <= 2 * i
      BY <2>4 DEF Becomes
    <3>2. PICK l \in Nat, m \in {1, 2} : l = Len(u) /\ m = Len(w) /\ Len(u \o w) = l + m
      BY <2>10
    <3>4. i \in Nat
      OBVIOUS
    <3>6. m \in Nat /\ m <= 2
      OBVIOUS
    <3>7. l <= 2 * i
      BY <3>1, <3>2
    <3>5. 2 * n = 2 * i + 2
      BY <2>1
    <3>3. l + m <= 2 * n
      BY <3>4, <3>5, <3>6, <3>7
    <3> QED
      BY <3>2, <3>3
  <2>12. ASSUME \A j \in 1..n : s[j] < 128
         PROVE  Len(u \o w) = n /\ \A j \in 1..n : (u \o w)[j] = s[j]
    <3>1. Len(u) = i /\ (\A j \in 1..i : u[j] = s[j]) /\ b < 128
      BY <2>4, <2>7, <2>12 DEF Becomes
    <3>2. w = <<b>> /\ Len(w) = 1 /\ Len(u \o w) = n
      BY <2>1, <2>10, <3>1
    <3>3. \A j \in 1..(Len(u) + Len(w)) : (u \o w)[j] = IF j <= Len(u) THEN u[j] ELSE w[j - Len(u)]
      BY ConcatProperties DEF Text
    <3>4. ASSUME NEW j \in 1..n PROVE (u \o w)[j] = s[j]
      <4>1. j \in 1..(Len(u) + Len(w))
        BY <2>1, <3>1, <3>2
      <4>2. CASE j = n
        <5>1. ~(j <= Len(u)) /\ j - Len(u) = 1
          BY <2>1, <3>1, <4>2
        <5>2. (u \o w)[j] = w[1]
          BY <3>3, <4>1, <5>1
        <5>3. w[1] = b
          BY <3>2
        <5> QED
          BY <2>2, <4>2, <5>2, <5>3
      <4>3. CASE j # n
        <5>1. j <= Len(u) /\ j \in 1..i
          BY <2>1, <3>1, <4>3
        <5> QED
          BY <3>1, <3>3, <4>1, <5>1
      <4> QED
        BY <4>2, <4>3
    <3> QED
      BY <3>2, <3>4
  <2>13. Becomes(u \o w, s, n)
    BY <2>8, <2>9, <2>11, <2>12 DEF Becomes
  <2>14. Becomes(f[n], s, n)
    BY <2>3, <2>13
  <2> QED
    BY <2>1, <2>14
<1>6. Becomes(f[N], s, N)
  <2>1. \A i \in 0..N : i \in S
    <3> HIDE DEF S
    <3> QED
      BY <1>4, <1>5, UpTo
  <2> QED
    BY <2>1
<1>7. f[N] \in Text
  BY <1>2 DEF Built
<1>8. (\A j \in 1..N : s[j] < 128) <=> ClassifyFull(s).class = "Ascii"
  <2>1. \A j \in 1..N : j - 1 \in Places(s) /\ (j - 1) + 1 = j
    BY <1>1 DEF Places
  <2>2. \A i \in Places(s) : i + 1 \in 1..N /\ At(s, i) = s[i + 1]
    BY <1>1, ByteAt
  <2>3. (\A j \in 1..N : s[j] < 128) <=> \A i \in Places(s) : At(s, i) < 128
    BY <2>1, <2>2 DEF At
  <2> QED
    BY <2>3, AsciiIs
<1>9. ASSUME ClassifyFull(s).class = "Ascii" PROVE f[N] = s
  <2>1. Len(f[N]) = N /\ \A j \in 1..N : f[N][j] = s[j]
    BY <1>6, <1>8, <1>9 DEF Becomes
  <2> QED
    BY <1>1, <1>7, <2>1, SeqEqual DEF Text
<1> QED
  BY <1>1, <1>2, <1>6, <1>7, <1>8, <1>9 DEF Becomes

(* The upgrade of a text is that of its first byte, then of the rest.      *)
LEMMA UpgradeOn ==
  ASSUME NEW x \in Byte, NEW t \in Text
  PROVE  /\ <<x>> \o t \in Text /\ Len(<<x>> \o t) = Len(t) + 1
         /\ UpgradedBytes(<<x>> \o t) = Widen(x) \o UpgradedBytes(t)
<1>1. PICK o \in Text : o = <<x>> /\ Len(o) = 1 /\ o[1] = x
  <2>1. <<x>> \in Seq(Byte)
    <3> HIDE DEF Byte
    <3> QED
      OBVIOUS
  <2> QED
    BY <2>1 DEF Text
<1>2. PICK s \in Text : s = o \o t /\ Len(s) = 1 + Len(t)
  BY <1>1, JoinedIs
<1>3. PICK N \in Nat : N = Len(t)
  BY ByteAt
<1>4. s[1] = x /\ \A i \in 1..N : s[i + 1] = t[i]
  <2>1. \A j \in 1..(Len(o) + Len(t)) : (o \o t)[j] = IF j <= Len(o) THEN o[j] ELSE t[j - Len(o)]
    BY ConcatProperties DEF Text
  <2>2. 1 \in 1..(Len(o) + Len(t)) /\ 1 <= Len(o)
    BY <1>1, <1>3
  <2>3. \A i \in 1..N : i + 1 \in 1..(Len(o) + Len(t)) /\ ~(i + 1 <= Len(o)) /\ (i + 1) - Len(o) = i
    BY <1>1, <1>3
  <2> QED
    BY <1>1, <1>2, <2>1, <2>2, <2>3
<1>5. PICK f : Built(f, N + 1, Widened(s)) /\ UpgradedBytes(s) = f[N + 1]
  <2>1. 1 + N = N + 1
    OBVIOUS
  <2> QED
    BY <1>2, <1>3, <2>1, UpgradeIs
<1>6. PICK g : Built(g, N, Widened(t)) /\ UpgradedBytes(t) = g[N]
  BY <1>3, UpgradeIs
<1>7. PICK w \in Text : w = Widen(x)
  BY WidenIs
<1> DEFINE S == {i \in 0..N : f[i + 1] = w \o g[i]}
<1>8. 0 \in S
  <2>1. f[1] = f[0] \o Widened(s)[1] /\ f[0] = <<>> /\ g[0] = <<>>
    <3>1. 1 \in 1..(N + 1) /\ 1 - 1 = 0
      OBVIOUS
    <3> QED
      BY <1>5, <1>6, <3>1 DEF Built
  <2>2. Widened(s)[1] = w
    <3>1. 1 \in 1..Len(s)
      BY <1>2, <1>3
    <3> QED
      BY <1>4, <1>7, <3>1, WidenedIs
  <2>3. <<>> \o w = w /\ w \o <<>> = w
    BY ConcatEmptySeq DEF Text
  <2>4. f[1] = w \o g[0]
    BY <2>1, <2>2, <2>3
  <2>5. 0 + 1 = 1
    OBVIOUS
  <2> QED
    BY <2>4, <2>5
<1>9. ASSUME NEW i \in 0..(N - 1), i \in S PROVE i + 1 \in S
  <2>1. PICK n \in 1..N : n = i + 1
    OBVIOUS
  <2>2. n + 1 \in 1..(N + 1) /\ (n + 1) - 1 = n /\ n - 1 = i
    BY <2>1
  <2>3. f[n + 1] = f[n] \o Widened(s)[n + 1] /\ g[n] = g[i] \o Widened(t)[n] /\ g[i] \in Text
    BY <1>5, <1>6, <2>2 DEF Built
  <2>4. Widened(s)[n + 1] = Widen(t[n]) /\ Widened(t)[n] = Widen(t[n]) /\ Widen(t[n]) \in Text
    <3>1. n + 1 \in 1..Len(s) /\ n \in 1..Len(t)
      BY <1>2, <1>3
    <3>2. t[n] \in Byte
      BY <3>1, WidenedIs
    <3> QED
      BY <1>4, <3>1, <3>2, WidenedIs, WidenIs
  <2>5. (w \o g[i]) \o Widen(t[n]) = w \o (g[i] \o Widen(t[n]))
    <3>1. PICK a \in Seq(Byte), b \in Seq(Byte) : a = g[i] /\ b = Widen(t[n])
      BY <2>3, <2>4 DEF Text
    <3>2. (w \o a) \o b = w \o (a \o b)
      <4>1. w \in Seq(Byte)
        BY DEF Text
      <4> HIDE DEF Byte
      <4> QED
        BY <4>1, ConcatAssociative
    <3> QED
      BY <3>1, <3>2
  <2>6. f[n] = w \o g[i]
    BY <1>9, <2>1
  <2>7. f[n + 1] = w \o g[n]
    BY <2>3, <2>4, <2>5, <2>6
  <2> QED
    BY <2>1, <2>7
<1>10. N \in S
  <2>1. \A i \in 0..N : i \in S
    <3> HIDE DEF S
    <3> QED
      BY <1>3, <1>8, <1>9, UpTo
  <2> QED
    BY <2>1
<1> QED
  BY <1>1, <1>2, <1>3, <1>5, <1>6, <1>7, <1>10

(* Whether the two bytes at a place are the encoding of one character.     *)
Paired(s, i) == At(s, i) \in {194, 195} /\ i + 1 < Len(s) /\ IsContinuation(At(s, i + 1))

(* The walk behind Contracts: a table of where the rest contracts.         *)
LEMMA ContractsTable ==
  ASSUME NEW s \in Text
  PROVE  \E ok : /\ Contracts(s) = ok[0]
                /\ \A i \in 0..Len(s) : ok[i] = IF i = Len(s) THEN TRUE
                                               ELSE IF At(s, i) < 128 THEN ok[i + 1]
                                               ELSE Paired(s, i) /\ ok[i + 2]
<1> DEFINE N == Len(s)
           Next1(i) == IF At(s, i) < 128 THEN i + 1 ELSE i + 2
           E(f) == [i \in 0..N |->
                      IF i = N THEN TRUE
                      ELSE IF At(s, i) < 128 THEN f[i + 1]
                      ELSE At(s, i) \in {194, 195} /\ i + 1 < N /\ IsContinuation(At(s, i + 1)) /\ f[i + 2]]
           Stop == {i \in 0..N : i = N \/ (~(At(s, i) < 128) /\ ~Paired(s, i))}
           Final == [i \in 0..N |-> i = N]
           J == [i \in 0..N |-> Next1(i)]
           G == [x \in (0..N) \X BOOLEAN |-> x[2]]
<1>1. N \in Nat
  BY ByteAt
<1>2. \A i \in 0..N : i \notin Stop => J[i] \in (i + 1)..N
  BY <1>1 DEF Paired
<1>3. Final \in [0..N -> BOOLEAN] /\ G \in [(0..N) \X BOOLEAN -> BOOLEAN]
  OBVIOUS
<1>4. Walkable(N, BOOLEAN, Stop, Final, J, G)
  <2> HIDE DEF N, Stop, Final, J, G
  <2> QED
    BY <1>1, <1>2, <1>3, WalkExists
<1>5. PICK f \in [0..N -> BOOLEAN] : \A i \in 0..N : f[i] = IF i \in Stop THEN Final[i] ELSE G[<<i, f[J[i]]>>]
  <2> HIDE DEF N, Stop, Final, J, G
  <2> QED
    BY <1>4 DEF Walkable
<1>6. ASSUME NEW i \in 0..N
      PROVE  f[i] = IF i = N THEN TRUE
                    ELSE IF At(s, i) < 128 THEN f[i + 1]
                    ELSE At(s, i) \in {194, 195} /\ i + 1 < N /\ IsContinuation(At(s, i + 1)) /\ f[i + 2]
  <2>1. CASE i = N
    <3>1. i \in Stop /\ Final[i] = TRUE
      BY <2>1
    <3>2. f[i] = TRUE
      <4> HIDE DEF Stop, Final, N
      <4> QED
        BY <1>5, <3>1
    <3> QED
      BY <2>1, <3>2
  <2>2. CASE i # N /\ i \in Stop
    <3>1. ~(At(s, i) < 128) /\ ~Paired(s, i) /\ Final[i] = FALSE
      BY <2>2
    <3>2. f[i] = FALSE
      <4> HIDE DEF Stop, Final, N
      <4> QED
        BY <1>5, <2>2, <3>1
    <3> QED
      BY <2>2, <3>1, <3>2 DEF Paired
  <2>3. CASE i \notin Stop
    <3>1. PICK j \in 0..N : j = J[i]
      <4>1. J[i] \in 0..N
        BY <1>1, <1>2, <2>3
      <4> QED
        BY <4>1
    <3>2. f[i] = f[j]
      <4>1. f[i] = G[<<i, f[j]>>]
        <5> HIDE DEF Stop, Final, N, G, J
        <5> QED
          BY <1>5, <2>3, <3>1
      <4>2. G[<<i, f[j]>>] = f[j]
        <5> HIDE DEF N
        <5> QED
          BY <3>1
      <4> QED
        BY <4>1, <4>2
    <3>3. j = Next1(i) /\ i # N /\ (At(s, i) < 128 \/ Paired(s, i))
      BY <2>3, <3>1
    <3>4. CASE At(s, i) < 128
      BY <3>2, <3>3, <3>4
    <3>5. CASE ~(At(s, i) < 128)
      <4>1. f[i] = f[i + 2] /\ Paired(s, i)
        BY <3>2, <3>3, <3>5
      <4>2. At(s, i) \in {194, 195} /\ i + 1 < N /\ IsContinuation(At(s, i + 1))
        BY <4>1 DEF Paired
      <4>3. i # N
        BY <3>3
      <4> HIDE DEF N, Next1, E, Stop, Final, J, G
      <4> QED
        BY <3>5, <4>1, <4>2, <4>3
    <3> QED
      BY <3>4, <3>5
  <2> QED
    BY <2>1, <2>2, <2>3
<1>7. f = E(f)
  <2>1. f = [i \in 0..N |-> f[i]]
    OBVIOUS
  <2>2. [i \in 0..N |-> f[i]] = E(f)
    <3> HIDE DEF N
    <3> QED
      BY <1>6
  <2> QED
    BY <2>1, <2>2
<1>8. PICK q : q = CHOOSE g : g = E(g)
  OBVIOUS
<1>9. q = E(q)
  <2> HIDE DEF E
  <2> QED
    BY <1>7, <1>8
<1>10. Contracts(s) = q[0]
  BY <1>8 DEF Contracts
<1>11. ASSUME NEW i \in 0..N
       PROVE  q[i] = IF i = N THEN TRUE
                     ELSE IF At(s, i) < 128 THEN q[i + 1]
                     ELSE Paired(s, i) /\ q[i + 2]
  <2>1. q[i] = IF i = N THEN TRUE
               ELSE IF At(s, i) < 128 THEN q[i + 1]
               ELSE At(s, i) \in {194, 195} /\ i + 1 < N /\ IsContinuation(At(s, i + 1)) /\ q[i + 2]
    <3> HIDE DEF N
    <3> QED
      BY <1>9
  <2> QED
    BY <2>1 DEF Paired
<1> HIDE DEF E
<1> QED
  BY <1>10, <1>11

(* A text contracts exactly from the places where its first character does *)
(* and the rest contracts.                                                 *)
Contracting(ok, s) ==
  \A i \in Places(s) : ok[i] => IF At(s, i) < 128 THEN ok[i + 1] ELSE Paired(s, i) /\ ok[i + 2]

(* The table of a text that contracts.                                     *)
LEMMA ContractsIs ==
  ASSUME NEW s \in Text, Contracts(s)
  PROVE  \E ok : Contracting(ok, s) /\ ok[0]
<1>1. PICK ok : /\ Contracts(s) = ok[0]
                /\ \A i \in 0..Len(s) : ok[i] = IF i = Len(s) THEN TRUE
                                               ELSE IF At(s, i) < 128 THEN ok[i + 1]
                                               ELSE Paired(s, i) /\ ok[i + 2]
  BY ContractsTable
<1>2. Contracting(ok, s)
  <2> SUFFICES ASSUME NEW i \in Places(s), ok[i]
               PROVE  IF At(s, i) < 128 THEN ok[i + 1] ELSE Paired(s, i) /\ ok[i + 2]
    BY DEF Contracting
  <2>1. i \in 0..Len(s) /\ i # Len(s)
    BY ByteAt DEF Places
  <2>2. ok[i] = IF At(s, i) < 128 THEN ok[i + 1] ELSE Paired(s, i) /\ ok[i + 2]
    BY <1>1, <2>1
  <2> QED
    BY <2>2
<1> QED
  BY <1>1, <1>2

(* The rest of a text is what stands at a place, then the rest behind it.  *)
LEMMA RestIs ==
  ASSUME NEW s \in Text, NEW w \in Text, NEW i \in Nat, Window(w, s, i)
  PROVE  Bytes(s, i, Len(s)) = w \o Bytes(s, i + Len(w), Len(s))
<1>1. PICK N \in Nat, m \in Nat, j \in Nat : N = Len(s) /\ m = Len(w) /\ j = i + m
  <2>1. Len(s) \in Nat /\ Len(w) \in Nat
    BY ByteAt
  <2>2. i + Len(w) \in Nat
    BY <2>1
  <2> QED
    BY <2>1, <2>2
<1>2. j <= N /\ i <= N
  BY <1>1 DEF Window
<1>3. PICK r \in Text : /\ r = Bytes(s, i, N) /\ Len(r) = N - i
                        /\ \A k \in 0..(N - i - 1) : At(r, k) = At(s, i + k)
  <2>1. i <= N /\ N <= Len(s)
    BY <1>1, <1>2
  <2>2. /\ Bytes(s, i, N) \in Text /\ Len(Bytes(s, i, N)) = N - i
        /\ \A k \in 0..(N - i - 1) : At(Bytes(s, i, N), k) = At(s, i + k)
    BY <2>1, PartIs
  <2> QED
    BY <2>2
<1>4. PICK t \in Text : /\ t = Bytes(s, j, N) /\ Len(t) = N - j
                        /\ \A k \in 0..(N - j - 1) : At(t, k) = At(s, j + k)
  <2>1. j <= N /\ N <= Len(s)
    BY <1>1, <1>2
  <2>2. /\ Bytes(s, j, N) \in Text /\ Len(Bytes(s, j, N)) = N - j
        /\ \A k \in 0..(N - j - 1) : At(Bytes(s, j, N), k) = At(s, j + k)
    BY <2>1, PartIs
  <2> QED
    BY <2>2
<1>5. PICK u \in Text : /\ u = w \o t /\ Len(u) = m + (N - j)
                        /\ \A k \in Places(w) : At(u, k) = At(w, k)
                        /\ \A k \in Places(t) : At(u, m + k) = At(t, k)
  <2>1. /\ w \o t \in Text /\ Len(w \o t) = Len(w) + Len(t)
        /\ \A k \in Places(w) : At(w \o t, k) = At(w, k)
        /\ \A k \in Places(t) : At(w \o t, Len(w) + k) = At(t, k)
    BY JoinedIs
  <2>2. Len(w) = m
    BY <1>1
  <2>3. PICK u \in Text : u = w \o t
    BY <2>1
  <2> QED
    BY <1>4, <2>1, <2>2, <2>3
<1>6. ASSUME NEW k \in Places(r) PROVE At(r, k) = At(u, k)
  <2>1. k \in 0..(N - i - 1)
    BY <1>3 DEF Places
  <2>2. CASE k < m
    <3>1. k \in Places(w)
      BY <1>1, <2>1, <2>2 DEF Places
    <3> QED
      BY <1>3, <1>5, <2>1, <3>1 DEF Window
  <2>3. CASE ~(k < m)
    <3>1. PICK l \in Nat : l = k - m
      BY <2>1, <2>3
    <3>2. l \in 0..(N - j - 1) /\ m + l = k /\ j + l = i + k
      BY <1>1, <2>1, <2>3, <3>1
    <3>3. l \in Places(t)
      BY <1>4, <3>2 DEF Places
    <3> QED
      BY <1>3, <1>4, <1>5, <2>1, <3>2, <3>3
  <2> QED
    BY <2>2, <2>3
<1>7. Len(r) = Len(u)
  BY <1>1, <1>3, <1>5
<1>8. r = u
  BY <1>6, <1>7, SameText
<1> QED
  BY <1>1, <1>3, <1>4, <1>5, <1>8

(* A pair narrows to the byte that widens to it.                           *)
LEMMA NarrowedIs ==
  ASSUME NEW a \in {194, 195}, NEW c \in 128..191
  PROVE  /\ Narrowed(a, c) \in Byte /\ Narrowed(a, c) >= 128
         /\ 192 + (Narrowed(a, c) \div 64) = a /\ 128 + (Narrowed(a, c) % 64) = c
<1>1. PICK k \in 0..63 : c = 128 + k
  <2>1. c - 128 \in 0..63 /\ c = 128 + (c - 128)
    OBVIOUS
  <2> QED
    BY <2>1
<1>2. c % 64 = k
  BY <1>1
<1>3. Narrowed(a, c) = (a % 4) * 64 + k
  BY <1>2 DEF Narrowed
<1>4. CASE a = 194
  <2>1. Narrowed(a, c) = 128 + k
    BY <1>3, <1>4
  <2>2. (128 + k) \div 64 = 2 /\ (128 + k) % 64 = k
    OBVIOUS
  <2> QED
    BY <1>1, <1>4, <2>1, <2>2 DEF Byte
<1>5. CASE a = 195
  <2>1. Narrowed(a, c) = 192 + k
    BY <1>3, <1>5
  <2>2. (192 + k) \div 64 = 3 /\ (192 + k) % 64 = k
    OBVIOUS
  <2> QED
    BY <1>1, <1>5, <2>1, <2>2 DEF Byte
<1> QED
  BY <1>4, <1>5

(* What a downgrade makes of the rest from a place on: no more bytes, and  *)
(* an upgrade makes the rest of them again.                                *)
Undoes(d, s, i) ==
  d \in Text /\ Len(d) <= Len(s) - i /\ UpgradedBytes(d) = Bytes(s, i, Len(s))

(* One byte more of a downgrade undoes one character more.                 *)
LEMMA UndoesOn ==
  ASSUME NEW s \in Text, NEW i \in Nat, NEW x \in Byte, Window(Widen(x), s, i), NEW d, Undoes(d, s, i + Len(Widen(x)))
  PROVE  Undoes(<<x>> \o d, s, i)
<1>1. PICK w \in Text : w = Widen(x) /\ Len(w) \in {1, 2}
  <2>1. Widen(x) \in Text
    BY WidenIs
  <2>2. x < 128 \/ x >= 128
    BY DEF Byte
  <2>3. Len(Widen(x)) = 1 \/ Len(Widen(x)) = 2
    BY <2>2, WidenIs
  <2> QED
    BY <2>1, <2>3
<1>2. /\ d \in Text /\ Len(d) <= Len(s) - (i + Len(w))
      /\ UpgradedBytes(d) = Bytes(s, i + Len(w), Len(s))
  BY <1>1 DEF Undoes
<1>3. /\ <<x>> \o d \in Text /\ Len(<<x>> \o d) = Len(d) + 1
      /\ UpgradedBytes(<<x>> \o d) = w \o UpgradedBytes(d)
  BY <1>1, <1>2, UpgradeOn
<1>4. Bytes(s, i, Len(s)) = w \o Bytes(s, i + Len(w), Len(s))
  BY <1>1, RestIs
<1>5. Len(d) \in Nat /\ Len(s) \in Nat
  BY <1>2, ByteAt
<1>6. Len(d) + 1 <= Len(s) - i
  <2>1. PICK a \in Nat, b \in Nat, m \in Nat : a = Len(d) /\ b = Len(s) /\ m = Len(w) /\ m >= 1
    BY <1>1, <1>5
  <2>2. a <= b - (i + m)
    BY <1>2, <2>1
  <2>3. a + 1 <= b - i
    BY <2>1, <2>2
  <2> QED
    BY <2>1, <2>3
<1> QED
  BY <1>2, <1>3, <1>4, <1>6 DEF Undoes

(* At the end there is nothing to make.                                    *)
LEMMA UndoesAtEnd ==
  ASSUME NEW s \in Text
  PROVE  Undoes(<<>>, s, Len(s))
<1>1. Len(s) \in Nat
  BY ByteAt
<1>2. UpgradedBytes(<<>>) = <<>> /\ <<>> \in Text /\ Len(<<>>) = 0
  BY NothingIs, UpgradedIs
<1>3. PICK N \in Nat : N = Len(s)
  BY <1>1
<1>4. Bytes(s, N, N) \in Text /\ Len(Bytes(s, N, N)) = N - N
  <2>1. N <= N /\ N <= Len(s)
    BY <1>3
  <2> QED
    BY <2>1, PartIs
<1>5. Bytes(s, N, N) = <<>>
  <2>1. N - N = 0
    OBVIOUS
  <2> QED
    BY <1>4, <2>1, EmptySeq DEF Text
<1> QED
  BY <1>1, <1>2, <1>3, <1>5 DEF Undoes

(* The byte a downgrade makes of what stands at a place.                   *)
Made(s, i) == IF At(s, i) < 128 THEN At(s, i) ELSE Narrowed(At(s, i), At(s, i + 1))
Past(s, i) == IF At(s, i) < 128 THEN i + 1 ELSE i + 2

Downgrading(q, s) ==
  \A i \in 0..(Len(s) + 1) : q[i] = IF i >= Len(s) THEN <<>> ELSE <<Made(s, i)>> \o q[Past(s, i)]

(* A downgrade goes through the text.                                      *)
LEMMA DowngradeRuns ==
  ASSUME NEW s \in Text
  PROVE  \E q : Downgrading(q, s) /\ DowngradedBytes(s) = q[0]
<1> DEFINE N == Len(s)
           M == N + 1
           V == {Made(s, i) : i \in 0..M}
           R == Seq(V)
           E(f) == [i \in 0..N + 1 |->
                      IF i >= N THEN <<>>
                      ELSE IF At(s, i) < 128 THEN <<At(s, i)>> \o f[i + 1]
                      ELSE <<Narrowed(At(s, i), At(s, i + 1))>> \o f[i + 2]]
           Stop == {N, M}
           Final == [i \in 0..M |-> <<>>]
           J == [i \in 0..M |-> Past(s, i)]
           G == [x \in (0..M) \X R |-> <<Made(s, x[1])>> \o x[2]]
<1>1. N \in Nat /\ M \in Nat
  BY ByteAt
<1>2. \A i \in 0..M : (i \notin Stop <=> ~(i >= N)) /\ (i \notin Stop => J[i] \in (i + 1)..M)
  BY <1>1 DEF Past
<1>3. Final \in [0..M -> R]
  <2>1. <<>> \in R
    OBVIOUS
  <2> HIDE DEF R, M
  <2> QED
    BY <2>1
<1>4. G \in [(0..M) \X R -> R]
  <2>1. ASSUME NEW i \in 0..M, NEW t \in R PROVE <<Made(s, i)>> \o t \in R
    <3>1. Made(s, i) \in V
      OBVIOUS
    <3> HIDE DEF V
    <3>2. <<Made(s, i)>> \in Seq(V)
      BY <3>1
    <3> QED
      BY <3>2, ConcatProperties
  <2> HIDE DEF R, M
  <2>2. \A x \in (0..M) \X R : <<Made(s, x[1])>> \o x[2] \in R
    BY <2>1
  <2> QED
    BY <2>2
<1>5. Walkable(M, R, Stop, Final, J, G)
  <2> HIDE DEF M, R, Stop, Final, J, G
  <2> QED
    BY <1>1, <1>2, <1>3, <1>4, WalkExists
<1>6. PICK f \in [0..M -> R] : \A i \in 0..M : f[i] = IF i \in Stop THEN Final[i] ELSE G[<<i, f[J[i]]>>]
  <2> HIDE DEF M, R, Stop, Final, J, G
  <2> QED
    BY <1>5 DEF Walkable
<1>7. ASSUME NEW i \in 0..M
      PROVE  f[i] = IF i >= N THEN <<>> ELSE <<Made(s, i)>> \o f[Past(s, i)]
  <2>1. CASE i >= N
    <3>1. i \in Stop /\ Final[i] = <<>>
      BY <1>2, <2>1
    <3>2. f[i] = <<>>
      <4> HIDE DEF Stop, Final, M, R
      <4> QED
        BY <1>6, <3>1
    <3> QED
      BY <2>1, <3>2
  <2>2. CASE ~(i >= N)
    <3>1. i \notin Stop
      BY <1>2, <2>2
    <3>2. PICK j \in 0..M : j = J[i] /\ j = Past(s, i)
      <4>1. J[i] \in 0..M
        BY <1>1, <1>2, <3>1
      <4>2. J[i] = Past(s, i)
        OBVIOUS
      <4> HIDE DEF J, M
      <4> QED
        BY <4>1, <4>2
    <3>3. f[i] = G[<<i, f[j]>>]
      <4> HIDE DEF Stop, Final, M, R, J, G
      <4> QED
        BY <1>6, <3>1, <3>2
    <3>4. G[<<i, f[j]>>] = <<Made(s, i)>> \o f[j]
      <4> HIDE DEF R, M
      <4>1. <<i, f[j]>> \in (0..M) \X R
        OBVIOUS
      <4> QED
        BY <4>1
    <3> QED
      BY <2>2, <3>2, <3>3, <3>4
  <2> QED
    BY <2>1, <2>2
<1>8. f = E(f)
  <2>1. f = [i \in 0..M |-> f[i]]
    <3> HIDE DEF M, R
    <3> QED
      OBVIOUS
  <2>2. [i \in 0..M |-> f[i]] = E(f)
    <3> HIDE DEF N
    <3> QED
      BY <1>7 DEF Made, Past
  <2> QED
    BY <2>1, <2>2
<1>9. PICK q : q = CHOOSE g : g = E(g)
  OBVIOUS
<1>10. q = E(q)
  <2> HIDE DEF E
  <2> QED
    BY <1>8, <1>9
<1>11. DowngradedBytes(s) = q[0]
  BY <1>9 DEF DowngradedBytes
<1>12. Downgrading(q, s)
  <2> SUFFICES ASSUME NEW i \in 0..M
               PROVE  q[i] = IF i >= N THEN <<>> ELSE <<Made(s, i)>> \o q[Past(s, i)]
    BY DEF Downgrading
  <2>1. q[i] = IF i >= N THEN <<>>
               ELSE IF At(s, i) < 128 THEN <<At(s, i)>> \o q[i + 1]
               ELSE <<Narrowed(At(s, i), At(s, i + 1))>> \o q[i + 2]
    <3> HIDE DEF N
    <3> QED
      BY <1>10
  <2> QED
    BY <2>1 DEF Made, Past
<1> HIDE DEF E
<1> QED
  BY <1>11, <1>12

(* What stands at a place, an ASCII byte or a pair, is the encoding of the *)
(* byte made of it.                                                        *)
LEMMA MadeWidens ==
  ASSUME NEW s \in Text, NEW i \in Places(s), At(s, i) < 128 \/ Paired(s, i)
  PROVE  /\ Made(s, i) \in Byte /\ Window(Widen(Made(s, i)), s, i)
         /\ Past(s, i) = i + Len(Widen(Made(s, i))) /\ Past(s, i) \in (i + 1)..Len(s)
<1>0. i \in Nat /\ Len(s) \in Nat /\ At(s, i) \in Byte /\ i + 1 <= Len(s)
  BY ByteAt DEF Places
<1>1. CASE At(s, i) < 128
  <2>1. PICK x \in Byte : x = At(s, i) /\ x < 128
    BY <1>0, <1>1
  <2>2. Made(s, i) = x /\ Past(s, i) = i + 1
    BY <1>1, <2>1 DEF Made, Past
  <2>3. Widen(x) = <<x>> /\ Len(Widen(x)) = 1
    BY <2>1, WidenIs
  <2>4. Window(Widen(x), s, i)
    <3>1. \A k \in Places(Widen(x)) : k = 0 /\ i + k = i /\ At(Widen(x), k) = x
      BY <1>0, <2>3 DEF Places, At
    <3> QED
      BY <1>0, <2>1, <2>3, <3>1 DEF Window
  <2> QED
    BY <1>0, <2>2, <2>3, <2>4
<1>2. CASE ~(At(s, i) < 128)
  <2>1. Paired(s, i) /\ Past(s, i) = i + 2
    BY <1>2 DEF Past
  <2>2. PICK a \in {194, 195}, c \in 128..191 : a = At(s, i) /\ c = At(s, i + 1)
    <3>1. i + 1 \in Places(s)
      BY <1>0, <2>1 DEF Paired, Places
    <3>2. At(s, i + 1) \in 128..191
      BY <2>1, <3>1, ByteAt, SeqLenIs DEF Paired
    <3> QED
      BY <2>1, <3>2 DEF Paired
  <2>3. PICK x \in Byte : x = Narrowed(a, c) /\ x >= 128 /\ 192 + (x \div 64) = a /\ 128 + (x % 64) = c
    BY NarrowedIs
  <2>4. Made(s, i) = x
    BY <1>2, <2>2, <2>3 DEF Made
  <2>5. Len(Widen(x)) = 2 /\ At(Widen(x), 0) = a /\ At(Widen(x), 1) = c
    BY <2>3, WidenIs
  <2>6. i + 2 <= Len(s)
    BY <1>0, <2>1 DEF Paired
  <2>7. Window(Widen(x), s, i)
    <3>1. \A k \in Places(Widen(x)) : (k = 0 /\ i + k = i) \/ (k = 1 /\ i + k = i + 1)
      BY <1>0, <2>5 DEF Places
    <3>2. \A k \in Places(Widen(x)) : At(Widen(x), k) = At(s, i + k)
      BY <2>2, <2>5, <3>1
    <3> QED
      BY <1>0, <2>5, <2>6, <3>2 DEF Window
  <2> QED
    BY <1>0, <2>1, <2>4, <2>5, <2>6, <2>7
<1> QED
  BY <1>1, <1>2

(* A downgrade of what contracts is undone by an upgrade.                  *)
LEMMA DowngradeIs ==
  ASSUME NEW s \in Text, Contracts(s)
  PROVE  Undoes(DowngradedBytes(s), s, 0)
<1>1. PICK N \in Nat : N = Len(s)
  BY ByteAt
<1>2. PICK ok : Contracting(ok, s) /\ ok[0]
  BY ContractsIs
<1>3. PICK q : Downgrading(q, s) /\ DowngradedBytes(s) = q[0]
  BY DowngradeRuns
<1> DEFINE S == {i \in 0..N : ok[i] => Undoes(q[i], s, i)}
<1>4. ASSUME NEW i \in 0..N, \A j \in (i + 1)..N : j \in S, ok[i]
      PROVE  Undoes(q[i], s, i)
  <2>1. i \in 0..(Len(s) + 1)
    BY <1>1
  <2>2. q[i] = IF i >= N THEN <<>> ELSE <<Made(s, i)>> \o q[Past(s, i)]
    BY <1>1, <1>3, <2>1 DEF Downgrading
  <2>3. CASE i = N
    <3>1. q[i] = <<>>
      BY <2>2, <2>3
    <3> QED
      BY <1>1, <2>3, <3>1, UndoesAtEnd
  <2>4. CASE i # N
    <3>1. i \in Places(s) /\ q[i] = <<Made(s, i)>> \o q[Past(s, i)] /\ At(s, i) \in Byte /\ i + 1 <= N
      <4>1. i \in Places(s) /\ i + 1 <= N /\ ~(i >= N)
        BY <1>1, <2>4 DEF Places
      <4> QED
        BY <2>2, <4>1, ByteAt
    <3>2. (At(s, i) < 128 \/ Paired(s, i)) /\ ok[Past(s, i)]
      BY <1>2, <1>4, <3>1 DEF Past, Contracting
    <3>3. PICK x \in Byte, j \in Nat :
            /\ x = Made(s, i) /\ j = Past(s, i) /\ Window(Widen(x), s, i)
            /\ j = i + Len(Widen(x)) /\ j \in (i + 1)..N
      <4>1. /\ Made(s, i) \in Byte /\ Window(Widen(Made(s, i)), s, i)
            /\ Past(s, i) = i + Len(Widen(Made(s, i))) /\ Past(s, i) \in (i + 1)..N
        BY <1>1, <3>1, <3>2, MadeWidens
      <4>2. Past(s, i) \in Nat
        BY <4>1
      <4> QED
        BY <4>1, <4>2
    <3>4. PICK d : d = q[j] /\ Undoes(d, s, i + Len(Widen(x)))
      BY <1>4, <3>2, <3>3
    <3>5. i \in Nat
      OBVIOUS
    <3>6. Undoes(<<x>> \o d, s, i)
      BY <3>3, <3>4, <3>5, UndoesOn
    <3> QED
      BY <3>1, <3>3, <3>4, <3>6
  <2> QED
    BY <2>3, <2>4
<1>5. \A i \in 0..N : i \in S
  <2>1. \A i \in 0..N : (\A j \in (i + 1)..N : j \in S) => i \in S
    BY <1>4
  <2> HIDE DEF S
  <2> QED
    BY <2>1, DownFrom
<1> QED
  BY <1>2, <1>3, <1>5

(* All of a text is the text.                                              *)
LEMMA WholeIs ==
  ASSUME NEW s \in Text, NEW N, N = Len(s)
  PROVE  Bytes(s, 0, N) = s
<1>1. PICK z \in Nat, n \in Nat : z = 0 /\ n = N
  BY ByteAt
<1>2. z <= n /\ n <= Len(s)
  BY <1>1
<1>3. /\ Bytes(s, z, n) \in Text /\ Len(Bytes(s, z, n)) = n - z
      /\ \A i \in 0..(n - z - 1) : At(Bytes(s, z, n), i) = At(s, z + i)
  BY <1>2, PartIs
<1>4. n - z = n /\ \A i \in 0..(n - z - 1) : z + i = i
  BY <1>1
<1>5. Places(s) = 0..(n - z - 1)
  BY <1>1, <1>4 DEF Places
<1>6. s = Bytes(s, z, n)
  BY <1>1, <1>3, <1>4, <1>5, SameText
<1> QED
  BY <1>1, <1>6

(* So what contracts is ASCII or Latin-1, and an ASCII text is its own     *)
(* downgrade.                                                              *)
LEMMA DowngradedIs ==
  ASSUME NEW s \in Text, Contracts(s)
  PROVE  /\ DowngradedBytes(s) \in Text /\ Len(DowngradedBytes(s)) <= Len(s)
         /\ UpgradedBytes(DowngradedBytes(s)) = s
         /\ ClassifyFull(s).class \in {"Ascii", "Utf8Latin1"}
         /\ ClassifyFull(s).class = "Ascii" => DowngradedBytes(s) = s
<1>1. PICK N \in Nat : N = Len(s)
  BY ByteAt
<1>2. Bytes(s, 0, N) = s
  BY <1>1, WholeIs
<1>3. PICK d \in Text : /\ d = DowngradedBytes(s) /\ Len(d) <= N /\ UpgradedBytes(d) = s
  <2>1. N - 0 = N
    OBVIOUS
  <2> QED
    BY <1>1, <1>2, <2>1, DowngradeIs DEF Undoes
<1> QED
  BY <1>1, <1>3, UpgradedIs

-----------------------------------------------------------------------------
(* One string through its operations.                                      *)

StringRecords ==
  [form : StringForms, bytes : Text, utf8 : BOOLEAN, scan : ScanState, env : ScanState,
   count : Nat, cap : Nat, unique : BOOLEAN]

ClassIs(b) == ClassifyFull(b).class
CharsIs(b) == ClassifyFull(b).chars

(* What is said of bytes is true of them.                                  *)
Said(scan, b) == scan \in ScanState /\ Certifies(scan, ClassIs(b))
Counted(n, b) == n \in Nat /\ (n > 0 => n = CharsIs(b))

Held(s) ==
  /\ Len(s.bytes) <= MaxBytes
  /\ s.form \notin {"large", "view", "adopted"} => IsTerminal(s.scan)
  /\ InEnvelope(s) => Len(s.bytes) <= DecodeMax
  /\ s.form = "latin1" => s.scan = "Utf8Latin1"
  /\ s.form = "packed" => s.scan = "Ascii"
  /\ s.form = "small" => s.cap <= SmallMax
  /\ Len(s.bytes) <= s.cap
  /\ s.form # "adopted" => s.env = "Unknown"

(* The inductive invariant: besides what is to be shown, that only an      *)
(* adopted string has a second state in its envelope.                      *)
TrueOf(s) ==
  /\ s \in StringRecords /\ Held(s)
  /\ Said(s.scan, s.bytes) /\ Said(s.env, s.bytes) /\ Counted(s.count, s.bytes)

(* A string this long can be.                                              *)
Allowed(b) == b \in Text /\ Len(b) <= MaxBytes

(* A fresh classification is terminal and true of the bytes; knowing       *)
(* nothing and counting nothing are true of any.                           *)
LEMMA ClassifiedIs ==
  ASSUME NEW b \in Text
  PROVE  /\ ClassIs(b) \in Terminal /\ ClassIs(b) \in ScanState /\ CharsIs(b) \in Nat
         /\ Said(ClassIs(b), b) /\ Counted(CharsIs(b), b) /\ Said("Unknown", b) /\ Counted(0, b)
         /\ ClassIs(b) = "MalformedUtf8" => CharsIs(b) = 0
         /\ ClassIs(b) = "Ascii" => CharsIs(b) = Len(b)
         /\ Len(b) \in Nat
<1>1. ClassIs(b) \in Terminal /\ CharsIs(b) \in Nat /\ (ClassIs(b) = "MalformedUtf8" => CharsIs(b) = 0)
  BY ClassifyTells DEF Tells, ClassIs, CharsIs
<1>2. ClassIs(b) \in ScanState /\ "Unknown" \in ScanState
  BY <1>1 DEF ScanState
<1>3. Certifies(ClassIs(b), ClassIs(b)) /\ Certifies("Unknown", ClassIs(b))
  BY <1>1, <1>2, CertifiesTable DEF Terminal
<1> QED
  BY <1>1, <1>2, <1>3, AsciiIs, ByteAt DEF Said, Counted, ClassIs, CharsIs

(* A terminal state says exactly what a classification would.              *)
LEMMA TerminalIs ==
  ASSUME NEW b \in Text, NEW scan, IsTerminal(scan), Said(scan, b)
  PROVE  scan = ClassIs(b) /\ scan \in Terminal
BY ClassifiedIs, CertifiesTable DEF IsTerminal, Said, Terminal

-----------------------------------------------------------------------------
(* Forms.                                                                  *)

(* A value built from what is true of its bytes, in a form that can hold   *)
(* it, satisfies the invariant.                                            *)
LEMMA Value0Good ==
  ASSUME NEW shape \in StringForms, NEW b, Allowed(b), NEW utf8 \in BOOLEAN, NEW scan, Said(scan, b),
         NEW chars, Counted(chars, b),
         shape \notin {"large", "view", "adopted"} => IsTerminal(scan),
         shape \in {"inline", "latin1", "packed"} => Len(b) <= DecodeMax,
         shape = "latin1" => scan = "Utf8Latin1",
         shape = "packed" => scan = "Ascii",
         shape = "small" => Len(b) <= SmallMax
  PROVE  TrueOf(Value0(shape, b, utf8, scan, chars))
<1> DEFINE s == Value0(shape, b, utf8, scan, chars)
<1>1. b \in Text /\ Len(b) \in Nat /\ Len(b) <= MaxBytes /\ Said("Unknown", b)
  BY ClassifiedIs DEF Allowed
<1>2. /\ s.form = shape /\ s.bytes = b /\ s.utf8 = utf8 /\ s.scan = scan /\ s.env = "Unknown" /\ s.count = chars
      /\ s.cap = Len(b) /\ s.unique = TRUE
  BY DEF Value0
<1>3. s \in StringRecords
  <2>1. scan \in ScanState /\ chars \in Nat /\ "Unknown" \in ScanState
    BY <1>1 DEF Said, Counted
  <2> HIDE DEF s
  <2>2. s = [form |-> shape, bytes |-> b, utf8 |-> utf8, scan |-> scan, env |-> "Unknown",
             count |-> chars, cap |-> Len(b), unique |-> TRUE]
    BY DEF Value0, s
  <2> QED
    BY <1>1, <2>1, <2>2 DEF StringRecords
<1> HIDE DEF s
<1>4. Held(s)
  BY <1>1, <1>2 DEF Held, InEnvelope
<1> QED
  BY <1>1, <1>2, <1>3, <1>4 DEF TrueOf, s

(* A size class has room for what was asked, and stays within its tier.    *)
LEMMA CapacityIs ==
  ASSUME NEW n \in Nat
  PROVE  /\ Capacity(n) \in Nat /\ n <= Capacity(n)
         /\ n <= SmallMax => Capacity(n) <= SmallMax
<1>1. SmallMax \in Nat
  BY SizesAssumption
<1>2. PICK room \in Nat : room = n + (n % 2) /\ n <= room
  <2>1. n % 2 \in {0, 1}
    OBVIOUS
  <2> QED
    BY <2>1
<1>3. Capacity(n) = IF n <= SmallMax /\ room > SmallMax THEN SmallMax ELSE room
  BY <1>2 DEF Capacity
<1> QED
  BY <1>1, <1>2, <1>3

(* So does a fresh heap value with a terminal state.                       *)
LEMMA FromSliceGood ==
  ASSUME NEW b, Allowed(b), NEW utf8 \in BOOLEAN, NEW scan, IsTerminal(scan), Said(scan, b),
         NEW chars, Counted(chars, b)
  PROVE  TrueOf(FromSlice(b, utf8, scan, chars))
<1> DEFINE shape == IF Len(b) <= SmallMax THEN "small" ELSE "large"
           kept == IF shape = "small" /\ scan = "Ascii" THEN Len(b) ELSE chars
           s == Value0(shape, b, utf8, scan, kept)
<1>1. b \in Text /\ Len(b) \in Nat /\ scan = ClassIs(b)
  BY ClassifiedIs, TerminalIs DEF Allowed
<1>2. Counted(kept, b)
  BY <1>1, ClassifiedIs DEF Counted
<1>3. TrueOf(s)
  <2>1. shape \in StringForms /\ shape \in {"small", "large"} /\ (shape = "small" => Len(b) <= SmallMax)
    BY DEF StringForms
  <2> HIDE DEF shape, kept
  <2> QED
    BY <1>2, <2>1, Value0Good
<1>4. FromSlice(b, utf8, scan, chars) = [s EXCEPT !.cap = Capacity(Len(b))]
  BY DEF FromSlice
<1>5. /\ Capacity(Len(b)) \in Nat /\ Len(b) <= Capacity(Len(b))
      /\ Len(b) <= SmallMax => Capacity(Len(b)) <= SmallMax
  BY <1>1, CapacityIs
<1>6. s.bytes = b /\ s.form = shape /\ (shape = "small" => Len(b) <= SmallMax)
  BY DEF Value0
<1> HIDE DEF s, shape, kept
<1>7. PICK t : t = [s EXCEPT !.cap = Capacity(Len(b))]
  OBVIOUS
<1>8. /\ t \in StringRecords /\ t.form = s.form /\ t.bytes = s.bytes /\ t.scan = s.scan /\ t.env = s.env
      /\ t.count = s.count /\ t.cap = Capacity(Len(b))
  BY <1>3, <1>5, <1>7 DEF TrueOf, StringRecords
<1>9. Held(t)
  BY <1>3, <1>5, <1>6, <1>8 DEF TrueOf, Held, InEnvelope
<1> QED
  BY <1>3, <1>4, <1>7, <1>8, <1>9 DEF TrueOf

(* A heap value classified from its bytes.                                 *)
LEMMA ReclassifiedGood ==
  ASSUME NEW b, Allowed(b), NEW utf8 \in BOOLEAN
  PROVE  TrueOf(Reclassified(b, utf8))
<1>1. Reclassified(b, utf8) = FromSlice(b, utf8, ClassIs(b), CharsIs(b))
  BY DEF Reclassified, ClassIs, CharsIs
<1>2. IsTerminal(ClassIs(b)) /\ Said(ClassIs(b), b) /\ Counted(CharsIs(b), b)
  BY ClassifiedIs DEF Allowed, IsTerminal
<1> QED
  BY <1>1, <1>2, FromSliceGood

(* A heap value seeded by what is known, or classified when that is not    *)
(* settled.                                                                *)
LEMMA TransitionedGood ==
  ASSUME NEW b, Allowed(b), NEW utf8 \in BOOLEAN, NEW state, Said(state, b), NEW chars, Counted(chars, b)
  PROVE  TrueOf(Transitioned(b, utf8, state, chars))
BY FromSliceGood, ReclassifiedGood DEF Transitioned

(* An envelope: the form chosen says of the class only what holds.         *)
LEMMA EnvelopeGood ==
  ASSUME NEW b, Allowed(b), NEW utf8 \in BOOLEAN, FitsEnvelope(b)
  PROVE  TrueOf(Envelope(b, utf8))
<1> DEFINE shape == IF Len(b) <= InlineMax THEN "inline" ELSE IF Transcodes(b) THEN "latin1" ELSE "packed"
<1>1. Envelope(b, utf8) = Value0(shape, b, utf8, ClassIs(b), CharsIs(b))
  BY DEF Envelope, ClassIs, CharsIs
<1>2. b \in Text /\ Len(b) \in Nat /\ IsTerminal(ClassIs(b)) /\ Said(ClassIs(b), b) /\ Counted(CharsIs(b), b)
  BY ClassifiedIs DEF Allowed, IsTerminal
<1>3. InlineMax \in Nat /\ DecodeMax \in Nat /\ InlineMax <= DecodeMax
  BY SizesAssumption
<1>4. CASE Len(b) <= InlineMax
  <2>1. shape = "inline" /\ Len(b) <= DecodeMax
    BY <1>2, <1>3, <1>4
  <2> HIDE DEF shape
  <2> QED
    BY <1>1, <1>2, <2>1, Value0Good DEF StringForms
<1>5. CASE ~(Len(b) <= InlineMax) /\ Transcodes(b)
  <2>1. shape = "latin1" /\ Len(b) <= DecodeMax /\ Contracts(b) /\ Len(DowngradedBytes(b)) <= InlineMax
    BY <1>5 DEF Transcodes
  <2>2. ClassIs(b) = "Utf8Latin1"
    BY <1>2, <1>5, <2>1, DowngradedIs DEF ClassIs
  <2> HIDE DEF shape
  <2> QED
    BY <1>1, <1>2, <2>1, <2>2, Value0Good DEF StringForms
<1>6. CASE ~(Len(b) <= InlineMax) /\ ~Transcodes(b)
  <2>1. shape = "packed" /\ Len(b) <= DecodeMax /\ \A i \in DOMAIN b : b[i] \in Packable
    BY <1>6 DEF FitsEnvelope, Packs
  <2>2. \A i \in Places(b) : At(b, i) < 128
    <3>1. \A i \in Places(b) : i + 1 \in DOMAIN b
      BY <1>2, ByteAt, LenProperties DEF Text
    <3>2. \A x \in Packable : x < 128
      BY ContentsAssumption
    <3> QED
      BY <2>1, <3>1, <3>2 DEF At
  <2>3. ClassIs(b) = "Ascii"
    BY <1>2, <2>2, AsciiIs DEF ClassIs
  <2> HIDE DEF shape
  <2> QED
    BY <1>1, <1>2, <2>1, <2>3, Value0Good DEF StringForms
<1> QED
  BY <1>4, <1>5, <1>6

(* Whichever of the two the length chooses.                                *)
LEMMA TieredGood ==
  ASSUME NEW b, Allowed(b), NEW utf8 \in BOOLEAN
  PROVE  TrueOf(Tiered(b, utf8))
BY EnvelopeGood, ReclassifiedGood DEF Tiered

-----------------------------------------------------------------------------
(* Questions.                                                              *)

(* t is s with its state narrowed to what is still true, its characters    *)
(* counted, or neither.                                                    *)
Improves(t, s) ==
  /\ TrueOf(t) /\ t.bytes = s.bytes /\ t.utf8 = s.utf8
  /\ Classes(t.scan) \subseteq Classes(s.scan)

(* What a reader can know of a string is true of its bytes.                *)
LEMMA SaidOfIt ==
  ASSUME NEW s, TrueOf(s)
  PROVE  s.bytes \in Text /\ Said(KnownOf(s), s.bytes)
<1>1. s.bytes \in Text /\ Said(s.scan, s.bytes) /\ Said(s.env, s.bytes) /\ ClassIs(s.bytes) \in Terminal
  BY ClassifiedIs DEF TrueOf, StringRecords
<1> QED
  BY <1>1, MeetExact DEF KnownOf, Said, Classes

(* Recording a true fact narrows a state that was true.                    *)
LEMMA LearnsGood ==
  ASSUME NEW s, TrueOf(s), NEW fact, Said(fact, s.bytes)
  PROVE  Improves(Learns(s, fact), s)
<1>1. s.bytes \in Text /\ Said(s.scan, s.bytes) /\ ClassIs(s.bytes) \in Terminal /\ s \in StringRecords
  BY ClassifiedIs DEF TrueOf, StringRecords
<1>2. PICK m : m = Meet(s.scan, fact)
  OBVIOUS
<1>3. Said(m, s.bytes) /\ Classes(m) \subseteq Classes(s.scan)
  BY <1>1, <1>2, MeetExact DEF Said, Classes
<1>4. CASE s.form \in {"large", "adopted"}
  <2>1. PICK t : t = [s EXCEPT !.scan = m]
    OBVIOUS
  <2>2. Learns(s, fact) = t
    BY <1>2, <1>4, <2>1 DEF Learns
  <2>3. /\ t \in StringRecords /\ t.form = s.form /\ t.bytes = s.bytes /\ t.utf8 = s.utf8 /\ t.scan = m
        /\ t.env = s.env /\ t.count = s.count /\ t.cap = s.cap
    BY <1>1, <1>3, <2>1 DEF StringRecords, Said
  <2>4. Held(t)
    BY <1>4, <2>3 DEF TrueOf, Held, InEnvelope
  <2> QED
    BY <1>3, <2>2, <2>3, <2>4 DEF Improves, TrueOf
<1>5. CASE s.form \notin {"large", "adopted"}
  BY <1>5 DEF Learns, Improves
<1> QED
  BY <1>4, <1>5

(* A question that counts keeps what it counted.                           *)
LEMMA CountedGood ==
  ASSUME NEW s, TrueOf(s), NEW chars, Counted(chars, s.bytes)
  PROVE  Improves([s EXCEPT !.count = chars], s)
<1>1. PICK t : t = [s EXCEPT !.count = chars]
  OBVIOUS
<1>2. /\ t \in StringRecords /\ t.form = s.form /\ t.bytes = s.bytes /\ t.utf8 = s.utf8 /\ t.scan = s.scan
      /\ t.env = s.env /\ t.count = chars /\ t.cap = s.cap
  BY <1>1 DEF TrueOf, StringRecords, Counted
<1>3. Held(t)
  BY <1>2 DEF TrueOf, Held, InEnvelope
<1> QED
  BY <1>1, <1>2, <1>3 DEF Improves, TrueOf

(* Recording a class and a count together.                                 *)
LEMMA ToldGood ==
  ASSUME NEW s, TrueOf(s), NEW fact, Said(fact, s.bytes), NEW chars, Counted(chars, s.bytes)
  PROVE  /\ Improves([Learns(s, fact) EXCEPT !.count = chars], s)
         /\ Improves([Learns(s, fact) EXCEPT !.count = @], s)
<1>1. PICK t : t = Learns(s, fact)
  OBVIOUS
<1>2. Improves(t, s)
  BY <1>1, LearnsGood
<1>3. Improves([t EXCEPT !.count = chars], t)
  BY <1>2, CountedGood DEF Improves
<1>4. Improves([t EXCEPT !.count = t.count], t)
  BY <1>2, CountedGood DEF Improves, TrueOf
<1> QED
  BY <1>1, <1>2, <1>3, <1>4 DEF Improves

(* Every question that records what it learns leaves the string true.      *)
LEMMA AskedGood ==
  ASSUME NEW s, TrueOf(s), NEW t \in Asked(s)
  PROVE  Improves(t, s)
<1> DEFINE b == s.bytes
           c == ClassifyFull(b)
<1>0. b \in Text /\ Said(KnownOf(s), b)
  BY SaidOfIt
<1>1. Improves(s, s)
  BY DEF Improves
<1>2. Said(c.class, b) /\ Counted(c.chars, b) /\ ClassIs(b) = c.class /\ c.class \in Terminal
  BY <1>0, ClassifiedIs DEF ClassIs, CharsIs
<1>3. Improves(AsciiAsked(s), s)
  <2> DEFINE fact == IF VariantCount(b) = 0 THEN "Ascii"
                     ELSE IF KnownOf(s) = "ValidUtf8" THEN "Utf8NonAscii" ELSE "NonAscii"
  <2>1. AsciiAsked(s) = s \/ AsciiAsked(s) = Learns(s, fact)
    BY DEF AsciiAsked
  <2>2. Said(fact, b)
    <3>1. VariantCount(b) = 0 <=> ClassIs(b) = "Ascii"
      BY <1>0, VariantsCounted DEF ClassIs
    <3>2. {"Ascii", "Utf8NonAscii", "NonAscii", "ValidUtf8"} \subseteq ScanState
      BY DEF ScanState, Terminal
    <3>3. KnownOf(s) = "ValidUtf8" => ClassIs(b) \in {"Ascii", "Utf8Latin1", "Utf8NonLatin1"}
      BY <1>0, <1>2, <3>2, CertifiesTable DEF Said, Terminal
    <3> QED
      BY <1>2, <3>1, <3>2, <3>3, CertifiesTable DEF Said, Terminal
  <2> HIDE DEF fact
  <2> QED
    BY <1>1, <2>1, <2>2, LearnsGood
<1>4. Improves(CharLenAsked(s), s)
  <2>1. \/ CharLenAsked(s) = s
        \/ CharLenAsked(s) = [Learns(s, c.class) EXCEPT !.count = c.chars]
        \/ CharLenAsked(s) = [Learns(s, c.class) EXCEPT !.count = @]
    BY DEF CharLenAsked
  <2>2. /\ Improves([Learns(s, c.class) EXCEPT !.count = c.chars], s)
        /\ Improves([Learns(s, c.class) EXCEPT !.count = @], s)
    BY <1>2, ToldGood
  <2> HIDE DEF b, c
  <2> QED
    BY <1>1, <2>1, <2>2
<1>5. ASSUME NEW answered
      PROVE  Improves(ValidityAsked(s, answered), s)
  <2>1. \/ ValidityAsked(s, answered) = s
        \/ ValidityAsked(s, answered) = [Learns(s, c.class) EXCEPT !.count = c.chars]
        \/ ValidityAsked(s, answered) = [Learns(s, c.class) EXCEPT !.count = @]
    BY DEF ValidityAsked
  <2>2. /\ Improves([Learns(s, c.class) EXCEPT !.count = c.chars], s)
        /\ Improves([Learns(s, c.class) EXCEPT !.count = @], s)
    BY <1>2, ToldGood
  <2> HIDE DEF b, c
  <2> QED
    BY <1>1, <2>1, <2>2
<1>6. Improves(StrAsked(s), s) /\ Improves(PerlValidAsked(s), s)
  BY <1>5 DEF StrAsked, PerlValidAsked
<1> QED
  BY <1>3, <1>4, <1>6 DEF Asked

-----------------------------------------------------------------------------
(* Transforms.                                                             *)

(* A heap value rewritten where it stands.                                 *)
LEMMA RewrittenGood ==
  ASSUME NEW s, TrueOf(s), OnHeap(s), NEW t \in StringRecords,
         t.form = s.form, t.cap = s.cap, t.env = s.env,
         Len(t.bytes) <= MaxBytes, Len(t.bytes) <= s.cap,
         Said(t.scan, t.bytes), Counted(t.count, t.bytes),
         s.form = "small" => IsTerminal(t.scan)
  PROVE  TrueOf(t)
<1>1. s.form \in {"small", "large"} /\ s.env = "Unknown" /\ (s.form = "small" => s.cap <= SmallMax)
  BY DEF OnHeap, TrueOf, Held
<1>2. t.bytes \in Text /\ Said("Unknown", t.bytes)
  BY ClassifiedIs DEF StringRecords
<1>3. Held(t)
  BY <1>1 DEF Held, InEnvelope
<1> QED
  BY <1>1, <1>2, <1>3 DEF TrueOf

(* Only who holds it, or how its bytes are read, is another.               *)
LEMMA FlaggedGood ==
  ASSUME NEW s, TrueOf(s), NEW flag \in BOOLEAN
  PROVE  TrueOf([s EXCEPT !.unique = flag]) /\ TrueOf([s EXCEPT !.utf8 = flag])
<1>1. ASSUME NEW t, t \in {[s EXCEPT !.unique = flag], [s EXCEPT !.utf8 = flag]} PROVE TrueOf(t)
  <2>1. /\ t \in StringRecords /\ t.form = s.form /\ t.bytes = s.bytes /\ t.scan = s.scan
        /\ t.env = s.env /\ t.count = s.count /\ t.cap = s.cap
    BY <1>1 DEF TrueOf, StringRecords
  <2>2. Held(t)
    BY <2>1 DEF TrueOf, Held, InEnvelope
  <2> QED
    BY <2>1, <2>2 DEF TrueOf
<1> QED
  BY <1>1

(* What the invariant says of a string, field by field.                    *)
LEMMA FieldsOf ==
  ASSUME NEW s, TrueOf(s)
  PROVE  /\ Allowed(s.bytes) /\ s.bytes \in Text /\ s.utf8 \in BOOLEAN /\ s.scan \in ScanState /\ s.count \in Nat
         /\ Said(s.scan, s.bytes) /\ Said(s.env, s.bytes) /\ Counted(s.count, s.bytes)
         /\ Said(KnownOf(s), s.bytes) /\ ClassIs(s.bytes) \in Terminal /\ Len(s.bytes) \in Nat
         /\ s.form \in StringForms /\ s.cap \in Nat
BY SaidOfIt, ClassifiedIs DEF TrueOf, Held, Allowed, StringRecords, Said

(* What a fresh allocation says of the bytes is at least what seeded it.   *)
LEMMA SeededGood ==
  ASSUME NEW b, Allowed(b), NEW utf8 \in BOOLEAN, NEW state, Said(state, b), NEW chars, Counted(chars, b),
         NEW t, t = Transitioned(b, utf8, state, chars)
  PROVE  TrueOf(t) /\ t.bytes = b /\ t.utf8 = utf8 /\ Classes(t.scan) = {ClassIs(b)}
<1>1. TrueOf(t)
  BY TransitionedGood
<1>2. t.bytes = b /\ t.utf8 = utf8 /\ t.scan = ClassIs(b)
  <2>1. CASE IsTerminal(state)
    <3>1. state = ClassIs(b)
      BY <2>1, TerminalIs DEF Allowed
    <3> QED
      BY <2>1, <3>1 DEF Transitioned, FromSlice, Value0
  <2>2. CASE ~IsTerminal(state)
    BY <2>2 DEF Transitioned, Reclassified, FromSlice, Value0, ClassIs
  <2> QED
    BY <2>1, <2>2
<1>3. ClassIs(b) \in Terminal
  BY ClassifiedIs DEF Allowed
<1>4. \A c \in Terminal, d \in Terminal : Certifies(c, d) <=> c = d
  BY CertifiesTable DEF Terminal, ScanState
<1> QED
  BY <1>1, <1>2, <1>3, <1>4 DEF Classes

(* A copy made for its holder knows at least what was known.               *)
LEMMA UnsharedGood ==
  ASSUME NEW s, TrueOf(s)
  PROVE  Improves(Unshared(s), s)
<1>1. /\ Allowed(s.bytes) /\ s.utf8 \in BOOLEAN /\ Said(s.scan, s.bytes) /\ Said(s.env, s.bytes)
      /\ Counted(s.count, s.bytes) /\ ClassIs(s.bytes) \in Terminal /\ s.bytes \in Text
  BY FieldsOf
<1>2. Counted(0, s.bytes) /\ Improves(s, s)
  BY <1>1, ClassifiedIs DEF Improves
<1>3. ASSUME NEW seed, Said(seed, s.bytes), NEW chars, Counted(chars, s.bytes)
      PROVE  Improves(Transitioned(s.bytes, s.utf8, seed, chars), s)
  <2>1. PICK t : t = Transitioned(s.bytes, s.utf8, seed, chars)
    OBVIOUS
  <2>2. TrueOf(t) /\ t.bytes = s.bytes /\ t.utf8 = s.utf8 /\ Classes(t.scan) = {ClassIs(s.bytes)}
    BY <1>1, <1>3, <2>1, SeededGood
  <2>3. ClassIs(s.bytes) \in Classes(s.scan)
    BY <1>1 DEF Classes, Said
  <2> QED
    BY <2>1, <2>2, <2>3 DEF Improves
<1>4. \/ Unshared(s) = Transitioned(s.bytes, s.utf8, s.scan, s.count)
      \/ Unshared(s) = Transitioned(s.bytes, s.utf8, s.env, 0)
      \/ Unshared(s) = Transitioned(s.bytes, s.utf8, s.scan, 0)
      \/ Unshared(s) = s
  BY DEF Unshared
<1> QED
  BY <1>1, <1>2, <1>3, <1>4

(* Rewritten where it stands or copied, an upgraded string says what is    *)
(* true of its new bytes, which are the old one's characters in UTF-8.     *)
LEMMA UpgradedGood ==
  ASSUME NEW s, TrueOf(s)
  PROVE  /\ UpgradedInPlace(s).bytes = (IF s.utf8 THEN s.bytes ELSE UpgradedBytes(s.bytes))
         /\ UpgradedInPlace(s).utf8 = TRUE
         /\ Len(UpgradedBytes(s.bytes)) <= MaxBytes => TrueOf(UpgradedInPlace(s))
<1> DEFINE b == s.bytes
           wide == UpgradedBytes(b)
<1>1. /\ Allowed(b) /\ b \in Text /\ s.utf8 \in BOOLEAN /\ Said(s.scan, b) /\ Len(b) \in Nat
      /\ s.cap \in Nat /\ ClassIs(b) \in Terminal
  BY FieldsOf
<1>2. /\ wide \in Text /\ Len(wide) <= 2 * Len(b) /\ CharsIs(wide) = Len(b) /\ Len(wide) \in Nat
      /\ ClassIs(wide) = (IF ClassIs(b) = "Ascii" THEN "Ascii" ELSE "Utf8Latin1")
      /\ ClassIs(b) = "Ascii" => wide = b
  BY <1>1, UpgradedIs, ByteAt DEF ClassIs, CharsIs
<1>3. IsAscii(s) <=> ClassIs(b) = "Ascii"
  BY <1>1, VariantsCounted DEF IsAscii, ClassIs
<1>4. CASE s.utf8
  BY <1>4 DEF UpgradedInPlace
<1>5. CASE ~s.utf8 /\ IsAscii(s)
  <2>1. PICK a : a = AsciiAsked(s)
    OBVIOUS
  <2>2. Improves(a, s)
    BY <2>1, AskedGood DEF Asked
  <2>3. TrueOf([a EXCEPT !.utf8 = TRUE]) /\ [a EXCEPT !.utf8 = TRUE].bytes = a.bytes
        /\ [a EXCEPT !.utf8 = TRUE].utf8 = TRUE
    BY <2>2, FlaggedGood DEF Improves, TrueOf, StringRecords
  <2>4. UpgradedInPlace(s) = [a EXCEPT !.utf8 = TRUE]
    BY <1>5, <2>1 DEF UpgradedInPlace
  <2>5. a.bytes = wide
    BY <1>2, <1>3, <1>5, <2>2 DEF Improves
  <2> QED
    BY <1>5, <2>3, <2>4, <2>5
<1>6. ASSUME ~s.utf8, ~IsAscii(s)
      PROVE  /\ ClassIs(wide) = "Utf8Latin1" /\ Said("Utf8Latin1", wide) /\ Counted(Len(b), wide)
             /\ IsTerminal("Utf8Latin1")
  BY <1>1, <1>2, <1>3, <1>6, ClassifiedIs DEF Counted, IsTerminal
<1>7. CASE ~s.utf8 /\ ~IsAscii(s) /\ OnHeap(s) /\ s.unique /\ Len(wide) <= s.cap
  <2>1. PICK t : t = [s EXCEPT !.bytes = wide, !.utf8 = TRUE, !.scan = "Utf8Latin1", !.count = Len(b)]
    OBVIOUS
  <2>2. UpgradedInPlace(s) = t
    BY <1>7, <2>1 DEF UpgradedInPlace
  <2>3. /\ t \in StringRecords /\ t.form = s.form /\ t.cap = s.cap /\ t.env = s.env
        /\ t.bytes = wide /\ t.utf8 = TRUE /\ t.scan = "Utf8Latin1" /\ t.count = Len(b)
    BY <1>1, <1>2, <2>1 DEF TrueOf, StringRecords, ScanState, Terminal
  <2> HIDE DEF b, wide
  <2>4. Len(wide) <= MaxBytes => TrueOf(t)
    BY <1>6, <1>7, <2>3, RewrittenGood
  <2> QED
    BY <1>7, <2>2, <2>3, <2>4 DEF b, wide
<1>8. CASE ~s.utf8 /\ ~IsAscii(s) /\ ~(OnHeap(s) /\ s.unique /\ Len(wide) <= s.cap)
  <2>1. UpgradedInPlace(s) = Upgraded(s)
    BY <1>8 DEF UpgradedInPlace
  <2>2. Upgraded(s).bytes = wide /\ Upgraded(s).utf8 = TRUE
    BY DEF Upgraded, FromSlice, Value0
  <2>3. ASSUME Len(wide) <= MaxBytes
        PROVE  TrueOf(Upgraded(s))
    <3>1. Allowed(wide)
      BY <1>2, <2>3 DEF Allowed
    <3>2. CASE Len(b) > InlineMax
      <4>1. Upgraded(s) = FromSlice(wide, TRUE, "Utf8Latin1", Len(b))
        BY <3>2 DEF Upgraded
      <4> HIDE DEF b, wide
      <4> QED
        BY <1>6, <1>8, <3>1, <4>1, FromSliceGood
    <3>3. CASE ~(Len(b) > InlineMax)
      <4> DEFINE shape == IF Len(wide) <= InlineMax THEN "inline" ELSE "latin1"
      <4>1. Upgraded(s) = Value0(shape, wide, TRUE, "Utf8Latin1", Len(b))
        BY <3>3 DEF Upgraded
      <4>2. Len(wide) <= DecodeMax
        BY <1>1, <1>2, <3>3, SizesAssumption
      <4>3. shape \in {"inline", "latin1"} /\ shape \in StringForms
        BY DEF StringForms
      <4> HIDE DEF b, wide, shape
      <4> QED
        BY <1>6, <1>8, <3>1, <4>1, <4>2, <4>3, Value0Good
    <3> QED
      BY <3>2, <3>3
  <2> QED
    BY <1>8, <2>1, <2>2, <2>3
<1> QED
  BY <1>4, <1>5, <1>7, <1>8

(* A downgraded string says what is true of its bytes, and upgrading them  *)
(* gives the old ones back.                                                *)
LEMMA DowngradedGood ==
  ASSUME NEW s, TrueOf(s)
  PROVE  /\ TrueOf(DowngradedInPlace(s))
         /\ Characters(DowngradedInPlace(s)) = Characters(s)
<1> DEFINE b == s.bytes
           out == DowngradedBytes(b)
<1>1. /\ Allowed(b) /\ b \in Text /\ s.utf8 \in BOOLEAN /\ Said(s.scan, b) /\ Len(b) \in Nat
      /\ s.cap \in Nat /\ ClassIs(b) \in Terminal
  BY FieldsOf
<1>2. IsAscii(s) <=> ClassIs(b) = "Ascii"
  BY <1>1, VariantsCounted DEF IsAscii, ClassIs
<1>3. PICK a : a = AsciiAsked(s) /\ Improves(a, s)
  BY AskedGood DEF Asked
<1>4. CASE ~s.utf8
  BY <1>4 DEF DowngradedInPlace
<1>5. CASE s.utf8 /\ IsAscii(s)
  <2>1. DowngradedInPlace(s) = [a EXCEPT !.utf8 = FALSE]
    BY <1>3, <1>5 DEF DowngradedInPlace
  <2>2. TrueOf([a EXCEPT !.utf8 = FALSE])
    BY <1>3, FlaggedGood DEF Improves
  <2>3. [a EXCEPT !.utf8 = FALSE].bytes = b /\ [a EXCEPT !.utf8 = FALSE].utf8 = FALSE
    BY <1>3 DEF Improves, TrueOf, StringRecords
  <2>4. UpgradedBytes(b) = b
    BY <1>1, <1>2, <1>5, UpgradedIs DEF ClassIs
  <2> QED
    BY <1>5, <2>1, <2>2, <2>3, <2>4 DEF Characters
<1>6. CASE s.utf8 /\ ~IsAscii(s) /\ ~Contracts(b)
  <2>1. DowngradedInPlace(s) = a
    BY <1>3, <1>6 DEF DowngradedInPlace
  <2> QED
    BY <1>3, <2>1 DEF Improves, Characters
<1>7. CASE s.utf8 /\ ~IsAscii(s) /\ Contracts(b)
  <2>1. out \in Text /\ Len(out) <= Len(b) /\ UpgradedBytes(out) = b /\ Len(out) \in Nat
    BY <1>1, <1>7, DowngradedIs, ByteAt
  <2>2. Allowed(out) /\ Len(out) <= s.cap
    BY <1>1, <2>1, SizesAssumption DEF Allowed, TrueOf, Held
  <2>3. CASE OnHeap(s) /\ s.unique
    <3>1. PICK t : t = ContractInPlace(s)
      OBVIOUS
    <3>2. DowngradedInPlace(s) = t
      BY <1>7, <2>3, <3>1 DEF DowngradedInPlace
    <3>3. /\ Said(ClassIs(out), out) /\ Counted(CharsIs(out), out) /\ IsTerminal(ClassIs(out))
          /\ Said("Unknown", out) /\ Counted(0, out)
      BY <2>1, ClassifiedIs DEF IsTerminal
    <3>4. /\ t \in StringRecords /\ t.form = s.form /\ t.cap = s.cap /\ t.env = s.env
          /\ t.bytes = out /\ t.utf8 = FALSE
          /\ IF s.form = "large" THEN t.scan = "Unknown" /\ t.count = 0
             ELSE t.scan = ClassIs(out) /\ t.count = CharsIs(out)
      BY <2>1, <3>1, <3>3 DEF TrueOf, StringRecords, ContractInPlace, ClassIs, CharsIs, Said, Counted
    <3>5. Said(t.scan, t.bytes) /\ Counted(t.count, t.bytes) /\ (s.form = "small" => IsTerminal(t.scan))
      BY <3>3, <3>4
    <3> HIDE DEF b, out
    <3>6. TrueOf(t)
      BY <2>2, <2>3, <3>4, <3>5, RewrittenGood DEF Allowed
    <3> QED
      BY <1>7, <2>1, <3>2, <3>4, <3>6 DEF Characters, b
  <2>4. CASE ~(OnHeap(s) /\ s.unique)
    <3>1. DowngradedInPlace(s) = Tiered(out, FALSE) \/ DowngradedInPlace(s) = Reclassified(out, FALSE)
      BY <1>7, <2>4 DEF DowngradedInPlace, Downgraded
    <3>2. TrueOf(Tiered(out, FALSE)) /\ TrueOf(Reclassified(out, FALSE))
      BY <2>2, TieredGood, ReclassifiedGood
    <3>3. /\ Tiered(out, FALSE).bytes = out /\ Tiered(out, FALSE).utf8 = FALSE
          /\ Reclassified(out, FALSE).bytes = out /\ Reclassified(out, FALSE).utf8 = FALSE
      BY DEF Tiered, Envelope, Reclassified, FromSlice, Value0
    <3> HIDE DEF out
    <3> QED
      BY <1>7, <2>1, <3>1, <3>2, <3>3 DEF Characters
  <2> QED
    BY <2>3, <2>4
<1> QED
  BY <1>4, <1>5, <1>6, <1>7

-----------------------------------------------------------------------------
(* Constructors.                                                           *)

(* An adopted string, with the same state in its envelope and below.       *)
LEMMA AdoptedGood ==
  ASSUME NEW b, Allowed(b), NEW utf8 \in BOOLEAN, NEW scan, Said(scan, b)
  PROVE  TrueOf(AdoptedWhole(b, utf8, scan))
<1>1. b \in Text /\ Counted(0, b) /\ "adopted" \in StringForms
  BY ClassifiedIs DEF Allowed, StringForms
<1>2. PICK s : s = Value0("adopted", b, utf8, scan, 0)
  OBVIOUS
<1>3. TrueOf(s)
  BY <1>1, <1>2, Value0Good
<1>4. s.bytes = b /\ s.form = "adopted"
  BY <1>2 DEF Value0
<1>5. PICK t : t = [s EXCEPT !.env = scan]
  OBVIOUS
<1>6. t = AdoptedWhole(b, utf8, scan)
  BY <1>2, <1>5 DEF AdoptedWhole
<1>7. /\ t \in StringRecords /\ t.form = s.form /\ t.bytes = s.bytes /\ t.scan = s.scan
      /\ t.env = scan /\ t.count = s.count /\ t.cap = s.cap
  BY <1>3, <1>5 DEF TrueOf, StringRecords, Said
<1>8. Held(t)
  BY <1>3, <1>4, <1>7 DEF TrueOf, Held, InEnvelope
<1> QED
  BY <1>3, <1>4, <1>6, <1>7, <1>8 DEF TrueOf

(* The contents strings are constructed from are byte sequences in bounds. *)
LEMMA OriginalAllowed ==
  ASSUME NEW b \in Originals
  PROVE  Allowed(b)
BY ContentsAssumption DEF Allowed, Text, Byte

(* Appended pieces are byte sequences, those from Rust strings valid.      *)
LEMMA PieceIs ==
  /\ \A b \in Strs : b \in Text /\ ClassIs(b) \in ValidRange
  /\ \A b \in Raws : b \in Text
BY ContentsAssumption DEF Text, Byte, ClassIs

(* A borrowed string is classified at birth.                               *)
LEMMA BorrowedGood ==
  ASSUME NEW b, Allowed(b), NEW utf8 \in BOOLEAN
  PROVE  TrueOf(Value0("borrowed", b, utf8, ClassIs(b), CharsIs(b)))
<1>1. Said(ClassIs(b), b) /\ Counted(CharsIs(b), b) /\ IsTerminal(ClassIs(b))
  BY ClassifiedIs DEF Allowed, IsTerminal
<1>2. "borrowed" \in StringForms
  BY DEF StringForms
<1> QED
  BY <1>1, <1>2, Value0Good

(* The empty string a history begins with.                                 *)
LEMMA InitGood ==
  TrueOf(Envelope(<<>>, FALSE))
<1>1. <<>> \in Text /\ Len(<<>>) = 0
  BY NothingIs
<1>2. Allowed(<<>>) /\ FitsEnvelope(<<>>)
  BY <1>1, SizesAssumption DEF Allowed, FitsEnvelope
<1> QED
  BY <1>2, EnvelopeGood

(* Every constructor gives a string of which only true things are said.    *)
LEMMA ConstructGood ==
  ASSUME Construct
  PROVE  TrueOf(v')
<1>1. PICK b \in Originals : FromBytes(b) \/ New(b) \/ FromStatic(b) \/ Adopt(b)
  BY DEF Construct
<1>2. Allowed(b)
  BY OriginalAllowed
<1>3. CASE FromBytes(b)
  BY <1>2, <1>3, TieredGood DEF FromBytes
<1>4. CASE New(b)
  <2>1. PICK flag \in BOOLEAN : v' = Tiered(b, flag)
    BY <1>4 DEF New
  <2> QED
    BY <1>2, <2>1, TieredGood
<1>5. CASE FromStatic(b)
  <2>1. v' = Value0("borrowed", b, FALSE, ClassIs(b), CharsIs(b))
    BY <1>5 DEF FromStatic, ClassIs, CharsIs
  <2> QED
    BY <1>2, <2>1, BorrowedGood
<1>6. CASE Adopt(b)
  <2>1. Said("Unknown", b)
    BY <1>2, ClassifiedIs DEF Allowed
  <2> QED
    BY <1>2, <1>6, <2>1, AdoptedGood DEF Adopt
<1> QED
  BY <1>1, <1>3, <1>4, <1>5, <1>6

-----------------------------------------------------------------------------
(* Appends.                                                                *)

(* What the caller knows of a piece: its class and the number of its       *)
(* characters, either left open.                                           *)
KnownPiece(kind, b) ==
  /\ kind.class = "Unknown" \/ (kind.class \in ValidRange /\ kind.class = ClassIs(b))
  /\ kind.chars \in Nat /\ (kind.chars > 0 => kind.chars = CharsIs(b))
  /\ kind.class = "Unknown" => kind.chars = 0

(* Both ways to describe a piece tell the truth about it.                  *)
LEMMA KindsKnown ==
  /\ \A b \in Strs : KnownPiece(KindOfStr(b), b)
  /\ \A b \in Raws : KnownPiece(KindOfRaw(b), b)
<1>1. ASSUME NEW b \in Strs PROVE KnownPiece(KindOfStr(b), b)
  <2>1. b \in Text /\ ClassIs(b) \in ValidRange /\ CharsIs(b) \in Nat
    BY PieceIs, ClassifiedIs
  <2>2. KindOfStr(b) = [class |-> ClassIs(b), chars |-> IF ClassIs(b) = "Utf8NonLatin1" THEN 0 ELSE CharsIs(b)]
    BY DEF KindOfStr, ClassIs, CharsIs
  <2> QED
    BY <2>1, <2>2 DEF KnownPiece, ValidRange
<1>2. ASSUME NEW b \in Raws PROVE KnownPiece(KindOfRaw(b), b)
  <2>1. b \in Text /\ Len(b) \in Nat /\ (ClassIs(b) = "Ascii" => CharsIs(b) = Len(b))
    BY PieceIs, ClassifiedIs
  <2>2. VariantCount(b) = 0 <=> ClassIs(b) = "Ascii"
    BY <2>1, VariantsCounted DEF ClassIs
  <2> QED
    BY <2>1, <2>2 DEF KnownPiece, KindOfRaw, ValidRange
<1> QED
  BY <1>1, <1>2

(* The state an append leaves is true of the longer text.                  *)
LEMMA AppendSaid ==
  ASSUME NEW a \in Text, NEW b \in Text, NEW kind, KnownPiece(kind, b), NEW scan, Said(scan, a)
  PROVE  /\ a \o b \in Text /\ Len(a \o b) = Len(a) + Len(b)
         /\ Said(AppendTransition(scan, kind.class), a \o b)
<1>1. a \o b \in Text /\ Len(a \o b) = Len(a) + Len(b)
  BY JoinedIs
<1>2. CASE kind.class = "Unknown"
  <2>1. AppendTransition(scan, kind.class) = "Unknown"
    BY <1>2 DEF AppendTransition
  <2> QED
    BY <1>1, <2>1, ClassifiedIs
<1>3. CASE kind.class # "Unknown"
  <2>1. PICK k \in ValidRange : k = kind.class /\ k = ClassIs(b)
    BY <1>3 DEF KnownPiece
  <2>2. PICK c \in Terminal : c = ClassIs(a)
    BY ClassifiedIs
  <2>3. ClassIs(a \o b) = Extended(c, k)
    BY <2>1, <2>2, AppendedIs DEF ClassIs
  <2>4. AppendTransition(scan, k) \in ScanState /\ Certifies(AppendTransition(scan, k), Extended(c, k))
    BY <2>2, AppendSound DEF Said
  <2> QED
    BY <1>1, <2>1, <2>3, <2>4 DEF Said
<1> QED
  BY <1>2, <1>3

(* A count carried past an append is the longer text's.                    *)
LEMMA CarriedCount ==
  ASSUME TrueOf(v), NEW b \in Text, NEW kind, KnownPiece(kind, b), NEW state
  PROVE  Counted(CountAfter(kind, state), v.bytes \o b)
<1>1. /\ v.bytes \in Text /\ Counted(v.count, v.bytes) /\ v.count \in Nat
  BY FieldsOf
<1>2. CASE v.count > 0 /\ kind.chars > 0
  <2>1. v.count = CharsIs(v.bytes) /\ kind.chars = CharsIs(b) /\ kind.chars \in Nat /\ ClassIs(b) \in ValidRange
    BY <1>1, <1>2 DEF Counted, KnownPiece
  <2>2. ClassIs(v.bytes) # "MalformedUtf8"
    BY <1>1, <1>2, <2>1, ClassifiedIs
  <2>3. CharsIs(v.bytes \o b) = CharsIs(v.bytes) + CharsIs(b)
    BY <1>1, <2>1, <2>2, AppendedIs DEF ClassIs, CharsIs
  <2>4. v.count + kind.chars \in Nat
    BY <1>1, <2>1
  <2> QED
    BY <1>1, <2>1, <2>3, <2>4 DEF CountAfter, Counted
<1>3. CASE ~(v.count > 0 /\ kind.chars > 0)
  BY <1>3 DEF CountAfter, Counted
<1> QED
  BY <1>2, <1>3

(* An append where the bytes stand leaves the longer text described truly. *)
LEMMA AppendInPlaceGood ==
  ASSUME TrueOf(v), NEW b \in Text, NEW kind, KnownPiece(kind, b), Len(v.bytes) + Len(b) <= MaxBytes,
         ExtendsInPlace(b, kind), AppendInPlace(b, kind)
  PROVE  TrueOf(v')
<1>1. PICK all \in Text, state \in ScanState, chars \in Nat :
        /\ all = v.bytes \o b /\ state = AppendTransition(v.scan, kind.class) /\ chars = CountAfter(kind, state)
        /\ Said(state, all) /\ Counted(chars, all) /\ Len(all) = Len(v.bytes) + Len(b)
  <2>1. v.bytes \in Text /\ Said(v.scan, v.bytes)
    BY FieldsOf
  <2>2. /\ v.bytes \o b \in Text /\ Len(v.bytes \o b) = Len(v.bytes) + Len(b)
        /\ Said(AppendTransition(v.scan, kind.class), v.bytes \o b)
    BY <2>1, AppendSaid
  <2>3. Counted(CountAfter(kind, AppendTransition(v.scan, kind.class)), v.bytes \o b)
    BY CarriedCount
  <2> QED
    BY <2>2, <2>3 DEF Said, Counted
<1>2. /\ OnHeap(v) /\ Len(all) <= v.cap /\ Len(all) <= MaxBytes
      /\ v.form = "small" /\ v.scan = "Ascii" => kind.class = "Ascii"
  BY <1>1 DEF ExtendsInPlace, HasRoom
<1>3. Said(ClassIs(all), all) /\ Counted(CharsIs(all), all) /\ ClassIs(all) \in Terminal /\ Len(all) \in Nat
  BY ClassifiedIs
<1>4. v' = IF v.form = "large" THEN [v EXCEPT !.bytes = all, !.scan = state, !.count = chars]
           ELSE IF v.scan = "Ascii" THEN [v EXCEPT !.bytes = all, !.count = Len(all)]
           ELSE IF IsTerminal(state) /\ chars > 0
                THEN [v EXCEPT !.bytes = all, !.scan = state, !.count = chars]
           ELSE [v EXCEPT !.bytes = all, !.scan = ClassIs(all), !.count = CharsIs(all)]
  BY <1>1 DEF AppendInPlace, ClassIs, CharsIs
<1>5. v \in StringRecords
  BY DEF TrueOf
<1>6. ASSUME NEW scan, Said(scan, all), NEW n, Counted(n, all), v.form = "small" => IsTerminal(scan),
             NEW t, t = [v EXCEPT !.bytes = all, !.scan = scan, !.count = n]
      PROVE  TrueOf(t)
  <2>1. /\ t \in StringRecords /\ t.form = v.form /\ t.cap = v.cap /\ t.env = v.env
        /\ t.bytes = all /\ t.scan = scan /\ t.count = n
    BY <1>5, <1>6 DEF StringRecords, Said, Counted
  <2> QED
    BY <1>2, <1>6, <2>1, RewrittenGood
<1>7. CASE v.form = "large"
  <2>1. v' = [v EXCEPT !.bytes = all, !.scan = state, !.count = chars]
    BY <1>4, <1>7
  <2>2. v.form = "small" => IsTerminal(state)
    BY <1>7
  <2> QED
    BY <1>1, <1>6, <2>1, <2>2
<1>8. CASE v.form # "large" /\ v.scan = "Ascii"
  <2>1. v.form = "small" /\ kind.class = "Ascii"
    BY <1>2, <1>8 DEF OnHeap
  <2>2. state = "Ascii" /\ ClassIs(all) = "Ascii"
    <3>1. state = "Ascii"
      BY <1>1, <1>8, <2>1 DEF AppendTransition
    <3> QED
      BY <1>1, <3>1, TerminalIs DEF IsTerminal, Terminal
  <2>3. Counted(Len(all), all)
    BY <1>3, <2>2, ClassifiedIs DEF Counted
  <2>4. v' = [v EXCEPT !.bytes = all, !.scan = "Ascii", !.count = Len(all)]
    <3>1. PICK t : t = [v EXCEPT !.bytes = all, !.scan = "Ascii", !.count = Len(all)]
      OBVIOUS
    <3>2. PICK u : u = [v EXCEPT !.bytes = all, !.count = Len(all)]
      OBVIOUS
    <3>3. u = t
      BY <1>5, <1>8, <3>1, <3>2 DEF StringRecords
    <3> QED
      BY <1>4, <1>8, <3>1, <3>2, <3>3
  <2>5. IsTerminal("Ascii") /\ Said("Ascii", all)
    BY <1>3, <2>2 DEF IsTerminal
  <2> QED
    BY <1>6, <2>3, <2>4, <2>5
<1>9. CASE v.form # "large" /\ v.scan # "Ascii" /\ IsTerminal(state) /\ chars > 0
  <2>1. v' = [v EXCEPT !.bytes = all, !.scan = state, !.count = chars]
    BY <1>4, <1>9
  <2> QED
    BY <1>1, <1>6, <1>9, <2>1
<1>10. CASE v.form # "large" /\ v.scan # "Ascii" /\ ~(IsTerminal(state) /\ chars > 0)
  <2>1. v' = [v EXCEPT !.bytes = all, !.scan = ClassIs(all), !.count = CharsIs(all)]
    BY <1>4, <1>10
  <2>2. IsTerminal(ClassIs(all))
    BY <1>3 DEF IsTerminal
  <2> QED
    BY <1>3, <1>6, <2>1, <2>2
<1> QED
  BY <1>7, <1>8, <1>9, <1>10

(* So does an append that moves to a new envelope or allocation.           *)
LEMMA RebuildGood ==
  ASSUME TrueOf(v), NEW b \in Text, NEW kind, KnownPiece(kind, b), Len(v.bytes) + Len(b) <= MaxBytes,
         Rebuild(b, kind)
  PROVE  TrueOf(v')
<1> DEFINE all == v.bytes \o b
           chars == IF OnHeap(v) THEN CountAfter(kind, AppendTransition(v.scan, kind.class)) ELSE 0
           seed == IF v.form = "adopted" THEN v.env ELSE v.scan
<1>1. v.bytes \in Text /\ Said(v.scan, v.bytes) /\ Said(v.env, v.bytes) /\ v.utf8 \in BOOLEAN
  BY FieldsOf
<1>2. Said(seed, v.bytes)
  BY <1>1
<1>3. all \in Text /\ Allowed(all) /\ Said(AppendTransition(seed, kind.class), all)
  <2> HIDE DEF seed
  <2>1. all \in Text /\ Len(all) = Len(v.bytes) + Len(b) /\ Said(AppendTransition(seed, kind.class), all)
    BY <1>1, <1>2, AppendSaid
  <2> QED
    BY <2>1 DEF Allowed
<1>4. Counted(chars, all)
  <2>1. Counted(CountAfter(kind, AppendTransition(v.scan, kind.class)), all)
    BY CarriedCount
  <2>2. Counted(0, all)
    BY <1>3, ClassifiedIs
  <2> QED
    BY <2>1, <2>2
<1>5. \/ v' = Envelope(all, v.utf8) /\ FitsEnvelope(all)
      \/ v' = Transitioned(all, v.utf8, AppendTransition(seed, kind.class), chars)
  BY DEF Rebuild, FitsEnvelope
<1> HIDE DEF all, chars, seed
<1> QED
  BY <1>1, <1>3, <1>4, <1>5, EnvelopeGood, TransitionedGood

(* Every append.                                                           *)
LEMMA PushGood ==
  ASSUME TrueOf(v), Push
  PROVE  TrueOf(v')
<1>1. ASSUME NEW b \in Text, NEW kind, KnownPiece(kind, b), PushRaw(b, kind)
      PROVE  TrueOf(v')
  <2>1. /\ Len(v.bytes) + Len(b) <= MaxBytes
        /\ \/ ExtendsInPlace(b, kind) /\ AppendInPlace(b, kind)
           \/ Rebuild(b, kind)
    BY <1>1 DEF PushRaw
  <2> QED
    BY <1>1, <2>1, AppendInPlaceGood, RebuildGood
<1>2. \/ \E b \in Strs : PushRaw(b, KindOfStr(b))
      \/ \E b \in Raws : PushRaw(b, KindOfRaw(b))
  BY DEF Push, PushStr, PushBytes
<1>3. CASE \E b \in Strs : PushRaw(b, KindOfStr(b))
  <2>1. PICK b \in Strs : PushRaw(b, KindOfStr(b))
    BY <1>3
  <2>2. b \in Text /\ KnownPiece(KindOfStr(b), b)
    BY PieceIs, KindsKnown
  <2> QED
    BY <1>1, <2>1, <2>2
<1>4. CASE \E b \in Raws : PushRaw(b, KindOfRaw(b))
  <2>1. PICK b \in Raws : PushRaw(b, KindOfRaw(b))
    BY <1>4
  <2>2. b \in Text /\ KnownPiece(KindOfRaw(b), b)
    BY PieceIs, KindsKnown
  <2> QED
    BY <1>1, <2>1, <2>2
<1> QED
  BY <1>2, <1>3, <1>4

-----------------------------------------------------------------------------
(* Parts.                                                                  *)

(* The state a view is born with is true of the part it shows.             *)
LEMMA BirthSaid ==
  ASSUME NEW s \in Text, NEW offset \in Nat, NEW n \in Nat, offset + n <= Len(s), n # 0,
         NEW b \in Text, b = Bytes(s, offset, offset + n), NEW parent, Said(parent, s)
  PROVE  Said(ViewBirth(parent, s, offset, n), b)
<1>1. PICK c \in Terminal, d \in Terminal : c = ClassIs(s) /\ d = ClassIs(b)
  BY ClassifiedIs
<1>2. parent \in ScanState /\ Certifies(parent, c)
  BY <1>1 DEF Said
<1>3. /\ CutIsClean(s, offset, n) => d \in Parts(c)
      /\ ~CutIsClean(s, offset, n) => c # "Ascii"
      /\ ~CutIsClean(s, offset, n) /\ c # "MalformedUtf8" => d = "MalformedUtf8"
  BY <1>1, CutIs DEF ClassIs
<1>4. Said(SliceBirth(parent, CutIsClean(s, offset, n)), b)
  <2>1. CASE CutIsClean(s, offset, n)
    <3>1. /\ SliceBirth(parent, TRUE) \in ScanState
          /\ Classes(SliceBirth(parent, TRUE)) = UNION {Parts(e) : e \in Classes(parent)}
      BY <1>2, CleanSliceExact
    <3>2. c \in Classes(parent)
      BY <1>2 DEF Classes
    <3>3. d \in Classes(SliceBirth(parent, TRUE))
      BY <1>3, <2>1, <3>1, <3>2
    <3>4. CutIsClean(s, offset, n) = TRUE
      BY <2>1 DEF CutIsClean
    <3> QED
      BY <1>1, <3>1, <3>3, <3>4 DEF Said, Classes
  <2>2. CASE ~CutIsClean(s, offset, n) /\ c # "MalformedUtf8"
    <3>1. CutIsClean(s, offset, n) = FALSE
      BY <2>2 DEF CutIsClean
    <3>2. Certifies(SliceBirth(parent, FALSE), "MalformedUtf8")
      BY <1>2, <1>3, <2>2, DirtySliceSound
    <3>3. SliceBirth(parent, FALSE) \in ScanState
      BY <1>2 DEF SliceBirth, ScanState, Terminal
    <3> QED
      BY <1>1, <1>3, <2>2, <3>1, <3>2, <3>3 DEF Said
  <2>3. CASE ~CutIsClean(s, offset, n) /\ c = "MalformedUtf8"
    <3>1. CutIsClean(s, offset, n) = FALSE
      BY <2>3 DEF CutIsClean
    <3>2. parent \in {"Unknown", "MalformedUtf8", "NonAscii"}
      BY <1>2, <2>3, CertifiesTable
    <3>3. SliceBirth(parent, FALSE) = "Unknown"
      BY <3>2 DEF SliceBirth
    <3>4. Said("Unknown", b)
      BY ClassifiedIs
    <3> QED
      BY <3>1, <3>3, <3>4
  <2> QED
    BY <2>1, <2>2, <2>3
<1>5. \/ ViewBirth(parent, s, offset, n) = SliceBirth(parent, CutIsClean(s, offset, n))
      \/ ViewBirth(parent, s, offset, n) = ClassIs(b)
  BY DEF ViewBirth, ClassIs
<1>6. Said(ClassIs(b), b)
  BY ClassifiedIs
<1> QED
  BY <1>4, <1>5, <1>6

(* Every slice and substring.                                              *)
LEMMA PartGood ==
  ASSUME TrueOf(v), Part
  PROVE  TrueOf(v')
<1>1. /\ v.bytes \in Text /\ Said(v.scan, v.bytes) /\ Said(v.env, v.bytes) /\ v.utf8 \in BOOLEAN
      /\ Len(v.bytes) \in Nat /\ Len(v.bytes) <= MaxBytes
  BY FieldsOf DEF Allowed
<1>2. PICK offset \in Nat, n \in Nat : offset + n <= Len(v.bytes) /\ (Slice(offset, n) \/ Substr(offset, n))
  <2>1. PICK offset \in 0..MaxCut, rest \in 0..MaxCut :
          LET len == Len(v.bytes) - offset - rest IN len >= 0 /\ (Slice(offset, len) \/ Substr(offset, len))
    BY DEF Part
  <2>2. PICK n \in Int : n = Len(v.bytes) - offset - rest
    <3>1. PICK k \in Nat : k = Len(v.bytes)
      BY <1>1
    <3>2. \A i \in 0..MaxCut, j \in 0..MaxCut : k - i - j \in Int
      BY <3>1
    <3>3. k - offset - rest \in Int
      BY <3>2
    <3> QED
      BY <3>1, <3>3
  <2>3. n \in Nat /\ offset \in Nat /\ rest \in Nat /\ offset + n <= Len(v.bytes)
    BY <1>1, <2>1, <2>2, SizesAssumption
  <2> QED
    BY <2>1, <2>2, <2>3
<1>3. PICK b \in Text : b = Bytes(v.bytes, offset, offset + n) /\ Len(b) = n /\ Allowed(b)
  <2>1. PICK m \in Nat : m = offset + n /\ offset <= m /\ m <= Len(v.bytes) /\ m - offset = n
    BY <1>2
  <2>2. Bytes(v.bytes, offset, m) \in Text /\ Len(Bytes(v.bytes, offset, m)) = m - offset
    BY <1>1, <2>1, PartIs
  <2>3. n <= MaxBytes
    BY <1>1, <1>2, SizesAssumption
  <2> QED
    BY <2>1, <2>2, <2>3 DEF Allowed
<1>4. CASE Slice(offset, n)
  <2> DEFINE parent == IF v.form = "adopted" THEN v.env ELSE v.scan
             state == ViewBirth(parent, v.bytes, offset, n)
  <2>1. CASE FitsEnvelope(b)
    <3>1. v' = Envelope(b, v.utf8)
      BY <1>3, <1>4, <2>1 DEF Slice
    <3> QED
      BY <1>1, <1>3, <2>1, <3>1, EnvelopeGood
  <2>2. CASE ~FitsEnvelope(b) /\ InEnvelope(v)
    <3>1. v' = Reclassified(b, v.utf8)
      BY <1>3, <1>4, <2>2 DEF Slice
    <3> QED
      BY <1>1, <1>3, <3>1, ReclassifiedGood
  <2>3. CASE ~FitsEnvelope(b) /\ ~InEnvelope(v) /\ v.form = "borrowed"
    <3>1. v' = Value0("borrowed", b, v.utf8, ClassIs(b), CharsIs(b))
      BY <1>3, <1>4, <2>3 DEF Slice, ClassIs, CharsIs
    <3> QED
      BY <1>1, <1>3, <3>1, BorrowedGood
  <2>4. CASE ~FitsEnvelope(b) /\ ~InEnvelope(v) /\ v.form # "borrowed"
    <3>1. v' = Value0("view", b, v.utf8, state, 0) \/ v' = AdoptedWhole(b, v.utf8, state)
      BY <1>3, <1>4, <2>4 DEF Slice
    <3>2. n # 0
      BY <1>3, <2>4, SizesAssumption DEF FitsEnvelope
    <3>3. Said(parent, v.bytes)
      BY <1>1
    <3>4. Said(state, b)
      <4>1. PICK s : s = v.bytes
        OBVIOUS
      <4>2. PICK p : p = parent
        OBVIOUS
      <4> HIDE DEF parent
      <4>3. s \in Text /\ offset + n <= Len(s) /\ b = Bytes(s, offset, offset + n) /\ Said(p, s)
        BY <1>1, <1>2, <1>3, <3>3, <4>1, <4>2
      <4>4. Said(ViewBirth(p, s, offset, n), b)
        BY <3>2, <4>3, BirthSaid
      <4> QED
        BY <4>1, <4>2, <4>4
    <3>5. Counted(0, b) /\ "view" \in StringForms
      BY ClassifiedIs DEF StringForms
    <3> HIDE DEF state
    <3>6. TrueOf(Value0("view", b, v.utf8, state, 0))
      BY <1>1, <1>3, <3>4, <3>5, Value0Good
    <3>7. TrueOf(AdoptedWhole(b, v.utf8, state))
      BY <1>1, <1>3, <3>4, AdoptedGood
    <3> QED
      BY <3>1, <3>6, <3>7
  <2> QED
    BY <2>1, <2>2, <2>3, <2>4
<1>5. CASE Substr(offset, n)
  <2>1. v' = Tiered(b, v.utf8) \/ v' = Reclassified(b, v.utf8)
    BY <1>3, <1>5 DEF Substr
  <2> QED
    BY <1>1, <1>3, <2>1, TieredGood, ReclassifiedGood
<1> QED
  BY <1>2, <1>4, <1>5

-----------------------------------------------------------------------------
(* The string through every step.                                          *)

(* The invariant is kept by every step.                                    *)
LEMMA StringStep ==
  ASSUME TrueOf(v), [StringNext]_v
  PROVE  TrueOf(v')
<1>1. CASE Construct
  BY <1>1, ConstructGood
<1>2. CASE Share
  BY <1>2, FlaggedGood DEF Share
<1>3. CASE OthersDrop
  BY <1>3, FlaggedGood DEF OthersDrop
<1>4. CASE Ask
  BY <1>4, AskedGood DEF Ask, Improves
<1>5. CASE Push
  BY <1>5, PushGood
<1>6. CASE Part
  BY <1>6, PartGood
<1>7. CASE Reinterpret
  <2>1. v' = [v EXCEPT !.utf8 = ~v.utf8] /\ (~v.utf8) \in BOOLEAN
    BY <1>7, FieldsOf DEF Reinterpret, Reinterpreted
  <2> QED
    BY <2>1, FlaggedGood
<1>8. CASE DowngradeInPlace
  BY <1>8, DowngradedGood DEF DowngradeInPlace
<1>9. CASE Unshare
  BY <1>9, UnsharedGood DEF Unshare, Improves
<1>10. CASE Len(UpgradedBytes(v.bytes)) <= MaxBytes /\ UpgradeInPlace
  BY <1>10, UpgradedGood DEF UpgradeInPlace
<1>11. CASE UNCHANGED v
  BY <1>11
<1> QED
  BY <1>1, <1>2, <1>3, <1>4, <1>5, <1>6, <1>7, <1>8, <1>9, <1>10, <1>11 DEF StringNext

(* What a string's state and count say is true of its bytes, in every      *)
(* state of every history of constructions, appends, rewrites, copies,     *)
(* cuts and questions, and its form can hold it.                           *)
THEOREM StringKnowledge == StringSpec => []KnowledgeTrue
<1>1. StringInit => TrueOf(v)
  BY InitGood DEF StringInit
<1>2. TrueOf(v) /\ [StringNext]_v => TrueOf(v)'
  BY StringStep DEF TrueOf, Held, Said, Counted, InEnvelope
<1>3. TrueOf(v) => KnowledgeTrue
  BY FieldsOf DEF TrueOf, Held, Said, Counted, KnowledgeTrue, FormHolds, ClassIs, CharsIs
<1> QED
  BY <1>1, <1>2, <1>3, PTL DEF StringSpec

(* From any state reached, upgrading, downgrading, unsharing and asking    *)
(* leave the characters alone; reinterpreting, unsharing and asking only   *)
(* narrow what the state leaves open.                                      *)
THEOREM StringTransforms == StringSpec => []TransformsKeep
<1>1. StringInit => TrueOf(v)
  BY InitGood DEF StringInit
<1>2. TrueOf(v) /\ [StringNext]_v => TrueOf(v)'
  BY StringStep DEF TrueOf, Held, Said, Counted, InEnvelope
<1>3. ASSUME TrueOf(v) PROVE TransformsKeep
  <2>1. Characters(UpgradedInPlace(v)) = Characters(v)
    BY <1>3, UpgradedGood DEF Characters
  <2>2. Characters(DowngradedInPlace(v)) = Characters(v)
    BY <1>3, DowngradedGood
  <2>3. \A s : Improves(s, v) => Characters(s) = Characters(v) /\ Classes(s.scan) \subseteq Classes(v.scan)
    BY DEF Improves, Characters
  <2>4. Improves(Unshared(v), v) /\ \A s \in Asked(v) : Improves(s, v)
    BY <1>3, UnsharedGood, AskedGood
  <2>5. Classes(Reinterpreted(v).scan) \subseteq Classes(v.scan)
    BY <1>3 DEF Reinterpreted, TrueOf, StringRecords
  <2> QED
    BY <2>1, <2>2, <2>3, <2>4, <2>5 DEF TransformsKeep
<1> QED
  BY <1>1, <1>2, <1>3, PTL DEF StringSpec

-----------------------------------------------------------------------------
(* A walk from the front.                                                  *)

(* What the characters so far amount to, with what follows them.           *)
Merged(f, rest) ==
  Finding(ClassJoin(f.class, rest.class),
          IF rest.class = "MalformedUtf8" THEN 0 ELSE f.chars + rest.chars)

(* Whatever is found from p on, f makes it a finding of the whole text.    *)
Adds(f, s, p) ==
  /\ f.class \in Terminal /\ f.class # "MalformedUtf8" /\ f.chars \in Nat /\ p \in 0..Len(s)
  /\ \A rest : Tells(rest, s, p) => Tells(Merged(f, rest), s, 0)

(* What is told of a place is told once.                                   *)
LEMMA TellsOnce ==
  ASSUME NEW s \in Text, NEW p, NEW a, NEW b, Tells(a, s, p), Tells(b, s, p)
  PROVE  a.class = b.class /\ a.chars = b.chars
<1>1. a.class \in Terminal /\ b.class \in Terminal
  BY DEF Tells
<1>2. \A c \in Terminal : Rank(c) \in 0..4 /\ (Rank(c) = 4 <=> c = "MalformedUtf8")
  BY RankIs DEF Terminal
<1>3. \A c \in Terminal : \A d \in Terminal : Rank(c) = Rank(d) => c = d
  BY RankIs DEF Terminal
<1>4. CASE ~Sound(s, p)
  BY <1>4 DEF Tells
<1>5. CASE Sound(s, p)
  <2>1. a.chars = b.chars /\ a.class # "MalformedUtf8" /\ b.class # "MalformedUtf8"
    BY <1>5 DEF Tells
  <2>2. Rank(a.class) \in 0..3 /\ Rank(b.class) \in 0..3
    BY <1>1, <1>2, <2>1
  <2>3. \A r \in 0..3 : Rank(a.class) <= r <=> Rank(b.class) <= r
    BY <1>5 DEF Tells
  <2>4. Rank(a.class) = Rank(b.class)
    BY <2>2, <2>3
  <2> QED
    BY <1>1, <1>3, <2>1, <2>4
<1> QED
  BY <1>4, <1>5

(* Joining is the greater rank, whichever way it is bracketed.             *)
LEMMA JoinBracketed ==
  ASSUME NEW a \in Terminal, NEW b \in Terminal, NEW c \in Terminal
  PROVE  /\ ClassJoin(a, b) \in Terminal
         /\ ClassJoin(ClassJoin(a, b), c) = ClassJoin(a, ClassJoin(b, c))
         /\ ClassJoin("Ascii", a) = a /\ ClassJoin(a, "Ascii") = a
         /\ ClassJoin(a, "MalformedUtf8") = "MalformedUtf8"
         /\ ClassJoin(a, b) = "MalformedUtf8" <=> a = "MalformedUtf8" \/ b = "MalformedUtf8"
<1>1. "Ascii" \in Terminal /\ "MalformedUtf8" \in Terminal
  BY DEF Terminal
<1>2. \A x \in Terminal : \A y \in Terminal : Rank(x) = Rank(y) => x = y
  BY RankIs DEF Terminal
<1>3. \A x \in Terminal : Rank(x) \in 0..4 /\ (Rank(x) = 4 <=> x = "MalformedUtf8")
  BY RankIs DEF Terminal
<1>10. Rank("Ascii") = 0
  BY RankIs
<1>4. \A x, y \in Terminal :
        /\ ClassJoin(x, y) \in Terminal
        /\ Rank(ClassJoin(x, y)) = IF Rank(x) <= Rank(y) THEN Rank(y) ELSE Rank(x)
  <2> TAKE x, y \in Terminal
  <2>1. /\ ClassJoin(x, y) \in {x, y}
        /\ Rank(x) <= Rank(ClassJoin(x, y)) /\ Rank(y) <= Rank(ClassJoin(x, y))
    BY JoinIs
  <2>2. Rank(x) \in Int /\ Rank(y) \in Int
    BY <1>3
  <2>3. CASE ClassJoin(x, y) = x
    BY <2>1, <2>2, <2>3
  <2>4. CASE ClassJoin(x, y) = y
    BY <2>1, <2>2, <2>4
  <2> QED
    BY <2>1, <2>3, <2>4
<1>5. \A x \in Terminal : Rank(x) \in Int
  <2>1. \A x \in Terminal : Rank(x) \in 0..4
    BY RankIs
  <2>2. \A i \in 0..4 : i \in Int
    OBVIOUS
  <2> QED
    BY <2>1, <2>2
<1>6. ClassJoin(ClassJoin(a, b), c) = ClassJoin(a, ClassJoin(b, c))
  <2>1. /\ ClassJoin(a, b) \in Terminal /\ ClassJoin(b, c) \in Terminal
        /\ ClassJoin(ClassJoin(a, b), c) \in Terminal /\ ClassJoin(a, ClassJoin(b, c)) \in Terminal
    BY <1>4
  <2>2. /\ Rank(ClassJoin(a, b)) = IF Rank(a) <= Rank(b) THEN Rank(b) ELSE Rank(a)
        /\ Rank(ClassJoin(b, c)) = IF Rank(b) <= Rank(c) THEN Rank(c) ELSE Rank(b)
    BY <1>4
  <2>3. /\ Rank(ClassJoin(ClassJoin(a, b), c)) = IF Rank(ClassJoin(a, b)) <= Rank(c) THEN Rank(c) ELSE Rank(ClassJoin(a, b))
        /\ Rank(ClassJoin(a, ClassJoin(b, c))) = IF Rank(a) <= Rank(ClassJoin(b, c)) THEN Rank(ClassJoin(b, c)) ELSE Rank(a)
    BY <1>4, <2>1
  <2>4. Rank(a) \in Int /\ Rank(b) \in Int /\ Rank(c) \in Int
    BY <1>5
  <2>5. Rank(ClassJoin(ClassJoin(a, b), c)) = Rank(ClassJoin(a, ClassJoin(b, c)))
    BY <2>2, <2>3, <2>4
  <2> QED
    BY <1>2, <2>1, <2>5
<1>7. ClassJoin("Ascii", a) = a /\ ClassJoin(a, "Ascii") = a
  BY <1>1, <1>2, <1>3, <1>4, <1>10
<1>8. ClassJoin(a, "MalformedUtf8") = "MalformedUtf8"
  BY <1>1, <1>3, <1>4
<1>9. ClassJoin(a, b) = "MalformedUtf8" <=> a = "MalformedUtf8" \/ b = "MalformedUtf8"
  <2>1. ClassJoin(a, b) \in Terminal /\ Rank(ClassJoin(a, b)) = IF Rank(a) <= Rank(b) THEN Rank(b) ELSE Rank(a)
    BY <1>4
  <2>2. (Rank(a) \in 0..4 /\ (Rank(a) = 4 <=> a = "MalformedUtf8")) /\ (Rank(b) \in 0..4 /\ (Rank(b) = 4 <=> b = "MalformedUtf8"))
        /\ (Rank(ClassJoin(a, b)) = 4 <=> ClassJoin(a, b) = "MalformedUtf8")
    BY <1>3, <2>1
  <2> QED
    BY <2>1, <2>2
<1> QED
  BY <1>4, <1>6, <1>7, <1>8, <1>9

(* Nothing has been read at the start.                                     *)
LEMMA AddsAtStart ==
  ASSUME NEW s \in Text
  PROVE  Adds(Finding("Ascii", 0), s, 0)
<1>1. Len(s) \in Nat
  BY ByteAt
<1>2. ASSUME NEW rest, Tells(rest, s, 0)
      PROVE  Tells(Merged(Finding("Ascii", 0), rest), s, 0)
  <2>1. rest.class \in Terminal /\ rest.chars \in Nat
    BY <1>2 DEF Tells
  <2>2. ClassJoin("Ascii", rest.class) = rest.class
    BY <2>1, JoinBracketed
  <2>3. rest.class = "MalformedUtf8" => rest.chars = 0
    BY <1>2 DEF Tells
  <2>4. Merged(Finding("Ascii", 0), rest) = Finding(rest.class, rest.chars)
    BY <2>1, <2>2, <2>3 DEF Merged, Finding
  <2>5. Finding(rest.class, rest.chars).class = rest.class /\ Finding(rest.class, rest.chars).chars = rest.chars
    BY DEF Finding
  <2> QED
    BY <1>2, <2>4, <2>5 DEF Tells
<1>3. "Ascii" \in Terminal /\ 0 \in 0..Len(s)
  BY <1>1 DEF Terminal
<1> QED
  BY <1>2, <1>3 DEF Adds, Finding

(* A character that decodes is read.                                       *)
LEMMA AddsChar ==
  ASSUME NEW s \in Text, NEW p \in Places(s), NEW f, Adds(f, s, p), Decodes(s, p)
  PROVE  Adds(Finding(ClassJoin(f.class, CharClass(s, p)), f.chars + 1), s, p + SeqLen(At(s, p)))
<1>1. PICK m : m = p + SeqLen(At(s, p))
  OBVIOUS
<1>2. m \in 0..Len(s)
  <2>1. m \in (p + 1)..Len(s)
    BY <1>1, SoundOn
  <2> QED
    BY <2>1, ByteAt DEF Places
<1>3. PICK k : k = CharClass(s, p) /\ k \in Terminal /\ k # "MalformedUtf8"
  BY DecodedIs
<1>4. f.class \in Terminal /\ f.class # "MalformedUtf8" /\ f.chars \in Nat
  BY DEF Adds
<1>5. ClassJoin(f.class, k) \in Terminal /\ ClassJoin(f.class, k) # "MalformedUtf8"
  BY <1>3, <1>4, JoinBracketed
<1>6. ASSUME NEW rest, Tells(rest, s, m)
      PROVE  Tells(Merged(Finding(ClassJoin(f.class, k), f.chars + 1), rest), s, 0)
  <2> DEFINE on == Finding(ClassJoin(k, rest.class), IF rest.class = "MalformedUtf8" THEN 0 ELSE rest.chars + 1)
  <2>1. rest.class \in Terminal /\ rest.chars \in Nat
    BY <1>6 DEF Tells
  <2>2. Tells(on, s, p)
    BY <1>1, <1>3, <1>6, TellsOn
  <2>3. on.class = ClassJoin(k, rest.class) /\ on.chars = IF rest.class = "MalformedUtf8" THEN 0 ELSE rest.chars + 1
    BY DEF Finding
  <2>4. Tells(Merged(f, on), s, 0)
    <3> HIDE DEF on
    <3> QED
      BY <2>2 DEF Adds
  <2>5. on.class = "MalformedUtf8" <=> rest.class = "MalformedUtf8"
    BY <1>3, <2>1, <2>3, JoinBracketed
  <2>6. ClassJoin(f.class, on.class) = ClassJoin(ClassJoin(f.class, k), rest.class)
    <3> HIDE DEF on
    <3>1. ClassJoin(ClassJoin(f.class, k), rest.class) = ClassJoin(f.class, ClassJoin(k, rest.class))
      <4>1. PICK a \in Terminal, c \in Terminal : a = f.class /\ c = rest.class
        BY <1>4, <2>1
      <4>2. ClassJoin(ClassJoin(a, k), c) = ClassJoin(a, ClassJoin(k, c))
        BY <1>3, JoinBracketed
      <4> QED
        BY <4>1, <4>2
    <3> QED
      BY <2>3, <3>1
  <2>7. Merged(f, on) = Merged(Finding(ClassJoin(f.class, k), f.chars + 1), rest)
    <3>1. CASE rest.class = "MalformedUtf8"
      BY <2>5, <2>6, <3>1 DEF Merged, Finding
    <3>2. CASE rest.class # "MalformedUtf8"
      <4>1. f.chars + on.chars = (f.chars + 1) + rest.chars
        BY <1>4, <2>1, <2>3, <3>2
      <4> HIDE DEF on
      <4>2. Merged(f, on) = Finding(ClassJoin(f.class, on.class), f.chars + on.chars)
        BY <2>5, <3>2 DEF Merged
      <4> QED
        BY <2>6, <3>2, <4>1, <4>2 DEF Merged, Finding
    <3> QED
      BY <3>1, <3>2
  <2> QED
    BY <2>4, <2>7
<1>7. f.chars + 1 \in Nat
  BY <1>4
<1> QED
  BY <1>1, <1>2, <1>3, <1>5, <1>6, <1>7 DEF Adds, Finding

(* A run of ASCII bytes is read, each a character.                         *)
LEMMA AddsAscii ==
  ASSUME NEW s \in Text, NEW p, NEW f, Adds(f, s, p), NEW m \in p..Len(s),
         \A i \in p..(m - 1) : At(s, i) < 128
  PROVE  Adds(Finding(f.class, f.chars + (m - p)), s, m)
<1>1. Len(s) \in Nat /\ p \in Nat /\ m \in Nat /\ f.class \in Terminal /\ f.chars \in Nat
  BY ByteAt DEF Adds
<1>2. PICK n \in Nat : n = m - p
  BY <1>1
<1> DEFINE S == {k \in 0..n : Adds(Finding(f.class, f.chars + k), s, p + k)}
<1>3. 0 \in S
  <2>1. f.chars + 0 = f.chars /\ p + 0 = p
    BY <1>1
  <2>2. Adds(Finding(f.class, f.chars), s, p)
    BY DEF Adds, Finding, Merged
  <2> QED
    BY <2>1, <2>2
<1>4. ASSUME NEW k \in 0..(n - 1), k \in S PROVE k + 1 \in S
  <2>1. PICK q \in Nat : q = p + k
    BY <1>1
  <2>2. q \in Places(s) /\ At(s, q) < 128
    BY <1>1, <1>2, <2>1 DEF Places
  <2>3. Decodes(s, q) /\ SeqLen(At(s, q)) = 1
    BY <2>2, AsciiDecodes
  <2>4. CharClass(s, q) = "Ascii"
    BY <2>2, <2>3, DecodedIs
  <2>5. PICK g : g = Finding(f.class, f.chars + k)
    OBVIOUS
  <2>6. Adds(g, s, q)
    BY <1>4, <2>1, <2>5
  <2>7. Adds(Finding(ClassJoin(g.class, CharClass(s, q)), g.chars + 1), s, q + SeqLen(At(s, q)))
    BY <2>2, <2>3, <2>6, AddsChar
  <2>8. g.class = f.class /\ g.chars + 1 = f.chars + (k + 1) /\ q + 1 = p + (k + 1)
    BY <1>1, <2>1, <2>5 DEF Finding
  <2>9. ClassJoin(f.class, "Ascii") = f.class
    BY <1>1, JoinBracketed
  <2>10. Adds(Finding(f.class, f.chars + (k + 1)), s, p + (k + 1))
    BY <2>3, <2>4, <2>7, <2>8, <2>9
  <2> QED
    BY <1>2, <2>10
<1>5. \A k \in 0..n : k \in S
  <2> HIDE DEF S
  <2> QED
    BY <1>3, <1>4, UpTo
<1>6. n \in 0..n /\ p + n = m
  BY <1>1, <1>2
<1> QED
  BY <1>2, <1>5, <1>6

(* At the end what has been read is the classification.                    *)
LEMMA AddsAtEnd ==
  ASSUME NEW s \in Text, NEW f, Adds(f, s, Len(s))
  PROVE  f.class = ClassifyFull(s).class /\ f.chars = ClassifyFull(s).chars
<1>1. Tells(Merged(f, Finding("Ascii", 0)), s, 0)
  BY TellsAtEnd DEF Adds
<1>2. f.class \in Terminal /\ f.chars \in Nat
  BY DEF Adds
<1>3. ClassJoin(f.class, "Ascii") = f.class
  BY <1>2, JoinBracketed
<1>4. f.chars + 0 = f.chars
  BY <1>2
<1>5. Merged(f, Finding("Ascii", 0)) = Finding(f.class, f.chars)
  BY <1>3, <1>4 DEF Merged, Finding
<1>6. Tells(ClassifyFull(s), s, 0)
  BY ClassifyTells
<1>7. Finding(f.class, f.chars).class = f.class /\ Finding(f.class, f.chars).chars = f.chars
  BY DEF Finding
<1> QED
  BY <1>1, <1>5, <1>6, <1>7, TellsOnce

(* Where a walk is stuck the whole text is malformed.                      *)
LEMMA AddsStuck ==
  ASSUME NEW s \in Text, NEW p \in Places(s), NEW f, Adds(f, s, p), ~Decodes(s, p)
  PROVE  ClassifyFull(s).class = "MalformedUtf8" /\ ClassifyFull(s).chars = 0
<1>1. PICK g : g = Merged(f, Finding("MalformedUtf8", 0))
  OBVIOUS
<1>2. Tells(g, s, 0)
  BY <1>1, TellsStuck DEF Adds
<1>3. g.class = "MalformedUtf8" /\ g.chars = 0
  <2>1. ClassJoin(f.class, "MalformedUtf8") = "MalformedUtf8"
    BY JoinBracketed DEF Adds
  <2> QED
    BY <1>1, <2>1 DEF Merged, Finding
<1>4. Tells(ClassifyFull(s), s, 0)
  BY ClassifyTells
<1> QED
  BY <1>2, <1>3, <1>4, TellsOnce

-----------------------------------------------------------------------------
(* What a text made of pieces is.                                          *)

(* A piece of one character is that character wherever it is.              *)
LEMMA CharacterAt ==
  ASSUME NEW u \in Text, ClassifyFull(u).class # "MalformedUtf8", ClassifyFull(u).chars = 1,
         NEW s \in Text, NEW d \in Nat, Window(u, s, d)
  PROVE  /\ d \in Places(s) /\ Decodes(s, d) /\ SeqLen(At(s, d)) = Len(u)
         /\ CharClass(s, d) = ClassifyFull(u).class
<1>1. Tells(ClassifyFull(u), u, 0) /\ Len(u) \in Nat
  BY ClassifyTells, ByteAt
<1>2. Sound(u, 0) /\ Cardinality(Leads(u, 0)) = 1
  BY <1>1 DEF Tells
<1>3. 0 \in Places(u)
  <2>1. CASE Len(u) = 0
    <3>1. Leads(u, 0) = {}
      BY <2>1 DEF Leads
    <3> QED
      BY <1>2, <3>1, FS_EmptySet
  <2> QED
    BY <1>1, <2>1 DEF Places
<1>4. Decodes(u, 0)
  BY <1>2, <1>3, TellsStuck, <1>1 DEF Tells, Finding
<1>5. PICK m : m = 0 + SeqLen(At(u, 0))
  OBVIOUS
<1>6. m \in 1..Len(u) /\ Leads(u, 0) = Leads(u, m) \cup {0} /\ 0 \notin Leads(u, m) /\ Sound(u, m)
  <2>1. 0 + 1 = 1
    OBVIOUS
  <2> QED
    BY <1>2, <1>3, <1>4, <1>5, <2>1, SoundOn
<1>7. m = Len(u)
  <2>1. Cardinality(Leads(u, m)) = 0
    <3>1. m \in Nat
      BY <1>6
    <3>2. IsFiniteSet(Leads(u, m)) /\ Cardinality(Leads(u, m)) \in Nat
      BY <3>1, LeadsFinite
    <3>3. Cardinality(Leads(u, m) \cup {0}) = Cardinality(Leads(u, m)) + 1
      BY <1>6, <3>2, FS_AddElement
    <3>4. PICK k \in Nat : k = Cardinality(Leads(u, m))
      BY <3>2
    <3>5. k + 1 = 1
      BY <1>2, <1>6, <3>3, <3>4
    <3> QED
      BY <3>4, <3>5
  <2>2. SUFFICES ASSUME m # Len(u) PROVE FALSE
    OBVIOUS
  <2>3. Leads(u, m) = {}
    <3>1. m \in Nat
      BY <1>6
    <3> QED
      BY <2>1, <3>1, LeadsFinite, FS_EmptySet
  <2>4. m \in m..(Len(u) - 1)
    BY <1>1, <1>6, <2>2
  <2>5. m \notin Leads(u, m)
    BY <2>3
  <2>6. IsContinuation(At(u, m))
    BY <2>4, <2>5 DEF Leads
  <2> QED
    BY <1>6, <2>3, <2>4, <2>6 DEF Sound
<1>8. SeqLen(At(u, 0)) = Len(u)
  <2>1. At(u, 0) \in Byte
    BY <1>3, ByteAt
  <2>2. SeqLen(At(u, 0)) \in {0, 1, 2, 3, 4, 5, 6, 7, 13}
    BY <2>1, SeqLenIs
  <2>3. SeqLen(At(u, 0)) \in Nat
    BY <2>2
  <2> QED
    BY <1>5, <1>7, <2>3
<1>9. CharClass(u, 0) = ClassifyFull(u).class
  <2>1. PICK k : k = CharClass(u, 0) /\ k \in Terminal
    BY <1>3, <1>4, DecodedIs
  <2>2. Tells(Finding("Ascii", 0), u, 0 + SeqLen(At(u, 0)))
    BY <1>5, <1>7, TellsAtEnd
  <2>3. PICK rest : rest = Finding("Ascii", 0)
    OBVIOUS
  <2>4. Tells(Finding(ClassJoin(k, rest.class), IF rest.class = "MalformedUtf8" THEN 0 ELSE rest.chars + 1), u, 0)
    BY <1>3, <1>4, <2>1, <2>2, <2>3, TellsOn
  <2>5. PICK c : c = Finding(ClassJoin(k, rest.class), IF rest.class = "MalformedUtf8" THEN 0 ELSE rest.chars + 1)
    OBVIOUS
  <2>6. c.class = ClassifyFull(u).class
    BY <1>1, <2>4, <2>5, TellsOnce
  <2>7. c.class = ClassJoin(k, "Ascii")
    BY <2>3, <2>5 DEF Finding
  <2>8. ClassJoin(k, "Ascii") = k
    BY <2>1, JoinBracketed
  <2> QED
    BY <2>1, <2>6, <2>7, <2>8
<1>10. d + 0 = d
  OBVIOUS
<1>11. /\ d + 0 \in Places(s) /\ At(u, 0) = At(s, d + 0)
       /\ Decodes(s, d + 0) /\ CharClass(s, d + 0) = CharClass(u, 0)
  BY <1>3, <1>4, WindowDecodes
<1> QED
  BY <1>8, <1>9, <1>10, <1>11

(* What no reading accepts is not accepted where nothing completes it.     *)
LEMMA MalformedAt ==
  ASSUME NEW u \in Text, ClassifyFull(u).class = "MalformedUtf8",
         NEW s \in Text, NEW d \in Nat, Window(u, s, d),
         d + Len(u) < Len(s) => ~IsContinuation(At(s, d + Len(u)))
  PROVE  Tells(Finding("MalformedUtf8", 0), s, d)
<1>1. Tells(ClassifyFull(u), u, 0)
  BY ClassifyTells
<1>2. ~Sound(u, 0)
  BY <1>1 DEF Tells
<1>3. ~Sound(s, d)
  <2>1. SUFFICES ASSUME Sound(s, d) PROVE FALSE
    OBVIOUS
  <2>2. PICK e \in 0..d : e = d
    OBVIOUS
  <2>3. Sound(u, 0)
    BY <2>1, <2>2, WindowSoundFrom
  <2> QED
    BY <1>2, <2>3
<1> QED
  BY <1>3 DEF Tells, Finding, Terminal

(* The bytes of the pieces, and their classes.                             *)
LEMMA PieceOf ==
  ASSUME NEW ps \in Texts
  PROVE  /\ Len(ps) \in Nat /\ DOMAIN ps = 1..Len(ps)
         /\ [i \in DOMAIN ps |-> ps[i].bytes] \in [1..Len(ps) -> Text]
         /\ \A i \in 1..Len(ps) :
              /\ ps[i].bytes \in Text /\ Len(ps[i].bytes) \in Nat \ {0} /\ ps[i].class \in Terminal
              /\ ClassifyFull(ps[i].bytes).class = ps[i].class
              /\ ps[i].class # "MalformedUtf8" => ClassifyFull(ps[i].bytes).chars = 1
         /\ \A i \in 1..(Len(ps) - 1) : ps[i].class = "MalformedUtf8" => ~IsContinuation(At(ps[i + 1].bytes, 0))
<1>1. PICK n \in 0..MaxPieces : ps \in [1..n -> Pieces]
  BY DEF Texts
<1>2. n \in Nat
  BY WalkAssumption
<1>3. ps \in Seq(Pieces)
  BY <1>1, <1>2
<1>4. Len(ps) = n /\ DOMAIN ps = 1..n
  BY <1>1, <1>2, <1>3, LenProperties
<1>5. ASSUME NEW i \in 1..n
      PROVE  /\ ps[i].bytes \in Text /\ Len(ps[i].bytes) \in Nat \ {0} /\ ps[i].class \in Terminal
             /\ ClassifyFull(ps[i].bytes).class = ps[i].class
             /\ ps[i].class # "MalformedUtf8" => ClassifyFull(ps[i].bytes).chars = 1
  <2>1. PICK p \in Pieces : p = ps[i]
    BY <1>1
  <2>2. p.bytes \in Seq(0..255) \ {<<>>} /\ p.class = ClassifyFull(p.bytes).class
        /\ (ClassifyFull(p.bytes).class # "MalformedUtf8" => ClassifyFull(p.bytes).chars = 1)
    BY PiecesAssumption
  <2>3. PICK b \in Text : b = p.bytes /\ b # <<>>
    BY <2>2 DEF Text, Byte
  <2>4. Len(b) \in Nat /\ Len(b) # 0
    BY <2>3, EmptySeq, ByteAt DEF Text
  <2>5. ClassifyFull(b).class \in Terminal
    BY ClassifyTells DEF Tells
  <2> QED
    BY <2>1, <2>2, <2>3, <2>4, <2>5
<1>6. ASSUME NEW i \in 1..(n - 1), ps[i].class = "MalformedUtf8" PROVE ~IsContinuation(At(ps[i + 1].bytes, 0))
  <2>1. Apart(ps[i], ps[i + 1])
    BY <1>4 DEF Texts
  <2>2. PICK q : q = ps[i + 1].bytes
    OBVIOUS
  <2>3. ~IsContinuation(Head(q))
    BY <1>6, <2>1, <2>2 DEF Apart
  <2>4. Head(q) = At(q, 0)
    <3>1. 0 + 1 = 1
      OBVIOUS
    <3> QED
      BY <3>1 DEF At
  <2> QED
    BY <2>2, <2>3, <2>4
<1>7. [i \in DOMAIN ps |-> ps[i].bytes] \in [1..n -> Text]
  BY <1>4, <1>5
<1> QED
  BY <1>2, <1>4, <1>5, <1>6, <1>7

(* Of the pieces behind the first i, c has the greatest class, and their   *)
(* number.                                                                 *)
Sums(c, ps, i) ==
  /\ c.class \in {"Ascii"} \cup {ps[j].class : j \in (i + 1)..Len(ps)}
  /\ \A j \in (i + 1)..Len(ps) : Rank(ps[j].class) <= Rank(c.class)
  /\ c.class # "MalformedUtf8" => c.chars = Len(ps) - i

(* What follows a piece tells what it amounts to with it.                  *)
LEMMA SumsOn ==
  ASSUME NEW ps \in Texts, NEW i \in 1..Len(ps), NEW s \in Text, NEW d \in Nat, NEW c,
         Window(ps[i].bytes, s, d), Tells(c, s, d + Len(ps[i].bytes)), Sums(c, ps, i),
         i = Len(ps) => d + Len(ps[i].bytes) = Len(s),
         i # Len(ps) => At(s, d + Len(ps[i].bytes)) = At(ps[i + 1].bytes, 0)
  PROVE  \E a : Tells(a, s, d) /\ Sums(a, ps, i - 1)
<1>1. PICK n \in Nat : n = Len(ps)
  BY PieceOf
<1>2. PICK u \in Text, k \in Terminal : u = ps[i].bytes /\ k = ps[i].class
  BY PieceOf
<1>3. ClassifyFull(u).class = k /\ (k # "MalformedUtf8" => ClassifyFull(u).chars = 1)
  BY <1>2, PieceOf
<1>4. c.class \in Terminal /\ c.chars \in Nat /\ (c.class = "MalformedUtf8" => c.chars = 0)
  BY DEF Tells
<1>5. \A j \in ((i - 1) + 1)..n : j = i \/ j \in (i + 1)..n
  BY <1>1
<1>6. i \in ((i - 1) + 1)..n /\ \A j \in (i + 1)..n : j \in ((i - 1) + 1)..n
  BY <1>1
<1>7. CASE k = "MalformedUtf8"
  <2>1. d + Len(u) < Len(s) => ~IsContinuation(At(s, d + Len(u)))
    <3>1. SUFFICES ASSUME d + Len(u) < Len(s) PROVE ~IsContinuation(At(s, d + Len(u)))
      OBVIOUS
    <3>2. Len(s) \in Nat /\ Len(u) \in Nat
      BY ByteAt
    <3>3. i # Len(ps)
      BY <1>2, <3>1, <3>2
    <3>4. i \in 1..(Len(ps) - 1)
      BY <1>1, <3>3
    <3> QED
      BY <1>2, <1>7, <3>3, <3>4, PieceOf
  <2>2. Tells(Finding("MalformedUtf8", 0), s, d)
    BY <1>2, <1>3, <1>7, <2>1, MalformedAt
  <2>3. PICK a : a = Finding("MalformedUtf8", 0) /\ a.class = "MalformedUtf8"
    <3>1. Finding("MalformedUtf8", 0).class = "MalformedUtf8"
      BY DEF Finding
    <3> QED
      BY <3>1
  <2>4. \A j \in ((i - 1) + 1)..n : ps[j].class \in Terminal
    BY <1>1, PieceOf
  <2>5. \A x \in Terminal : Rank(x) <= Rank("MalformedUtf8")
    BY RankIs
  <2>6. a.class \in {ps[j].class : j \in ((i - 1) + 1)..n}
    BY <1>2, <1>6, <1>7, <2>3
  <2>7. Sums(a, ps, i - 1)
    BY <1>1, <2>3, <2>4, <2>5, <2>6 DEF Sums
  <2> QED
    BY <2>2, <2>3, <2>7
<1>8. CASE k # "MalformedUtf8"
  <2>1. /\ d \in Places(s) /\ Decodes(s, d) /\ SeqLen(At(s, d)) = Len(u) /\ CharClass(s, d) = k
    BY <1>2, <1>3, <1>8, CharacterAt
  <2>2. PICK a : a = Finding(ClassJoin(k, c.class), IF c.class = "MalformedUtf8" THEN 0 ELSE c.chars + 1)
    OBVIOUS
  <2>3. Tells(a, s, d)
    BY <1>2, <2>1, <2>2, TellsOn
  <2>4. a.class = ClassJoin(k, c.class) /\ (c.class # "MalformedUtf8" => a.chars = c.chars + 1)
    BY <2>2 DEF Finding
  <2>5. PICK x \in Terminal : x = c.class
    BY <1>4
  <2>6. a.class \in {k, x} /\ Rank(k) <= Rank(a.class) /\ Rank(x) <= Rank(a.class)
    BY <2>4, <2>5, JoinIs
  <2>7. a.class \in {"Ascii"} \cup {ps[j].class : j \in ((i - 1) + 1)..n}
    <3>1. CASE a.class = k
      BY <1>2, <1>6, <3>1
    <3>2. CASE a.class = x
      <4>1. x \in {"Ascii"} \cup {ps[j].class : j \in (i + 1)..n}
        BY <1>1, <2>5 DEF Sums
      <4> QED
        BY <1>6, <3>2, <4>1
    <3> QED
      BY <2>6, <3>1, <3>2
  <2>8. \A j \in ((i - 1) + 1)..n : Rank(ps[j].class) <= Rank(a.class)
    <3>1. a.class \in Terminal
      BY <2>6
    <3>2. Rank(a.class) \in 0..4 /\ Rank(x) \in 0..4
      BY <3>1, RankIs
    <3>3. ASSUME NEW j \in ((i - 1) + 1)..n PROVE Rank(ps[j].class) <= Rank(a.class)
      <4>1. CASE j = i
        BY <1>2, <2>6, <4>1
      <4>2. CASE j \in (i + 1)..n
        <5>1. ps[j].class \in Terminal
          BY <1>1, <4>2, PieceOf
        <5>2. Rank(ps[j].class) \in 0..4
          BY <5>1, RankIs
        <5>3. Rank(ps[j].class) <= Rank(x)
          BY <1>1, <2>5, <4>2 DEF Sums
        <5> QED
          BY <2>6, <3>2, <5>2, <5>3
      <4> QED
        BY <1>5, <4>1, <4>2
    <3> QED
      BY <3>3
  <2>9. a.class # "MalformedUtf8" => a.chars = n - (i - 1)
    <3>1. SUFFICES ASSUME a.class # "MalformedUtf8" PROVE a.chars = n - (i - 1)
      OBVIOUS
    <3>2. x # "MalformedUtf8"
      BY <2>4, <2>5, <3>1, JoinBracketed
    <3>3. c.chars = n - i
      BY <1>1, <2>5, <3>2 DEF Sums
    <3> QED
      BY <1>1, <2>4, <2>5, <3>2, <3>3
  <2>10. Sums(a, ps, i - 1)
    BY <1>1, <2>7, <2>8, <2>9 DEF Sums
  <2> QED
    BY <2>3, <2>10
<1> QED
  BY <1>7, <1>8

(* The truth of a text is the classification.                              *)
LEMMA TruthIs ==
  ASSUME NEW ps \in Texts, NEW s, s = FlattenSeq([i \in DOMAIN ps |-> ps[i].bytes])
  PROVE  s \in Text /\ TruthOf(ps) = ClassifyFull(s)
<1>1. PICK N \in Nat : N = Len(ps) /\ DOMAIN ps = 1..N
  BY PieceOf
<1>2. PICK W \in [1..N -> Text] : W = [i \in DOMAIN ps |-> ps[i].bytes]
  BY <1>1, PieceOf
<1>3. PICK f : Built(f, N, W) /\ s = f[N]
  BY <1>2, FlattenIs
<1>4. \A i \in 0..N : f[i] \in Text /\ Len(f[i]) \in Nat
  BY <1>3, ByteAt DEF Built
<1>5. s \in Text
  <2>1. N \in 0..N
    OBVIOUS
  <2> QED
    BY <1>3, <1>4, <2>1
<1>6. \A i \in 1..N : W[i] = ps[i].bytes
  BY <1>1, <1>2
<1> DEFINE S == {i \in 0..N : \E c : Tells(c, s, Len(f[i])) /\ Sums(c, ps, i)}
<1>7. ASSUME NEW i \in 0..N, \A j \in (i + 1)..N : j \in S PROVE i \in S
  <2>1. CASE i = N
    <3>1. PICK c : c = Finding("Ascii", 0) /\ c.class = "Ascii" /\ c.chars = 0
      <4>1. Finding("Ascii", 0).class = "Ascii" /\ Finding("Ascii", 0).chars = 0
        BY DEF Finding
      <4> QED
        BY <4>1
    <3>2. Tells(c, s, Len(f[i]))
      BY <1>3, <1>5, <2>1, <3>1, TellsAtEnd
    <3>3. \A j \in (i + 1)..N : FALSE
      BY <2>1
    <3>4. N - i = 0
      BY <2>1
    <3>5. Sums(c, ps, i)
      BY <1>1, <3>1, <3>3, <3>4 DEF Sums
    <3> QED
      BY <3>2, <3>5
  <2>2. CASE i # N
    <3>1. PICK n \in 1..N : n = i + 1 /\ n - 1 = i
      BY <2>2
    <3>2. n \in S
      BY <1>7, <3>1
    <3>3. PICK c : Tells(c, s, Len(f[n])) /\ Sums(c, ps, n)
      BY <3>2
    <3>4. PICK d \in Nat : d = Len(f[i])
      BY <1>4
    <3>5. Window(ps[n].bytes, s, d) /\ Len(f[n]) = d + Len(ps[n].bytes)
      <4>1. Window(W[n], f[N], Len(f[n - 1])) /\ Len(f[n]) = Len(f[n - 1]) + Len(W[n])
        BY <1>3, BuiltWindow
      <4> QED
        BY <1>3, <1>6, <3>1, <3>4, <4>1
    <3>6. n = N => d + Len(ps[n].bytes) = Len(s)
      BY <1>3, <3>5
    <3>7. ASSUME n # N PROVE At(s, d + Len(ps[n].bytes)) = At(ps[n + 1].bytes, 0)
      <4>1. PICK m \in 1..N : m = n + 1 /\ m - 1 = n
        BY <3>7
      <4>2. Window(W[m], f[N], Len(f[n])) /\ Len(f[n]) \in Nat
        BY <1>3, <4>1, BuiltWindow
      <4>3. W[m] \in Text /\ W[m] = ps[m].bytes /\ Len(ps[m].bytes) \in Nat \ {0}
        BY <1>1, <1>6, PieceOf
      <4>4. 0 \in Places(W[m]) /\ Len(f[n]) + 0 = Len(f[n])
        BY <4>2, <4>3 DEF Places
      <4>5. At(W[m], 0) = At(s, Len(f[n]))
        BY <1>3, <4>2, <4>4 DEF Window
      <4> QED
        BY <3>5, <4>1, <4>3, <4>5
    <3>8. \E a : Tells(a, s, d) /\ Sums(a, ps, n - 1)
      <4> HIDE DEF S
      <4> QED
        BY <1>1, <1>5, <3>3, <3>5, <3>6, <3>7, SumsOn
    <3> QED
      BY <3>1, <3>4, <3>8
  <2> QED
    BY <2>1, <2>2
<1>8. 0 \in S
  <2>1. \A i \in 0..N : i \in S
    <3> HIDE DEF S
    <3> QED
      BY <1>7, DownFrom
  <2>2. 0 \in 0..N
    OBVIOUS
  <2> HIDE DEF S
  <2> QED
    BY <2>1, <2>2
<1>9. PICK c : Tells(c, s, 0) /\ Sums(c, ps, 0)
  <2>1. Len(f[0]) = 0
    BY <1>3, NothingIs DEF Built
  <2> QED
    BY <1>8, <2>1
<1>10. c.class = ClassifyFull(s).class /\ c.chars = ClassifyFull(s).chars /\ c.class \in Terminal
  <2>1. Tells(ClassifyFull(s), s, 0)
    BY <1>5, ClassifyTells
  <2>2. c.class \in Terminal
    BY <1>9 DEF Tells
  <2> QED
    BY <1>5, <1>9, <2>1, <2>2, TellsOnce
<1> DEFINE classes == {"Ascii"} \cup {ps[i].class : i \in DOMAIN ps}
           Top(a) == \A b \in classes : ClassJoin(a, b) = a
<1>11. 0 + 1 = 1
  OBVIOUS
<1>12. c.class \in classes /\ \A b \in classes : b \in Terminal /\ Rank(b) <= Rank(c.class)
  <2>1. \A i \in 1..N : Rank(ps[i].class) <= Rank(c.class) /\ ps[i].class \in Terminal
    BY <1>1, <1>9, <1>11, PieceOf DEF Sums
  <2>2. Rank("Ascii") <= Rank(c.class) /\ "Ascii" \in Terminal
    <3>1. Rank("Ascii") = 0 /\ Rank(c.class) \in 0..4
      BY <1>10, RankIs
    <3> QED
      BY <3>1 DEF Terminal
  <2>3. c.class \in classes
    BY <1>1, <1>9, <1>11 DEF Sums
  <2> QED
    BY <1>1, <2>1, <2>2, <2>3
<1>13. \A a \in Terminal : \A b \in Terminal : ClassJoin(a, b) = a <=> Rank(b) <= Rank(a)
  <2> SUFFICES ASSUME NEW a \in Terminal, NEW b \in Terminal PROVE ClassJoin(a, b) = a <=> Rank(b) <= Rank(a)
    OBVIOUS
  <2>1. /\ ClassJoin(a, b) \in {a, b}
        /\ Rank(a) <= Rank(ClassJoin(a, b)) /\ Rank(b) <= Rank(ClassJoin(a, b))
    BY JoinIs
  <2>2. Rank(a) \in 0..4 /\ Rank(b) \in 0..4
    BY RankIs
  <2>3. \A x \in Terminal : \A y \in Terminal : Rank(x) = Rank(y) => x = y
    BY RankIs DEF Terminal
  <2>4. CASE ClassJoin(a, b) = a
    BY <2>1, <2>4
  <2>5. CASE ClassJoin(a, b) = b
    <3>1. Rank(b) <= Rank(a) => Rank(a) = Rank(b)
      BY <2>1, <2>2, <2>5
    <3> QED
      BY <2>1, <2>3, <2>5, <3>1
  <2> QED
    BY <2>1, <2>4, <2>5
<1> HIDE DEF classes
<1>14. Top(c.class)
  BY <1>10, <1>12, <1>13
<1>15. PICK t : t = CHOOSE a \in classes : Top(a)
  OBVIOUS
<1>16. t \in classes /\ Top(t)
  <2> HIDE DEF Top
  <2> QED
    BY <1>12, <1>14, <1>15
<1>17. t = c.class
  <2>1. Rank(c.class) <= Rank(t) /\ Rank(t) <= Rank(c.class) /\ t \in Terminal
    BY <1>10, <1>12, <1>13, <1>16
  <2>2. Rank(t) \in 0..4 /\ Rank(c.class) \in 0..4
    BY <1>10, <2>1, RankIs
  <2>3. \A x \in Terminal : \A y \in Terminal : Rank(x) = Rank(y) => x = y
    BY RankIs DEF Terminal
  <2> QED
    BY <1>10, <2>1, <2>2, <2>3
<1>18. TruthOf(ps) = Finding(t, IF t = "MalformedUtf8" THEN 0 ELSE N)
  BY <1>1, <1>15 DEF TruthOf, classes, Finding
<1>19. c.chars = IF t = "MalformedUtf8" THEN 0 ELSE N
  <2>1. t # "MalformedUtf8" => c.chars = N - 0
    BY <1>1, <1>9, <1>17 DEF Sums
  <2>2. t = "MalformedUtf8" => c.chars = 0
    BY <1>9, <1>17 DEF Tells
  <2> QED
    BY <2>1, <2>2
<1>20. ClassifyFull(s) = Finding(c.class, c.chars)
  BY <1>5, <1>10, ClassifyTells
<1> QED
  BY <1>5, <1>17, <1>18, <1>19, <1>20

(* A block ends past its place and within the text.                        *)
LEMMA BlockEndIs ==
  ASSUME NEW p \in Nat, NEW n \in Nat, p < n
  PROVE  BlockEnd(p, n) \in (p + 1)..n
<1>1. PICK B \in Nat \ {0} : B = Block
  BY WalkAssumption
<1>2. PICK q \in Nat : q = p \div B
  OBVIOUS
<1>3. PICK r \in Nat : r = p % B /\ r < B /\ p = B * q + r
  BY <1>2
<1>4. (q + 1) * B = B * q + B
  OBVIOUS
<1>5. PICK e \in Nat : e = (q + 1) * B /\ e > p
  <2>1. PICK m \in Nat : m = B * q
    OBVIOUS
  <2>2. (q + 1) * B = m + B /\ p = m + r
    BY <1>3, <1>4, <2>1
  <2>3. m + B \in Nat /\ m + B > m + r
    BY <1>3
  <2> QED
    BY <2>2, <2>3
<1>6. BlockEnd(p, n) = IF e < n THEN e ELSE n
  BY <1>1, <1>2, <1>5 DEF BlockEnd
<1> QED
  BY <1>5, <1>6

(* The numbers up to n of a set.                                           *)
Among(n, S) == {i \in 1..n : i \in S}

(* One number more.                                                        *)
LEMMA CountIs ==
  ASSUME NEW S, NEW n \in Nat
  PROVE  /\ IsFiniteSet(Among(n, S)) /\ Cardinality(Among(n, S)) \in Nat
         /\ Among(0, S) = {} /\ Cardinality(Among(0, S)) = 0
         /\ n + 1 \in S => Cardinality(Among(n + 1, S)) = Cardinality(Among(n, S)) + 1
         /\ n + 1 \notin S => Among(n + 1, S) = Among(n, S)
<1>1. IsFiniteSet(1..n) /\ Among(n, S) \in SUBSET (1..n)
  BY FS_Interval DEF Among
<1>2. IsFiniteSet(Among(n, S)) /\ Cardinality(Among(n, S)) \in Nat
  BY <1>1, FS_Subset, FS_CardinalityType
<1>3. Among(0, S) = {}
  BY DEF Among
<1>4. Cardinality(Among(0, S)) = 0
  BY <1>3, FS_EmptySet
<1>5. \A i \in 1..(n + 1) : i = n + 1 \/ i \in 1..n
  OBVIOUS
<1>6. \A i \in 1..n : i \in 1..(n + 1) /\ i # n + 1
  OBVIOUS
<1>7. n + 1 \in 1..(n + 1) /\ n + 1 \notin Among(n, S)
  BY DEF Among
<1>8. ASSUME n + 1 \in S PROVE Cardinality(Among(n + 1, S)) = Cardinality(Among(n, S)) + 1
  <2>1. Among(n + 1, S) = Among(n, S) \cup {n + 1}
    BY <1>5, <1>6, <1>7, <1>8 DEF Among
  <2> QED
    BY <1>2, <1>7, <2>1, FS_AddElement
<1>9. ASSUME n + 1 \notin S PROVE Among(n + 1, S) = Among(n, S)
  BY <1>5, <1>6, <1>9 DEF Among
<1> QED
  BY <1>2, <1>3, <1>4, <1>8, <1>9

(* Counts of two parts add up.                                             *)
LEMMA CountShift ==
  ASSUME NEW S, NEW T, NEW p \in Nat, NEW n \in Nat, \A k \in 1..n : k \in T <=> p + k \in S
  PROVE  Cardinality(Among(p + n, S)) = Cardinality(Among(p, S)) + Cardinality(Among(n, T))
<1> DEFINE Q == {k \in 0..n : Cardinality(Among(p + k, S)) = Cardinality(Among(p, S)) + Cardinality(Among(k, T))}
<1>1. 0 \in Q
  <2>1. Cardinality(Among(0, T)) = 0 /\ Cardinality(Among(p, S)) \in Nat /\ p + 0 = p
    BY CountIs
  <2>2. PICK c \in Nat : c = Cardinality(Among(p, S))
    BY <2>1
  <2>3. c = c + 0
    OBVIOUS
  <2> QED
    BY <2>1, <2>2, <2>3
<1>2. ASSUME NEW k \in 0..(n - 1), k \in Q PROVE k + 1 \in Q
  <2>1. PICK q \in Nat : q = p + k /\ q + 1 = p + (k + 1)
    OBVIOUS
  <2>2. k + 1 \in T <=> q + 1 \in S
    <3>1. k + 1 \in 1..n
      OBVIOUS
    <3> QED
      BY <2>1, <3>1
  <2>3. PICK a \in Nat, b \in Nat, c \in Nat :
          a = Cardinality(Among(p, S)) /\ b = Cardinality(Among(k, T)) /\ c = Cardinality(Among(q, S))
    <3>1. k \in Nat
      OBVIOUS
    <3> QED
      BY <3>1, CountIs
  <2>4. c = a + b
    BY <1>2, <2>1, <2>3
  <2>5. CASE q + 1 \in S
    <3>1. Cardinality(Among(q + 1, S)) = c + 1
      BY <2>3, <2>5, CountIs
    <3>2. Cardinality(Among(k + 1, T)) = b + 1
      BY <2>2, <2>3, <2>5, CountIs
    <3>3. c + 1 = a + (b + 1)
      BY <2>4
    <3> QED
      BY <2>1, <2>3, <3>1, <3>2, <3>3
  <2>6. CASE q + 1 \notin S
    <3>1. Among(q + 1, S) = Among(q, S)
      BY <2>6, CountIs
    <3>2. Among(k + 1, T) = Among(k, T)
      BY <2>2, <2>6, CountIs
    <3> QED
      BY <2>1, <2>3, <2>4, <3>1, <3>2
  <2> QED
    BY <2>5, <2>6
<1>3. \A k \in 0..n : k \in Q
  <2> HIDE DEF Q
  <2> QED
    BY <1>1, <1>2, UpTo
<1>4. n \in 0..n
  OBVIOUS
<1> QED
  BY <1>3, <1>4

(* The places, counted from one, where a character starts.                 *)
Heads(s) == {i \in 1..Len(s) : ~IsContinuation(s[i])}

(* They are as many as the leads.                                          *)
LEMMA HeadsAreLeads ==
  ASSUME NEW s \in Text
  PROVE  Cardinality(Among(Len(s), Heads(s))) = Cardinality(Leads(s, 0))
<1>1. PICK N \in Nat : N = Len(s)
  BY ByteAt
<1> DEFINE L(n) == {i \in 0..(n - 1) : ~IsContinuation(At(s, i))}
           Q == {n \in 0..N : IsFiniteSet(L(n)) /\ Cardinality(L(n)) = Cardinality(Among(n, Heads(s)))}
<1>2. 0 \in Q
  <2>1. L(0) = {}
    OBVIOUS
  <2> QED
    BY <2>1, FS_EmptySet, CountIs
<1>3. ASSUME NEW n \in 0..(N - 1), n \in Q PROVE n + 1 \in Q
  <2>1. n + 1 \in Heads(s) <=> ~IsContinuation(At(s, n))
    BY <1>1 DEF Heads, At
  <2>2. \A i \in 0..((n + 1) - 1) : i = n \/ i \in 0..(n - 1)
    OBVIOUS
  <2>3. n \in 0..((n + 1) - 1) /\ \A i \in 0..(n - 1) : i \in 0..((n + 1) - 1) /\ i # n
    OBVIOUS
  <2>4. IsFiniteSet(L(n)) /\ Cardinality(L(n)) = Cardinality(Among(n, Heads(s)))
    BY <1>3
  <2>5. CASE n + 1 \in Heads(s)
    <3>1. L(n + 1) = L(n) \cup {n} /\ n \notin L(n)
      BY <2>1, <2>2, <2>3, <2>5
    <3>2. IsFiniteSet(L(n + 1)) /\ Cardinality(L(n + 1)) = Cardinality(L(n)) + 1
      <4> HIDE DEF L
      <4> QED
        BY <2>4, <3>1, FS_AddElement
    <3>3. Cardinality(Among(n + 1, Heads(s))) = Cardinality(Among(n, Heads(s))) + 1
      <4>1. n \in Nat
        OBVIOUS
      <4> QED
        BY <2>5, <4>1, CountIs
    <3> QED
      BY <2>4, <3>2, <3>3
  <2>6. CASE n + 1 \notin Heads(s)
    <3>1. L(n + 1) = L(n)
      BY <2>1, <2>2, <2>3, <2>6
    <3>2. Among(n + 1, Heads(s)) = Among(n, Heads(s))
      <4>1. n \in Nat
        OBVIOUS
      <4> QED
        BY <2>6, <4>1, CountIs
    <3>3. IsFiniteSet(L(n + 1)) /\ Cardinality(L(n + 1)) = Cardinality(Among(n + 1, Heads(s)))
      <4> HIDE DEF L
      <4> QED
        BY <2>4, <3>1, <3>2
    <3> QED
      BY <3>3
  <2> QED
    BY <2>5, <2>6
<1>4. N \in Q
  <2>1. \A n \in 0..N : n \in Q
    <3> HIDE DEF Q
    <3> QED
      BY <1>2, <1>3, UpTo
  <2> QED
    BY <2>1
<1>5. L(N) = Leads(s, 0)
  BY <1>1 DEF Leads
<1> QED
  BY <1>1, <1>4, <1>5

(* The code point of a form of three or four bytes is a number.            *)
LEMMA ValueIsNumber ==
  ASSUME NEW c \in Text, NEW n \in {3, 4}, Len(c) = n
  PROVE  Value(c) \in Int
<1> DEFINE E(f) == [k \in 0..n - 1 |->
                      IF k = 0 THEN At(c, 0) - LeadBase[n] ELSE f[k - 1] * 64 + (At(c, k) % 64)]
           v0 == At(c, 0) - LeadBase[n]
           v1 == v0 * 64 + (At(c, 1) % 64)
           v2 == v1 * 64 + (At(c, 2) % 64)
           v3 == v2 * 64 + (At(c, 3) % 64)
           f == [k \in 0..n - 1 |-> IF k = 0 THEN v0 ELSE IF k = 1 THEN v1 ELSE IF k = 2 THEN v2 ELSE v3]
<1>1. f = E(f)
  <2>1. \A k \in 0..n - 1 : k = 0 \/ k = 1 \/ k = 2 \/ k = 3
    OBVIOUS
  <2>2. 0 \in 0..n - 1 /\ 1 \in 0..n - 1 /\ 2 \in 0..n - 1
    OBVIOUS
  <2> HIDE DEF v0, v1, v2, v3
  <2>3. f[0] = v0 /\ f[1] = v1 /\ f[2] = v2
    BY <2>2
  <2>4. ASSUME NEW k \in 0..n - 1
        PROVE  f[k] = IF k = 0 THEN At(c, 0) - LeadBase[n] ELSE f[k - 1] * 64 + (At(c, k) % 64)
    <3>1. CASE k = 0
      BY <2>3, <3>1 DEF v0
    <3>2. CASE k = 1
      <4>1. k - 1 = 0 /\ k # 0 /\ f[k] = v1
        BY <3>2
      <4> HIDE DEF f
      <4> QED
        BY <2>3, <3>2, <4>1 DEF v1
    <3>3. CASE k = 2
      <4>1. k - 1 = 1 /\ k # 0 /\ f[k] = v2
        BY <3>3
      <4> HIDE DEF f
      <4> QED
        BY <2>3, <3>3, <4>1 DEF v2
    <3>4. CASE k = 3
      <4>1. k - 1 = 2 /\ k # 0 /\ f[k] = v3
        BY <3>4
      <4> HIDE DEF f
      <4> QED
        BY <2>3, <3>4, <4>1 DEF v3
    <3> QED
      BY <2>1, <3>1, <3>2, <3>3, <3>4
  <2> QED
    BY <2>4
<1>2. PICK q : q = CHOOSE g : g = E(g)
  OBVIOUS
<1>3. q = E(q)
  <2> HIDE DEF E, f
  <2> QED
    BY <1>1, <1>2
<1>4. Value(c) = q[n - 1]
  BY <1>2 DEF Value
<1>5. \A k \in 0..n - 1 : q[k] = IF k = 0 THEN At(c, 0) - LeadBase[n] ELSE q[k - 1] * 64 + (At(c, k) % 64)
  BY <1>3
<1>6. \A k \in 0..n - 1 : At(c, k) \in Int
  <2>1. \A k \in 0..n - 1 : At(c, k) \in Byte
    BY ByteAt DEF Places
  <2>2. \A b \in Byte : b \in Int
    BY DEF Byte
  <2> QED
    BY <2>1, <2>2
<1>7. LeadBase[n] \in Int
  BY DEF LeadBase
<1> DEFINE S == {k \in 0..n - 1 : q[k] \in Int}
<1>8. 0 \in S
  BY <1>5, <1>6, <1>7
<1>9. ASSUME NEW k \in 0..((n - 1) - 1), k \in S PROVE k + 1 \in S
  <2>1. k + 1 \in 0..n - 1 /\ k + 1 # 0 /\ (k + 1) - 1 = k
    OBVIOUS
  <2>2. q[k + 1] = q[k] * 64 + (At(c, k + 1) % 64)
    BY <1>5, <2>1
  <2> QED
    BY <1>6, <1>9, <2>1, <2>2
<1>10. n - 1 \in Nat
  OBVIOUS
<1>11. \A k \in 0..(n - 1) : k \in S
  <2>1. PICK m \in Nat : m = n - 1
    BY <1>10
  <2> HIDE DEF S
  <2>2. \A k \in 0..(m - 1) : k \in S => k + 1 \in S
    BY <1>9, <2>1
  <2>3. \A k \in 0..m : k \in S
    BY <1>8, <2>2, UpTo
  <2> QED
    BY <2>1, <2>3
<1>12. n - 1 \in 0..(n - 1)
  OBVIOUS
<1> QED
  BY <1>4, <1>11, <1>12

(* A character is past Latin-1 by its first byte.                          *)
LEMMA CharRange ==
  ASSUME NEW s \in Text, NEW p \in Places(s), Decodes(s, p)
  PROVE  Rank(CharClass(s, p)) <= 1 <=> At(s, p) < 196
<1>1. PICK n \in {1, 2, 3, 4, 5, 6, 7, 13}, b \in Byte : n = SeqLen(At(s, p)) /\ b = At(s, p) /\ n = SeqLen(b)
  <2>1. At(s, p) \in Byte
    BY ByteAt
  <2>2. SeqLen(At(s, p)) \in {0, 1, 2, 3, 4, 5, 6, 7, 13} /\ SeqLen(At(s, p)) # 0
    BY <2>1, DecodedIs, SeqLenIs
  <2> QED
    BY <2>1, <2>2
<1>2. p \in Nat /\ p + n <= Len(s) /\ Len(s) \in Nat
  BY <1>1, DecodedIs, ByteAt DEF Places
<1>3. PICK e \in Nat : e = p + n /\ p <= e /\ e <= Len(s)
  BY <1>2
<1>4. PICK c \in Text : /\ c = Bytes(s, p, e) /\ Len(c) = e - p
                        /\ \A i \in 0..(e - p - 1) : At(c, i) = At(s, p + i)
  <2>1. /\ Bytes(s, p, e) \in Text /\ Len(Bytes(s, p, e)) = e - p
        /\ \A i \in 0..(e - p - 1) : At(Bytes(s, p, e), i) = At(s, p + i)
    BY <1>2, <1>3, PartIs
  <2> QED
    BY <2>1
<1>5. c = Sequence(s, p) /\ Len(c) = n /\ At(c, 0) = b
  <2>1. Len(c) = e - p /\ \A i \in 0..(e - p - 1) : At(c, i) = At(s, p + i)
    BY <1>4
  <2>2. e - p = n /\ 0 \in 0..(e - p - 1) /\ p + 0 = p
    BY <1>2, <1>3
  <2>3. c = Sequence(s, p)
    BY <1>1, <1>3, <1>4 DEF Sequence
  <2> QED
    BY <1>1, <2>1, <2>2, <2>3
<1>6. PICK k : k = CharClass(s, p) /\ k = ClassOf(c)
  BY <1>5 DEF CharClass
<1>7. IsMinimal(c)
  BY <1>5 DEF Decodes, WellFormed
<1>8. /\ n = 1 => b < 128
      /\ n = 2 => b \in 192..223
      /\ n > 2 => b >= 224
  <2>1. n = 1 <=> b < 128
    BY <1>1, SeqLenIs
  <2>2. n = 2 <=> b \in 192..223
    BY <1>1, SeqLenIs
  <2>3. ~IsContinuation(b)
    BY <1>1, SeqLenIs
  <2>4. b \notin 128..191
    BY <2>3, SeqLenIs
  <2> QED
    BY <2>1, <2>2, <2>4 DEF Byte
<1>9. CASE n = 1
  <2>1. k = "Ascii" /\ b < 196
    BY <1>5, <1>6, <1>8, <1>9 DEF ClassOf, Byte
  <2> QED
    BY <1>1, <1>6, <2>1, RankIs
<1>10. CASE n = 2
  <2>1. PICK m \in 0..63 : Value(c) = (b - 192) * 64 + m
    <3>1. PICK x \in Byte : x = At(c, 1)
      <4>1. 1 \in Places(c)
        BY <1>5, <1>10 DEF Places
      <4> QED
        BY <4>1, ByteAt
    <3>2. x % 64 \in 0..63
      BY DEF Byte
    <3> QED
      BY <1>5, <1>10, <3>1, <3>2, ValueOfTwo
  <2>2. b \in 192..223
    BY <1>8, <1>10
  <2>3. PICK cp \in Nat : cp = Value(c) /\ cp <= 2047 /\ (cp > 255 <=> b >= 196)
    <3>1. (b - 192) * 64 + m \in Nat
      BY <2>2
    <3>2. (b - 192) * 64 + m <= 2047
      BY <2>2
    <3>3. (b - 192) * 64 + m > 255 <=> b >= 196
      BY <2>2
    <3> QED
      BY <2>1, <3>1, <3>2, <3>3
  <2>4. k = IF cp > 255 THEN "Utf8NonLatin1" ELSE "Utf8Latin1"
    BY <1>5, <1>6, <1>10, <2>3 DEF ClassOf
  <2>5. CASE b >= 196
    <3>1. k = "Utf8NonLatin1" /\ ~(b < 196)
      BY <2>2, <2>3, <2>4, <2>5
    <3> QED
      BY <1>1, <1>6, <3>1, RankIs
  <2>6. CASE ~(b >= 196)
    <3>1. k = "Utf8Latin1" /\ b < 196
      BY <2>2, <2>3, <2>4, <2>6
    <3> QED
      BY <1>1, <1>6, <3>1, RankIs
  <2> QED
    BY <2>5, <2>6
<1>11. CASE n > 2
  <2>1. ~(b < 196)
    BY <1>8, <1>11 DEF Byte
  <2>2. k \in {"ExtendedUtf8", "Utf8NonLatin1"}
    <3>1. CASE n > 4
      BY <1>5, <1>6, <3>1 DEF ClassOf
    <3>2. CASE n \in {3, 4}
      <4>1. PICK cp \in Int : cp = Value(c)
        BY <1>5, <3>2, ValueIsNumber
      <4>2. cp >= MinForLen[n]
        BY <1>5, <1>7, <3>2, <4>1 DEF IsMinimal
      <4>3. cp > 255
        BY <3>2, <4>2 DEF MinForLen
      <4> QED
        BY <1>5, <1>6, <3>2, <4>1, <4>3 DEF ClassOf
    <3> QED
      BY <1>11, <3>1, <3>2
  <2>3. Rank(k) \in {2, 3}
    BY <2>2, RankIs
  <2> QED
    BY <1>1, <1>6, <2>1, <2>3
<1> QED
  BY <1>9, <1>10, <1>11

(* The class of Rust-valid text by its bytes, and its characters counted   *)
(* by the bytes that continue none.                                        *)
LEMMA RangeIs ==
  ASSUME NEW s \in Text, ClassifyFull(s).class \in ValidRange
  PROVE  /\ ClassifyFull(s).class = "Ascii" <=> \A i \in 1..Len(s) : s[i] < 128
         /\ ClassifyFull(s).class = "Utf8NonLatin1" <=> \E i \in 1..Len(s) : s[i] >= 196
         /\ ClassifyFull(s).chars = Cardinality(Among(Len(s), Heads(s)))
<1>1. PICK N \in Nat : N = Len(s)
  BY ByteAt
<1>2. Tells(ClassifyFull(s), s, 0)
  BY ClassifyTells
<1>3. PICK c : c = ClassifyFull(s).class /\ c \in ValidRange
  OBVIOUS
<1>4. Sound(s, 0)
  BY <1>2, <1>3 DEF Tells, ValidRange
<1>5. \A i \in 1..N : i - 1 \in Places(s) /\ (i - 1) + 1 = i /\ i - 1 \in 0..(N - 1)
  BY <1>1 DEF Places
<1>6. \A j \in Places(s) : j + 1 \in 1..N /\ At(s, j) = s[j + 1] /\ At(s, j) \in Byte
  BY <1>1, ByteAt
<1>7. c = "Ascii" <=> \A i \in 1..N : s[i] < 128
  <2>1. (\A j \in Places(s) : At(s, j) < 128) <=> \A i \in 1..N : s[i] < 128
    BY <1>5, <1>6 DEF At
  <2> QED
    BY <1>3, <2>1, AsciiIs
<1>8. Rank(c) <= 1 <=> \A j \in Leads(s, 0) : At(s, j) < 196
  <2>1. Rank(c) <= 1 <=> \A j \in Leads(s, 0) : Rank(CharClass(s, j)) <= 1
    <3>1. 1 \in 0..3
      OBVIOUS
    <3> QED
      BY <1>2, <1>3, <1>4, <3>1 DEF Tells
  <2>2. \A j \in Leads(s, 0) : Rank(CharClass(s, j)) <= 1 <=> At(s, j) < 196
    <3>1. \A j \in Leads(s, 0) : j \in Places(s) /\ Decodes(s, j)
      BY <1>1, <1>4 DEF Leads, Places, Sound
    <3> QED
      BY <3>1, CharRange
  <2> QED
    BY <2>1, <2>2
<1>9. (\A j \in Leads(s, 0) : At(s, j) < 196) <=> ~\E i \in 1..N : s[i] >= 196
  <2>1. ASSUME NEW i \in 1..N, s[i] >= 196
        PROVE  i - 1 \in Leads(s, 0) /\ ~(At(s, i - 1) < 196)
    <3>1. At(s, i - 1) = s[i] /\ At(s, i - 1) \in Byte /\ i - 1 \in Places(s)
      BY <1>5, <1>6
    <3>2. ~IsContinuation(At(s, i - 1)) /\ ~(At(s, i - 1) < 196)
      <4>1. PICK b \in Byte : b = At(s, i - 1) /\ b >= 196
        BY <2>1, <3>1
      <4>2. ~(b < 196) /\ b \notin 128..191
        BY <4>1 DEF Byte
      <4> QED
        BY <4>1, <4>2, SeqLenIs
    <3> QED
      BY <1>1, <1>5, <3>2 DEF Leads
  <2>2. ASSUME NEW j \in Leads(s, 0), ~(At(s, j) < 196)
        PROVE  \E i \in 1..N : s[i] >= 196
    <3>1. j \in Places(s)
      BY <1>1 DEF Leads, Places
    <3>2. j + 1 \in 1..N /\ At(s, j) = s[j + 1] /\ At(s, j) \in Byte
      BY <1>6, <3>1
    <3>3. s[j + 1] >= 196
      BY <2>2, <3>2 DEF Byte
    <3> QED
      BY <3>2, <3>3
  <2> QED
    BY <2>1, <2>2
<1>10. c = "Utf8NonLatin1" <=> ~(Rank(c) <= 1)
  BY <1>3, RankIs DEF ValidRange
<1>11. ClassifyFull(s).chars = Cardinality(Leads(s, 0))
  BY <1>2, <1>4 DEF Tells
<1> QED
  BY <1>1, <1>3, <1>7, <1>8, <1>9, <1>10, <1>11, HeadsAreLeads

-----------------------------------------------------------------------------
(* The classifying walks.                                                  *)

(* Copying on from where a copy ends.                                      *)
LEMMA CopyOn ==
  ASSUME NEW t \in Text, NEW u \in Text, Window(u, t, 0), NEW q \in Len(u)..Len(t)
  PROVE  /\ u \o Bytes(t, Len(u), q) \in Text /\ Window(u \o Bytes(t, Len(u), q), t, 0)
         /\ Len(u \o Bytes(t, Len(u), q)) = q
<1>1. PICK n \in Nat, m \in Nat : n = Len(u) /\ m = Len(t) /\ n <= q /\ q <= m /\ q \in Nat
  BY ByteAt
<1>2. PICK r \in Text : r = Bytes(t, n, q) /\ Len(r) = q - n /\ \A i \in 0..(q - n - 1) : At(r, i) = At(t, n + i)
  <2>1. /\ Bytes(t, n, q) \in Text /\ Len(Bytes(t, n, q)) = q - n
        /\ \A i \in 0..(q - n - 1) : At(Bytes(t, n, q), i) = At(t, n + i)
    BY <1>1, PartIs
  <2> QED
    BY <2>1
<1>3. /\ u \o r \in Text /\ Len(u \o r) = Len(u) + Len(r)
      /\ \A i \in Places(u) : At(u \o r, i) = At(u, i)
      /\ \A i \in Places(r) : At(u \o r, Len(u) + i) = At(r, i)
  BY JoinedIs
<1>4. Len(u \o r) = q
  BY <1>1, <1>2, <1>3
<1>5. ASSUME NEW k \in Places(u \o r) PROVE At(u \o r, k) = At(t, 0 + k)
  <2>1. k \in 0..(q - 1) /\ 0 + k = k
    BY <1>4 DEF Places
  <2>2. CASE k < n
    <3>1. k \in Places(u)
      BY <1>1, <2>1, <2>2 DEF Places
    <3> QED
      BY <1>3, <3>1 DEF Window
  <2>3. CASE ~(k < n)
    <3>1. PICK i \in 0..(q - n - 1) : i = k - n
      <4>1. k - n \in 0..(q - n - 1)
        BY <1>1, <2>1, <2>3
      <4> QED
        BY <4>1
    <3>2. i \in Places(r) /\ n + i = k
      BY <1>1, <1>2, <2>1, <3>1 DEF Places
    <3> QED
      BY <1>1, <1>2, <1>3, <2>1, <3>1, <3>2
  <2> QED
    BY <2>2, <2>3
<1>6. Window(u \o r, t, 0)
  BY <1>1, <1>4, <1>5 DEF Window
<1> QED
  BY <1>1, <1>2, <1>3, <1>4, <1>6

(* A copy as long as the text is the text.                                 *)
LEMMA CopyWhole ==
  ASSUME NEW t \in Text, NEW u \in Text, Window(u, t, 0), Len(u) = Len(t)
  PROVE  u = t
<1>1. \A k \in Places(u) : 0 + k = k
  BY ByteAt DEF Places
<1>2. \A k \in Places(u) : At(u, k) = At(t, k)
  BY <1>1 DEF Window
<1> QED
  BY <1>2, SameText

(* The block under way.                                                    *)
LEMMA PendingIs ==
  ASSUME text \in Text, pos \in Nat, pos < Len(text), NEW e, e = BlockEnd(pos, Len(text))
  PROVE  /\ e \in (pos + 1)..Len(text) /\ e \in Nat /\ pos \in Nat /\ Len(text) \in Nat
         /\ Pending = Bytes(text, pos, e)
         /\ Pending \in Text /\ Len(Pending) = e - pos /\ DOMAIN Pending = 1..(e - pos)
         /\ \A i \in 1..(e - pos) : Pending[i] = text[pos + i]
<1>1. Len(text) \in Nat
  BY ByteAt
<1>2. e \in (pos + 1)..Len(text)
  BY <1>1, BlockEndIs
<1>3. PICK p \in Nat, x \in Nat : p = pos /\ x = e /\ p <= x /\ x <= Len(text)
  BY <1>1, <1>2
<1>4. Pending = Bytes(text, p, x)
  BY <1>3 DEF Pending
<1>5. Pending \in Text /\ Len(Pending) = x - p /\ \A i \in 0..(x - p - 1) : At(Pending, i) = At(text, p + i)
  <2>1. /\ Bytes(text, p, x) \in Text /\ Len(Bytes(text, p, x)) = x - p
        /\ \A i \in 0..(x - p - 1) : At(Bytes(text, p, x), i) = At(text, p + i)
    <3>1. PICK t \in Text : t = text
      OBVIOUS
    <3>2. p <= x /\ x <= Len(t)
      BY <1>3, <3>1
    <3>3. /\ Bytes(t, p, x) \in Text /\ Len(Bytes(t, p, x)) = x - p
          /\ \A i \in 0..(x - p - 1) : At(Bytes(t, p, x), i) = At(t, p + i)
      BY <3>2, PartIs
    <3> QED
      BY <3>1, <3>3
  <2> QED
    BY <1>4, <2>1
<1>6. DOMAIN Pending = 1..(x - p)
  BY <1>5, LenProperties DEF Text
<1>7. ASSUME NEW i \in 1..(x - p) PROVE Pending[i] = text[p + i]
  <2>1. PICK j \in 0..(x - p - 1) : j = i - 1
    <3>1. i - 1 \in 0..(x - p - 1)
      BY <1>3
    <3> QED
      BY <3>1
  <2>2. j + 1 = i /\ (p + j) + 1 = p + i
    BY <1>3, <2>1
  <2> QED
    BY <1>5, <2>1, <2>2 DEF At
<1> QED
  BY <1>1, <1>2, <1>3, <1>4, <1>5, <1>6, <1>7

(* What a reading walk has found and copied.                               *)
Reading ==
  /\ Adds(facts, text, pos) /\ soft \in 0..Len(text)
  /\ buf \in Text /\ Window(buf, text, 0) /\ Len(buf) <= pos /\ (soft <= pos => Len(buf) = pos)

(* What a walk over known text has counted and copied.                     *)
Counting ==
  /\ pos \in 0..Len(text) /\ soft \in Nat /\ soft <= pos
  /\ facts.class \in ValidRange
  /\ facts.class = "Ascii" <=> \A i \in 1..pos : text[i] < 128
  /\ facts.class = "Utf8NonLatin1" <=> \E i \in 1..pos : text[i] >= 196
  /\ facts.chars = Cardinality(Among(pos, Heads(text)))
  /\ walk = "known_into" => buf \in Text /\ Window(buf, text, 0) /\ Len(buf) = pos

Given ==
  /\ text \in Text /\ truth = ClassifyFull(text)
  /\ walk \in Classifying \cup Rewriting /\ Accepts(walk, truth)

ClassifyInv ==
  /\ Given
  /\ facts \in [class : Terminal, chars : Nat]
  /\ Running("classify") => Reading
  /\ Running("known") \/ Running("known_into") => Counting
  /\ ClassifiesRight

(* A finding with the same fields does as well.                            *)
LEMMA AddsSame ==
  ASSUME NEW s, NEW p, NEW f, NEW g, Adds(f, s, p), g.class = f.class, g.chars = f.chars
  PROVE  Adds(g, s, p)
BY DEF Adds, Merged

(* What every step of the loops keeps of the input.                        *)
LEMMA GivenKept ==
  ASSUME Given, UNCHANGED input
  PROVE  Given' /\ walk' = walk /\ text' = text /\ truth' = truth
BY DEF Given, Accepts, input

(* An ASCII block.                                                         *)
LEMMA AsciiBlockReads ==
  ASSUME ClassifyInv, AsciiBlock
  PROVE  ClassifyInv'
<1>1. /\ Given /\ walk = "classify" /\ result = <<>> /\ soft <= pos /\ pos < Len(text) /\ ~HasHigh(Pending)
      /\ facts' = [facts EXCEPT !.chars = @ + Len(Pending)] /\ buf' = buf \o Pending
      /\ pos' = BlockEnd(pos, Len(text)) /\ soft' = pos' /\ UNCHANGED input /\ result' = result
  BY DEF ClassifyInv, AsciiBlock, AtGate, Running
<1>2. /\ Adds(facts, text, pos) /\ soft \in 0..Len(text)
      /\ buf \in Text /\ Window(buf, text, 0) /\ Len(buf) = pos
      /\ facts \in [class : Terminal, chars : Nat] /\ text \in Text
  BY <1>1 DEF ClassifyInv, Running, Reading, Given
<1>3. pos \in Nat
  BY <1>2, ByteAt
<1>4. PICK e : e = BlockEnd(pos, Len(text))
  OBVIOUS
<1>5. /\ e \in (pos + 1)..Len(text) /\ e \in Nat /\ pos \in Nat /\ Len(text) \in Nat
      /\ Pending = Bytes(text, pos, e)
      /\ Pending \in Text /\ Len(Pending) = e - pos /\ DOMAIN Pending = 1..(e - pos)
      /\ \A i \in 1..(e - pos) : Pending[i] = text[pos + i]
  BY <1>1, <1>2, <1>3, <1>4, PendingIs
<1>6. \A i \in pos..(e - 1) : At(text, i) < 128
  <2> TAKE i \in pos..(e - 1)
  <2>1. PICK j \in 1..(e - pos) : j = i - pos + 1 /\ pos + j = i + 1
    <3>1. i - pos + 1 \in 1..(e - pos) /\ pos + (i - pos + 1) = i + 1
      BY <1>5
    <3> QED
      BY <3>1
  <2>2. ~(Pending[j] >= 128) /\ Pending[j] = At(text, i)
    BY <1>1, <1>5, <2>1 DEF HasHigh, At
  <2>3. At(text, i) \in Byte
    <3>1. i \in Places(text)
      BY <1>5 DEF Places
    <3> QED
      BY <1>2, <3>1, ByteAt
  <2> QED
    BY <2>2, <2>3 DEF Byte
<1>7. PICK g : g = Finding(facts.class, facts.chars + (e - pos))
  OBVIOUS
<1>8. Adds(g, text, e)
  <2>1. e \in pos..Len(text)
    BY <1>5
  <2> QED
    BY <1>2, <1>6, <1>7, <2>1, AddsAscii
<1>9. facts'.class = g.class /\ facts'.chars = g.chars /\ facts' \in [class : Terminal, chars : Nat]
  <2>1. g.class = facts.class /\ g.chars = facts.chars + (e - pos)
    BY <1>7 DEF Finding
  <2>2. e - pos \in Nat
    BY <1>5
  <2>3. facts' = [facts EXCEPT !.chars = facts.chars + (e - pos)]
    BY <1>1, <1>5
  <2> QED
    BY <1>2, <2>1, <2>2, <2>3
<1>10. Adds(facts', text, e)
  BY <1>8, <1>9, AddsSame
<1>11. buf' \in Text /\ Window(buf', text, 0) /\ Len(buf') = e
  <2>1. e \in Len(buf)..Len(text)
    BY <1>2, <1>5
  <2>2. buf' = buf \o Bytes(text, Len(buf), e)
    BY <1>1, <1>2, <1>5
  <2> QED
    BY <1>2, <2>1, <2>2, CopyOn
<1>12. Given' /\ walk' = walk /\ text' = text /\ truth' = truth
  BY <1>1, GivenKept
<1>13. pos' = e /\ soft' = e /\ e \in 0..Len(text) /\ e <= e
  BY <1>1, <1>4, <1>5
<1>14. Reading'
  BY <1>10, <1>11, <1>12, <1>13 DEF Reading
<1> QED
  BY <1>1, <1>9, <1>12, <1>14 DEF ClassifyInv, Running, ClassifiesRight

(* Entering a block.                                                       *)
LEMMA EnterBlockReads ==
  ASSUME ClassifyInv, EnterBlock
  PROVE  ClassifyInv'
<1>1. /\ Given /\ walk = "classify" /\ result = <<>> /\ soft <= pos /\ pos < Len(text)
      /\ soft' = BlockEnd(pos, Len(text)) /\ UNCHANGED input /\ UNCHANGED <<buf, pos, facts, result>>
  BY DEF ClassifyInv, EnterBlock, AtGate, Running
<1>2. Reading /\ facts \in [class : Terminal, chars : Nat] /\ text \in Text /\ Len(text) \in Nat
  BY <1>1, ByteAt DEF ClassifyInv, Running, Given
<1>3. pos \in Nat /\ Len(buf) <= pos
  BY <1>2 DEF Reading, Adds
<1>4. soft' \in (pos + 1)..Len(text)
  BY <1>1, <1>2, <1>3, BlockEndIs
<1>5. soft' \in 0..Len(text) /\ ~(soft' <= pos)
  BY <1>2, <1>3, <1>4
<1>6. Given' /\ walk' = walk /\ text' = text /\ truth' = truth
  BY <1>1, GivenKept
<1>7. Reading'
  BY <1>1, <1>2, <1>5, <1>6 DEF Reading
<1> QED
  BY <1>1, <1>2, <1>6, <1>7 DEF ClassifyInv, Running, ClassifiesRight

(* One character.                                                          *)
LEMMA DecodeCharReads ==
  ASSUME ClassifyInv, DecodeChar
  PROVE  ClassifyInv'
<1>1. /\ Given /\ walk = "classify" /\ result = <<>> /\ pos < soft /\ Decodes(text, pos)
      /\ pos' = pos + SeqLen(At(text, pos))
      /\ facts' = [class |-> ClassJoin(facts.class, CharClass(text, pos)), chars |-> facts.chars + 1]
      /\ buf' = IF pos' >= soft THEN buf \o Bytes(text, Len(buf), pos') ELSE buf
      /\ UNCHANGED input /\ soft' = soft /\ result' = result
  BY DEF ClassifyInv, DecodeChar, InBlock, Running
<1>2. /\ Adds(facts, text, pos) /\ soft \in 0..Len(text)
      /\ buf \in Text /\ Window(buf, text, 0) /\ Len(buf) <= pos
      /\ facts \in [class : Terminal, chars : Nat] /\ text \in Text /\ Len(text) \in Nat /\ Len(buf) \in Nat
  BY <1>1, ByteAt DEF ClassifyInv, Running, Reading, Given
<1>3. pos \in Nat /\ pos \in Places(text)
  BY <1>1, <1>2 DEF Adds, Places
<1>4. PICK m : m = pos + SeqLen(At(text, pos)) /\ m \in (pos + 1)..Len(text)
  BY <1>1, <1>2, <1>3, SoundOn
<1>5. Adds(facts', text, m)
  <2>1. facts' = Finding(ClassJoin(facts.class, CharClass(text, pos)), facts.chars + 1)
    BY <1>1 DEF Finding
  <2> QED
    BY <1>1, <1>2, <1>3, <1>4, <2>1, AddsChar
<1>6. facts' \in [class : Terminal, chars : Nat]
  <2>1. PICK k \in Terminal : k = ClassJoin(facts.class, CharClass(text, pos))
    BY <1>5, <1>1 DEF Adds
  <2>2. facts.chars + 1 \in Nat
    BY <1>2
  <2> QED
    BY <1>1, <2>1, <2>2
<1>7. pos' = m /\ m \in Nat /\ m \in Len(buf)..Len(text)
  BY <1>1, <1>2, <1>3, <1>4
<1>8. buf' \in Text /\ Window(buf', text, 0) /\ Len(buf') <= m /\ (soft <= m => Len(buf') = m)
  <2>1. CASE m >= soft
    <3>1. buf' = buf \o Bytes(text, Len(buf), m)
      BY <1>1, <1>7, <2>1
    <3> QED
      BY <1>2, <1>7, <3>1, CopyOn
  <2>2. CASE ~(m >= soft)
    <3>1. buf' = buf
      BY <1>1, <1>7, <2>2
    <3> QED
      BY <1>2, <1>7, <2>2, <3>1
  <2> QED
    BY <2>1, <2>2
<1>9. Given' /\ walk' = walk /\ text' = text /\ truth' = truth
  BY <1>1, GivenKept
<1>10. Reading'
  BY <1>1, <1>2, <1>5, <1>7, <1>8, <1>9 DEF Reading
<1> QED
  BY <1>1, <1>6, <1>9, <1>10 DEF ClassifyInv, Running, ClassifiesRight

(* What does not decode.                                                   *)
LEMMA MalformedReads ==
  ASSUME ClassifyInv, Malformed
  PROVE  ClassifyInv'
<1>1. /\ Given /\ walk = "classify" /\ result = <<>> /\ pos < soft /\ ~Decodes(text, pos)
      /\ result' = <<"MalformedUtf8", 0>> /\ buf' = buf \o Bytes(text, Len(buf), Len(text))
      /\ UNCHANGED input /\ facts' = facts
  BY DEF ClassifyInv, Malformed, InBlock, Running
<1>2. /\ Adds(facts, text, pos) /\ soft \in 0..Len(text)
      /\ buf \in Text /\ Window(buf, text, 0) /\ Len(buf) <= pos
      /\ facts \in [class : Terminal, chars : Nat] /\ text \in Text /\ Len(text) \in Nat /\ Len(buf) \in Nat
  BY <1>1, ByteAt DEF ClassifyInv, Running, Reading, Given
<1>3. pos \in Nat /\ pos \in Places(text) /\ Len(text) \in Len(buf)..Len(text)
  BY <1>1, <1>2 DEF Adds, Places
<1>4. ClassifyFull(text).class = "MalformedUtf8" /\ ClassifyFull(text).chars = 0
  BY <1>1, <1>2, <1>3, AddsStuck
<1>5. buf' = text
  <2>1. /\ buf' \in Text /\ Window(buf', text, 0) /\ Len(buf') = Len(text)
    BY <1>1, <1>2, <1>3, CopyOn
  <2> QED
    BY <1>2, <2>1, CopyWhole
<1>6. Given' /\ walk' = walk /\ text' = text /\ truth' = truth /\ truth = ClassifyFull(text)
  BY <1>1, GivenKept DEF Given
<1>7. result'[1] = "MalformedUtf8" /\ result'[2] = 0 /\ result' # <<>>
  BY <1>1
<1>8. ClassifiesRight'
  BY <1>4, <1>5, <1>6, <1>7 DEF ClassifiesRight
<1> QED
  BY <1>1, <1>2, <1>6, <1>7, <1>8 DEF ClassifyInv, Running

(* The end of a text.                                                      *)
LEMMA ClassifiedReads ==
  ASSUME ClassifyInv, Classified
  PROVE  ClassifyInv'
<1>1. /\ Given /\ walk \in Classifying /\ result = <<>> /\ pos = Len(text)
      /\ result' = <<facts.class, facts.chars>> /\ UNCHANGED input /\ UNCHANGED <<buf, facts>>
  BY DEF ClassifyInv, Classified
<1>2. /\ facts \in [class : Terminal, chars : Nat] /\ text \in Text /\ Len(text) \in Nat
      /\ truth = ClassifyFull(text) /\ Accepts(walk, truth)
  BY <1>1, ByteAt DEF ClassifyInv, Given
<1>3. facts.class = truth.class /\ facts.chars = truth.chars /\ (walk # "known" => buf = text)
  <2>1. CASE walk = "classify"
    <3>1. Reading
      BY <1>1, <2>1 DEF ClassifyInv, Running
    <3>2. buf = text
      <4>1. buf \in Text /\ Window(buf, text, 0) /\ Len(buf) = Len(text)
        BY <1>1, <1>2, <3>1 DEF Reading
      <4> QED
        BY <1>2, <4>1, CopyWhole
    <3>3. Adds(facts, text, Len(text))
      BY <1>1, <3>1 DEF Reading
    <3> QED
      BY <1>2, <3>2, <3>3, AddsAtEnd
  <2>2. CASE walk \in {"known", "known_into"}
    <3>1. Counting
      BY <1>1, <2>2 DEF ClassifyInv, Running
    <3>2. ClassifyFull(text).class \in ValidRange
      BY <1>2, <2>2 DEF Accepts
    <3>3. PICK c : c = ClassifyFull(text).class /\ c \in ValidRange
      BY <3>2
    <3>4. /\ c = "Ascii" <=> facts.class = "Ascii"
          /\ c = "Utf8NonLatin1" <=> facts.class = "Utf8NonLatin1"
          /\ ClassifyFull(text).chars = facts.chars
      BY <1>1, <1>2, <3>1, <3>3, RangeIs DEF Counting
    <3>5. facts.class \in ValidRange
      BY <3>1 DEF Counting
    <3>6. facts.class = c
      BY <3>3, <3>4, <3>5 DEF ValidRange
    <3>7. walk # "known" => buf = text
      <4>1. SUFFICES ASSUME walk = "known_into" PROVE buf = text
        BY <2>2
      <4>2. buf \in Text /\ Window(buf, text, 0) /\ Len(buf) = Len(text)
        BY <1>1, <3>1, <4>1 DEF Counting
      <4> QED
        BY <1>2, <4>2, CopyWhole
    <3> QED
      BY <1>2, <3>3, <3>4, <3>6, <3>7
  <2> QED
    BY <1>1, <2>1, <2>2 DEF Classifying
<1>4. Given' /\ walk' = walk /\ text' = text /\ truth' = truth
  BY <1>1, GivenKept
<1>5. result'[1] = facts.class /\ result'[2] = facts.chars /\ result' # <<>>
  BY <1>1
<1>6. ClassifiesRight'
  BY <1>1, <1>2, <1>3, <1>4, <1>5 DEF ClassifiesRight
<1> QED
  BY <1>1, <1>2, <1>4, <1>5, <1>6 DEF ClassifyInv, Running

(* A walk over known text gives up its count.                              *)
LEMMA KnownBailCounts ==
  ASSUME ClassifyInv, KnownBail
  PROVE  ClassifyInv'
<1>1. /\ Given /\ walk = "known" /\ result = <<>> /\ pos < Len(text) /\ BeyondLatin1(Pending)
      /\ result' = <<"Utf8NonLatin1", 0>> /\ UNCHANGED input /\ UNCHANGED <<buf, facts>>
  BY DEF ClassifyInv, KnownBail, AtGate, Running
<1>2. /\ facts \in [class : Terminal, chars : Nat] /\ text \in Text /\ Len(text) \in Nat
      /\ truth = ClassifyFull(text) /\ Accepts(walk, truth) /\ pos \in Nat
  BY <1>1, ByteAt DEF ClassifyInv, Given, Running, Counting
<1>3. truth.class = "Utf8NonLatin1"
  <2>1. PICK e : e = BlockEnd(pos, Len(text))
    OBVIOUS
  <2>2. /\ e \in (pos + 1)..Len(text) /\ e \in Nat /\ DOMAIN Pending = 1..(e - pos)
        /\ \A i \in 1..(e - pos) : Pending[i] = text[pos + i]
    BY <1>1, <1>2, <2>1, PendingIs
  <2>3. PICK i \in 1..(e - pos) : Pending[i] >= 196
    BY <1>1, <2>2 DEF BeyondLatin1
  <2>4. pos + i \in 1..Len(text) /\ text[pos + i] >= 196
    BY <1>2, <2>2, <2>3
  <2>5. ClassifyFull(text).class \in ValidRange
    BY <1>1, <1>2 DEF Accepts
  <2> QED
    BY <1>2, <2>4, <2>5, RangeIs
<1>4. Given' /\ walk' = walk /\ text' = text /\ truth' = truth
  BY <1>1, GivenKept
<1>5. result'[1] = "Utf8NonLatin1" /\ result'[2] = 0 /\ result' # <<>>
  BY <1>1
<1>6. ClassifiesRight'
  BY <1>1, <1>2, <1>3, <1>4, <1>5 DEF ClassifiesRight
<1> QED
  BY <1>1, <1>2, <1>4, <1>5, <1>6 DEF ClassifyInv, Running

(* The range of a block, and what it is with that of those before it.      *)
LEMMA BlockRangeIs ==
  ASSUME text \in Text, pos \in Nat, pos < Len(text), NEW e, e = BlockEnd(pos, Len(text)),
         NEW k \in ValidRange,
         k = "Ascii" <=> \A i \in 1..pos : text[i] < 128,
         k = "Utf8NonLatin1" <=> \E i \in 1..pos : text[i] >= 196
  PROVE  /\ RangeJoin(k, BlockRange) \in ValidRange
         /\ RangeJoin(k, BlockRange) = "Ascii" <=> \A i \in 1..e : text[i] < 128
         /\ RangeJoin(k, BlockRange) = "Utf8NonLatin1" <=> \E i \in 1..e : text[i] >= 196
<1>1. /\ e \in (pos + 1)..Len(text) /\ e \in Nat /\ Len(text) \in Nat /\ DOMAIN Pending = 1..(e - pos)
      /\ \A i \in 1..(e - pos) : Pending[i] = text[pos + i]
  BY PendingIs
<1>2. \A i \in 1..Len(text) : text[i] \in Int
  <2>1. \A i \in 1..Len(text) : text[i] \in Byte
    BY ElementOfSeq DEF Text
  <2>2. \A b \in Byte : b \in Int
    BY DEF Byte
  <2> QED
    BY <2>1, <2>2
<1>3. \A i \in 1..e : i \in 1..pos \/ (i - pos \in 1..(e - pos) /\ pos + (i - pos) = i)
  BY <1>1
<1>4. (\A i \in 1..pos : i \in 1..e) /\ (\A i \in 1..(e - pos) : pos + i \in 1..e) /\ \A i \in 1..e : i \in 1..Len(text)
  BY <1>1
<1>5. (\A i \in 1..e : text[i] < 128) <=> (\A i \in 1..pos : text[i] < 128) /\ ~HasHigh(Pending)
  <2>1. ASSUME \A i \in 1..e : text[i] < 128
        PROVE  (\A i \in 1..pos : text[i] < 128) /\ ~HasHigh(Pending)
    <3>1. \A i \in 1..(e - pos) : ~(Pending[i] >= 128)
      BY <1>1, <1>2, <1>4, <2>1
    <3> QED
      BY <1>1, <1>4, <2>1, <3>1 DEF HasHigh
  <2>2. ASSUME \A i \in 1..pos : text[i] < 128, ~HasHigh(Pending), NEW i \in 1..e
        PROVE  text[i] < 128
    <3>1. CASE i \in 1..pos
      BY <2>2, <3>1
    <3>2. CASE i \notin 1..pos
      <4>1. PICK j \in 1..(e - pos) : pos + j = i
        BY <1>3, <3>2
      <4>2. ~(text[i] >= 128)
        BY <1>1, <2>2, <4>1 DEF HasHigh
      <4> QED
        BY <1>2, <1>4, <4>2
    <3> QED
      BY <3>1, <3>2
  <2> QED
    BY <2>1, <2>2
<1>6. (\E i \in 1..e : text[i] >= 196) <=> (\E i \in 1..pos : text[i] >= 196) \/ BeyondLatin1(Pending)
  <2>1. ASSUME NEW i \in 1..e, text[i] >= 196
        PROVE  (\E j \in 1..pos : text[j] >= 196) \/ BeyondLatin1(Pending)
    <3>1. CASE i \in 1..pos
      BY <2>1, <3>1
    <3>2. CASE i \notin 1..pos
      <4>1. PICK j \in 1..(e - pos) : pos + j = i
        BY <1>3, <3>2
      <4> QED
        BY <1>1, <2>1, <4>1 DEF BeyondLatin1
    <3> QED
      BY <3>1, <3>2
  <2>2. ASSUME BeyondLatin1(Pending) PROVE \E i \in 1..e : text[i] >= 196
    <3>1. PICK j \in 1..(e - pos) : Pending[j] >= 196
      BY <1>1, <2>2 DEF BeyondLatin1
    <3> QED
      BY <1>1, <1>4, <3>1
  <2> QED
    BY <1>4, <2>1, <2>2
<1>7. BeyondLatin1(Pending) => HasHigh(Pending)
  <2>1. \A i \in 1..(e - pos) : Pending[i] \in Int
    BY <1>1, <1>2, <1>4
  <2> QED
    BY <1>1, <2>1 DEF BeyondLatin1, HasHigh
<1>8. BlockRange = IF ~HasHigh(Pending) THEN "Ascii" ELSE IF BeyondLatin1(Pending) THEN "Utf8NonLatin1" ELSE "Utf8Latin1"
  BY DEF BlockRange
<1>9. PICK b : b = BlockRange /\ b \in ValidRange /\ (b = "Ascii" <=> ~HasHigh(Pending)) /\ (b = "Utf8NonLatin1" <=> BeyondLatin1(Pending))
  BY <1>7, <1>8 DEF ValidRange
<1>10. /\ RangeJoin(k, b) \in ValidRange /\ (RangeJoin(k, b) = "Ascii" <=> k = "Ascii" /\ b = "Ascii")
       /\ (RangeJoin(k, b) = "Utf8NonLatin1" <=> k = "Utf8NonLatin1" \/ b = "Utf8NonLatin1")
  BY <1>9 DEF RangeJoin, ValidRange
<1> QED
  BY <1>5, <1>6, <1>9, <1>10

(* A block of known text.                                                  *)
LEMMA KnownBlockCounts ==
  ASSUME ClassifyInv, KnownBlock
  PROVE  ClassifyInv'
<1>1. /\ Given /\ walk \in {"known", "known_into"} /\ result = <<>> /\ pos < Len(text) /\ soft <= pos
      /\ walk = "known_into" => buf' = buf \o Pending
      /\ facts' = [class |-> RangeJoin(facts.class, BlockRange), chars |-> facts.chars + Starts(Pending)]
      /\ pos' = BlockEnd(pos, Len(text)) /\ soft' = pos'
      /\ UNCHANGED input /\ result' = result
  BY DEF ClassifyInv, KnownBlock, AtGate, Running
<1>2. /\ Counting /\ facts \in [class : Terminal, chars : Nat] /\ text \in Text /\ Len(text) \in Nat
      /\ pos \in Nat
  BY <1>1, ByteAt DEF ClassifyInv, Given, Running, Counting
<1>3. PICK e : e = BlockEnd(pos, Len(text))
  OBVIOUS
<1>4. /\ e \in (pos + 1)..Len(text) /\ e \in Nat /\ pos \in Nat /\ Len(text) \in Nat
      /\ Pending = Bytes(text, pos, e)
      /\ Pending \in Text /\ Len(Pending) = e - pos /\ DOMAIN Pending = 1..(e - pos)
      /\ \A i \in 1..(e - pos) : Pending[i] = text[pos + i]
  BY <1>1, <1>2, <1>3, PendingIs
<1>5. PICK k \in ValidRange : k = facts.class
  BY <1>2 DEF Counting
<1>6. /\ RangeJoin(k, BlockRange) \in ValidRange
      /\ RangeJoin(k, BlockRange) = "Ascii" <=> \A i \in 1..e : text[i] < 128
      /\ RangeJoin(k, BlockRange) = "Utf8NonLatin1" <=> \E i \in 1..e : text[i] >= 196
  <2>1. k = "Ascii" <=> \A i \in 1..pos : text[i] < 128
    BY <1>2, <1>5 DEF Counting
  <2>2. k = "Utf8NonLatin1" <=> \E i \in 1..pos : text[i] >= 196
    BY <1>2, <1>5 DEF Counting
  <2> QED
    BY <1>1, <1>2, <1>3, <2>1, <2>2, BlockRangeIs
<1>7. PICK p \in Nat, n \in Nat : p = pos /\ n = e - pos /\ p + n = e
  BY <1>4
<1>8. Cardinality(Among(e, Heads(text))) = Cardinality(Among(p, Heads(text))) + Cardinality(Among(n, Heads(Pending)))
  <2>1. \A i \in 1..n : i \in Heads(Pending) <=> p + i \in Heads(text)
    <3> TAKE i \in 1..n
    <3>1. i \in 1..Len(Pending) /\ p + i \in 1..Len(text) /\ Pending[i] = text[p + i]
      BY <1>4, <1>7
    <3> QED
      BY <3>1 DEF Heads
  <2>2. Cardinality(Among(p + n, Heads(text))) = Cardinality(Among(p, Heads(text))) + Cardinality(Among(n, Heads(Pending)))
    BY <2>1, CountShift
  <2> QED
    BY <1>7, <2>2
<1>9. Starts(Pending) = Cardinality(Among(n, Heads(Pending)))
  <2>1. {i \in DOMAIN Pending : ~IsContinuation(Pending[i])} = Among(n, Heads(Pending))
    BY <1>4, <1>7 DEF Among, Heads
  <2> QED
    BY <2>1 DEF Starts
<1>10. facts'.chars = Cardinality(Among(e, Heads(text)))
  <2>1. facts.chars = Cardinality(Among(p, Heads(text)))
    BY <1>2, <1>7 DEF Counting
  <2>2. facts'.chars = facts.chars + Starts(Pending)
    BY <1>1
  <2> QED
    BY <1>8, <1>9, <2>1, <2>2
<1>11. facts'.class = RangeJoin(k, BlockRange)
  BY <1>1, <1>5
<1>12. facts' \in [class : Terminal, chars : Nat]
  <2>1. Cardinality(Among(n, Heads(Pending))) \in Nat
    BY CountIs
  <2>2. facts.chars + Starts(Pending) \in Nat
    BY <1>2, <1>9, <2>1
  <2>3. RangeJoin(k, BlockRange) \in Terminal
    BY <1>6 DEF ValidRange, Terminal
  <2> QED
    BY <1>1, <1>5, <2>2, <2>3
<1>13. walk = "known_into" => buf' \in Text /\ Window(buf', text, 0) /\ Len(buf') = e
  <2>1. SUFFICES ASSUME walk = "known_into" PROVE buf' \in Text /\ Window(buf', text, 0) /\ Len(buf') = e
    OBVIOUS
  <2>2. buf \in Text /\ Window(buf, text, 0) /\ Len(buf) = pos
    BY <1>2, <2>1 DEF Counting
  <2>3. e \in Len(buf)..Len(text)
    BY <1>4, <2>2
  <2>4. buf' = buf \o Bytes(text, Len(buf), e)
    BY <1>1, <1>4, <2>1, <2>2
  <2> QED
    BY <1>2, <2>2, <2>3, <2>4, CopyOn
<1>14. Given' /\ walk' = walk /\ text' = text /\ truth' = truth
  BY <1>1, GivenKept
<1>15. pos' = e /\ soft' = e /\ e \in 0..Len(text) /\ e \in Nat /\ e <= e
  BY <1>1, <1>3, <1>4
<1>16. Counting'
  BY <1>6, <1>10, <1>11, <1>13, <1>14, <1>15 DEF Counting
<1> QED
  BY <1>1, <1>12, <1>14, <1>16 DEF ClassifyInv, Running, ClassifiesRight

(* A rewrite is no classification.                                         *)
LEMMA RewriteFrame ==
  ASSUME ClassifyInv, walk \in Rewriting, UNCHANGED <<input, facts>>
  PROVE  ClassifyInv'
<1>1. Given' /\ walk' = walk
  BY GivenKept DEF ClassifyInv
<1>2. walk \notin Classifying /\ walk # "classify" /\ walk # "known" /\ walk # "known_into"
  BY DEF Rewriting, Classifying
<1> QED
  BY <1>1, <1>2 DEF ClassifyInv, Running, ClassifiesRight

(* The input of a walk.                                                    *)
LEMMA GivenAtFirst ==
  ASSUME WalkInit
  PROVE  Given
<1>1. PICK ps \in Texts :
        /\ truth = TruthOf(ps) /\ walk \in {w \in Classifying \cup Rewriting : Accepts(w, truth)}
        /\ text = FlattenSeq([i \in DOMAIN ps |-> ps[i].bytes])
  BY DEF WalkInit
<1>2. text \in Text /\ truth = ClassifyFull(text)
  BY <1>1, TruthIs
<1> QED
  BY <1>1, <1>2 DEF Given

(* The first state.                                                        *)
LEMMA ClassifyInit ==
  ASSUME WalkInit
  PROVE  ClassifyInv
<1>1. Given
  BY GivenAtFirst
<1>2. /\ walk \in Classifying => buf = <<>> /\ pos = 0
      /\ soft = 0 /\ facts = [class |-> "Ascii", chars |-> 0] /\ result = <<>>
  BY DEF WalkInit, Classifying
<1>3. text \in Text /\ Len(text) \in Nat
  BY <1>1, ByteAt DEF Given
<1>4. facts = Finding("Ascii", 0) /\ facts.class = "Ascii" /\ facts.chars = 0 /\ facts \in [class : Terminal, chars : Nat]
  BY <1>2 DEF Finding, Terminal
<1>5. <<>> \in Text /\ Len(<<>>) = 0 /\ Window(<<>>, text, 0)
  <2>1. <<>> \in Text /\ Len(<<>>) = 0
    BY NothingIs
  <2> QED
    BY <1>3, <2>1 DEF Window, Places
<1>6. ASSUME walk \in Classifying PROVE Reading /\ Counting
  <2>1. Adds(facts, text, 0)
    BY <1>3, <1>4, AddsAtStart
  <2>2. Reading
    BY <1>2, <1>3, <1>5, <1>6, <2>1 DEF Reading
  <2>3. Cardinality(Among(0, Heads(text))) = 0
    BY CountIs
  <2>4. Counting
    BY <1>2, <1>3, <1>4, <1>5, <1>6, <2>3 DEF Counting, ValidRange
  <2> QED
    BY <2>2, <2>4
<1> QED
  BY <1>1, <1>2, <1>4, <1>6 DEF ClassifyInv, Running, ClassifiesRight, Classifying

(* Every step.                                                             *)
LEMMA ClassifyNext ==
  ASSUME ClassifyInv, [WalkNext]_walkVars
  PROVE  ClassifyInv'
<1>1. CASE AsciiBlock
  BY <1>1, AsciiBlockReads
<1>2. CASE EnterBlock
  BY <1>2, EnterBlockReads
<1>3. CASE DecodeChar
  BY <1>3, DecodeCharReads
<1>4. CASE Malformed
  BY <1>4, MalformedReads
<1>5. CASE Classified
  BY <1>5, ClassifiedReads
<1>6. CASE KnownBail
  BY <1>6, KnownBailCounts
<1>7. CASE KnownBlock
  BY <1>7, KnownBlockCounts
<1>8. CASE ExpandByte \/ Expanded
  <2>1. walk \in Rewriting /\ UNCHANGED <<input, facts>>
    BY <1>8 DEF ExpandByte, Expanded, Running, Rewriting
  <2> QED
    BY <2>1, RewriteFrame
<1>9. CASE ContractChar \/ Contracted
  <2>1. walk \in Rewriting /\ UNCHANGED <<input, facts>>
    BY <1>9 DEF ContractChar, Contracted, Running, Rewriting
  <2> QED
    BY <2>1, RewriteFrame
<1>10. CASE UNCHANGED walkVars
  BY <1>10 DEF walkVars, ClassifyInv, Given, Accepts, Running, Reading, Counting, ClassifiesRight
<1> QED
  BY <1>1, <1>2, <1>3, <1>4, <1>5, <1>6, <1>7, <1>8, <1>9, <1>10 DEF WalkNext

(* The walks that classify (cow_buffer.rs, classify_walk and the two over  *)
(* known-valid input) find what the bytes are, for every text put together *)
(* of characters and malformed pieces and every size of block.             *)
THEOREM WalksClassify == WalkSpec => []ClassifiesRight
<1>1. WalkInit => ClassifyInv
  BY ClassifyInit
<1>2. ClassifyInv /\ [WalkNext]_walkVars => ClassifyInv'
  BY ClassifyNext
<1>3. ClassifyInv => ClassifiesRight
  BY DEF ClassifyInv
<1> QED
  BY <1>1, <1>2, <1>3, PTL DEF WalkSpec

-----------------------------------------------------------------------------
(* The rewrites in place.                                                  *)

(* Everything before the first variant byte is ASCII.                      *)
LEMMA FirstIs ==
  ASSUME NEW s \in Text, NEW a, a = IF FirstVariant(s) < 0 THEN Len(s) ELSE FirstVariant(s)
  PROVE  a \in 0..Len(s) /\ \A i \in 1..a : s[i] < 128
<1>1. Len(s) \in Nat /\ \A i \in 1..Len(s) : s[i] \in Int
  <2>1. \A b \in Byte : b \in Int
    BY DEF Byte
  <2> QED
    BY <2>1, WidenedIs
<1> DEFINE I == {i \in 1..Len(s) : s[i] >= 128}
<1>2. FirstVariant(s) = (IF I # {} THEN Min(I) ELSE 0) - 1
  BY DEF FirstVariant, SelectInSeq
<1>3. CASE I = {}
  <2>1. FirstVariant(s) = -1
    BY <1>2, <1>3
  <2>2. a = Len(s)
    BY <2>1
  <2>3. \A i \in 1..Len(s) : ~(s[i] >= 128)
    BY <1>3
  <2> QED
    BY <1>1, <2>2, <2>3
<1>4. CASE I # {}
  <2>1. I \subseteq Nat
    OBVIOUS
  <2>2. PICK m \in I : m = Min(I) /\ \A j \in I : m <= j
    <3>1. \E n \in I : \A j \in I : n <= j
      <4> HIDE DEF I
      <4> QED
        BY <1>4, <2>1, LeastExists
    <3> HIDE DEF I
    <3> QED
      BY <3>1 DEF Min
  <2>3. m \in 1..Len(s) /\ FirstVariant(s) = m - 1
    <3>1. m \in 1..Len(s)
      OBVIOUS
    <3> HIDE DEF I
    <3> QED
      BY <1>2, <1>4, <2>2, <3>1
  <2>4. a = m - 1 /\ a \in 0..Len(s)
    BY <1>1, <2>3
  <2>5. ASSUME NEW i \in 1..a PROVE s[i] < 128
    <3>1. i \in 1..Len(s) /\ i < m
      BY <1>1, <2>3, <2>4
    <3>2. i \notin I
      BY <2>2, <3>1
    <3> QED
      BY <1>1, <3>1, <3>2
  <2> QED
    BY <2>4, <2>5
<1> QED
  BY <1>3, <1>4

(* The bytes past ASCII, counted from one, and where the encoding of what  *)
(* follows the first i bytes starts in an upgrade.                         *)
Variants(s) == {i \in 1..Len(s) : s[i] >= 128}
Spot(s, i) == i + Cardinality(Among(i, Variants(s)))

(* The spots are as far apart as the encodings are long.                   *)
LEMMA SpotIs ==
  ASSUME NEW s \in Text
  PROVE  /\ Spot(s, 0) = 0 /\ Len(s) \in Nat
         /\ \A i \in 0..Len(s) : Spot(s, i) \in Nat /\ Spot(s, i) >= i
         /\ \A i \in 1..Len(s) : Spot(s, i) = Spot(s, i - 1) + Len(Widen(s[i]))
         /\ VariantCount(s) \in Nat /\ VariantCount(s) = Cardinality(Among(Len(s), Variants(s)))
         /\ Spot(s, Len(s)) = Len(s) + VariantCount(s)
<1>1. Len(s) \in Nat /\ \A i \in 1..Len(s) : s[i] \in Byte
  BY WidenedIs
<1>2. Spot(s, 0) = 0
  <2>1. Cardinality(Among(0, Variants(s))) = 0
    BY CountIs
  <2> QED
    BY <2>1 DEF Spot
<1>3. ASSUME NEW i \in 0..Len(s) PROVE Spot(s, i) \in Nat /\ Spot(s, i) >= i
  <2>1. PICK c \in Nat : c = Cardinality(Among(i, Variants(s)))
    BY CountIs
  <2>2. i \in Nat /\ Spot(s, i) = i + c
    BY <2>1 DEF Spot
  <2> QED
    BY <2>2
<1>4. ASSUME NEW i \in 1..Len(s) PROVE Spot(s, i) = Spot(s, i - 1) + Len(Widen(s[i]))
  <2>1. PICK j \in Nat : j = i - 1 /\ j + 1 = i
    <3>1. i - 1 \in Nat /\ (i - 1) + 1 = i
      OBVIOUS
    <3> QED
      BY <3>1
  <2>2. PICK c \in Nat : c = Cardinality(Among(j, Variants(s)))
    BY CountIs
  <2>3. PICK b \in Byte : b = s[i]
    BY <1>1
  <2>4. i \in Variants(s) <=> b >= 128
    BY <2>3 DEF Variants
  <2>5. CASE b >= 128
    <3>1. j + 1 \in Variants(s)
      BY <2>1, <2>4, <2>5
    <3>2. Cardinality(Among(j + 1, Variants(s))) = c + 1
      BY <2>2, <3>1, CountIs
    <3>3. Cardinality(Among(i, Variants(s))) = c + 1
      BY <2>1, <3>2
    <3>4. Len(Widen(b)) = 2
      BY <2>5, WidenIs
    <3>5. Spot(s, i) = i + (c + 1) /\ Spot(s, i - 1) = j + c
      BY <2>1, <2>2, <3>3 DEF Spot
    <3>6. i + (c + 1) = (j + c) + 2
      BY <2>1
    <3> QED
      BY <2>3, <3>4, <3>5, <3>6
  <2>6. CASE ~(b >= 128)
    <3>1. j + 1 \notin Variants(s)
      BY <2>1, <2>4, <2>6
    <3>2. Among(j + 1, Variants(s)) = Among(j, Variants(s))
      BY <2>2, <3>1, CountIs
    <3>3. Cardinality(Among(i, Variants(s))) = c
      BY <2>1, <2>2, <3>2
    <3>4. Len(Widen(b)) = 1
      <4>1. b < 128
        BY <2>6 DEF Byte
      <4> QED
        BY <4>1, WidenIs
    <3>5. Spot(s, i) = i + c /\ Spot(s, i - 1) = j + c
      BY <2>1, <2>2, <3>3 DEF Spot
    <3>6. i + c = (j + c) + 1
      BY <2>1
    <3> QED
      BY <2>3, <3>4, <3>5, <3>6
  <2> QED
    BY <2>5, <2>6
<1>5. VariantCount(s) = Cardinality(Among(Len(s), Variants(s)))
  <2>1. DOMAIN s = 1..Len(s)
    BY LenProperties DEF Text
  <2>2. Among(Len(s), Variants(s)) = {i \in DOMAIN s : s[i] >= 128}
    BY <2>1 DEF Among, Variants
  <2> QED
    BY <2>2 DEF VariantCount
<1>6. VariantCount(s) \in Nat
  BY <1>1, <1>5, CountIs
<1>7. Spot(s, Len(s)) = Len(s) + VariantCount(s)
  BY <1>5 DEF Spot
<1> QED
  BY <1>1, <1>2, <1>3, <1>4, <1>5, <1>6, <1>7

(* The encoding of each byte stands in the upgrade at its spot.            *)
LEMMA UpgradeSpots ==
  ASSUME NEW s \in Text
  PROVE  /\ UpgradedBytes(s) \in Text /\ Len(UpgradedBytes(s)) = Spot(s, Len(s))
         /\ \A i \in 1..Len(s) : Window(Widen(s[i]), UpgradedBytes(s), Spot(s, i - 1))
<1>1. PICK N \in Nat : N = Len(s)
  BY ByteAt
<1>2. PICK W \in [1..N -> Text] : W = Widened(s) /\ \A i \in 1..N : W[i] = Widen(s[i])
  BY <1>1, WidenedIs
<1>3. PICK f : Built(f, N, W) /\ UpgradedBytes(s) = f[N]
  BY <1>1, <1>2, UpgradeIs
<1>4. /\ Spot(s, 0) = 0
      /\ \A i \in 1..N : Spot(s, i) = Spot(s, i - 1) + Len(Widen(s[i]))
  BY <1>1, SpotIs
<1> DEFINE S == {i \in 0..N : Len(f[i]) = Spot(s, i)}
<1>5. 0 \in S
  <2>1. f[0] = <<>>
    BY <1>3 DEF Built
  <2> QED
    BY <1>4, <2>1, NothingIs
<1>6. ASSUME NEW i \in 0..(N - 1), i \in S PROVE i + 1 \in S
  <2>1. PICK j \in 1..N : j = i + 1 /\ j - 1 = i
    <3>1. i + 1 \in 1..N /\ (i + 1) - 1 = i
      OBVIOUS
    <3> QED
      BY <3>1
  <2>2. Len(f[j]) = Len(f[j - 1]) + Len(W[j])
    BY <1>3, BuiltWindow
  <2>3. Len(f[j]) = Spot(s, j)
    BY <1>2, <1>4, <1>6, <2>1, <2>2
  <2> QED
    BY <2>1, <2>3
<1>7. \A i \in 0..N : Len(f[i]) = Spot(s, i)
  <2>1. \A i \in 0..N : i \in S
    <3> HIDE DEF S
    <3> QED
      BY <1>5, <1>6, UpTo
  <2> QED
    BY <2>1
<1>8. f[N] \in Text /\ Len(f[N]) = Spot(s, N)
  <2>1. N \in 0..N
    OBVIOUS
  <2> QED
    BY <1>3, <1>7, <2>1 DEF Built
<1>9. ASSUME NEW i \in 1..N PROVE Window(Widen(s[i]), f[N], Spot(s, i - 1))
  <2>1. Window(W[i], f[N], Len(f[i - 1]))
    BY <1>3, BuiltWindow
  <2>2. i - 1 \in 0..N
    OBVIOUS
  <2> QED
    BY <1>2, <1>7, <2>1, <2>2
<1> QED
  BY <1>1, <1>3, <1>8, <1>9

(* Two bytes that a byte past ASCII widens to narrow to it again.          *)
LEMMA WidenNarrows ==
  ASSUME NEW b \in Byte, b >= 128
  PROVE  /\ 192 + (b \div 64) \in {194, 195} /\ 128 + (b % 64) \in 128..191
         /\ Narrowed(192 + (b \div 64), 128 + (b % 64)) = b
<1>1. PICK h \in {2, 3}, r \in 0..63 : h = b \div 64 /\ r = b % 64 /\ b = h * 64 + r /\ (128 + r) % 64 = r
  BY HighByte
<1>2. (192 + h) % 4 = h
  BY <1>1
<1>3. Narrowed(192 + h, 128 + r) = h * 64 + r
  BY <1>1, <1>2 DEF Narrowed
<1> QED
  BY <1>1, <1>3

(* What is made of the encoding of a byte is the byte.                     *)
LEMMA WidenedAt ==
  ASSUME NEW t \in Text, NEW p \in Nat, NEW b \in Byte, Window(Widen(b), t, p)
  PROVE  /\ p \in Places(t) /\ (At(t, p) < 128 <=> b < 128)
         /\ At(t, p) < 128 \/ Paired(t, p)
         /\ Made(t, p) = b /\ Past(t, p) = p + Len(Widen(b)) /\ Past(t, p) \in (p + 1)..Len(t)
<1>0. Len(t) \in Nat
  BY ByteAt
<1>1. PICK w \in Text : w = Widen(b)
  BY WidenIs
<1>2. p + Len(w) <= Len(t) /\ \A k \in Places(w) : At(w, k) = At(t, p + k)
  BY <1>1 DEF Window
<1>3. CASE b < 128
  <2>1. w = <<b>> /\ Len(w) = 1
    BY <1>1, <1>3, WidenIs
  <2>2. 0 \in Places(w) /\ p + 0 = p /\ At(w, 0) = b
    BY <2>1 DEF Places, At
  <2>3. At(t, p) = b /\ p + 1 <= Len(t)
    BY <1>2, <2>1, <2>2
  <2> QED
    BY <1>0, <1>1, <1>3, <2>1, <2>3 DEF Places, Made, Past
<1>4. CASE ~(b < 128)
  <2>0. b >= 128
    BY <1>4 DEF Byte
  <2>1. PICK x \in {194, 195}, c \in 128..191 : x = 192 + (b \div 64) /\ c = 128 + (b % 64) /\ Narrowed(x, c) = b
    BY <2>0, WidenNarrows
  <2>2. Len(w) = 2 /\ At(w, 0) = x /\ At(w, 1) = c
    BY <1>1, <2>0, <2>1, WidenIs
  <2>3. 0 \in Places(w) /\ p + 0 = p /\ 1 \in Places(w)
    BY <2>2 DEF Places
  <2>4. At(t, p) = x /\ At(t, p + 1) = c /\ p + 2 <= Len(t)
    BY <1>2, <2>2, <2>3
  <2>5. ~(x < 128)
    OBVIOUS
  <2>6. IsContinuation(c)
    <3>1. c \in Byte
      BY DEF Byte
    <3> QED
      BY <3>1, SeqLenIs
  <2>7. p \in Places(t) /\ p + 1 < Len(t) /\ p + 2 \in (p + 1)..Len(t)
    BY <1>0, <2>4 DEF Places
  <2>8. Paired(t, p)
    BY <2>4, <2>6, <2>7 DEF Paired
  <2>9. Made(t, p) = b /\ Past(t, p) = p + 2
    BY <2>1, <2>4, <2>5 DEF Made, Past
  <2> QED
    BY <1>1, <1>4, <2>2, <2>4, <2>5, <2>7, <2>8, <2>9
<1> QED
  BY <1>3, <1>4

(* An upgrade contracts, and its downgrade is the text.                    *)
LEMMA ReadsBack ==
  ASSUME NEW s \in Text
  PROVE  Contracts(UpgradedBytes(s)) /\ DowngradedBytes(UpgradedBytes(s)) = s
<1>1. PICK N \in Nat : N = Len(s)
  BY ByteAt
<1>2. PICK U \in Text : /\ U = UpgradedBytes(s) /\ Len(U) = Spot(s, N)
                        /\ \A i \in 1..N : Window(Widen(s[i]), U, Spot(s, i - 1))
  BY <1>1, UpgradeSpots
<1>3. /\ Spot(s, 0) = 0
      /\ \A i \in 0..N : Spot(s, i) \in Nat
      /\ \A i \in 1..N : Spot(s, i) = Spot(s, i - 1) + Len(Widen(s[i])) /\ s[i] \in Byte
  BY <1>1, SpotIs, WidenedIs
<1>4. PICK ok : /\ Contracts(U) = ok[0]
                /\ \A i \in 0..Len(U) : ok[i] = IF i = Len(U) THEN TRUE
                                               ELSE IF At(U, i) < 128 THEN ok[i + 1]
                                               ELSE Paired(U, i) /\ ok[i + 2]
  BY ContractsTable
<1>5. PICK q : Downgrading(q, U) /\ DowngradedBytes(U) = q[0]
  BY DowngradeRuns
<1> DEFINE S == {j \in 0..N : ok[Spot(s, j)] /\ q[Spot(s, j)] = Bytes(s, j, N)}
<1>6. ASSUME NEW j \in 0..N, \A k \in (j + 1)..N : k \in S
      PROVE  ok[Spot(s, j)] /\ q[Spot(s, j)] = Bytes(s, j, N)
  <2>1. PICK p \in Nat : p = Spot(s, j)
    BY <1>3
  <2>2. CASE j = N
    <3>1. p = Len(U) /\ p \in 0..Len(U) /\ p \in 0..(Len(U) + 1) /\ p >= Len(U)
      BY <1>2, <2>1, <2>2
    <3>2. ok[p]
      BY <1>4, <3>1
    <3>3. q[p] = <<>>
      BY <1>5, <3>1 DEF Downgrading
    <3>4. Bytes(s, N, N) = <<>>
      <4>1. N <= N /\ N <= Len(s)
        BY <1>1
      <4>2. Bytes(s, N, N) \in Text /\ Len(Bytes(s, N, N)) = N - N
        BY <4>1, PartIs
      <4>3. N - N = 0
        OBVIOUS
      <4> QED
        BY <4>2, <4>3, EmptySeq DEF Text
    <3> QED
      BY <2>1, <2>2, <3>2, <3>3, <3>4
  <2>3. CASE j # N
    <3>1. PICK k \in 1..N : k = j + 1 /\ k - 1 = j
      <4>1. j + 1 \in 1..N /\ (j + 1) - 1 = j
        BY <2>3
      <4> QED
        BY <4>1
    <3>2. PICK b \in Byte : b = s[k]
      BY <1>3
    <3>3. Window(Widen(b), U, p) /\ Spot(s, k) = p + Len(Widen(b))
      BY <1>2, <1>3, <2>1, <3>1, <3>2
    <3>4. /\ p \in Places(U) /\ (At(U, p) < 128 \/ Paired(U, p))
          /\ Made(U, p) = b /\ Past(U, p) = p + Len(Widen(b))
      BY <3>3, WidenedAt
    <3>5. PICK m : m = Past(U, p) /\ ok[m] /\ q[m] = Bytes(s, k, N)
      <4>1. k \in S
        BY <1>6, <3>1
      <4> QED
        BY <3>3, <3>4, <4>1
    <3>6. p \in 0..Len(U) /\ p \in 0..(Len(U) + 1) /\ p # Len(U) /\ ~(p >= Len(U))
      BY <3>4, ByteAt DEF Places
    <3>7. ok[p]
      BY <1>4, <3>4, <3>5, <3>6 DEF Past
    <3>8. q[p] = <<b>> \o Bytes(s, k, N)
      <4>1. q[p] = <<Made(U, p)>> \o q[Past(U, p)]
        BY <1>5, <3>6 DEF Downgrading
      <4> QED
        BY <3>4, <3>5, <4>1
    <3>9. Bytes(s, j, N) = <<b>> \o Bytes(s, k, N)
      <4>1. PICK w \in Text : w = <<b>> /\ Len(w) = 1 /\ At(w, 0) = b
        <5>1. <<b>> \in Seq(Byte) /\ Len(<<b>>) = 1 /\ <<b>>[1] = b
          <6> HIDE DEF Byte
          <6> QED
            OBVIOUS
        <5>2. At(<<b>>, 0) = b
          BY <5>1 DEF At
        <5> QED
          BY <5>1, <5>2 DEF Text
      <4>2. PICK i \in Nat : i = j
        OBVIOUS
      <4>3. Window(w, s, i)
        <5>1. \A x \in Places(w) : x = 0 /\ i + x = i
          BY <4>1 DEF Places
        <5>2. At(s, i) = b /\ i + 1 <= Len(s)
          BY <1>1, <3>1, <3>2, <4>2 DEF At
        <5> QED
          BY <4>1, <5>1, <5>2 DEF Window
      <4>4. Bytes(s, i, Len(s)) = w \o Bytes(s, i + Len(w), Len(s))
        BY <4>3, RestIs
      <4> QED
        BY <1>1, <3>1, <4>1, <4>2, <4>4
    <3> QED
      BY <2>1, <3>7, <3>8, <3>9
  <2> QED
    BY <2>2, <2>3
<1>7. 0 \in S
  <2>1. \A i \in 0..N : (\A j \in (i + 1)..N : j \in S) => i \in S
    BY <1>6
  <2>2. \A i \in 0..N : i \in S
    <3> HIDE DEF S
    <3> QED
      BY <2>1, DownFrom
  <2>3. 0 \in 0..N
    OBVIOUS
  <2> QED
    BY <2>2, <2>3
<1>8. Contracts(U) /\ DowngradedBytes(U) = Bytes(s, 0, N)
  BY <1>3, <1>4, <1>5, <1>7
<1>9. Bytes(s, 0, N) = s
  BY <1>1, WholeIs
<1> QED
  BY <1>2, <1>8, <1>9

(* A Latin-1 character past ASCII is a pair.                               *)
LEMMA PairAt ==
  ASSUME NEW s \in Text, NEW i \in Places(s), Decodes(s, i), At(s, i) < 196, ~(At(s, i) < 128)
  PROVE  Paired(s, i) /\ SeqLen(At(s, i)) = 2
<1>1. Len(s) \in Nat /\ i \in Nat /\ At(s, i) \in Byte
  BY ByteAt DEF Places
<1>2. ~IsContinuation(At(s, i)) /\ i + SeqLen(At(s, i)) <= Len(s)
  BY DecodedIs
<1>3. PICK b \in 192..195 : b = At(s, i) /\ b \in Byte
  <2>1. ~(At(s, i) \in 128..191)
    BY <1>1, <1>2, SeqLenIs
  <2>2. PICK b \in Byte : b = At(s, i)
    BY <1>1
  <2>3. b \in 192..195
    BY <2>1, <2>2 DEF Byte
  <2> QED
    BY <2>2, <2>3
<1>4. SeqLen(b) = 2
  <2>1. b \in 192..223
    OBVIOUS
  <2> QED
    BY <1>3, <2>1, SeqLenIs
<1>5. i + 2 <= Len(s) /\ i + 1 < Len(s)
  BY <1>1, <1>2, <1>3, <1>4
<1>6. IsContinuation(At(s, i + 1))
  <2>1. \A k \in 1..(SeqLen(At(s, i)) - 1) : IsContinuation(At(s, i + k))
    BY DecodedIs
  <2>2. 1 \in 1..(SeqLen(At(s, i)) - 1)
    BY <1>3, <1>4
  <2> QED
    BY <2>1, <2>2
<1>7. PICK e \in Nat : e = i + 2 /\ i <= e /\ e <= Len(s)
  BY <1>1, <1>5
<1>8. PICK c \in Text : /\ c = Bytes(s, i, e) /\ Len(c) = 2 /\ At(c, 0) = b
                        /\ At(c, 1) = At(s, i + 1)
  <2>1. /\ Bytes(s, i, e) \in Text /\ Len(Bytes(s, i, e)) = e - i
        /\ \A k \in 0..(e - i - 1) : At(Bytes(s, i, e), k) = At(s, i + k)
    BY <1>1, <1>7, PartIs
  <2>2. e - i = 2 /\ 0 \in 0..(e - i - 1) /\ 1 \in 0..(e - i - 1) /\ i + 0 = i
    BY <1>1, <1>7
  <2>3. PICK c \in Text : c = Bytes(s, i, e)
    BY <2>1
  <2>4. Len(c) = 2 /\ At(c, 0) = At(s, i + 0) /\ At(c, 1) = At(s, i + 1)
    BY <2>1, <2>2, <2>3
  <2> QED
    BY <1>3, <2>2, <2>3, <2>4
<1>9. c = Sequence(s, i)
  BY <1>3, <1>4, <1>7, <1>8 DEF Sequence
<1>10. Value(c) >= 128
  <2>1. IsMinimal(c)
    BY <1>9 DEF Decodes, WellFormed
  <2>2. Value(c) >= MinForLen[Len(c)]
    BY <1>8, <2>1 DEF IsMinimal
  <2>3. MinForLen[2] = 128
    BY DEF MinForLen
  <2> QED
    BY <1>8, <2>2, <2>3
<1>11. PICK r \in 0..63 : r = At(c, 1) % 64
  <2>1. i + 1 \in Places(s)
    BY <1>1, <1>5 DEF Places
  <2>2. At(c, 1) \in Byte
    BY <1>8, <2>1, ByteAt
  <2>3. At(c, 1) % 64 \in 0..63
    BY <2>2 DEF Byte
  <2> QED
    BY <2>3
<1>12. (b - 192) * 64 + r >= 128
  BY <1>8, <1>10, <1>11, ValueOfTwo
<1>13. b \in {194, 195}
  BY <1>12
<1> QED
  BY <1>3, <1>4, <1>5, <1>6, <1>13 DEF Paired

(* Text of the Latin-1 range is an upgrade.                                *)
LEMMA LatinUpgrades ==
  ASSUME NEW s \in Text, ClassifyFull(s).class \in {"Ascii", "Utf8Latin1"}
  PROVE  \E d \in Text : UpgradedBytes(d) = s
<1>1. PICK N \in Nat : N = Len(s)
  BY ByteAt
<1> DEFINE Narrow(i) == Sound(s, i) /\ \A k \in Leads(s, i) : Rank(CharClass(s, k)) <= 1
           S == {i \in 0..N : Narrow(i) => \E d : Undoes(d, s, i)}
<1>2. Narrow(0)
  <2>1. Tells(ClassifyFull(s), s, 0)
    BY ClassifyTells
  <2>2. PICK k \in {"Ascii", "Utf8Latin1"} : k = ClassifyFull(s).class
    OBVIOUS
  <2>3. Rank(k) <= 1 /\ k # "MalformedUtf8" /\ 1 \in 0..3
    BY RankIs
  <2> QED
    BY <2>1, <2>2, <2>3 DEF Tells
<1>3. ASSUME NEW i \in 0..N, \A j \in (i + 1)..N : j \in S, Narrow(i)
      PROVE  \E d : Undoes(d, s, i)
  <2>1. CASE i = N
    BY <1>1, <2>1, UndoesAtEnd
  <2>2. CASE i # N
    <3>1. i \in Places(s) /\ i \in Nat /\ At(s, i) \in Byte
      <4>1. i \in Places(s)
        BY <1>1, <2>2 DEF Places
      <4> QED
        BY <4>1, ByteAt
    <3>2. Decodes(s, i)
      <4>1. SUFFICES ASSUME ~Decodes(s, i) PROVE FALSE
        OBVIOUS
      <4>2. Tells(Finding("MalformedUtf8", 0), s, i)
        BY <3>1, <4>1, TellsStuck
      <4> QED
        BY <1>3, <4>2 DEF Tells, Finding
    <3>3. PICK m : /\ m = i + SeqLen(At(s, i)) /\ m \in (i + 1)..Len(s)
                   /\ Leads(s, i) = Leads(s, m) \cup {i} /\ (Sound(s, i) <=> Sound(s, m))
      BY <3>1, <3>2, SoundOn
    <3>4. At(s, i) < 196
      BY <1>3, <3>1, <3>2, <3>3, CharRange
    <3>5. (At(s, i) < 128 \/ Paired(s, i)) /\ Past(s, i) = m
      <4>1. CASE At(s, i) < 128
        BY <3>1, <3>3, <4>1, AsciiDecodes DEF Past
      <4>2. CASE ~(At(s, i) < 128)
        BY <3>1, <3>2, <3>3, <3>4, <4>2, PairAt DEF Past
      <4> QED
        BY <4>1, <4>2
    <3>6. PICK x \in Byte : Window(Widen(x), s, i) /\ m = i + Len(Widen(x))
      BY <3>1, <3>5, MadeWidens
    <3>7. PICK d : Undoes(d, s, m)
      <4>1. m \in S
        BY <1>1, <1>3, <3>3
      <4>2. Narrow(m)
        BY <1>3, <3>3
      <4> QED
        BY <4>1, <4>2
    <3>8. Undoes(<<x>> \o d, s, i)
      BY <3>1, <3>6, <3>7, UndoesOn
    <3> QED
      BY <3>8
  <2> QED
    BY <2>1, <2>2
<1>4. 0 \in S
  <2>1. \A i \in 0..N : (\A j \in (i + 1)..N : j \in S) => i \in S
    BY <1>3
  <2>2. \A i \in 0..N : i \in S
    <3> HIDE DEF S
    <3> QED
      BY <2>1, DownFrom
  <2>3. 0 \in 0..N
    OBVIOUS
  <2> QED
    BY <2>2, <2>3
<1>5. PICK d : Undoes(d, s, 0)
  BY <1>2, <1>4
<1>6. Bytes(s, 0, N) = s
  BY <1>1, WholeIs
<1> QED
  BY <1>1, <1>5, <1>6 DEF Undoes

(* An upgrade has two variant bytes for each of the text's.                *)
LEMMA UpgradeVariants ==
  ASSUME NEW s \in Text
  PROVE  VariantCount(UpgradedBytes(s)) = 2 * VariantCount(s)
<1>1. PICK N \in Nat : N = Len(s)
  BY ByteAt
<1>2. PICK U \in Text : /\ U = UpgradedBytes(s) /\ Len(U) = Spot(s, N)
                        /\ \A i \in 1..N : Window(Widen(s[i]), U, Spot(s, i - 1))
  BY <1>1, UpgradeSpots
<1>3. /\ Spot(s, 0) = 0
      /\ \A i \in 0..N : Spot(s, i) \in Nat
      /\ \A i \in 1..N : Spot(s, i) = Spot(s, i - 1) + Len(Widen(s[i])) /\ s[i] \in Byte
  BY <1>1, SpotIs, WidenedIs
<1> DEFINE S == {i \in 0..N : Cardinality(Among(Spot(s, i), Variants(U))) = 2 * Cardinality(Among(i, Variants(s)))}
<1>4. 0 \in S
  <2>1. Cardinality(Among(0, Variants(U))) = 0 /\ Cardinality(Among(0, Variants(s))) = 0
    BY CountIs
  <2> QED
    BY <1>3, <2>1
<1>5. ASSUME NEW i \in 0..(N - 1), i \in S PROVE i + 1 \in S
  <2>1. PICK k \in 1..N : k = i + 1 /\ k - 1 = i
    <3>1. i + 1 \in 1..N /\ (i + 1) - 1 = i
      OBVIOUS
    <3> QED
      BY <3>1
  <2>2. PICK b \in Byte, p \in Nat, j \in Nat : b = s[k] /\ p = Spot(s, i) /\ j = i
    <3>1. s[k] \in Byte /\ i \in 0..N /\ i \in Nat
      BY <1>3
    <3>2. Spot(s, i) \in Nat
      BY <1>3, <3>1
    <3> QED
      BY <3>1, <3>2
  <2>3. Window(Widen(b), U, p) /\ Spot(s, k) = p + Len(Widen(b))
    BY <1>2, <1>3, <2>1, <2>2
  <2>4. PICK c \in Nat, a \in Nat :
          c = Cardinality(Among(p, Variants(U))) /\ a = Cardinality(Among(j, Variants(s)))
    BY CountIs
  <2>5. c = 2 * a
    BY <1>5, <2>2, <2>4
  <2>6. /\ p \in Places(U) /\ (At(U, p) < 128 <=> b < 128) /\ (At(U, p) < 128 \/ Paired(U, p))
        /\ Past(U, p) = p + Len(Widen(b))
    BY <2>3, WidenedAt
  <2>7. p + 1 \in Variants(U) <=> ~(b < 128)
    <3>1. PICK x \in Byte : x = At(U, p) /\ p + 1 \in 1..Len(U) /\ U[p + 1] = x
      BY <2>6, ByteAt
    <3>2. x >= 128 <=> ~(x < 128)
      BY DEF Byte
    <3> QED
      BY <2>6, <3>1, <3>2 DEF Variants
  <2>8. k \in Variants(s) <=> b >= 128
    BY <1>1, <2>2 DEF Variants
  <2>9. CASE b < 128
    <3>1. Spot(s, k) = p + 1
      BY <2>3, <2>6, <2>9 DEF Past
    <3>2. p + 1 \notin Variants(U)
      BY <2>7, <2>9
    <3>3. Among(p + 1, Variants(U)) = Among(p, Variants(U))
      BY <3>2, CountIs
    <3>4. j + 1 \notin Variants(s)
      BY <2>1, <2>2, <2>8, <2>9 DEF Byte
    <3>5. Among(j + 1, Variants(s)) = Among(j, Variants(s))
      BY <3>4, CountIs
    <3>6. Cardinality(Among(Spot(s, i + 1), Variants(U))) = c /\ Cardinality(Among(i + 1, Variants(s))) = a
      BY <2>1, <2>2, <2>4, <3>1, <3>3, <3>5
    <3> QED
      BY <2>5, <3>6
  <2>10. CASE ~(b < 128)
    <3>1. Spot(s, k) = (p + 1) + 1
      BY <2>3, <2>6, <2>10 DEF Past
    <3>2. p + 1 \in Variants(U)
      BY <2>7, <2>10
    <3>3. (p + 1) + 1 \in Variants(U)
      <4>1. PICK n \in Nat : n = p + 1
        OBVIOUS
      <4>2. n \in Places(U) /\ IsContinuation(At(U, n))
        <5>1. Len(U) \in Nat
          BY ByteAt
        <5> QED
          BY <2>6, <2>10, <4>1, <5>1 DEF Paired, Places
      <4>3. At(U, n) \in 128..191 /\ n + 1 \in 1..Len(U) /\ At(U, n) = U[n + 1]
        BY <4>2, ByteAt, SeqLenIs
      <4>4. PICK x \in 128..191 : x = U[n + 1]
        BY <4>3
      <4>5. x >= 128
        OBVIOUS
      <4>6. n + 1 \in Variants(U)
        BY <4>3, <4>4, <4>5 DEF Variants
      <4> QED
        BY <4>1, <4>6
    <3>4. Cardinality(Among(p + 1, Variants(U))) = c + 1
      BY <2>4, <3>2, CountIs
    <3>5. Cardinality(Among((p + 1) + 1, Variants(U))) = (c + 1) + 1
      <4>1. PICK n \in Nat : n = p + 1
        OBVIOUS
      <4>2. Cardinality(Among(n + 1, Variants(U))) = Cardinality(Among(n, Variants(U))) + 1
        BY <3>3, <4>1, CountIs
      <4> QED
        BY <3>4, <4>1, <4>2
    <3>6. j + 1 \in Variants(s)
      BY <2>1, <2>2, <2>8, <2>10 DEF Byte
    <3>7. Cardinality(Among(j + 1, Variants(s))) = a + 1
      BY <2>4, <3>6, CountIs
    <3>8. (c + 1) + 1 = 2 * (a + 1)
      BY <2>5
    <3> QED
      BY <2>1, <2>2, <3>1, <3>5, <3>7, <3>8
  <2> QED
    BY <2>9, <2>10
<1>6. N \in S
  <2>1. \A i \in 0..N : i \in S
    <3> HIDE DEF S
    <3> QED
      BY <1>4, <1>5, UpTo
  <2>2. N \in 0..N
    OBVIOUS
  <2> QED
    BY <2>1, <2>2
<1>7. VariantCount(U) = Cardinality(Among(Spot(s, N), Variants(U)))
  BY <1>2, SpotIs
<1>8. VariantCount(s) = Cardinality(Among(N, Variants(s)))
  BY <1>1, SpotIs
<1> QED
  BY <1>2, <1>6, <1>7, <1>8

(* Text with a part overwritten.                                           *)
Patched(u, w, a) == [i \in DOMAIN u |-> IF i - 1 >= a /\ i - 1 < a + Len(w) THEN w[i - a] ELSE u[i]]

(* It holds the part, and the text around it.                              *)
LEMMA PatchIs ==
  ASSUME NEW u \in Text, NEW w \in Text, NEW a \in Nat, a + Len(w) <= Len(u),
         NEW z, z = Patched(u, w, a)
  PROVE  /\ z \in Text /\ Len(z) = Len(u) /\ Window(w, z, a)
         /\ \A k \in Places(u) : k < a \/ k >= a + Len(w) => At(z, k) = At(u, k)
<1>1. PICK N \in Nat, n \in Nat : N = Len(u) /\ n = Len(w) /\ a + n <= N /\ DOMAIN u = 1..N
  <2>1. DOMAIN u = 1..Len(u)
    BY LenProperties DEF Text
  <2> QED
    BY <2>1, ByteAt
<1>2. (\A i \in 1..N : u[i] \in Byte) /\ \A i \in 1..n : w[i] \in Byte
  BY <1>1, WidenedIs
<1>3. ASSUME NEW i \in 1..N
      PROVE  (IF i - 1 >= a /\ i - 1 < a + n THEN w[i - a] ELSE u[i]) \in Byte
  <2>1. i - 1 >= a /\ i - 1 < a + n => i - a \in 1..n
    OBVIOUS
  <2> QED
    BY <1>2, <2>1
<1>4. z = [i \in 1..N |-> IF i - 1 >= a /\ i - 1 < a + n THEN w[i - a] ELSE u[i]]
  BY <1>1 DEF Patched
<1>5. z \in [1..N -> Byte]
  <2> HIDE DEF Byte
  <2> QED
    BY <1>3, <1>4
<1>6. z \in Seq(Byte) /\ Len(z) = N
  <2> HIDE DEF Byte
  <2> QED
    BY <1>5
<1>7. ASSUME NEW k \in 0..(N - 1)
      PROVE  z[k + 1] = IF k >= a /\ k < a + n THEN w[k + 1 - a] ELSE u[k + 1]
  <2>1. k + 1 \in 1..N /\ (k + 1) - 1 = k
    OBVIOUS
  <2> QED
    BY <1>4, <2>1
<1>8. ASSUME NEW k \in 0..(n - 1) PROVE At(w, k) = At(z, a + k)
  <2>1. a + k \in 0..(N - 1) /\ (a + k) + 1 - a = k + 1 /\ a + k >= a /\ a + k < a + n
    BY <1>1
  <2> QED
    BY <1>7, <2>1 DEF At
<1>9. Window(w, z, a)
  BY <1>1, <1>6, <1>8 DEF Window, Places
<1>10. ASSUME NEW k \in 0..(N - 1), k < a \/ k >= a + n PROVE At(z, k) = At(u, k)
  <2>1. ~(k >= a /\ k < a + n)
    BY <1>10
  <2>2. z[k + 1] = u[k + 1]
    BY <1>7, <2>1
  <2> QED
    BY <2>2 DEF At
<1> QED
  BY <1>1, <1>6, <1>9, <1>10 DEF Text, Places

(* Widening in place: what has been read is untouched, and from the        *)
(* destination cursor on stands what the upgrade has there.                *)
Widening ==
  /\ pos \in First..Len(text) /\ dst = Spot(text, pos)
  /\ buf \in Text /\ Len(buf) = Spot(text, Len(text)) + 1
  /\ \A i \in 1..pos : buf[i] = text[i]
  /\ \A k \in dst..(Spot(text, Len(text)) - 1) : At(buf, k) = At(UpgradedBytes(text), k)
  /\ result # <<>> => pos = First /\ result = <<Spot(text, Len(text))>>

(* Narrowing in place: the text is the upgrade of some d, of which the     *)
(* buffer holds as much as the destination cursor says.                    *)
Narrowing ==
  \E d \in Text :
    /\ UpgradedBytes(d) = text
    /\ dst \in 0..Len(d) /\ pos = Spot(d, dst)
    /\ buf \in Text /\ Len(buf) = Len(text)
    /\ \A i \in 1..dst : buf[i] = d[i]
    /\ \A i \in (pos + 1)..Len(text) : buf[i] = text[i]
    /\ result # <<>> => dst = Len(d) /\ result = <<Len(d)>>

RewriteInv ==
  /\ Given
  /\ walk = "expand" => Widening
  /\ walk = "contract" => Narrowing

(* One byte widened.                                                       *)
LEMMA ExpandByteWidens ==
  ASSUME RewriteInv, ExpandByte
  PROVE  Widening'
<1>1. /\ Widening /\ text \in Text /\ walk = "expand" /\ result = <<>> /\ pos > First
      /\ dst' = dst - Len(Widen(At(buf, pos - 1)))
      /\ buf' = [i \in DOMAIN buf |-> IF i - 1 >= dst' /\ i - 1 < dst
                                      THEN Widen(At(buf, pos - 1))[i - dst'] ELSE buf[i]]
      /\ pos' = pos - 1 /\ text' = text /\ result' = result
  BY DEF RewriteInv, Given, ExpandByte, Running, input
<1>2. PICK s \in Text, N \in Nat : s = text /\ N = Len(s)
  BY <1>1, ByteAt
<1>3. First \in 0..N /\ First' = First
  BY <1>1, <1>2, FirstIs DEF First
<1>4. PICK p \in 1..N, q \in 0..(N - 1) : p = pos /\ q = pos' /\ q = p - 1 /\ q \in First..N
  <2>1. pos \in First..N
    BY <1>1, <1>2 DEF Widening
  <2>2. pos \in 1..N /\ pos - 1 \in 0..(N - 1) /\ pos - 1 \in First..N
    BY <1>1, <1>3, <2>1
  <2> QED
    BY <1>1, <2>2
<1>5. PICK M \in Nat, U \in Text : /\ M = Spot(s, N) /\ U = UpgradedBytes(s) /\ Len(U) = M
                                   /\ \A i \in 1..N : Window(Widen(s[i]), U, Spot(s, i - 1))
  <2>1. N \in 0..N
    OBVIOUS
  <2> QED
    BY <1>2, <2>1, SpotIs, UpgradeSpots
<1>6. PICK b \in Byte : b = s[p]
  BY <1>2, WidenedIs
<1>7. At(buf, pos - 1) = b
  <2>1. (p - 1) + 1 = p /\ p \in 1..p
    OBVIOUS
  <2> QED
    BY <1>1, <1>2, <1>4, <1>6, <2>1 DEF At, Widening
<1>8. PICK w \in Text : w = Widen(b) /\ Len(w) \in Nat
  BY WidenIs, ByteAt
<1>9. PICK a \in Nat : a = Spot(s, q) /\ a >= q /\ dst = a + Len(w)
  <2>1. q \in 0..N
    OBVIOUS
  <2>2. Spot(s, q) \in Nat /\ Spot(s, q) >= q
    BY <1>2, <2>1, SpotIs
  <2>3. Spot(s, p) = Spot(s, p - 1) + Len(Widen(s[p]))
    BY <1>2, SpotIs
  <2>4. dst = Spot(s, p)
    BY <1>1, <1>2, <1>4 DEF Widening
  <2> QED
    BY <1>4, <1>6, <1>8, <2>2, <2>3, <2>4
<1>10. dst' = a
  BY <1>1, <1>7, <1>8, <1>9
<1>11. Window(w, U, a)
  BY <1>4, <1>5, <1>6, <1>8, <1>9
<1>12. a + Len(w) <= M
  BY <1>5, <1>11 DEF Window
<1>13. PICK u \in Text : u = buf /\ Len(u) = M + 1
  BY <1>1, <1>2, <1>5 DEF Widening
<1>14. PICK z : z = buf'
  OBVIOUS
<1>15. /\ z \in Text /\ Len(z) = M + 1 /\ Window(w, z, a)
       /\ \A k \in Places(u) : k < a \/ k >= a + Len(w) => At(z, k) = At(u, k)
  <2>1. z = Patched(u, w, a)
    BY <1>1, <1>7, <1>8, <1>9, <1>10, <1>13, <1>14 DEF Patched
  <2>2. a + Len(w) <= Len(u)
    BY <1>8, <1>12, <1>13
  <2> QED
    BY <1>13, <2>1, <2>2, PatchIs
<1>16. ASSUME NEW i \in 1..q PROVE z[i] = s[i]
  <2>1. PICK k \in 0..(q - 1) : k = i - 1 /\ k + 1 = i
    <3>1. i - 1 \in 0..(q - 1) /\ (i - 1) + 1 = i
      OBVIOUS
    <3> QED
      BY <3>1
  <2>2. k < a
    BY <1>9, <2>1
  <2>3. k \in Places(u)
    BY <1>8, <1>9, <1>12, <1>13, <2>1, <2>2 DEF Places
  <2>4. At(z, k) = At(u, k)
    BY <1>15, <2>2, <2>3
  <2>5. i \in 1..p
    BY <1>4
  <2>6. u[i] = s[i]
    BY <1>1, <1>2, <1>4, <1>13, <2>5 DEF Widening
  <2> QED
    BY <2>1, <2>4, <2>6 DEF At
<1>17. ASSUME NEW k \in a..(M - 1) PROVE At(z, k) = At(U, k)
  <2>1. CASE k < a + Len(w)
    <3>1. PICK i \in Places(w) : a + i = k
      <4>1. k - a \in Places(w) /\ a + (k - a) = k
        BY <1>8, <2>1 DEF Places
      <4> QED
        BY <4>1
    <3> QED
      BY <1>11, <1>15, <3>1 DEF Window
  <2>2. CASE ~(k < a + Len(w))
    <3>1. k \in (a + Len(w))..(M - 1) /\ k >= a + Len(w) /\ k \in Places(u)
      BY <1>8, <1>13, <2>2 DEF Places
    <3>2. At(u, k) = At(U, k)
      <4>1. k \in dst..(M - 1)
        BY <1>9, <3>1
      <4> QED
        BY <1>1, <1>2, <1>5, <1>13, <4>1 DEF Widening
    <3> QED
      BY <1>15, <3>1, <3>2
  <2> QED
    BY <2>1, <2>2
<1> QED
  BY <1>1, <1>2, <1>3, <1>4, <1>5, <1>9, <1>10, <1>14, <1>15, <1>16, <1>17 DEF Widening

(* One character narrowed.                                                 *)
LEMMA ContractCharNarrows ==
  ASSUME RewriteInv, ContractChar
  PROVE  Narrowing'
<1>1. /\ Narrowing /\ text \in Text /\ result = <<>> /\ pos < Len(text)
      /\ At(buf, pos) < 128 => buf' = [buf EXCEPT ![dst + 1] = At(buf, pos)] /\ pos' = pos + 1
      /\ ~(At(buf, pos) < 128) =>
           buf' = [buf EXCEPT ![dst + 1] = Narrowed(At(buf, pos), At(buf, pos + 1))] /\ pos' = pos + 2
      /\ dst' = dst + 1 /\ text' = text /\ result' = result
  BY DEF RewriteInv, Given, ContractChar, Running, input
<1>2. PICK d \in Text :
        /\ UpgradedBytes(d) = text
        /\ dst \in 0..Len(d) /\ pos = Spot(d, dst)
        /\ buf \in Text /\ Len(buf) = Len(text)
        /\ \A i \in 1..dst : buf[i] = d[i]
        /\ \A i \in (pos + 1)..Len(text) : buf[i] = text[i]
  BY <1>1 DEF Narrowing
<1>3. PICK t \in Text, L \in Nat, n \in Nat : t = text /\ L = Len(t) /\ n = Len(d)
  BY <1>1, <1>2, ByteAt
<1>4. /\ L = Spot(d, n) /\ \A i \in 1..n : Window(Widen(d[i]), t, Spot(d, i - 1))
      /\ \A i \in 0..n : Spot(d, i) \in Nat /\ Spot(d, i) >= i
      /\ \A i \in 1..n : Spot(d, i) = Spot(d, i - 1) + Len(Widen(d[i])) /\ d[i] \in Byte
  BY <1>2, <1>3, UpgradeSpots, SpotIs, WidenedIs
<1>5. PICK j \in 1..n, m \in 0..n : m = dst /\ j = m + 1 /\ j - 1 = m /\ dst' = j
  <2>1. dst # n
    <3>1. dst = n => pos = L
      BY <1>2, <1>4
    <3> QED
      BY <1>1, <1>3, <3>1
  <2>2. dst \in 0..n /\ dst + 1 \in 1..n /\ (dst + 1) - 1 = dst
    BY <1>2, <1>3, <2>1
  <2> QED
    BY <1>1, <2>2
<1>6. PICK p \in Nat, b \in Byte : p = pos /\ p = Spot(d, m) /\ p >= m /\ b = d[j]
  BY <1>2, <1>4, <1>5
<1>7. /\ p \in Places(t) /\ (At(t, p) < 128 \/ Paired(t, p)) /\ Made(t, p) = b
      /\ Past(t, p) = Spot(d, j) /\ Past(t, p) \in (p + 1)..L
  <2>1. Window(Widen(b), t, p) /\ Spot(d, j) = p + Len(Widen(b))
    BY <1>4, <1>5, <1>6
  <2> QED
    BY <1>3, <2>1, WidenedAt
<1>8. PICK u \in Text : /\ u = buf /\ Len(u) = L /\ (\A i \in 1..m : u[i] = d[i])
                        /\ \A i \in (p + 1)..L : u[i] = t[i]
  BY <1>2, <1>3, <1>5, <1>6
<1>9. At(u, p) = At(t, p) /\ (Paired(t, p) => At(u, p + 1) = At(t, p + 1))
  <2>1. p + 1 \in (p + 1)..L
    BY <1>3, <1>7 DEF Places
  <2>2. At(u, p) = At(t, p)
    BY <1>8, <2>1 DEF At
  <2>3. ASSUME Paired(t, p) PROVE At(u, p + 1) = At(t, p + 1)
    <3>1. (p + 1) + 1 \in (p + 1)..L
      BY <1>3, <2>3 DEF Paired
    <3> QED
      BY <1>8, <3>1 DEF At
  <2> QED
    BY <2>2, <2>3
<1>10. buf' = [u EXCEPT ![j] = b] /\ pos' = Spot(d, j)
  <2>1. CASE At(t, p) < 128
    <3>1. At(t, p) = b /\ Past(t, p) = p + 1
      BY <1>7, <2>1 DEF Made, Past
    <3> QED
      BY <1>1, <1>5, <1>6, <1>7, <1>8, <1>9, <2>1, <3>1
  <2>2. CASE ~(At(t, p) < 128)
    <3>1. Narrowed(At(t, p), At(t, p + 1)) = b /\ Past(t, p) = p + 2 /\ Paired(t, p)
      BY <1>7, <2>2 DEF Made, Past
    <3> QED
      BY <1>1, <1>5, <1>6, <1>7, <1>8, <1>9, <2>2, <3>1
  <2> QED
    BY <2>1, <2>2
<1>11. PICK z, q : z = buf' /\ q \in Nat /\ q = pos' /\ q = Spot(d, j) /\ q >= j /\ q > p /\ q <= L
  <2>1. Spot(d, j) \in Nat /\ Spot(d, j) >= j
    BY <1>4
  <2>2. Spot(d, j) \in (p + 1)..L
    BY <1>7
  <2> QED
    BY <1>3, <1>6, <1>10, <2>1, <2>2
<1>12. z \in Text /\ Len(z) = L /\ z[j] = b /\ \A i \in 1..L : i # j => z[i] = u[i]
  <2>1. DOMAIN u = 1..L /\ j \in 1..L /\ \A i \in 1..L : u[i] \in Byte
    <3>1. DOMAIN u = 1..L
      BY <1>8, LenProperties DEF Text
    <3>2. j \in 1..L
      BY <1>3, <1>11
    <3> QED
      BY <1>8, <3>1, <3>2, WidenedIs
  <2>2. z = [i \in 1..L |-> IF i = j THEN b ELSE u[i]]
    <3>1. u = [i \in 1..L |-> u[i]]
      <4> HIDE DEF Byte
      <4> QED
        BY <2>1 DEF Text
    <3> QED
      BY <1>10, <1>11, <2>1, <3>1
  <2>3. z \in [1..L -> Byte]
    <3> HIDE DEF Byte
    <3> QED
      BY <2>1, <2>2
  <2>4. z \in Seq(Byte) /\ Len(z) = L
    <3> HIDE DEF Byte
    <3> QED
      BY <1>3, <2>3
  <2> QED
    BY <2>1, <2>2, <2>4 DEF Text
<1>13. \A i \in 1..j : z[i] = d[i]
  <2> TAKE i \in 1..j
  <2>1. i = j \/ (i \in 1..m /\ i # j /\ i \in 1..L)
    BY <1>3, <1>5, <1>11
  <2> QED
    BY <1>6, <1>8, <1>12, <2>1
<1>14. \A i \in (q + 1)..L : z[i] = t[i]
  <2> TAKE i \in (q + 1)..L
  <2>1. i \in 1..L /\ i # j /\ i \in (p + 1)..L
    BY <1>3, <1>6, <1>11
  <2> QED
    BY <1>8, <1>12, <2>1
<1>15. j \in 0..Len(d)
  BY <1>3
<1> QED
  BY <1>1, <1>2, <1>3, <1>5, <1>11, <1>12, <1>13, <1>14, <1>15 DEF Narrowing

(* The end of a narrowing walk.                                            *)
LEMMA ContractedNarrows ==
  ASSUME RewriteInv, Contracted
  PROVE  Narrowing'
<1>1. /\ Narrowing /\ text \in Text /\ pos >= Len(text)
      /\ result' = <<Len(text) - LatinContractions(text)>>
      /\ text' = text /\ buf' = buf /\ pos' = pos /\ dst' = dst
  BY DEF RewriteInv, Given, Contracted, Running, input
<1>2. PICK d \in Text :
        /\ UpgradedBytes(d) = text
        /\ dst \in 0..Len(d) /\ pos = Spot(d, dst)
        /\ buf \in Text /\ Len(buf) = Len(text)
        /\ \A i \in 1..dst : buf[i] = d[i]
        /\ \A i \in (pos + 1)..Len(text) : buf[i] = text[i]
  BY <1>1 DEF Narrowing
<1>3. PICK t \in Text, L \in Nat, n \in Nat : t = text /\ L = Len(t) /\ n = Len(d)
  BY <1>1, <1>2, ByteAt
<1>4. dst = n
  <2>1. SUFFICES ASSUME dst # n PROVE FALSE
    OBVIOUS
  <2>2. PICK j \in 1..n : j - 1 = dst
    <3>1. dst + 1 \in 1..n /\ (dst + 1) - 1 = dst
      BY <1>2, <1>3, <2>1
    <3> QED
      BY <3>1
  <2>3. PICK p \in Nat, b \in Byte : p = pos /\ b = d[j]
    <3>1. dst \in 0..n
      BY <1>2, <1>3
    <3>2. Spot(d, dst) \in Nat /\ d[j] \in Byte
      BY <1>3, <3>1, SpotIs, WidenedIs
    <3> QED
      BY <1>2, <3>2
  <2>4. Window(Widen(b), t, p)
    BY <1>2, <1>3, <2>2, <2>3, UpgradeSpots
  <2>5. p \in Places(t)
    BY <2>4, WidenedAt
  <2> QED
    BY <1>1, <1>3, <2>3, <2>5 DEF Places
<1>5. PICK c \in Nat : c = VariantCount(d) /\ L = n + c /\ VariantCount(t) = 2 * c
  <2>1. VariantCount(d) \in Nat /\ Spot(d, n) = n + VariantCount(d)
    BY <1>3, SpotIs
  <2>2. L = Spot(d, n)
    BY <1>2, <1>3, UpgradeSpots
  <2>3. VariantCount(t) = 2 * VariantCount(d)
    BY <1>2, <1>3, UpgradeVariants
  <2> QED
    BY <2>1, <2>2, <2>3
<1>6. LatinContractions(text) = c
  <2>1. (2 * c) \div 2 = c
    OBVIOUS
  <2> QED
    BY <1>3, <1>5, <2>1 DEF LatinContractions
<1>7. result' = <<n>>
  <2>1. L - c = n
    BY <1>5
  <2> QED
    BY <1>1, <1>3, <1>6, <2>1
<1> QED
  BY <1>1, <1>2, <1>3, <1>4, <1>7 DEF Narrowing

(* Up to the first variant byte an upgrade is the text itself, whichever   *)
(* of the two the ASCII bytes are known from.                              *)
LEMMA AsciiSpots ==
  ASSUME NEW d \in Text, NEW U, U = UpgradedBytes(d), NEW a \in Nat,
         \A i \in 1..a : (i <= Len(U) /\ U[i] < 128) \/ (i <= Len(d) /\ d[i] < 128)
  PROVE  \A i \in 0..a : i <= Len(d) /\ Spot(d, i) = i /\ (i > 0 => d[i] = U[i])
<1>1. PICK n \in Nat, L \in Nat : n = Len(d) /\ U \in Text /\ L = Len(U)
  BY UpgradeSpots, ByteAt
<1>2. /\ L = Spot(d, n) /\ \A i \in 1..n : Window(Widen(d[i]), U, Spot(d, i - 1))
      /\ Spot(d, 0) = 0
      /\ \A i \in 1..n : Spot(d, i) = Spot(d, i - 1) + Len(Widen(d[i])) /\ d[i] \in Byte
  BY <1>1, UpgradeSpots, SpotIs, WidenedIs
<1> DEFINE S == {i \in 0..a : i <= n /\ Spot(d, i) = i /\ (i > 0 => d[i] = U[i])}
<1>3. 0 \in S
  BY <1>2
<1>4. ASSUME NEW i \in 0..(a - 1), i \in S PROVE i + 1 \in S
  <2>1. PICK p \in Nat, j \in 1..a : p = i /\ j = i + 1 /\ j - 1 = p
    <3>1. i \in Nat /\ i + 1 \in 1..a /\ (i + 1) - 1 = i
      OBVIOUS
    <3> QED
      BY <3>1
  <2>2. p <= n /\ Spot(d, p) = p
    BY <1>4, <2>1
  <2>3. j \in 1..n
    <3>1. CASE j <= L
      <4>1. p # n
        BY <1>2, <2>1, <2>2, <3>1
      <4> QED
        BY <2>1, <2>2, <4>1
    <3>2. CASE j <= n
      BY <2>1, <3>2
    <3> QED
      BY <1>1, <3>1, <3>2
  <2>4. PICK b \in Byte : b = d[j]
    BY <1>2, <2>3
  <2>5. Window(Widen(b), U, p) /\ Spot(d, j) = p + Len(Widen(b))
    BY <1>2, <2>1, <2>2, <2>3, <2>4
  <2>6. /\ (At(U, p) < 128 <=> b < 128) /\ Made(U, p) = b /\ Past(U, p) = p + Len(Widen(b))
    BY <1>1, <2>5, WidenedAt
  <2>7. At(U, p) = U[j]
    BY <2>1 DEF At
  <2>8. U[j] < 128
    BY <1>1, <2>4, <2>6, <2>7
  <2>9. d[j] = U[j] /\ Spot(d, j) = j
    BY <2>1, <2>4, <2>5, <2>6, <2>7, <2>8 DEF Made, Past
  <2> QED
    BY <2>1, <2>3, <2>9
<1>5. \A i \in 0..a : i \in S
  <2> HIDE DEF S
  <2> QED
    BY <1>3, <1>4, UpTo
<1> QED
  BY <1>1, <1>5

(* The first state.                                                        *)
LEMMA RewriteInit ==
  ASSUME WalkInit
  PROVE  RewriteInv
<1>1. Given
  BY GivenAtFirst
<1>2. PICK t \in Text, L \in Nat : t = text /\ L = Len(t) /\ truth = ClassifyFull(t)
  BY <1>1, ByteAt DEF Given
<1>3. PICK a \in 0..L : a = First /\ \A i \in 1..a : t[i] < 128
  BY <1>2, FirstIs DEF First
<1>4. ASSUME walk = "expand" PROVE Widening
  <2>1. /\ buf = t \o [i \in 1..VariantCount(t) + 1 |-> 0] /\ pos = L /\ dst = L + VariantCount(t)
        /\ result = <<>>
    BY <1>2, <1>4 DEF WalkInit
  <2>2. PICK c \in Nat : c = VariantCount(t) /\ Spot(t, L) = L + c
    BY <1>2, SpotIs
  <2>3. PICK r \in Text : r = [i \in 1..c + 1 |-> 0] /\ Len(r) = c + 1
    <3>1. 0 \in Byte
      BY DEF Byte
    <3>2. [i \in 1..c + 1 |-> 0] \in Seq(Byte) /\ Len([i \in 1..c + 1 |-> 0]) = c + 1
      <4> HIDE DEF Byte
      <4> QED
        BY <3>1
    <3> QED
      BY <3>2 DEF Text
  <2>4. buf = t \o r /\ buf \in Text /\ Len(buf) = Spot(t, L) + 1
    <3>1. Len(t \o r) = L + (c + 1) /\ t \o r \in Text
      BY <1>2, <2>3, JoinedIs
    <3>2. L + (c + 1) = (L + c) + 1
      OBVIOUS
    <3> QED
      BY <2>1, <2>2, <2>3, <3>1, <3>2
  <2>5. \A i \in 1..L : buf[i] = t[i]
    <3> TAKE i \in 1..L
    <3>1. i \in 1..(Len(t) + Len(r)) /\ i <= Len(t)
      BY <1>2, <2>3
    <3> QED
      BY <2>4, <3>1, ConcatProperties DEF Text
  <2>6. pos \in First..L /\ dst = Spot(t, pos)
    BY <1>3, <2>1, <2>2
  <2>7. \A k \in dst..(Spot(t, L) - 1) : FALSE
    BY <2>1, <2>2
  <2> QED
    BY <1>2, <2>1, <2>4, <2>5, <2>6, <2>7 DEF Widening
<1>5. ASSUME walk = "contract" PROVE Narrowing
  <2>1. buf = t /\ pos = First /\ dst = First /\ result = <<>>
    BY <1>2, <1>5 DEF WalkInit, First
  <2>2. ClassifyFull(t).class \in {"Ascii", "Utf8Latin1"}
    BY <1>1, <1>2, <1>5 DEF Given, Accepts
  <2>3. PICK d \in Text : UpgradedBytes(d) = t
    BY <2>2, LatinUpgrades
  <2>4. \A i \in 0..a : i <= Len(d) /\ Spot(d, i) = i /\ (i > 0 => d[i] = t[i])
    <3>1. a \in Nat /\ \A i \in 1..a : i <= Len(t) /\ t[i] < 128
      BY <1>2, <1>3
    <3> QED
      BY <2>3, <3>1, AsciiSpots
  <2>5. a \in 0..a /\ a \in 0..Len(d) /\ \A i \in 1..a : i \in 0..a /\ i > 0
    <3>1. a \in 0..a
      OBVIOUS
    <3>2. a <= Len(d)
      BY <2>4, <3>1
    <3>3. a \in 0..Len(d)
      BY <3>2, ByteAt
    <3> QED
      BY <3>1, <3>3
  <2>6. dst \in 0..Len(d) /\ pos = Spot(d, dst) /\ \A i \in 1..dst : buf[i] = d[i]
    BY <1>3, <2>1, <2>4, <2>5
  <2> QED
    BY <1>2, <2>1, <2>3, <2>6 DEF Narrowing
<1> QED
  BY <1>1, <1>4, <1>5 DEF RewriteInv

(* The end of a widening walk.                                             *)
LEMMA ExpandedWidens ==
  ASSUME RewriteInv, Expanded
  PROVE  Widening'
<1>1. /\ Widening /\ text \in Text /\ pos <= First
      /\ result' = <<Len(text) + VariantCount(text)>>
      /\ text' = text /\ buf' = buf /\ pos' = pos /\ dst' = dst /\ First' = First
  BY DEF RewriteInv, Given, Expanded, Running, input, First
<1>2. PICK a \in Nat, L \in Nat : a = First /\ L = Len(text)
  <2>1. Len(text) \in Nat /\ First \in 0..Len(text)
    BY <1>1, ByteAt, FirstIs DEF First
  <2> QED
    BY <2>1
<1>3. pos = First
  <2>1. pos \in a..L
    BY <1>1, <1>2 DEF Widening
  <2> QED
    BY <1>1, <1>2, <2>1
<1>4. result' = <<Spot(text, Len(text))>>
  BY <1>1, SpotIs
<1> QED
  BY <1>1, <1>3, <1>4 DEF Widening

(* Every step.                                                             *)
LEMMA RewriteNext ==
  ASSUME RewriteInv, [WalkNext]_walkVars
  PROVE  RewriteInv'
<1>1. UNCHANGED input
  BY DEF WalkNext, walkVars, AsciiBlock, EnterBlock, DecodeChar, Malformed, Classified, KnownBail,
         KnownBlock, ExpandByte, Expanded, ContractChar, Contracted, input
<1>2. Given' /\ walk' = walk
  BY <1>1, GivenKept DEF RewriteInv
<1>3. CASE ExpandByte \/ Expanded
  <2>1. walk = "expand"
    BY <1>3 DEF ExpandByte, Expanded, Running
  <2>2. Widening'
    BY <1>3, ExpandByteWidens, ExpandedWidens
  <2> QED
    BY <1>2, <2>1, <2>2 DEF RewriteInv
<1>4. CASE ContractChar \/ Contracted
  <2>1. walk = "contract"
    BY <1>4 DEF ContractChar, Contracted, Running
  <2>2. Narrowing'
    BY <1>4, ContractCharNarrows, ContractedNarrows
  <2> QED
    BY <1>2, <2>1, <2>2 DEF RewriteInv
<1>5. CASE UNCHANGED walkVars
  BY <1>2, <1>5 DEF walkVars, RewriteInv, Widening, Narrowing, First
<1>6. CASE AsciiBlock \/ EnterBlock \/ DecodeChar \/ Malformed \/ Classified \/ KnownBail \/ KnownBlock
  <2>1. walk # "expand" /\ walk # "contract"
    BY <1>6 DEF AsciiBlock, EnterBlock, InBlock, DecodeChar, Malformed, Classified, KnownBail,
                KnownBlock, AtGate, Running, Classifying
  <2> QED
    BY <1>2, <2>1 DEF RewriteInv
<1> QED
  BY <1>3, <1>4, <1>5, <1>6 DEF WalkNext

(* The invariant says what a rewrite leaves.                               *)
LEMMA RewriteShows ==
  ASSUME RewriteInv
  PROVE  RewritesRight
<1>1. PICK t \in Text, L \in Nat : t = text /\ L = Len(t)
  BY ByteAt DEF RewriteInv, Given
<1>2. ASSUME walk = "expand"
      PROVE  /\ \A i \in 1..pos : buf[i] = text[i]
             /\ result # <<>> => /\ dst = First
                                 /\ Contracts(Bytes(buf, 0, result[1]))
                                 /\ DowngradedBytes(Bytes(buf, 0, result[1])) = text
  <2>1. Widening
    BY <1>2 DEF RewriteInv
  <2>2. SUFFICES ASSUME result # <<>>
                 PROVE  /\ dst = First
                        /\ Contracts(Bytes(buf, 0, result[1]))
                        /\ DowngradedBytes(Bytes(buf, 0, result[1])) = text
    BY <2>1 DEF Widening
  <2>3. PICK a \in 0..L : a = First /\ \A i \in 1..a : t[i] < 128
    BY <1>1, FirstIs DEF First
  <2>4. PICK U \in Text, M \in Nat : U = UpgradedBytes(t) /\ M = Len(U) /\ M = Spot(t, L)
    BY <1>1, UpgradeSpots, ByteAt
  <2>5. PICK u \in Text : /\ u = buf /\ Len(u) = M + 1
                          /\ \A i \in 1..a : u[i] = t[i]
                          /\ \A k \in dst..(M - 1) : At(u, k) = At(U, k)
    BY <1>1, <2>1, <2>2, <2>3, <2>4 DEF Widening
  <2>6. \A i \in 0..a : Spot(t, i) = i /\ (i > 0 => t[i] = U[i])
    <3>1. a \in Nat /\ \A i \in 1..a : i <= Len(t) /\ t[i] < 128
      BY <1>1, <2>3
    <3> QED
      BY <2>4, <3>1, AsciiSpots
  <2>7. dst = a /\ result[1] = M
    <3>1. a \in 0..a
      OBVIOUS
    <3>2. pos = a /\ result = <<M>> /\ dst = Spot(t, pos)
      BY <1>1, <2>1, <2>2, <2>3, <2>4 DEF Widening
    <3> QED
      BY <2>6, <3>1, <3>2
  <2>8. PICK z \in Nat : z = 0
    OBVIOUS
  <2>9. z <= M /\ M <= Len(u)
    BY <2>5, <2>8
  <2>10. /\ Bytes(u, z, M) \in Text /\ Len(Bytes(u, z, M)) = M - z
         /\ \A i \in 0..(M - z - 1) : At(Bytes(u, z, M), i) = At(u, z + i)
    BY <2>9, PartIs
  <2>11. ASSUME NEW k \in 0..(M - 1) PROVE At(u, k) = At(U, k)
    <3>1. CASE k < a
      <4>1. k + 1 \in 1..a /\ k + 1 \in 0..a /\ k + 1 > 0
        BY <3>1
      <4> QED
        BY <2>5, <2>6, <4>1 DEF At
    <3>2. CASE ~(k < a)
      <4>1. k \in dst..(M - 1)
        BY <2>7, <3>2
      <4> QED
        BY <2>5, <4>1
    <3> QED
      BY <3>1, <3>2
  <2>12. Bytes(u, z, M) = U
    <3>1. M - z = M /\ \A i \in 0..(M - z - 1) : z + i = i /\ i \in 0..(M - 1)
      BY <2>8
    <3>2. Places(U) = 0..(M - z - 1)
      BY <2>4, <3>1 DEF Places
    <3>3. PICK o \in Text : o = Bytes(u, z, M) /\ Len(o) = Len(U) /\ \A i \in Places(U) : At(o, i) = At(U, i)
      BY <2>4, <2>10, <2>11, <3>1, <3>2
    <3> QED
      BY <3>3, SameText
  <2> QED
    BY <1>1, <2>3, <2>4, <2>5, <2>7, <2>8, <2>12, ReadsBack
<1>3. ASSUME walk = "contract"
      PROVE  /\ \A i \in pos + 1..Len(text) : buf[i] = text[i]
             /\ result # <<>> => dst = result[1] /\ UpgradedBytes(Bytes(buf, 0, result[1])) = text
  <2>1. PICK d \in Text :
          /\ UpgradedBytes(d) = text /\ dst \in 0..Len(d) /\ pos = Spot(d, dst)
          /\ buf \in Text /\ Len(buf) = Len(text)
          /\ \A i \in 1..dst : buf[i] = d[i]
          /\ \A i \in (pos + 1)..Len(text) : buf[i] = text[i]
          /\ result # <<>> => dst = Len(d) /\ result = <<Len(d)>>
    BY <1>3 DEF RewriteInv, Narrowing
  <2>2. SUFFICES ASSUME result # <<>>
                 PROVE  dst = result[1] /\ UpgradedBytes(Bytes(buf, 0, result[1])) = text
    BY <2>1
  <2>3. PICK n \in Nat, u \in Text : n = Len(d) /\ u = buf /\ dst = n /\ result[1] = n /\ Len(u) = L
    BY <1>1, <2>1, <2>2, ByteAt
  <2>4. n <= L
    <3>1. n \in 0..n
      OBVIOUS
    <3>2. Spot(d, n) >= n
      BY <2>3, <3>1, SpotIs
    <3>3. L = Spot(d, n)
      BY <1>1, <2>1, <2>3, UpgradeSpots
    <3> QED
      BY <3>2, <3>3
  <2>5. PICK z \in Nat : z = 0 /\ z <= n /\ n <= Len(u)
    BY <2>3, <2>4
  <2>6. /\ Bytes(u, z, n) \in Text /\ Len(Bytes(u, z, n)) = n - z
        /\ \A i \in 0..(n - z - 1) : At(Bytes(u, z, n), i) = At(u, z + i)
    BY <2>5, PartIs
  <2>7. Bytes(u, z, n) = d
    <3>1. n - z = n /\ \A i \in 0..(n - z - 1) : z + i = i /\ i + 1 \in 1..n
      BY <2>5
    <3>2. Places(d) = 0..(n - z - 1)
      BY <2>3, <3>1 DEF Places
    <3>3. ASSUME NEW i \in Places(d) PROVE At(u, i) = At(d, i)
      <4>1. i + 1 \in 1..dst
        BY <2>3, <3>1, <3>2, <3>3
      <4> QED
        BY <2>1, <2>3, <4>1 DEF At
    <3>4. PICK o \in Text : o = Bytes(u, z, n) /\ Len(o) = Len(d) /\ \A i \in Places(d) : At(o, i) = At(d, i)
      BY <2>3, <2>6, <3>1, <3>2, <3>3
    <3> QED
      BY <3>4, SameText
  <2> QED
    BY <2>1, <2>3, <2>5, <2>7
<1> QED
  BY <1>2, <1>3 DEF RewritesRight, Rewriting

(* The rewrites in place (cow_buffer.rs, expand_latin1_in_place and        *)
(* contract_latin1_in_place) overwrite nothing they have still to read,    *)
(* and what they leave reads back as the text, for every text the loops    *)
(* accept.                                                                 *)
THEOREM WalksRewrite == WalkSpec => []RewritesRight
<1>1. WalkInit => RewriteInv
  BY RewriteInit
<1>2. RewriteInv /\ [WalkNext]_walkVars => RewriteInv'
  BY RewriteNext
<1>3. RewriteInv => RewritesRight
  BY RewriteShows
<1> QED
  BY <1>1, <1>2, <1>3, PTL DEF WalkSpec

-----------------------------------------------------------------------------
(* Two strings compared: the walk over an upgraded side and one that is    *)
(* not.                                                                    *)

(* What the walk reads at a place is the byte whose encoding stands there, *)
(* and only if one does.                                                   *)
LEMMA PlainByteIs ==
  ASSUME NEW s \in Text, NEW i \in Places(s), NEW x \in Byte
  PROVE  /\ PlainByte(s, i) = x <=> Window(Widen(x), s, i)
         /\ Window(Widen(x), s, i) => SeqLen(At(s, i)) = Len(Widen(x))
<1>0. i \in Nat /\ Len(s) \in Nat /\ At(s, i) \in Byte /\ i + 1 <= Len(s)
  BY ByteAt DEF Places
<1>1. ASSUME NEW y \in Byte, Window(Widen(y), s, i)
      PROVE  PlainByte(s, i) = y /\ SeqLen(At(s, i)) = Len(Widen(y))
  <2>1. PICK w \in Text, n \in Nat : w = Widen(y) /\ n = Len(w) /\ n \in {1, 2}
    <3>1. y < 128 \/ y >= 128
      BY DEF Byte
    <3>2. Widen(y) \in Text /\ (y < 128 => Len(Widen(y)) = 1) /\ (y >= 128 => Len(Widen(y)) = 2)
      BY WidenIs
    <3>3. Len(Widen(y)) \in {1, 2}
      BY <3>1, <3>2
    <3> QED
      BY <3>2, <3>3
  <2>2. i + n <= Len(s) /\ \A k \in Places(w) : At(w, k) = At(s, i + k)
    BY <1>1, <2>1 DEF Window
  <2>3. 0 \in Places(w) /\ i + 0 = i /\ At(w, 0) = At(s, i)
    <3>1. 0 \in Places(w) /\ i + 0 = i
      BY <1>0, <2>1 DEF Places
    <3> QED
      BY <2>2, <3>1
  <2>4. Decodes(w, 0)
    <3>1. ClassifyFull(w).class # "MalformedUtf8"
      BY <2>1, WidenClass
    <3>2. Sound(w, 0)
      BY <3>1, ClassifyTells DEF Tells
    <3>3. ~IsContinuation(At(w, 0))
      <4>1. y < 128 => At(w, 0) = y
        BY <2>1, WidenIs DEF At
      <4>2. y >= 128 => At(w, 0) \in {194, 195}
        BY <2>1, WidenIs, WidenNarrows
      <4>3. At(w, 0) \in Byte
        BY <2>3, ByteAt
      <4>4. ~(At(w, 0) \in 128..191)
        BY <4>1, <4>2 DEF Byte
      <4> QED
        BY <4>3, <4>4, SeqLenIs
    <3>4. 0 \in Leads(w, 0)
      BY <2>1, <3>3 DEF Leads
    <3> QED
      BY <3>2, <3>4 DEF Sound
  <2>5. Decodes(s, i) /\ CharClass(s, i) = CharClass(w, 0)
    BY <1>0, <1>1, <2>1, <2>3, <2>4, WindowDecodes
  <2>6. (At(s, i) < 128 <=> y < 128) /\ At(s, i) < 196
    <3>1. At(s, i) < 128 <=> y < 128
      BY <1>0, <1>1, WidenedAt
    <3>2. At(s, i) < 128 \/ Paired(s, i)
      BY <1>0, <1>1, WidenedAt
    <3>3. Paired(s, i) => At(s, i) \in {194, 195}
      BY DEF Paired
    <3>4. PICK b \in Byte : b = At(s, i)
      BY <1>0
    <3>5. b < 196
      BY <3>2, <3>3, <3>4 DEF Byte
    <3> QED
      BY <3>1, <3>4, <3>5
  <2>7. CharClass(s, i) \in {"Ascii", "Utf8Latin1"}
    <3>1. Rank(CharClass(s, i)) <= 1
      BY <2>5, <2>6, CharRange
    <3>2. PICK c \in Terminal : c = CharClass(s, i)
      BY <2>5, DecodedIs
    <3> QED
      BY <3>1, <3>2, RankIs DEF Terminal
  <2>8. SeqLen(At(s, i)) = n
    <3>1. CASE y < 128
      <4>1. n = 1
        BY <2>1, <3>1, WidenIs
      <4>2. SeqLen(At(s, i)) = 1
        BY <1>0, <2>6, <3>1, SeqLenIs
      <4> QED
        BY <4>1, <4>2
    <3>2. CASE y >= 128
      <4>1. At(s, i) \in {194, 195}
        BY <2>1, <2>3, <3>2, WidenIs, WidenNarrows
      <4>2. At(s, i) \in 192..223
        BY <4>1
      <4>3. n = 2
        BY <2>1, <3>2, WidenIs
      <4> QED
        BY <1>0, <4>2, <4>3, SeqLenIs
    <3> QED
      BY <3>1, <3>2 DEF Byte
  <2>9. PICK e \in Nat : e = i + n /\ i <= e /\ e <= Len(s) /\ e - i = n
    <3>1. i + n \in Nat /\ i <= i + n /\ (i + n) - i = n
      BY <1>0
    <3> QED
      BY <2>2, <3>1
  <2>10. Sequence(s, i) = w
    <3>1. Sequence(s, i) = Bytes(s, i, e)
      BY <2>8, <2>9 DEF Sequence
    <3>2. /\ Bytes(s, i, e) \in Text /\ Len(Bytes(s, i, e)) = e - i
          /\ \A k \in 0..(e - i - 1) : At(Bytes(s, i, e), k) = At(s, i + k)
      BY <1>0, <2>9, PartIs
    <3>3. PICK c \in Text : c = Bytes(s, i, e)
      BY <3>2
    <3>4. Places(c) = 0..(e - i - 1) /\ Places(w) = Places(c)
      BY <2>1, <2>9, <3>2, <3>3 DEF Places
    <3>5. Len(c) = Len(w) /\ \A k \in Places(c) : At(c, k) = At(w, k)
      BY <2>1, <2>2, <2>9, <3>2, <3>3, <3>4
    <3>6. c = w
      BY <3>5, SameText
    <3> QED
      BY <3>1, <3>3, <3>6
  <2>11. Value(w) = y
    <3>1. CASE y < 128
      <4>1. Len(w) = 1 /\ w = <<y>>
        BY <2>1, <3>1, WidenIs
      <4>2. At(w, 0) = y
        BY <4>1 DEF At
      <4> QED
        BY <4>1, <4>2, ValueOfOne
    <3>2. CASE y >= 128
      <4>1. PICK h \in {2, 3}, r \in 0..63 : /\ h = y \div 64 /\ r = y % 64 /\ y = h * 64 + r
                                             /\ (128 + r) % 64 = r
        BY <3>2, HighByte
      <4>2. Len(w) = 2 /\ At(w, 0) = 192 + h /\ At(w, 1) = 128 + r
        BY <2>1, <3>2, <4>1, WidenIs
      <4>3. Value(w) = ((192 + h) - 192) * 64 + ((128 + r) % 64)
        BY <4>2, ValueOfTwo
      <4> QED
        BY <4>1, <4>3
    <3> QED
      BY <3>1, <3>2 DEF Byte
  <2> QED
    BY <2>1, <2>5, <2>7, <2>8, <2>10, <2>11 DEF PlainByte
<1>2. ASSUME PlainByte(s, i) = x PROVE Window(Widen(x), s, i)
  <2>1. Decodes(s, i) /\ CharClass(s, i) \in {"Ascii", "Utf8Latin1"}
    <3>1. x # 256
      BY DEF Byte
    <3> QED
      BY <1>2, <3>1 DEF PlainByte
  <2>2. At(s, i) < 196
    <3>1. PICK c \in {"Ascii", "Utf8Latin1"} : c = CharClass(s, i)
      BY <2>1
    <3>2. Rank(c) <= 1
      BY RankIs
    <3> QED
      BY <2>1, <3>1, <3>2, CharRange
  <2>3. At(s, i) < 128 \/ Paired(s, i)
    BY <2>1, <2>2, PairAt
  <2>4. PICK y \in Byte : Window(Widen(y), s, i)
    BY <2>3, MadeWidens
  <2> QED
    BY <1>1, <1>2, <2>4
<1> QED
  BY <1>1, <1>2

(* i and j are where the same characters end, in the flagged bytes and in  *)
(* the plain ones.                                                         *)
Abreast(fb, pb, i, j) ==
  /\ i \in 0..Len(fb) /\ j \in 0..Len(pb) /\ i = Spot(pb, j)
  /\ \A k \in 0..(i - 1) : At(fb, k) = At(UpgradedBytes(pb), k)

(* One more character where the byte read is the plain one's; where it is  *)
(* not, or none is left, the flagged bytes are no upgrade of the plain.    *)
LEMMA AbreastOn ==
  ASSUME NEW fb \in Text, NEW pb \in Text, NEW i \in Nat, NEW j \in Nat, Abreast(fb, pb, i, j), i < Len(fb)
  PROVE  /\ j < Len(pb) /\ PlainByte(fb, i) = At(pb, j)
              => Abreast(fb, pb, i + SeqLen(At(fb, i)), j + 1) /\ SeqLen(At(fb, i)) \in {1, 2}
         /\ fb = UpgradedBytes(pb) => j < Len(pb) /\ PlainByte(fb, i) = At(pb, j)
<1>1. PICK U \in Text, L \in Nat, M \in Nat : /\ U = UpgradedBytes(pb) /\ L = Len(fb) /\ M = Len(pb)
                                              /\ Len(U) = Spot(pb, M)
  BY UpgradeSpots, ByteAt
<1>2. /\ i \in Places(fb) /\ j <= M /\ i = Spot(pb, j)
      /\ \A k \in 0..(i - 1) : At(fb, k) = At(U, k)
  BY <1>1 DEF Abreast, Places
<1>3. ASSUME j < M
      PROVE  \E x \in Byte : /\ x = At(pb, j) /\ Window(Widen(x), U, i) /\ Spot(pb, j + 1) = i + Len(Widen(x))
                             /\ Widen(x) \in Text /\ Len(Widen(x)) \in {1, 2}
  <2>1. PICK m \in 1..M : m = j + 1 /\ m - 1 = j
    <3>1. j + 1 \in 1..M /\ (j + 1) - 1 = j
      BY <1>1, <1>3
    <3> QED
      BY <3>1
  <2>2. PICK x \in Byte : x = pb[m]
    BY <1>1, <2>1, WidenedIs
  <2>3. Window(Widen(x), U, Spot(pb, m - 1)) /\ Spot(pb, m) = Spot(pb, m - 1) + Len(Widen(x))
    BY <1>1, <2>1, <2>2, UpgradeSpots, SpotIs
  <2>4. x = At(pb, j)
    BY <2>1, <2>2 DEF At
  <2>5. Widen(x) \in Text /\ (x < 128 => Len(Widen(x)) = 1) /\ (x >= 128 => Len(Widen(x)) = 2)
    BY WidenIs
  <2>6. Len(Widen(x)) \in {1, 2}
    BY <2>5 DEF Byte
  <2> QED
    BY <1>2, <2>1, <2>3, <2>4, <2>5, <2>6
<1>4. ASSUME j < M, PlainByte(fb, i) = At(pb, j)
      PROVE  Abreast(fb, pb, i + SeqLen(At(fb, i)), j + 1) /\ SeqLen(At(fb, i)) \in {1, 2}
  <2>1. PICK x \in Byte : /\ x = At(pb, j) /\ Window(Widen(x), U, i) /\ Spot(pb, j + 1) = i + Len(Widen(x))
                          /\ Widen(x) \in Text /\ Len(Widen(x)) \in {1, 2}
    BY <1>3, <1>4
  <2>2. Window(Widen(x), fb, i) /\ SeqLen(At(fb, i)) = Len(Widen(x))
    BY <1>2, <1>4, <2>1, PlainByteIs
  <2>3. PICK w \in Text, n \in {1, 2} : w = Widen(x) /\ n = Len(w)
    BY <2>1
  <2>4. /\ i + n <= L /\ \A k \in 0..(n - 1) : At(w, k) = At(fb, i + k) /\ At(w, k) = At(U, i + k)
    BY <1>1, <2>1, <2>2, <2>3 DEF Window, Places
  <2>5. ASSUME NEW k \in 0..((i + n) - 1) PROVE At(fb, k) = At(U, k)
    <3>1. CASE k < i
      BY <1>2, <3>1
    <3>2. CASE k >= i
      <4>1. PICK d \in 0..(n - 1) : d = k - i /\ i + d = k
        <5>1. k - i \in 0..(n - 1) /\ i + (k - i) = k
          BY <3>2
        <5> QED
          BY <5>1
      <4> QED
        BY <2>4, <4>1
    <3> QED
      BY <3>1, <3>2
  <2>6. i + n \in 0..L /\ j + 1 \in 0..M /\ i + n = Spot(pb, j + 1)
    BY <1>1, <1>4, <2>1, <2>3, <2>4
  <2> QED
    BY <1>1, <2>2, <2>3, <2>5, <2>6 DEF Abreast
<1>5. ASSUME fb = UpgradedBytes(pb) PROVE j < M /\ PlainByte(fb, i) = At(pb, j)
  <2>1. j < M
    BY <1>1, <1>2, <1>5
  <2>2. PICK x \in Byte : x = At(pb, j) /\ Window(Widen(x), U, i)
    BY <1>3, <2>1
  <2> QED
    BY <1>1, <1>2, <1>5, <2>1, <2>2, PlainByteIs
<1> QED
  BY <1>1, <1>4, <1>5

(* An ASCII byte is read as itself.                                        *)
LEMMA AsciiRead ==
  ASSUME NEW s \in Text, NEW i \in Places(s), At(s, i) < 128
  PROVE  PlainByte(s, i) = At(s, i) /\ SeqLen(At(s, i)) = 1
<1>1. PICK x \in Byte : x = At(s, i) /\ x < 128
  BY ByteAt
<1>2. Made(s, i) = x /\ Window(Widen(x), s, i)
  BY <1>1, MadeWidens DEF Made
<1> QED
  BY <1>1, <1>2, PlainByteIs, AsciiDecodes

(* A run of ASCII bytes is passed if the plain bytes are the same, and     *)
(* they are if the flagged bytes are the upgrade.                          *)
LEMMA AbreastRun ==
  ASSUME NEW fb \in Text, NEW pb \in Text, NEW i \in Nat, NEW j \in Nat, NEW n \in Nat,
         Abreast(fb, pb, i, j), i + n <= Len(fb), \A k \in 0..(n - 1) : At(fb, i + k) < 128,
         \/ fb = UpgradedBytes(pb)
         \/ j + n <= Len(pb) /\ \A k \in 0..(n - 1) : At(fb, i + k) = At(pb, j + k)
  PROVE  \A k \in 0..n : /\ Abreast(fb, pb, i + k, j + k)
                         /\ k < n => At(fb, i + k) = At(pb, j + k) /\ At(pb, j + k) < 128
<1>1. PICK L \in Nat, M \in Nat : L = Len(fb) /\ M = Len(pb)
  BY ByteAt
<1>2. ASSUME NEW k \in 0..(n - 1), NEW a, NEW b, a = i + k, b = j + k, Abreast(fb, pb, a, b)
      PROVE  /\ b < M /\ At(fb, a) = At(pb, b) /\ At(pb, b) < 128 /\ Abreast(fb, pb, a + 1, b + 1)
  <2>1. a \in Nat /\ b \in Nat /\ a < L /\ a \in Places(fb) /\ At(fb, a) < 128
    <3>1. i + k \in Nat /\ j + k \in Nat /\ i + k < L /\ i + k \in 0..(L - 1)
      BY <1>1
    <3> QED
      BY <1>1, <1>2, <3>1 DEF Places
  <2>2. PlainByte(fb, a) = At(fb, a) /\ SeqLen(At(fb, a)) = 1
    BY <2>1, AsciiRead
  <2>3. b < M /\ PlainByte(fb, a) = At(pb, b)
    <3>1. CASE fb = UpgradedBytes(pb)
      BY <1>1, <1>2, <2>1, <3>1, AbreastOn
    <3>2. CASE j + n <= Len(pb) /\ \A m \in 0..(n - 1) : At(fb, i + m) = At(pb, j + m)
      BY <1>1, <1>2, <2>2, <3>2
    <3> QED
      BY <3>1, <3>2
  <2>4. Abreast(fb, pb, a + 1, b + 1)
    BY <1>1, <1>2, <2>1, <2>2, <2>3, AbreastOn
  <2> QED
    BY <2>1, <2>2, <2>3, <2>4
<1> DEFINE S == {k \in 0..n : Abreast(fb, pb, i + k, j + k)}
<1>3. 0 \in S
  <2>1. i + 0 = i /\ j + 0 = j /\ 0 \in 0..n
    OBVIOUS
  <2> QED
    BY <2>1
<1>4. ASSUME NEW k \in 0..(n - 1), k \in S PROVE k + 1 \in S
  <2>1. Abreast(fb, pb, (i + k) + 1, (j + k) + 1)
    BY <1>2, <1>4
  <2>2. (i + k) + 1 = i + (k + 1) /\ (j + k) + 1 = j + (k + 1) /\ k + 1 \in 0..n
    OBVIOUS
  <2> QED
    BY <2>1, <2>2
<1>5. \A k \in 0..n : k \in S
  <2> HIDE DEF S
  <2> QED
    BY <1>3, <1>4, UpTo
<1>6. \A k \in 0..n : k < n => k \in 0..(n - 1)
  OBVIOUS
<1> QED
  BY <1>2, <1>5, <1>6

(* A block of the walk ends past its place and within the bytes.           *)
LEMMA GateEndIs ==
  ASSUME NEW p \in Nat, NEW n \in Nat, p < n
  PROVE  GateEnd(p, n) \in (p + 1)..n
<1>0. PICK F \in Nat \ {0} : F = Line
  BY PairsAssumption
<1>1. PICK B \in Nat \ {0} : B = Gate
  BY PairsAssumption
<1>2. PICK q \in Nat : q = p \div B
  OBVIOUS
<1>3. PICK r \in Nat : r = p % B /\ r < B /\ p = B * q + r
  BY <1>2
<1>4. (q + 1) * B = B * q + B
  OBVIOUS
<1>5. PICK e \in Nat : e = (q + 1) * B /\ e > p
  <2>1. PICK m \in Nat : m = B * q
    OBVIOUS
  <2>2. (q + 1) * B = m + B /\ p = m + r
    BY <1>3, <1>4, <2>1
  <2>3. m + B \in Nat /\ m + B > m + r
    BY <1>3
  <2> QED
    BY <2>2, <2>3
<1>6. PICK g \in Nat : g = (IF p = 0 THEN F ELSE e) /\ g > p
  BY <1>5
<1>7. GateEnd(p, n) = IF g < n THEN g ELSE n
  BY <1>0, <1>1, <1>2, <1>5, <1>6 DEF GateEnd
<1> QED
  BY <1>6, <1>7

WalkStates == [i : Nat, j : Nat, soft : Nat, equal : BOOLEAN, high : BOOLEAN]

(* What the walk knows after k steps: while all was equal, the places are  *)
(* abreast and it has seen whether a character so far is past ASCII; once  *)
(* something was not, the flagged bytes are not the upgrade.               *)
Walked(fb, pb, w, k) ==
  /\ w \in WalkStates
  /\ w.equal => /\ Abreast(fb, pb, w.i, w.j) /\ (w.i >= k \/ w.i = Len(fb))
                /\ w.high <=> \E x \in 0..(w.j - 1) : At(pb, x) >= 128
  /\ ~w.equal => fb # UpgradedBytes(pb)

(* The same bytes on both sides.                                           *)
SameBlock(fb, pb, i, j, n) == j + n <= Len(pb) /\ Bytes(fb, i, i + n) = Bytes(pb, j, j + n)

(* A block of ASCII bytes: the places after it are abreast if the plain    *)
(* side has the same bytes, and it has if the flagged side is the upgrade. *)
LEMMA BlockWalked ==
  ASSUME NEW fb \in Text, NEW pb \in Text, NEW i \in Nat, NEW j \in Nat, NEW n \in Nat,
         Abreast(fb, pb, i, j), i + n <= Len(fb), ~HasHigh(Bytes(fb, i, i + n))
  PROVE  /\ SameBlock(fb, pb, i, j, n) => Abreast(fb, pb, i + n, j + n)
         /\ SameBlock(fb, pb, i, j, n) => \A x \in 0..(n - 1) : At(pb, j + x) < 128
         /\ fb = UpgradedBytes(pb) => SameBlock(fb, pb, i, j, n)
<1>1. PICK L \in Nat, M \in Nat : L = Len(fb) /\ M = Len(pb)
  BY ByteAt
<1>2. PICK e \in Nat, m \in Nat : e = i + n /\ m = j + n /\ i <= e /\ j <= m /\ e - i = n /\ m - j = n
  <2>1. /\ i + n \in Nat /\ j + n \in Nat /\ i <= i + n /\ j <= j + n
        /\ (i + n) - i = n /\ (j + n) - j = n
    OBVIOUS
  <2> QED
    BY <2>1
<1>3. PICK c \in Text : /\ c = Bytes(fb, i, e) /\ Len(c) = n
                        /\ \A x \in 0..(n - 1) : At(c, x) = At(fb, i + x)
  <2>1. i <= e /\ e <= Len(fb)
    BY <1>2
  <2>2. /\ Bytes(fb, i, e) \in Text /\ Len(Bytes(fb, i, e)) = e - i
        /\ \A x \in 0..(e - i - 1) : At(Bytes(fb, i, e), x) = At(fb, i + x)
    BY <2>1, PartIs
  <2> QED
    BY <1>2, <2>2
<1>4. \A x \in 0..(n - 1) : At(fb, i + x) < 128
  <2>1. TAKE x \in 0..(n - 1)
  <2>2. x + 1 \in 1..n /\ DOMAIN c = 1..n
    BY <1>3, LenProperties DEF Text
  <2>3. ~(c[x + 1] >= 128)
    BY <1>2, <1>3, <2>2 DEF HasHigh
  <2>4. x \in Places(c)
    BY <1>3 DEF Places
  <2>5. PICK y \in Byte : y = At(c, x) /\ y = c[x + 1]
    BY <2>4, ByteAt
  <2>6. y < 128
    BY <2>3, <2>5 DEF Byte
  <2> QED
    BY <1>3, <2>5, <2>6
<1>5. ASSUME m <= M PROVE c = Bytes(pb, j, m) <=> \A x \in 0..(n - 1) : At(fb, i + x) = At(pb, j + x)
  <2>1. j <= m /\ m <= Len(pb)
    BY <1>1, <1>2, <1>5
  <2>2. /\ Bytes(pb, j, m) \in Text /\ Len(Bytes(pb, j, m)) = m - j
        /\ \A x \in 0..(m - j - 1) : At(Bytes(pb, j, m), x) = At(pb, j + x)
    BY <2>1, PartIs
  <2>3. PICK d \in Text : /\ d = Bytes(pb, j, m) /\ Len(d) = n
                          /\ \A x \in 0..(n - 1) : At(d, x) = At(pb, j + x)
    BY <1>2, <2>2
  <2>4. ASSUME \A x \in 0..(n - 1) : At(fb, i + x) = At(pb, j + x) PROVE c = d
    <3>1. Places(c) = 0..(n - 1)
      BY <1>3 DEF Places
    <3>2. Len(c) = Len(d) /\ \A x \in Places(c) : At(c, x) = At(d, x)
      BY <1>3, <2>3, <2>4, <3>1
    <3> QED
      BY <3>2, SameText
  <2> QED
    BY <1>3, <2>3, <2>4
<1>6. SameBlock(fb, pb, i, j, n) <=> j + n <= Len(pb) /\ \A x \in 0..(n - 1) : At(fb, i + x) = At(pb, j + x)
  BY <1>1, <1>2, <1>3, <1>5 DEF SameBlock
<1>7. ASSUME SameBlock(fb, pb, i, j, n) \/ fb = UpgradedBytes(pb)
      PROVE  /\ Abreast(fb, pb, i + n, j + n)
             /\ \A x \in 0..(n - 1) : At(fb, i + x) = At(pb, j + x) /\ At(pb, j + x) < 128
  <2>1. \/ fb = UpgradedBytes(pb)
        \/ j + n <= Len(pb) /\ \A x \in 0..(n - 1) : At(fb, i + x) = At(pb, j + x)
    BY <1>6, <1>7
  <2>2. \A k \in 0..n : /\ Abreast(fb, pb, i + k, j + k)
                        /\ k < n => At(fb, i + k) = At(pb, j + k) /\ At(pb, j + k) < 128
    BY <1>4, <2>1, AbreastRun
  <2>3. n \in 0..n /\ \A x \in 0..(n - 1) : x \in 0..n /\ x < n
    OBVIOUS
  <2> QED
    BY <2>2, <2>3
<1>8. ASSUME fb = UpgradedBytes(pb) PROVE SameBlock(fb, pb, i, j, n)
  <2>1. /\ Abreast(fb, pb, i + n, j + n)
        /\ \A x \in 0..(n - 1) : At(fb, i + x) = At(pb, j + x)
    BY <1>7, <1>8
  <2>2. j + n <= Len(pb)
    BY <1>1, <2>1 DEF Abreast
  <2> QED
    BY <1>6, <2>1, <2>2
<1> QED
  BY <1>7, <1>8

(* What a step does, by what it meets: a block of ASCII bytes,             *)
LEMMA WalkOnBlock ==
  ASSUME NEW fb, NEW pb, NEW w \in WalkStates, NEW e \in Nat, e = GateEnd(w.i, Len(fb)),
         w.equal, ~(w.i >= Len(fb)), w.i >= w.soft /\ ~HasHigh(Bytes(fb, w.i, e)),
         NEW n \in Nat, n = e - w.i
  PROVE  LET r == WalkOn(fb, pb, w) IN
         /\ r \in WalkStates /\ r.i = e /\ r.j = w.j + n /\ r.high = w.high
         /\ r.equal <=> w.j + n <= Len(pb) /\ Bytes(fb, w.i, e) = Bytes(pb, w.j, w.j + n)
<1>1. PICK same \in BOOLEAN : same = (w.j + n <= Len(pb) /\ Bytes(fb, w.i, e) = Bytes(pb, w.j, w.j + n))
  OBVIOUS
<1>2. WalkOn(fb, pb, w) = [w EXCEPT !.i = e, !.j = @ + n, !.equal = same]
  BY <1>1 DEF WalkOn
<1>3. PICK b \in Nat : b = w.j + n
  <2>1. w.j + n \in Nat
    BY DEF WalkStates
  <2> QED
    BY <2>1
<1>4. PICK r : r = WalkOn(fb, pb, w) /\ r = [w EXCEPT !.i = e, !.j = b, !.equal = same]
  BY <1>2, <1>3
<1>5. r \in WalkStates /\ r.i = e /\ r.j = b /\ r.equal = same /\ r.high = w.high
  BY <1>4 DEF WalkStates
<1> QED
  BY <1>1, <1>3, <1>4, <1>5

(* a character that is not the plain one, or one too many,                 *)
LEMMA WalkOnStop ==
  ASSUME NEW fb, NEW pb, NEW w \in WalkStates, NEW e, e = GateEnd(w.i, Len(fb)),
         w.equal, ~(w.i >= Len(fb)), ~(w.i >= w.soft /\ ~HasHigh(Bytes(fb, w.i, e))),
         w.j >= Len(pb) \/ PlainByte(fb, w.i) # At(pb, w.j)
  PROVE  WalkOn(fb, pb, w) \in WalkStates /\ WalkOn(fb, pb, w).equal = FALSE
<1>1. PICK r : r = WalkOn(fb, pb, w) /\ r = [w EXCEPT !.equal = FALSE]
  BY DEF WalkOn
<1>2. r \in WalkStates /\ r.equal = FALSE
  BY <1>1 DEF WalkStates
<1> QED
  BY <1>1, <1>2

(* and one that is.                                                        *)
LEMMA WalkOnChar ==
  ASSUME NEW fb, NEW pb, NEW w \in WalkStates, NEW e \in Nat, e = GateEnd(w.i, Len(fb)),
         w.equal, ~(w.i >= Len(fb)), ~(w.i >= w.soft /\ ~HasHigh(Bytes(fb, w.i, e))),
         ~(w.j >= Len(pb) \/ PlainByte(fb, w.i) # At(pb, w.j)),
         NEW n \in Nat, n = SeqLen(At(fb, w.i))
  PROVE  LET r == WalkOn(fb, pb, w) IN
         /\ r \in WalkStates /\ r.i = w.i + n /\ r.j = w.j + 1 /\ r.equal = w.equal
         /\ r.high <=> w.high \/ PlainByte(fb, w.i) >= 128
<1>1. PICK h \in BOOLEAN : h = (w.high \/ PlainByte(fb, w.i) >= 128)
  OBVIOUS
<1>2. PICK i \in Nat, j \in Nat, t \in Nat : i = w.i + n /\ j = w.j + 1 /\ t = IF w.i >= w.soft THEN e ELSE w.soft
  <2>1. w.i + n \in Nat /\ w.j + 1 \in Nat /\ (IF w.i >= w.soft THEN e ELSE w.soft) \in Nat
    BY DEF WalkStates
  <2> QED
    BY <2>1
<1>3. WalkOn(fb, pb, w) = [w EXCEPT !.i = i, !.j = j, !.soft = t, !.high = h]
  BY <1>1, <1>2 DEF WalkOn
<1>4. PICK r : r = WalkOn(fb, pb, w) /\ r = [w EXCEPT !.i = i, !.j = j, !.soft = t, !.high = h]
  BY <1>3
<1>5. r \in WalkStates /\ r.i = i /\ r.j = j /\ r.equal = w.equal /\ r.high = h
  BY <1>4 DEF WalkStates
<1> QED
  BY <1>1, <1>2, <1>4, <1>5

(* One step of it.                                                         *)
LEMMA WalkedOn ==
  ASSUME NEW fb \in Text, NEW pb \in Text, NEW w, NEW k \in Nat, Walked(fb, pb, w, k)
  PROVE  Walked(fb, pb, WalkOn(fb, pb, w), k + 1)
<1>1. PICK L \in Nat, M \in Nat : L = Len(fb) /\ M = Len(pb)
  BY ByteAt
<1>2. PICK i \in Nat, j \in Nat : i = w.i /\ j = w.j /\ w.equal \in BOOLEAN /\ w.high \in BOOLEAN /\ w \in WalkStates
  BY DEF Walked, WalkStates
<1>3. CASE ~w.equal \/ i >= L
  <2>1. WalkOn(fb, pb, w) = w
    BY <1>1, <1>2, <1>3 DEF WalkOn
  <2>2. w.equal => w.i = Len(fb)
    BY <1>1, <1>2, <1>3 DEF Walked, Abreast
  <2> QED
    BY <2>1, <2>2 DEF Walked
<1>4. CASE w.equal /\ i < L
  <2>1. /\ Abreast(fb, pb, i, j) /\ j <= M /\ i >= k /\ w.equal = TRUE
        /\ w.high <=> \E x \in 0..(j - 1) : At(pb, x) >= 128
    BY <1>1, <1>2, <1>4 DEF Walked, Abreast
  <2>2. PICK e \in Nat : e = GateEnd(i, L) /\ e \in (i + 1)..L
    <3>1. GateEnd(i, L) \in (i + 1)..L
      BY <1>4, GateEndIs
    <3> QED
      BY <3>1
  <2>3. e = GateEnd(w.i, Len(fb)) /\ w.equal /\ ~(w.i >= Len(fb))
    BY <1>1, <1>2, <1>4, <2>2
  <2> DEFINE r == WalkOn(fb, pb, w)
  <2>4. CASE w.i >= w.soft /\ ~HasHigh(Bytes(fb, w.i, e))
    <3>1. PICK n \in Nat : n = e - i /\ i + n = e /\ n >= 1
      <4>1. e - i \in Nat /\ i + (e - i) = e /\ e - i >= 1
        BY <2>2
      <4> QED
        BY <4>1
    <3>2. /\ r \in WalkStates /\ r.i = e /\ r.j = w.j + n /\ r.high = w.high
          /\ r.equal <=> w.j + n <= Len(pb) /\ Bytes(fb, w.i, e) = Bytes(pb, w.j, w.j + n)
      <4>1. n = e - w.i
        BY <1>2, <3>1
      <4> QED
        BY <1>2, <2>3, <2>4, <4>1, WalkOnBlock
    <3> HIDE DEF r
    <3>3. /\ r.equal <=> SameBlock(fb, pb, i, j, n)
          /\ r.j = j + n
      BY <1>2, <3>1, <3>2 DEF SameBlock
    <3>4. /\ r.equal => Abreast(fb, pb, e, j + n)
          /\ r.equal => \A x \in 0..(n - 1) : At(pb, j + x) < 128
          /\ fb = UpgradedBytes(pb) => r.equal
      <4>1. i + n <= Len(fb) /\ ~HasHigh(Bytes(fb, i, i + n))
        BY <1>1, <1>2, <2>2, <2>4, <3>1
      <4>2. SameBlock(fb, pb, i, j, n) => Abreast(fb, pb, i + n, j + n)
        BY <2>1, <4>1, BlockWalked
      <4>3. SameBlock(fb, pb, i, j, n) => \A x \in 0..(n - 1) : At(pb, j + x) < 128
        BY <2>1, <4>1, BlockWalked
      <4>4. fb = UpgradedBytes(pb) => SameBlock(fb, pb, i, j, n)
        BY <2>1, <4>1, BlockWalked
      <4> QED
        BY <3>1, <3>3, <4>2, <4>3, <4>4
    <3>5. r.equal => (r.high <=> \E x \in 0..((j + n) - 1) : At(pb, x) >= 128)
      <4>1. ASSUME r.equal, NEW x \in 0..((j + n) - 1), ~(x \in 0..(j - 1)) PROVE ~(At(pb, x) >= 128)
        <5>1. PICK y \in 0..(n - 1) : y = x - j /\ j + y = x
          <6>1. x - j \in 0..(n - 1) /\ j + (x - j) = x
            BY <4>1
          <6> QED
            BY <6>1
        <5>2. At(pb, x) < 128 /\ j + n <= M
          BY <1>1, <3>3, <3>4, <4>1, <5>1 DEF SameBlock
        <5>3. x \in Places(pb)
          BY <1>1, <5>2 DEF Places
        <5>4. PICK z \in Byte : z = At(pb, x)
          BY <5>3, ByteAt
        <5> QED
          BY <5>2, <5>4 DEF Byte
      <4>2. \A x \in 0..(j - 1) : x \in 0..((j + n) - 1)
        OBVIOUS
      <4> QED
        BY <2>1, <3>2, <4>1, <4>2
    <3>6. e >= k + 1
      BY <2>1, <2>2
    <3>7. Walked(fb, pb, r, k + 1)
      BY <3>2, <3>3, <3>4, <3>5, <3>6 DEF Walked
    <3> QED
      BY <3>7 DEF r
  <2>5. CASE ~(w.i >= w.soft /\ ~HasHigh(Bytes(fb, w.i, e)))
    <3>1. CASE w.j >= Len(pb) \/ PlainByte(fb, w.i) # At(pb, w.j)
      <4>1. r \in WalkStates /\ r.equal = FALSE
        BY <1>2, <2>3, <2>5, <3>1, WalkOnStop
      <4>2. fb # UpgradedBytes(pb)
        BY <1>1, <1>2, <1>4, <2>1, <3>1, AbreastOn
      <4> QED
        BY <4>1, <4>2 DEF Walked
    <3>2. CASE ~(w.j >= Len(pb) \/ PlainByte(fb, w.i) # At(pb, w.j))
      <4>1. PICK n \in {1, 2}, x \in Byte : /\ n = SeqLen(At(fb, i)) /\ x = At(pb, j) /\ PlainByte(fb, i) = x
                                            /\ Abreast(fb, pb, i + n, j + 1)
        <5>0. j < Len(pb) /\ PlainByte(fb, i) = At(pb, j)
          BY <1>1, <1>2, <3>2
        <5>1. j \in Places(pb)
          BY <1>1, <5>0 DEF Places
        <5>2. At(pb, j) \in Byte
          BY <5>1, ByteAt
        <5>3. Abreast(fb, pb, i + SeqLen(At(fb, i)), j + 1) /\ SeqLen(At(fb, i)) \in {1, 2}
          BY <1>1, <1>4, <2>1, <5>0, AbreastOn
        <5> QED
          BY <5>0, <5>2, <5>3
      <4>2. /\ r \in WalkStates /\ r.i = w.i + n /\ r.j = w.j + 1 /\ r.equal = w.equal
            /\ r.high <=> w.high \/ PlainByte(fb, w.i) >= 128
        <5>1. PICK m \in Nat : m = n /\ m = SeqLen(At(fb, w.i))
          BY <1>2, <4>1
        <5>2. r \in WalkStates /\ r.i = w.i + m /\ r.j = w.j + 1
          BY <1>2, <2>3, <2>5, <3>2, <5>1, WalkOnChar
        <5>3. r.equal = w.equal
          BY <1>2, <2>3, <2>5, <3>2, <5>1, WalkOnChar
        <5>4. r.high <=> w.high \/ PlainByte(fb, w.i) >= 128
          BY <1>2, <2>3, <2>5, <3>2, <5>1, WalkOnChar
        <5> QED
          BY <5>1, <5>2, <5>3, <5>4
      <4> HIDE DEF r
      <4>3. /\ r.i = i + n /\ r.j = j + 1 /\ r.equal = TRUE
            /\ r.high <=> w.high \/ At(pb, j) >= 128
        BY <1>2, <2>1, <4>1, <4>2
      <4>4. r.high <=> \E y \in 0..((j + 1) - 1) : At(pb, y) >= 128
        <5>1. \A y : y \in 0..((j + 1) - 1) <=> y \in 0..(j - 1) \/ y = j
          OBVIOUS
        <5> QED
          BY <2>1, <4>3, <5>1
      <4>5. i + n >= k + 1
        BY <2>1
      <4>6. Walked(fb, pb, r, k + 1)
        BY <4>1, <4>2, <4>3, <4>4, <4>5 DEF Walked
      <4> QED
        BY <4>6 DEF r
    <3> QED
      BY <3>1, <3>2
  <2> QED
    BY <2>4, <2>5
<1> QED
  BY <1>1, <1>2, <1>3, <1>4

(* The places are abreast at the start.                                    *)
LEMMA WalkedStart ==
  ASSUME NEW fb \in Text, NEW pb \in Text
  PROVE  Walked(fb, pb, WalkStart, 0)
<1>1. Len(fb) \in Nat /\ Len(pb) \in Nat /\ Spot(pb, 0) = 0
  BY ByteAt, SpotIs
<1>2. Abreast(fb, pb, 0, 0)
  BY <1>1 DEF Abreast
<1>3. WalkStart \in WalkStates
  BY DEF WalkStart, WalkStates
<1>4. WalkStart.i = 0 /\ WalkStart.j = 0 /\ WalkStart.equal = TRUE /\ WalkStart.high = FALSE
  BY DEF WalkStart
<1>5. ~\E x \in 0..(0 - 1) : At(pb, x) >= 128
  OBVIOUS
<1> QED
  BY <1>2, <1>3, <1>4, <1>5 DEF Walked

(* The steps of a walk as a function of their number.                      *)
Stepping(fb, pb, f, n) == f = [k \in 0..n |-> IF k = 0 THEN WalkStart ELSE WalkOn(fb, pb, f[k - 1])]

(* There is one.                                                           *)
LEMMA SteppingExists ==
  ASSUME NEW fb, NEW pb, NEW N \in Nat
  PROVE  \E f : Stepping(fb, pb, f, N)
<1> DEFINE S == {n \in 0..N : \E f : Stepping(fb, pb, f, n)}
<1>1. 0 \in S
  <2>1. PICK f : f = [k \in 0..0 |-> WalkStart]
    OBVIOUS
  <2>2. f = [k \in 0..0 |-> IF k = 0 THEN WalkStart ELSE WalkOn(fb, pb, f[k - 1])]
    BY <2>1
  <2>3. Stepping(fb, pb, f, 0)
    BY <2>2 DEF Stepping
  <2> QED
    BY <2>3
<1>2. ASSUME NEW n \in 0..(N - 1), n \in S PROVE n + 1 \in S
  <2>1. PICK f : Stepping(fb, pb, f, n)
    BY <1>2
  <2>2. \A k \in 0..n : f[k] = IF k = 0 THEN WalkStart ELSE WalkOn(fb, pb, f[k - 1])
    BY <2>1 DEF Stepping
  <2> DEFINE g == [k \in 0..(n + 1) |-> IF k = n + 1 THEN WalkOn(fb, pb, f[n]) ELSE f[k]]
  <2>3. \A k \in 0..n : k \in 0..(n + 1) /\ g[k] = f[k]
    OBVIOUS
  <2>4. g[n + 1] = WalkOn(fb, pb, f[n])
    OBVIOUS
  <2>5. g = [k \in 0..(n + 1) |-> g[k]]
    OBVIOUS
  <2> HIDE DEF g
  <2>6. ASSUME NEW k \in 0..(n + 1) PROVE g[k] = IF k = 0 THEN WalkStart ELSE WalkOn(fb, pb, g[k - 1])
    <3>1. CASE k = n + 1
      <4>1. k # 0 /\ k - 1 = n /\ n \in 0..n
        BY <3>1
      <4> QED
        BY <2>3, <2>4, <3>1, <4>1
    <3>2. CASE k # n + 1
      <4>1. k \in 0..n /\ (k # 0 => k - 1 \in 0..n)
        BY <3>2
      <4> QED
        BY <2>2, <2>3, <4>1
    <3> QED
      BY <3>1, <3>2
  <2>7. g = [k \in 0..(n + 1) |-> IF k = 0 THEN WalkStart ELSE WalkOn(fb, pb, g[k - 1])]
    BY <2>5, <2>6
  <2>8. Stepping(fb, pb, g, n + 1)
    BY <2>7 DEF Stepping
  <2> QED
    BY <2>8
<1>3. N \in S
  <2>1. \A n \in 0..N : n \in S
    <3> HIDE DEF S
    <3> QED
      BY <1>1, <1>2, UpTo
  <2> QED
    BY <2>1
<1> QED
  BY <1>3

(* The walk finds the sides equal exactly where the flagged bytes are the  *)
(* upgrade of the plain ones, and has then seen whether all are ASCII.     *)
LEMMA PairWalkIs ==
  ASSUME NEW fb \in Text, NEW pb \in Text
  PROVE  /\ PairWalk(fb, pb).equal <=> fb = UpgradedBytes(pb)
         /\ PairWalk(fb, pb).equal => (PairWalk(fb, pb).high <=> \E x \in Places(pb) : At(pb, x) >= 128)
<1>1. PICK L \in Nat, M \in Nat : L = Len(fb) /\ M = Len(pb)
  BY ByteAt
<1>2. PICK q : q = CHOOSE f : f = [k \in 0..Len(fb) |-> IF k = 0 THEN WalkStart ELSE WalkOn(fb, pb, f[k - 1])]
  OBVIOUS
<1>3. Stepping(fb, pb, q, Len(fb))
  <2>1. \E f : Stepping(fb, pb, f, Len(fb))
    BY <1>1, SteppingExists
  <2> QED
    BY <1>2, <2>1 DEF Stepping
<1>4. /\ q[0] = WalkStart
      /\ \A k \in 0..(L - 1) : q[k + 1] = WalkOn(fb, pb, q[k])
  <2>1. \A k \in 0..L : q[k] = IF k = 0 THEN WalkStart ELSE WalkOn(fb, pb, q[k - 1])
    BY <1>1, <1>3 DEF Stepping
  <2>2. 0 \in 0..L /\ \A k \in 0..(L - 1) : k + 1 \in 0..L /\ k + 1 # 0 /\ (k + 1) - 1 = k
    OBVIOUS
  <2> QED
    BY <2>1, <2>2
<1> DEFINE S == {k \in 0..L : Walked(fb, pb, q[k], k)}
<1>5. 0 \in S
  BY <1>4, WalkedStart
<1>6. ASSUME NEW k \in 0..(L - 1), k \in S PROVE k + 1 \in S
  <2>1. Walked(fb, pb, WalkOn(fb, pb, q[k]), k + 1)
    BY <1>6, WalkedOn
  <2>2. k + 1 \in 0..L
    OBVIOUS
  <2> QED
    BY <1>4, <2>1, <2>2
<1>7. Walked(fb, pb, q[L], L)
  <2>1. \A k \in 0..L : k \in S
    <3> HIDE DEF S
    <3> QED
      BY <1>5, <1>6, UpTo
  <2>2. L \in 0..L
    OBVIOUS
  <2> QED
    BY <2>1, <2>2
<1>8. PICK d \in WalkStates : d = q[L] /\ Walked(fb, pb, d, L)
  BY <1>7 DEF Walked
<1>9. PICK e \in BOOLEAN : e = (d.equal /\ d.j = M)
  OBVIOUS
<1>10. PICK r : r = PairWalk(fb, pb) /\ r = [d EXCEPT !.equal = e]
  <2>1. PairWalk(fb, pb) = [q[Len(fb)] EXCEPT !.equal = q[Len(fb)].equal /\ q[Len(fb)].j = Len(pb)]
    BY <1>2 DEF PairWalk
  <2>2. PairWalk(fb, pb) = [d EXCEPT !.equal = d.equal /\ d.j = M]
    BY <1>1, <1>8, <2>1
  <2> QED
    BY <1>9, <2>2
<1>11. r.equal = e /\ r.high = d.high
  BY <1>10 DEF WalkStates
<1>12. ASSUME d.equal
       PROVE  /\ d.j = M <=> fb = UpgradedBytes(pb)
              /\ d.j = M => (d.high <=> \E x \in Places(pb) : At(pb, x) >= 128)
  <2>1. /\ Abreast(fb, pb, L, d.j)
        /\ d.high <=> \E x \in 0..(d.j - 1) : At(pb, x) >= 128
    <3>1. d.i = L
      BY <1>1, <1>8, <1>12 DEF Walked, Abreast
    <3> QED
      BY <1>8, <1>12, <3>1 DEF Walked
  <2>2. PICK U \in Text : U = UpgradedBytes(pb) /\ Len(U) = Spot(pb, M)
    BY <1>1, UpgradeSpots
  <2>3. d.j \in 0..M /\ L = Spot(pb, d.j) /\ \A k \in 0..(L - 1) : At(fb, k) = At(U, k)
    BY <1>1, <2>1, <2>2 DEF Abreast
  <2>4. ASSUME d.j = M PROVE fb = U
    <3>1. Len(fb) = Len(U) /\ \A k \in Places(fb) : At(fb, k) = At(U, k)
      BY <1>1, <2>2, <2>3, <2>4 DEF Places
    <3> QED
      BY <3>1, SameText
  <2>5. ASSUME d.j # M PROVE fb # U
    <3>1. PICK j \in 0..(M - 1) : j = d.j /\ j + 1 \in 1..M /\ (j + 1) - 1 = j
      BY <2>3, <2>5
    <3>2. PICK m \in 1..M : m = j + 1 /\ m - 1 = j
      BY <3>1
    <3>3. PICK b \in Byte : b = pb[m] /\ Window(Widen(b), U, Spot(pb, m - 1))
      BY <1>1, <2>2, <3>2, WidenedIs, UpgradeSpots
    <3>4. (b < 128 => Len(Widen(b)) = 1) /\ (b >= 128 => Len(Widen(b)) = 2) /\ (b < 128 \/ b >= 128)
      BY WidenIs DEF Byte
    <3>5. L + Len(Widen(b)) <= Len(U)
      BY <2>3, <3>1, <3>2, <3>3 DEF Window
    <3>6. Len(U) \in Nat
      BY ByteAt
    <3>7. PICK n \in {1, 2} : n = Len(Widen(b))
      BY <3>4
    <3>8. L < Len(U)
      BY <3>5, <3>6, <3>7
    <3> QED
      BY <1>1, <3>6, <3>8
  <2> QED
    BY <1>1, <2>1, <2>2, <2>4, <2>5 DEF Places
<1>13. ~d.equal => fb # UpgradedBytes(pb)
  BY <1>8 DEF Walked
<1> QED
  BY <1>9, <1>10, <1>11, <1>12, <1>13

-----------------------------------------------------------------------------
(* The ordering.                                                           *)

(* What the comparison looks for: the length of what two texts share.      *)
Shared(s, t, k) ==
  /\ k \in 0..Len(s) /\ k <= Len(t) /\ \A i \in 1..k : s[i] = t[i]
  /\ k = Len(s) \/ k = Len(t) \/ s[k + 1] # t[k + 1]

(* There is one such length and no other, and the verdict follows from it. *)
LEMMA LexicalIs ==
  ASSUME NEW s \in Text, NEW t \in Text
  PROVE  /\ \E k : Shared(s, t, k)
         /\ \A k : Shared(s, t, k) =>
              Lexical(s, t) = IF k = Len(s) /\ k = Len(t) THEN 0
                              ELSE IF k = Len(s) THEN -1 ELSE IF k = Len(t) THEN 1
                              ELSE IF s[k + 1] < t[k + 1] THEN -1 ELSE 1
<1>1. PICK M \in Nat, N \in Nat : M = Len(s) /\ N = Len(t)
  BY ByteAt
<1>2. \E k : Shared(s, t, k)
  <2> DEFINE D == {k \in Nat : k >= M \/ k >= N \/ s[k + 1] # t[k + 1]}
  <2>1. M \in D /\ D \subseteq Nat
    OBVIOUS
  <2>2. PICK k \in D : \A m \in D : k <= m
    <3> HIDE DEF D
    <3> QED
      BY <2>1, LeastExists
  <2>3. k <= M /\ k <= N
    <3>1. N \in D
      OBVIOUS
    <3> QED
      BY <2>1, <2>2, <3>1
  <2>4. \A i \in 1..k : s[i] = t[i]
    <3>1. TAKE i \in 1..k
    <3>2. PICK m \in Nat : m = i - 1 /\ m + 1 = i /\ m < k
      <4>1. i - 1 \in Nat /\ (i - 1) + 1 = i /\ i - 1 < k
        BY <2>3
      <4> QED
        BY <4>1
    <3>3. m \notin D
      BY <2>2, <3>2
    <3> QED
      BY <3>2, <3>3
  <2>5. k = M \/ k = N \/ s[k + 1] # t[k + 1]
    BY <2>3
  <2>6. k \in 0..M
    BY <2>3
  <2> QED
    BY <1>1, <2>3, <2>4, <2>5, <2>6 DEF Shared
<1>3. ASSUME NEW k, NEW m, Shared(s, t, k), Shared(s, t, m), k < m PROVE FALSE
  <2>1. k \in Nat /\ m \in Nat /\ k + 1 \in 1..m /\ k # M /\ k # N
    BY <1>1, <1>3 DEF Shared
  <2> QED
    BY <1>1, <1>3, <2>1 DEF Shared
<1>4. ASSUME NEW k, Shared(s, t, k)
      PROVE  k = CHOOSE n \in 0..Len(s) :
                   n <= Len(t) /\ (\A i \in 1..n : s[i] = t[i]) /\ (n = Len(s) \/ n = Len(t) \/ s[n + 1] # t[n + 1])
  <2>1. PICK c : c = CHOOSE n \in 0..Len(s) :
                       n <= Len(t) /\ (\A i \in 1..n : s[i] = t[i]) /\ (n = Len(s) \/ n = Len(t) \/ s[n + 1] # t[n + 1])
    OBVIOUS
  <2>2. Shared(s, t, c)
    BY <1>4, <2>1 DEF Shared
  <2>3. c \in Nat /\ k \in Nat
    BY <1>1, <1>4, <2>2 DEF Shared
  <2>4. ~(c < k) /\ ~(k < c)
    BY <1>3, <1>4, <2>2
  <2> QED
    BY <2>1, <2>3, <2>4
<1>5. ASSUME NEW k, Shared(s, t, k)
      PROVE  Lexical(s, t) = IF k = Len(s) /\ k = Len(t) THEN 0
                             ELSE IF k = Len(s) THEN -1 ELSE IF k = Len(t) THEN 1
                             ELSE IF s[k + 1] < t[k + 1] THEN -1 ELSE 1
  BY <1>4, <1>5 DEF Lexical
<1> QED
  BY <1>2, <1>5

(* Reversing the sides reverses the verdict.                               *)
LEMMA LexicalReverses ==
  ASSUME NEW s \in Text, NEW t \in Text
  PROVE  Lexical(t, s) = -Lexical(s, t)
<1>1. PICK M \in Nat, N \in Nat : M = Len(s) /\ N = Len(t)
  BY ByteAt
<1>2. PICK k : Shared(s, t, k)
  BY LexicalIs
<1>3. k \in 0..M /\ k \in 0..N
  BY <1>1, <1>2 DEF Shared
<1>4. Shared(t, s, k)
  BY <1>1, <1>2, <1>3 DEF Shared
<1>5. PICK x, y : x = s[k + 1] /\ y = t[k + 1]
  OBVIOUS
<1>6. k # M /\ k # N => x \in Byte /\ y \in Byte /\ x # y
  <2>1. k # M /\ k # N => k + 1 \in 1..M /\ k + 1 \in 1..N
    BY <1>3
  <2> QED
    BY <1>1, <1>2, <1>5, <2>1, WidenedIs DEF Shared
<1>7. Lexical(s, t) = IF k = M /\ k = N THEN 0
                      ELSE IF k = M THEN -1 ELSE IF k = N THEN 1
                      ELSE IF x < y THEN -1 ELSE 1
  BY <1>1, <1>2, <1>5, LexicalIs
<1>8. Lexical(t, s) = IF k = N /\ k = M THEN 0
                      ELSE IF k = N THEN -1 ELSE IF k = M THEN 1
                      ELSE IF y < x THEN -1 ELSE 1
  BY <1>1, <1>4, <1>5, LexicalIs
<1>9. CASE k = M \/ k = N
  BY <1>7, <1>8, <1>9
<1>10. CASE k # M /\ k # N
  <2>1. x < y <=> ~(y < x)
    <3>1. x \in Byte /\ y \in Byte /\ x # y
      BY <1>6, <1>10
    <3>2. PICK m \in 0..255, n \in 0..255 : m = x /\ n = y
      BY <3>1 DEF Byte
    <3> QED
      BY <3>1, <3>2
  <2>2. Lexical(s, t) = (IF x < y THEN -1 ELSE 1) /\ Lexical(t, s) = (IF y < x THEN -1 ELSE 1)
    BY <1>7, <1>8, <1>10
  <2> QED
    BY <2>1, <2>2
<1> QED
  BY <1>9, <1>10

(* The encodings of two characters are ordered as the characters are, by   *)
(* their first byte or, where it is shared, by their second.               *)
LEMMA WidenOrders ==
  ASSUME NEW a \in Byte, NEW b \in Byte, a # b
  PROVE  \/ At(Widen(a), 0) # At(Widen(b), 0) /\ (a < b <=> At(Widen(a), 0) < At(Widen(b), 0))
         \/ /\ Len(Widen(a)) = 2 /\ Len(Widen(b)) = 2 /\ At(Widen(a), 0) = At(Widen(b), 0)
            /\ At(Widen(a), 1) # At(Widen(b), 1) /\ (a < b <=> At(Widen(a), 1) < At(Widen(b), 1))
<1>1. (a < 128 => At(Widen(a), 0) = a) /\ (b < 128 => At(Widen(b), 0) = b)
  BY WidenIs DEF At
<1>2. (a < 128 \/ a >= 128) /\ (b < 128 \/ b >= 128)
  BY DEF Byte
<1>3. CASE a < 128 /\ b < 128
  BY <1>1, <1>3
<1>4. CASE a < 128 /\ b >= 128
  <2>1. At(Widen(b), 0) = 192 + (b \div 64) /\ b \div 64 \in 0..3
    BY <1>4, WidenIs DEF Byte
  <2> QED
    BY <1>1, <1>4, <2>1 DEF Byte
<1>5. CASE a >= 128 /\ b < 128
  <2>1. At(Widen(a), 0) = 192 + (a \div 64) /\ a \div 64 \in 0..3
    BY <1>5, WidenIs DEF Byte
  <2> QED
    BY <1>1, <1>5, <2>1 DEF Byte
<1>6. CASE a >= 128 /\ b >= 128
  <2>1. PICK p \in 0..3, q \in 0..63 : p = a \div 64 /\ q = a % 64 /\ a = 64 * p + q
    BY DEF Byte
  <2>2. PICK g \in 0..3, h \in 0..63 : g = b \div 64 /\ h = b % 64 /\ b = 64 * g + h
    BY DEF Byte
  <2>3. /\ Len(Widen(a)) = 2 /\ At(Widen(a), 0) = 192 + p /\ At(Widen(a), 1) = 128 + q
        /\ Len(Widen(b)) = 2 /\ At(Widen(b), 0) = 192 + g /\ At(Widen(b), 1) = 128 + h
    BY <1>6, <2>1, <2>2, WidenIs
  <2> QED
    BY <2>1, <2>2, <2>3
<1> QED
  BY <1>2, <1>3, <1>4, <1>5, <1>6

(* Where two texts share their first k bytes, their upgrades share the     *)
(* encodings of those.                                                     *)
LEMMA UpgradesShare ==
  ASSUME NEW s \in Text, NEW t \in Text, NEW k \in Nat, k <= Len(s), k <= Len(t), \A i \in 1..k : s[i] = t[i]
  PROVE  /\ Spot(s, k) = Spot(t, k)
         /\ \A x \in 0..(Spot(s, k) - 1) : At(UpgradedBytes(s), x) = At(UpgradedBytes(t), x)
<1>1. PICK M \in Nat, N \in Nat : M = Len(s) /\ N = Len(t)
  BY ByteAt
<1>2. PICK U \in Text : U = UpgradedBytes(s) /\ \A i \in 1..M : Window(Widen(s[i]), U, Spot(s, i - 1))
  BY <1>1, UpgradeSpots
<1>3. PICK V \in Text : V = UpgradedBytes(t) /\ \A i \in 1..N : Window(Widen(t[i]), V, Spot(t, i - 1))
  BY <1>1, UpgradeSpots
<1> DEFINE S == {i \in 0..k : Spot(s, i) = Spot(t, i) /\ \A x \in 0..(Spot(s, i) - 1) : At(U, x) = At(V, x)}
<1>4. 0 \in S
  <2>1. Spot(s, 0) = 0 /\ Spot(t, 0) = 0
    BY SpotIs
  <2> QED
    BY <2>1
<1>5. ASSUME NEW i \in 0..(k - 1), i \in S PROVE i + 1 \in S
  <2>1. PICK m \in 1..k : m = i + 1 /\ m - 1 = i /\ m \in 1..M /\ m \in 1..N
    <3>1. i + 1 \in 1..k /\ (i + 1) - 1 = i /\ i + 1 \in 1..M /\ i + 1 \in 1..N
      BY <1>1
    <3> QED
      BY <3>1
  <2>2. PICK b \in Byte : b = s[m] /\ b = t[m]
    BY <1>1, <2>1, WidenedIs
  <2>3. PICK w \in Text, n \in Nat : w = Widen(b) /\ n = Len(w)
    BY WidenIs, ByteAt
  <2>4. PICK p \in Nat : p = Spot(s, i) /\ p = Spot(t, i)
    <3>1. i \in 0..M
      BY <2>1
    <3> QED
      BY <1>1, <1>5, <3>1, SpotIs
  <2>5. Spot(s, m) = p + n /\ Spot(t, m) = p + n
    BY <1>1, <2>1, <2>2, <2>3, <2>4, SpotIs
  <2>6. Window(w, U, p) /\ Window(w, V, p)
    BY <1>2, <1>3, <2>1, <2>2, <2>3, <2>4
  <2>7. ASSUME NEW x \in 0..((p + n) - 1) PROVE At(U, x) = At(V, x)
    <3>1. CASE x < p
      <4>1. x \in 0..(p - 1)
        BY <3>1
      <4> QED
        BY <1>5, <2>4, <4>1
    <3>2. CASE x >= p
      <4>1. PICK y \in Places(w) : y = x - p /\ p + y = x
        <5>1. x - p \in Places(w) /\ p + (x - p) = x
          BY <2>3, <3>2 DEF Places
        <5> QED
          BY <5>1
      <4> QED
        BY <2>6, <4>1 DEF Window
    <3> QED
      BY <3>1, <3>2
  <2> QED
    BY <2>1, <2>5, <2>7
<1>6. k \in S
  <2>1. \A i \in 0..k : i \in S
    <3> HIDE DEF S
    <3> QED
      BY <1>4, <1>5, UpTo
  <2> QED
    BY <2>1
<1> QED
  BY <1>2, <1>3, <1>6

(* The encoding of what follows the first k bytes, in the upgrade.         *)
LEMMA UpgradeNext ==
  ASSUME NEW s \in Text, NEW k \in Nat, k < Len(s)
  PROVE  /\ s[k + 1] \in Byte /\ Window(Widen(s[k + 1]), UpgradedBytes(s), Spot(s, k))
         /\ Spot(s, k) \in Nat /\ Len(Widen(s[k + 1])) \in {1, 2}
         /\ Spot(s, k) < Len(UpgradedBytes(s))
         /\ At(UpgradedBytes(s), Spot(s, k)) = At(Widen(s[k + 1]), 0)
<1>1. PICK M \in Nat : M = Len(s)
  BY ByteAt
<1>2. PICK m \in 1..M : m = k + 1 /\ m - 1 = k
  <2>1. k + 1 \in 1..M /\ (k + 1) - 1 = k
    BY <1>1
  <2> QED
    BY <2>1
<1>3. PICK b \in Byte, p \in Nat : b = s[k + 1] /\ p = Spot(s, k)
  <2>1. k \in 0..M
    BY <1>1
  <2> QED
    BY <1>1, <1>2, <2>1, WidenedIs, SpotIs
<1>4. PICK U \in Text, l \in Nat : U = UpgradedBytes(s) /\ l = Len(U) /\ Window(Widen(b), U, p)
  <2>1. UpgradedBytes(s) \in Text /\ Window(Widen(b), UpgradedBytes(s), p)
    BY <1>1, <1>2, <1>3, UpgradeSpots
  <2> QED
    BY <2>1, ByteAt
<1>5. PICK n \in {1, 2} : n = Len(Widen(b))
  <2>1. b < 128 \/ b >= 128
    BY DEF Byte
  <2>2. (b < 128 => Len(Widen(b)) = 1) /\ (b >= 128 => Len(Widen(b)) = 2)
    BY WidenIs
  <2> QED
    BY <2>1, <2>2
<1>6. p + n <= l /\ At(U, p + 0) = At(Widen(b), 0)
  <2>1. 0 \in Places(Widen(b))
    BY <1>5 DEF Places
  <2> QED
    BY <1>4, <1>5, <2>1 DEF Window
<1>7. p < l /\ p + 0 = p
  BY <1>5, <1>6
<1> QED
  BY <1>3, <1>4, <1>5, <1>6, <1>7

(* Upgrades are ordered as the texts are.                                  *)
LEMMA UpgradeOrders ==
  ASSUME NEW s \in Text, NEW t \in Text
  PROVE  Lexical(UpgradedBytes(s), UpgradedBytes(t)) = Lexical(s, t)
<1>1. PICK M \in Nat, N \in Nat : M = Len(s) /\ N = Len(t)
  BY ByteAt
<1>2. PICK U \in Text, K \in Nat : U = UpgradedBytes(s) /\ K = Len(U) /\ K = Spot(s, M)
  BY <1>1, UpgradeSpots, ByteAt
<1>3. PICK V \in Text, L \in Nat : V = UpgradedBytes(t) /\ L = Len(V) /\ L = Spot(t, N)
  BY <1>1, UpgradeSpots, ByteAt
<1>4. PICK k \in Nat : Shared(s, t, k) /\ k <= M /\ k <= N
  <2>1. PICK k : Shared(s, t, k)
    BY LexicalIs
  <2>2. k \in Nat /\ k <= M /\ k <= N
    BY <1>1, <2>1 DEF Shared
  <2> QED
    BY <2>1, <2>2
<1>5. PICK p \in Nat : /\ p = Spot(s, k) /\ p = Spot(t, k)
                       /\ \A x \in 0..(p - 1) : At(U, x) = At(V, x)
  <2>1. k \in 0..M
    BY <1>4
  <2>2. Spot(s, k) \in Nat
    BY <1>1, <2>1, SpotIs
  <2>3. Spot(s, k) = Spot(t, k) /\ \A x \in 0..(Spot(s, k) - 1) : At(U, x) = At(V, x)
    BY <1>1, <1>2, <1>3, <1>4, UpgradesShare DEF Shared
  <2> QED
    BY <2>2, <2>3
<1>6. \A i \in 1..p : U[i] = V[i]
  <2>1. TAKE i \in 1..p
  <2>2. i - 1 \in 0..(p - 1) /\ (i - 1) + 1 = i
    OBVIOUS
  <2> QED
    BY <1>5, <2>2 DEF At
<1>7. Lexical(s, t) = IF k = M /\ k = N THEN 0
                      ELSE IF k = M THEN -1 ELSE IF k = N THEN 1
                      ELSE IF s[k + 1] < t[k + 1] THEN -1 ELSE 1
  BY <1>1, <1>4, LexicalIs
<1>8. \A q : Shared(U, V, q) =>
         Lexical(U, V) = IF q = K /\ q = L THEN 0
                         ELSE IF q = K THEN -1 ELSE IF q = L THEN 1
                         ELSE IF U[q + 1] < V[q + 1] THEN -1 ELSE 1
  <2>1. TAKE q
  <2>2. HAVE Shared(U, V, q)
  <2>3. Lexical(U, V) = IF q = Len(U) /\ q = Len(V) THEN 0
                        ELSE IF q = Len(U) THEN -1 ELSE IF q = Len(V) THEN 1
                        ELSE IF U[q + 1] < V[q + 1] THEN -1 ELSE 1
    BY <2>2, LexicalIs
  <2> QED
    BY <1>2, <1>3, <2>3
<1>9. (k = M => p = K) /\ (k = N => p = L) /\ (k # M => p < K) /\ (k # N => p < L)
  <2>1. k # M => k < M
    BY <1>4
  <2>2. k # N => k < N
    BY <1>4
  <2> QED
    BY <1>1, <1>2, <1>3, <1>5, <2>1, <2>2, UpgradeNext
<1>10. CASE k = M \/ k = N
  <2>1. Shared(U, V, p)
    <3>1. p \in 0..K /\ p <= L
      BY <1>9
    <3> QED
      BY <1>2, <1>3, <1>6, <1>9, <1>10, <3>1 DEF Shared
  <2> QED
    BY <1>2, <1>3, <1>7, <1>8, <1>9, <1>10, <2>1
<1>11. CASE k # M /\ k # N
  <2>1. k < M /\ k < N
    BY <1>4, <1>11
  <2>2. PICK a \in Byte, b \in Byte : a = s[k + 1] /\ b = t[k + 1] /\ a # b
    BY <1>1, <1>4, <1>11, <2>1, UpgradeNext DEF Shared
  <2>3. Window(Widen(a), U, p) /\ Window(Widen(b), V, p)
    BY <1>1, <1>2, <1>3, <1>5, <2>1, <2>2, UpgradeNext
  <2>4. U[p + 1] = At(Widen(a), 0) /\ V[p + 1] = At(Widen(b), 0)
    <3>1. At(UpgradedBytes(s), Spot(s, k)) = At(Widen(s[k + 1]), 0)
      BY <1>1, <2>1, UpgradeNext
    <3>2. At(UpgradedBytes(t), Spot(t, k)) = At(Widen(t[k + 1]), 0)
      BY <1>1, <2>1, UpgradeNext
    <3> QED
      BY <1>2, <1>3, <1>5, <2>2, <3>1, <3>2 DEF At
  <2>5. p < K /\ p < L
    BY <1>9, <1>11
  <2>6. CASE U[p + 1] # V[p + 1]
    <3>1. Shared(U, V, p)
      BY <1>2, <1>3, <1>6, <2>5, <2>6 DEF Shared
    <3>2. a < b <=> U[p + 1] < V[p + 1]
      BY <2>2, <2>4, <2>6, WidenOrders
    <3>3. Lexical(U, V) = IF U[p + 1] < V[p + 1] THEN -1 ELSE 1
      BY <1>8, <2>5, <3>1
    <3> QED
      BY <1>2, <1>3, <1>7, <1>11, <2>2, <3>2, <3>3
  <2>7. CASE U[p + 1] = V[p + 1]
    <3>1. /\ Len(Widen(a)) = 2 /\ Len(Widen(b)) = 2 /\ At(Widen(a), 1) # At(Widen(b), 1)
          /\ a < b <=> At(Widen(a), 1) < At(Widen(b), 1)
      BY <2>2, <2>4, <2>7, WidenOrders
    <3>2. p + 2 <= K /\ p + 2 <= L
      BY <1>2, <1>3, <2>3, <3>1 DEF Window
    <3>3. PICK q \in Nat : q = p + 1 /\ q < K /\ q < L
      BY <3>2
    <3>4. U[q + 1] = At(Widen(a), 1) /\ V[q + 1] = At(Widen(b), 1)
      <4>1. 1 \in Places(Widen(a)) /\ 1 \in Places(Widen(b))
        BY <3>1 DEF Places
      <4>2. At(Widen(a), 1) = At(U, p + 1) /\ At(Widen(b), 1) = At(V, p + 1)
        BY <2>3, <4>1 DEF Window
      <4> QED
        BY <3>3, <4>2 DEF At
    <3>5. \A i \in 1..q : U[i] = V[i]
      <4>1. \A i \in 1..q : i \in 1..p \/ i = p + 1
        BY <3>3
      <4> QED
        BY <1>6, <2>7, <4>1
    <3>6. Shared(U, V, q)
      BY <1>2, <1>3, <3>1, <3>3, <3>4, <3>5 DEF Shared
    <3>7. Lexical(U, V) = IF U[q + 1] < V[q + 1] THEN -1 ELSE 1
      BY <1>8, <3>3, <3>6
    <3> QED
      BY <1>2, <1>3, <1>7, <1>11, <2>2, <3>1, <3>4, <3>7
  <2> QED
    BY <2>6, <2>7
<1> QED
  BY <1>10, <1>11

-----------------------------------------------------------------------------
(* Equality.                                                               *)

(* A text has one upgrade, and no other text has it.                       *)
LEMMA UpgradeInjective ==
  ASSUME NEW s \in Text, NEW t \in Text
  PROVE  s = t <=> UpgradedBytes(s) = UpgradedBytes(t)
<1>1. DowngradedBytes(UpgradedBytes(s)) = s /\ DowngradedBytes(UpgradedBytes(t)) = t
  BY ReadsBack
<1> QED
  BY <1>1

(* The grid of one flag refuses only what differs.                         *)
LEMMA SameFlagRefuses ==
  ASSUME NEW a, NEW b, a.bytes \in Text, a.bytes = b.bytes, Said(a.scan, a.bytes), Said(b.scan, b.bytes)
  PROVE  ~GridSameFlag(a, b)
<1>1. PICK c \in Terminal : c = ClassIs(a.bytes)
  BY ClassifiedIs
<1>2. PICK r \in ScanState, t \in ScanState : r = a.scan /\ t = b.scan /\ Certifies(r, c) /\ Certifies(t, c)
  BY <1>1 DEF Said
<1>3. (IsTerminal(r) => r = c) /\ (IsTerminal(t) => t = c)
  BY <1>2, CertifiesTable DEF Terminal, IsTerminal
<1>4. ~IsRustValid(c) => ~IsRustValid(r) /\ ~IsRustValid(t)
  BY <1>2, CertifiesTable DEF Terminal, IsRustValid
<1> QED
  BY <1>2, <1>3, <1>4 DEF GridSameFlag

(* The grid of two flags refuses no text against its upgrade.              *)
LEMMA CrossRefuses ==
  ASSUME NEW f, NEW p, p.bytes \in Text, f.bytes = UpgradedBytes(p.bytes),
         Said(f.scan, f.bytes), Said(p.scan, p.bytes)
  PROVE  ~Grid(f, p)
<1>1. PICK b \in Text, U \in Text : b = p.bytes /\ U = f.bytes /\ U = UpgradedBytes(b)
  BY UpgradedIs
<1>2. PICK c \in Terminal, d \in Terminal : c = ClassIs(U) /\ d = ClassIs(b)
  BY <1>1, ClassifiedIs
<1>3. c = IF d = "Ascii" THEN "Ascii" ELSE "Utf8Latin1"
  BY <1>1, <1>2, UpgradedIs DEF ClassIs
<1>4. PICK N \in Nat, n \in Nat : N = Len(b) /\ n = VariantCount(b) /\ Len(U) = N + n
  <2>1. Len(b) \in Nat /\ VariantCount(b) \in Nat /\ Spot(b, Len(b)) = Len(b) + VariantCount(b)
    BY SpotIs
  <2>2. Len(UpgradedBytes(b)) = Spot(b, Len(b))
    BY UpgradeSpots
  <2> QED
    BY <1>1, <2>1, <2>2
<1>5. d # "Ascii" => n # 0
  <2>1. ASSUME d # "Ascii" PROVE n # 0
    <3>1. PICK x \in Places(b) : At(b, x) >= 128
      <4>1. ~\A x \in Places(b) : At(b, x) < 128
        BY <1>2, <2>1, AsciiIs DEF ClassIs
      <4>2. \A x \in Places(b) : At(b, x) < 128 \/ At(b, x) >= 128
        <5>1. \A x \in Byte : x < 128 \/ x >= 128
          BY DEF Byte
        <5> QED
          BY <5>1, ByteAt
      <4> QED
        BY <4>1, <4>2
    <3>2. x + 1 \in Among(N, Variants(b))
      <4>1. x + 1 \in 1..N /\ b[x + 1] >= 128
        BY <1>4, <3>1, ByteAt DEF At
      <4> QED
        BY <1>4, <4>1 DEF Among, Variants
    <3>3. IsFiniteSet(Among(N, Variants(b)))
      BY CountIs
    <3>4. Cardinality(Among(N, Variants(b))) # 0
      BY <3>2, <3>3, FS_EmptySet
    <3> QED
      BY <1>4, <3>4, SpotIs
  <2> QED
    BY <2>1
<1>6. PICK r \in ScanState, t \in ScanState : r = f.scan /\ t = p.scan /\ Certifies(r, c) /\ Certifies(t, d)
  BY <1>1, <1>2 DEF Said
<1>7. ~(N > Len(U))
  BY <1>4
<1>8. ~(r \in {"Utf8Latin1", "Utf8NonAscii"} /\ N = Len(U))
  <2>1. r \in {"Utf8Latin1", "Utf8NonAscii"} => c # "Ascii"
    BY <1>6, CertifiesTable
  <2> QED
    BY <1>3, <1>4, <1>5, <2>1
<1>9. ~(r = "Ascii" /\ IsKnownNonAscii(t)) /\ ~(t = "Ascii" /\ IsKnownNonAscii(r))
  <2>1. r = "Ascii" => c = "Ascii"
    BY <1>6, CertifiesTable DEF Terminal
  <2>2. t = "Ascii" => d = "Ascii"
    BY <1>6, CertifiesTable DEF Terminal
  <2>3. (c = "Ascii" => ~IsKnownNonAscii(r)) /\ (d = "Ascii" => ~IsKnownNonAscii(t))
    BY <1>6, CertifiesTable DEF IsKnownNonAscii
  <2> QED
    BY <1>3, <2>1, <2>2, <2>3
<1>10. ~IsKnownBeyondLatin1(r) /\ r # "MalformedUtf8"
  BY <1>3, <1>6, CertifiesTable DEF IsKnownBeyondLatin1
<1> QED
  BY <1>1, <1>4, <1>6, <1>7, <1>8, <1>9, <1>10 DEF Grid

-----------------------------------------------------------------------------
(* The inductive invariant: both strings are what they are said to be.     *)

WellKnown(s) ==
  /\ s \in [bytes : Text, utf8 : BOOLEAN, form : PairForms, scan : ScanState, count : Nat]
  /\ Said(s.scan, s.bytes) /\ Counted(s.count, s.bytes)

PairInv == WellKnown(left) /\ WellKnown(right)

(* Strings are equal where their characters are.                           *)
LEMMA EqualIs ==
  ASSUME NEW a, NEW b, WellKnown(a), WellKnown(b)
  PROVE  Equal(a, b) <=> Characters(a) = Characters(b)
<1>1. /\ a.bytes \in Text /\ b.bytes \in Text /\ a.utf8 \in BOOLEAN /\ b.utf8 \in BOOLEAN
      /\ Said(a.scan, a.bytes) /\ Said(b.scan, b.bytes)
  BY DEF WellKnown
<1>2. CASE a.utf8 = b.utf8
  <2>1. Equal(a, b) <=> a.bytes = b.bytes
    BY <1>1, <1>2, SameFlagRefuses DEF Equal
  <2>2. a.bytes = b.bytes <=> UpgradedBytes(a.bytes) = UpgradedBytes(b.bytes)
    BY <1>1, UpgradeInjective
  <2> QED
    BY <1>1, <1>2, <2>1, <2>2 DEF Characters
<1>3. CASE a.utf8 /\ ~b.utf8
  <2>1. PairWalk(a.bytes, b.bytes).equal <=> a.bytes = UpgradedBytes(b.bytes)
    BY <1>1, PairWalkIs
  <2>2. a.bytes = UpgradedBytes(b.bytes) => ~Grid(a, b)
    BY <1>1, CrossRefuses
  <2>3. Equal(a, b) <=> ~Grid(a, b) /\ PairWalk(a.bytes, b.bytes).equal
    BY <1>3 DEF Equal, CrossGrid, CrossWalk
  <2> QED
    BY <1>3, <2>1, <2>2, <2>3 DEF Characters
<1>4. CASE ~a.utf8 /\ b.utf8
  <2>1. PairWalk(b.bytes, a.bytes).equal <=> b.bytes = UpgradedBytes(a.bytes)
    BY <1>1, PairWalkIs
  <2>2. b.bytes = UpgradedBytes(a.bytes) => ~Grid(b, a)
    BY <1>1, CrossRefuses
  <2>3. Equal(a, b) <=> ~Grid(b, a) /\ PairWalk(b.bytes, a.bytes).equal
    BY <1>4 DEF Equal, CrossGrid, CrossWalk
  <2> QED
    BY <1>4, <2>1, <2>2, <2>3 DEF Characters
<1> QED
  BY <1>1, <1>2, <1>3, <1>4

(* Strings are ordered as their characters are.                            *)
LEMMA OrderIs ==
  ASSUME NEW a, NEW b, WellKnown(a), WellKnown(b)
  PROVE  Order(a, b) = Lexical(Characters(a), Characters(b))
<1>1. a.bytes \in Text /\ b.bytes \in Text /\ a.utf8 \in BOOLEAN /\ b.utf8 \in BOOLEAN
  BY DEF WellKnown
<1>2. UpgradedBytes(a.bytes) \in Text /\ UpgradedBytes(b.bytes) \in Text
  BY <1>1, UpgradedIs
<1>3. Lexical(UpgradedBytes(a.bytes), UpgradedBytes(b.bytes)) = Lexical(a.bytes, b.bytes)
  BY <1>1, UpgradeOrders
<1>4. Lexical(UpgradedBytes(a.bytes), b.bytes) = -Lexical(b.bytes, UpgradedBytes(a.bytes))
  BY <1>1, <1>2, LexicalReverses
<1> QED
  BY <1>1, <1>3, <1>4 DEF Order, CmpCrossFlag, Characters

(* What is fed to the hasher: the one unflagged string of those            *)
(* characters, if there is one.                                            *)
Fed(s) == IF s.utf8 /\ ClassIs(s.bytes) \in {"Ascii", "Utf8Latin1"} THEN DowngradedBytes(s.bytes) ELSE s.bytes

(* A digest feeds it whatever is known.                                    *)
LEMMA DigestIs ==
  ASSUME NEW s, WellKnown(s)
  PROVE  Digest(s) = Chunks(Fed(s))
<1>1. PICK b \in Text, r \in ScanState, c \in Terminal :
        b = s.bytes /\ r = s.scan /\ c = ClassIs(b) /\ Certifies(r, c) /\ c = ClassifyFull(b).class
  <2>1. s.bytes \in Text /\ Said(s.scan, s.bytes)
    BY DEF WellKnown
  <2>2. ClassIs(s.bytes) \in Terminal /\ ClassIs(s.bytes) = ClassifyFull(s.bytes).class
    BY <2>1, ClassifiedIs DEF ClassIs
  <2> QED
    BY <2>1, <2>2 DEF Said
<1>2. c = "Ascii" => DowngradedBytes(b) = b
  <2>1. ASSUME c = "Ascii" PROVE DowngradedBytes(b) = b
    <3>1. UpgradedBytes(b) = b
      BY <1>1, <2>1, UpgradedIs
    <3> QED
      BY <3>1, ReadsBack
  <2> QED
    BY <2>1
<1>3. (r = "Ascii" => c = "Ascii") /\ (r = "Utf8Latin1" => c = "Utf8Latin1")
  BY <1>1, CertifiesTable DEF Terminal
<1>4. IsKnownBeyondLatin1(r) \/ r = "MalformedUtf8" => c \notin {"Ascii", "Utf8Latin1"}
  BY <1>1, CertifiesTable DEF IsKnownBeyondLatin1
<1>5. Downgradable(b) <=> c \in {"Ascii", "Utf8Latin1"}
  BY <1>1 DEF Downgradable
<1>6. s.utf8 \in BOOLEAN
  BY DEF WellKnown
<1> QED
  BY <1>1, <1>2, <1>3, <1>4, <1>5, <1>6 DEF Digest, Fed

(* Equal strings feed the same bytes.                                      *)
LEMMA EqualFeedAlike ==
  ASSUME NEW a, NEW b, WellKnown(a), WellKnown(b), Characters(a) = Characters(b)
  PROVE  Fed(a) = Fed(b)
<1>1. a.bytes \in Text /\ b.bytes \in Text /\ a.utf8 \in BOOLEAN /\ b.utf8 \in BOOLEAN
  BY DEF WellKnown
<1>2. ASSUME NEW s \in Text
      PROVE  ClassIs(UpgradedBytes(s)) \in {"Ascii", "Utf8Latin1"} /\ DowngradedBytes(UpgradedBytes(s)) = s
  BY UpgradedIs, ReadsBack DEF ClassIs
<1>3. CASE a.utf8 = b.utf8
  <2>1. a.bytes = b.bytes
    BY <1>1, <1>3, UpgradeInjective DEF Characters
  <2> QED
    BY <1>3, <2>1 DEF Fed
<1>4. CASE a.utf8 /\ ~b.utf8
  <2>1. a.bytes = UpgradedBytes(b.bytes)
    BY <1>4 DEF Characters
  <2> QED
    BY <1>1, <1>2, <1>4, <2>1 DEF Fed
<1>5. CASE ~a.utf8 /\ b.utf8
  <2>1. b.bytes = UpgradedBytes(a.bytes)
    BY <1>5 DEF Characters
  <2> QED
    BY <1>1, <1>2, <1>5, <2>1 DEF Fed
<1> QED
  BY <1>1, <1>3, <1>4, <1>5

-----------------------------------------------------------------------------
(* The steps.                                                              *)

(* Both strings start with what is true of them.                           *)
LEMMA PairStarts ==
  ASSUME PairInit
  PROVE  PairInv
<1>1. ASSUME NEW s \in Strings PROVE WellKnown(s)
  <2>1. /\ s \in [bytes : PairContents, utf8 : BOOLEAN, form : PairForms, scan : ScanState, count : {0}]
        /\ IF s.form = "heap" THEN Certifies(s.scan, ClassIs(s.bytes)) ELSE s.scan = ClassIs(s.bytes)
    BY DEF Strings, ClassIs
  <2>2. s.bytes \in Text
    BY <2>1, PairsAssumption DEF PairsAssumption, Text, Byte
  <2>3. Said(s.scan, s.bytes)
    BY <2>1, <2>2, ClassifiedIs DEF Said
  <2>4. s.count = 0 /\ Counted(s.count, s.bytes)
    BY <2>1, <2>2, ClassifiedIs
  <2>5. s \in [bytes : Text, utf8 : BOOLEAN, form : PairForms, scan : ScanState, count : Nat]
    BY <2>1, <2>2
  <2> QED
    BY <2>3, <2>4, <2>5 DEF WellKnown
<1> QED
  BY <1>1 DEF PairInit, PairInv

(* What is recorded of a string is true of it.                             *)
LEMMA PairLearns ==
  ASSUME NEW s, WellKnown(s), NEW fact, Said(fact, s.bytes)
  PROVE  /\ WellKnown(Learning(s, fact))
         /\ Learning(s, fact).bytes = s.bytes /\ Learning(s, fact).form = s.form
<1>1. s \in [bytes : Text, utf8 : BOOLEAN, form : PairForms, scan : ScanState, count : Nat] /\ s.bytes \in Text
  BY DEF WellKnown
<1>2. PICK m : m = Meet(s.scan, fact)
  OBVIOUS
<1>3. Said(m, s.bytes)
  <2>1. PICK c \in Terminal : c = ClassIs(s.bytes)
    BY <1>1, ClassifiedIs
  <2>2. Said(s.scan, s.bytes)
    BY DEF WellKnown
  <2>3. m \in ScanState /\ Classes(m) = Classes(s.scan) \cap Classes(fact)
    BY <1>2, <2>1, <2>2, MeetExact DEF Said
  <2> QED
    BY <2>1, <2>2, <2>3 DEF Said, Classes
<1>4. CASE s.form = "heap"
  <2>1. PICK t : t = [s EXCEPT !.scan = m]
    OBVIOUS
  <2>2. /\ t \in [bytes : Text, utf8 : BOOLEAN, form : PairForms, scan : ScanState, count : Nat]
        /\ t.bytes = s.bytes /\ t.scan = m /\ t.count = s.count /\ t.form = s.form
    BY <1>1, <1>3, <2>1 DEF Said
  <2>3. Learning(s, fact) = t
    BY <1>2, <1>4, <2>1 DEF Learning
  <2> QED
    BY <1>3, <2>2, <2>3 DEF WellKnown
<1>5. CASE s.form # "heap"
  BY <1>5 DEF Learning
<1> QED
  BY <1>4, <1>5

(* A walk that found the sides equal knows the range of both.              *)
LEMMA WalkTells ==
  ASSUME NEW f, NEW p, WellKnown(f), WellKnown(p), f.utf8, ~p.utf8, f.bytes = UpgradedBytes(p.bytes), NEW high,
         high = PairWalk(f.bytes, p.bytes).high
  PROVE  /\ WellKnown(LearnsOfEqual(f, high)) /\ WellKnown(LearnsOfEqual(p, high))
<1>1. PICK b \in Text, U \in Text : b = p.bytes /\ U = f.bytes /\ U = UpgradedBytes(b)
  BY UpgradedIs DEF WellKnown
<1>2. PICK c \in Terminal, d \in Terminal : /\ c = ClassIs(U) /\ d = ClassIs(b)
                                            /\ c = IF d = "Ascii" THEN "Ascii" ELSE "Utf8Latin1"
  <2>1. ClassIs(U) \in Terminal /\ ClassIs(b) \in Terminal
    BY <1>1, ClassifiedIs
  <2>2. ClassIs(U) = IF ClassIs(b) = "Ascii" THEN "Ascii" ELSE "Utf8Latin1"
    BY <1>1, UpgradedIs DEF ClassIs
  <2> QED
    BY <2>1, <2>2
<1>3. high <=> d # "Ascii"
  <2>1. high <=> \E x \in Places(b) : At(b, x) >= 128
    <3>1. PairWalk(U, b).equal /\ (PairWalk(U, b).equal => (PairWalk(U, b).high <=> \E x \in Places(b) : At(b, x) >= 128))
      BY <1>1, PairWalkIs
    <3> QED
      BY <1>1, <3>1
  <2>2. d = "Ascii" <=> \A x \in Places(b) : At(b, x) < 128
    BY <1>1, <1>2, AsciiIs DEF ClassIs
  <2>3. \A x \in Places(b) : At(b, x) < 128 <=> ~(At(b, x) >= 128)
    <3>1. \A x \in Byte : x < 128 <=> ~(x >= 128)
      BY DEF Byte
    <3> QED
      BY <3>1, ByteAt
  <2> QED
    BY <2>1, <2>2, <2>3
<1>4. /\ d = "Ascii" => Said("Ascii", U) /\ Said("Ascii", b)
      /\ d # "Ascii" => Said("Utf8Latin1", U) /\ Said("NonAscii", b)
  <2>1. "Ascii" \in ScanState /\ "Utf8Latin1" \in ScanState /\ "NonAscii" \in ScanState
    BY DEF ScanState, Terminal
  <2>2. /\ Certifies("Ascii", "Ascii") /\ Certifies("Utf8Latin1", "Utf8Latin1")
        /\ \A k \in Terminal \ {"Ascii"} : Certifies("NonAscii", k)
    BY <2>1, CertifiesTable DEF Terminal
  <2> QED
    BY <1>2, <2>1, <2>2 DEF Said
<1>5. CASE ~high
  <2>1. LearnsOfEqual(f, high) = Learning(f, "Ascii") /\ LearnsOfEqual(p, high) = Learning(p, "Ascii")
    BY <1>5 DEF LearnsOfEqual
  <2> QED
    BY <1>1, <1>3, <1>4, <1>5, <2>1, PairLearns
<1>6. CASE high
  <2>1. LearnsOfEqual(f, high) = Learning(f, "Utf8Latin1") /\ LearnsOfEqual(p, high) = Learning(p, "NonAscii")
    BY <1>6 DEF LearnsOfEqual
  <2> QED
    BY <1>1, <1>3, <1>4, <1>6, <2>1, PairLearns
<1> QED
  BY <1>5, <1>6

(* A comparison leaves both strings well known.                            *)
LEMMA CompareGood ==
  ASSUME PairInv, Compare
  PROVE  PairInv'
<1>1. WellKnown(left) /\ WellKnown(right) /\ left.utf8 \in BOOLEAN /\ right.utf8 \in BOOLEAN
  BY DEF PairInv, WellKnown
<1>2. CASE ~(left.utf8 # right.utf8 /\ Equal(left, right))
  <2>1. left' = left /\ right' = right
    BY <1>2 DEF Compare, pairVars
  <2> QED
    BY <1>1, <2>1 DEF PairInv, WellKnown
<1>3. CASE left.utf8 # right.utf8 /\ Equal(left, right)
  <2>1. PICK high : high = CrossWalk(left, right).high
    OBVIOUS
  <2>2. left' = LearnsOfEqual(left, high) /\ right' = LearnsOfEqual(right, high)
    BY <1>3, <2>1 DEF Compare
  <2>3. Characters(left) = Characters(right)
    BY <1>1, <1>3, EqualIs
  <2>4. WellKnown(LearnsOfEqual(left, high)) /\ WellKnown(LearnsOfEqual(right, high))
    <3>1. CASE left.utf8 /\ ~right.utf8
      <4>1. left.bytes = UpgradedBytes(right.bytes) /\ high = PairWalk(left.bytes, right.bytes).high
        BY <2>1, <2>3, <3>1 DEF Characters, CrossWalk
      <4> QED
        BY <1>1, <3>1, <4>1, WalkTells
    <3>2. CASE ~left.utf8 /\ right.utf8
      <4>1. right.bytes = UpgradedBytes(left.bytes) /\ high = PairWalk(right.bytes, left.bytes).high
        BY <2>1, <2>3, <3>2 DEF Characters, CrossWalk
      <4> QED
        BY <1>1, <3>2, <4>1, WalkTells
    <3> QED
      BY <1>1, <1>3, <3>1, <3>2
  <2> QED
    BY <2>2, <2>4 DEF PairInv, WellKnown
<1> QED
  BY <1>2, <1>3

(* So does a digest.                                                       *)
LEMMA DigestedGood ==
  ASSUME NEW s, WellKnown(s)
  PROVE  WellKnown(Digested(s))
<1>1. s.bytes \in Text
  BY DEF WellKnown
<1>2. PICK k \in Terminal, n \in Nat : /\ k = ClassIs(s.bytes) /\ n = CharsIs(s.bytes)
                                       /\ Said(k, s.bytes) /\ Counted(n, s.bytes)
  BY <1>1, ClassifiedIs
<1>3. PICK t : t = Learning(s, k) /\ WellKnown(t) /\ t.bytes = s.bytes
  BY <1>2, PairLearns
<1>4. PICK m \in Nat : /\ m = (IF s.form = "heap" /\ k # "MalformedUtf8" THEN n ELSE t.count)
                       /\ Counted(m, t.bytes)
  BY <1>2, <1>3 DEF WellKnown
<1>5. PICK r : r = [t EXCEPT !.count = m]
  OBVIOUS
<1>6. /\ r \in [bytes : Text, utf8 : BOOLEAN, form : PairForms, scan : ScanState, count : Nat]
      /\ r.bytes = t.bytes /\ r.scan = t.scan /\ r.count = m
  BY <1>3, <1>4, <1>5 DEF WellKnown
<1>7. WellKnown(r)
  BY <1>3, <1>4, <1>6 DEF WellKnown
<1>8. CASE ~Unresolved(s)
  BY <1>8 DEF Digested
<1>9. CASE Unresolved(s)
  <2>1. Digested(s) = [t EXCEPT !.count = IF s.form = "heap" /\ k # "MalformedUtf8" THEN n ELSE t.count]
    BY <1>2, <1>3, <1>9 DEF Digested, ClassIs, CharsIs
  <2> QED
    BY <1>4, <1>5, <1>7, <2>1
<1> QED
  BY <1>8, <1>9

(* Every step of a pair keeps the invariant.                               *)
LEMMA PairStep ==
  ASSUME PairInv, [PairNext]_pairVars
  PROVE  PairInv'
<1>1. CASE Compare
  BY <1>1, CompareGood
<1>2. CASE Hash
  <2>1. WellKnown(left) /\ WellKnown(right) /\ WellKnown(Digested(left)) /\ WellKnown(Digested(right))
    BY DigestedGood DEF PairInv
  <2>2. /\ left' = left \/ left' = Digested(left)
        /\ right' = right \/ right' = Digested(right)
    BY <1>2 DEF Hash
  <2> QED
    BY <2>1, <2>2 DEF PairInv, WellKnown
<1>3. CASE UNCHANGED pairVars
  BY <1>3 DEF pairVars, PairInv, WellKnown
<1> QED
  BY <1>1, <1>2, <1>3 DEF PairNext

(* Whatever is known of two strings, their verdicts agree.                 *)
LEMMA PairShows ==
  ASSUME PairInv
  PROVE  VerdictsAgree
<1>1. WellKnown(left) /\ WellKnown(right)
  BY DEF PairInv
<1>2. Equal(left, right) = (Characters(left) = Characters(right))
  <2>1. Equal(left, right) <=> Characters(left) = Characters(right)
    BY <1>1, EqualIs
  <2>2. Equal(left, right) \in BOOLEAN
    BY DEF Equal
  <2> QED
    BY <2>1, <2>2
<1>3. Order(left, right) = Lexical(Characters(left), Characters(right))
  BY <1>1, OrderIs
<1>4. Equal(left, right) => Digest(left) = Digest(right)
  BY <1>1, EqualIs, EqualFeedAlike, DigestIs
<1>5. \A s \in {left, right} :
        LET c == ClassifyFull(s.bytes)
        IN  Certifies(s.scan, c.class) /\ (s.count > 0 => s.count = c.chars)
  BY <1>1 DEF WellKnown, Said, Counted, ClassIs, CharsIs
<1> QED
  BY <1>2, <1>3, <1>4, <1>5 DEF VerdictsAgree

(* Equality with its grid and its walk, the ordering and the digest tell   *)
(* the same story of any two strings whatever is known of either, in       *)
(* whatever order comparisons and digests learnt it, and what they leave   *)
(* in the shared slots is true of the bytes.                               *)
THEOREM PairsAgree == PairSpec => []VerdictsAgree
<1>1. PairInit => PairInv
  BY PairStarts
<1>2. PairInv /\ [PairNext]_pairVars => PairInv'
  BY PairStep
<1>3. PairInv => VerdictsAgree
  BY PairShows
<1> QED
  BY <1>1, <1>2, <1>3, PTL DEF PairSpec
=============================================================================
