---------------------------- MODULE StringCompare ----------------------------
(***************************************************************************)
(* Two strings compared (string.rs): equality, its inference grid and its  *)
(* walk, the ordering, and the digest a hash table files a string under.   *)
(* Each reads what is already known of the bytes and records what it       *)
(* learns; both strings may be the same content under either flag, in any  *)
(* true state of knowledge.                                                *)
(***************************************************************************)
EXTENDS Utf8Scan

CONSTANTS
  PairContents,  \* byte contents
  Line,          \* bytes the first block of a walk has
  Gate,          \* bytes the walk gates at once after it
  Chunk          \* bytes a digest feeds its hasher at once

ASSUME PairsAssumption ==
  PairContents \subseteq Seq(0..255) /\ {Line, Gate, Chunk} \subseteq Nat \ {0}

VARIABLES left, right

pairVars == <<left, right>>

(* Only a heap tier keeps a state that is not terminal and can learn.      *)
PairForms == {"envelope", "heap"}

Strings ==
  {s \in [bytes : PairContents, utf8 : BOOLEAN, form : PairForms, scan : ScanState, count : {0}] :
     LET class == ClassifyFull(s.bytes).class IN
     IF s.form = "heap" THEN Certifies(s.scan, class) ELSE s.scan = class}

Learning(s, fact) == IF s.form = "heap" THEN [s EXCEPT !.scan = Meet(@, fact)] ELSE s

-----------------------------------------------------------------------------
(* PartialEq: the grid.                                                    *)

GridSameFlag(a, b) ==
  \/ IsTerminal(a.scan) /\ IsTerminal(b.scan) /\ a.scan # b.scan
  \/ IsTerminal(a.scan) /\ ~IsRustValid(a.scan) /\ IsRustValid(b.scan)
  \/ IsTerminal(b.scan) /\ ~IsRustValid(b.scan) /\ IsRustValid(a.scan)

\* Variant: equal lengths are refused of any content that is not known ASCII.
GridLoose(flagged, plain) ==
  \/ Len(plain.bytes) > Len(flagged.bytes)
  \/ flagged.scan # "Ascii" /\ Len(plain.bytes) = Len(flagged.bytes)
  \/ flagged.scan = "Ascii" /\ IsKnownNonAscii(plain.scan)
  \/ plain.scan = "Ascii" /\ IsKnownNonAscii(flagged.scan)
  \/ IsKnownBeyondLatin1(flagged.scan) \/ flagged.scan = "MalformedUtf8"

(* A character count never exceeds a byte count, and is below it where     *)
(* there is a sequence of several bytes.                                   *)
Grid(flagged, plain) ==
  \/ Len(plain.bytes) > Len(flagged.bytes)
  \/ /\ flagged.scan \in {"Utf8Latin1", "Utf8NonAscii"}
     /\ Len(plain.bytes) = Len(flagged.bytes)
  \/ flagged.scan = "Ascii" /\ IsKnownNonAscii(plain.scan)
  \/ plain.scan = "Ascii" /\ IsKnownNonAscii(flagged.scan)
  \/ IsKnownBeyondLatin1(flagged.scan) \/ flagged.scan = "MalformedUtf8"

(* The end of the block at i: a line first, then the grid.                 *)
GateEnd(i, len) ==
  LET e == IF i = 0 THEN Line ELSE ((i \div Gate) + 1) * Gate IN IF e < len THEN e ELSE len

(* What one character of the flagged side must be on the plain one, "none" *)
(* for what the standard decoder rejects or is above a byte.               *)
PlainByte(fb, i) ==
  IF Decodes(fb, i) /\ CharClass(fb, i) \in {"Ascii", "Utf8Latin1"} THEN Value(Sequence(fb, i)) ELSE 256

(* The walk at offset i of the flagged and j of the plain bytes, in a      *)
(* non-ASCII block until soft.                                             *)
WalkStart == [i |-> 0, j |-> 0, soft |-> 0, equal |-> TRUE, high |-> FALSE]

WalkOn(fb, pb, w) ==
  LET end == GateEnd(w.i, Len(fb))
      n == end - w.i
      byte == PlainByte(fb, w.i)
  IN  IF ~w.equal \/ w.i >= Len(fb) THEN w
      ELSE IF w.i >= w.soft /\ ~HasHigh(Bytes(fb, w.i, end))
      THEN [w EXCEPT !.i = end, !.j = @ + n,
              !.equal = w.j + n <= Len(pb) /\ Bytes(fb, w.i, end) = Bytes(pb, w.j, w.j + n)]
      ELSE IF w.j >= Len(pb) \/ byte # At(pb, w.j)
      THEN [w EXCEPT !.equal = FALSE]
      ELSE [w EXCEPT !.i = @ + SeqLen(At(fb, w.i)), !.j = @ + 1,
                     !.soft = IF w.i >= w.soft THEN end ELSE @,
                     !.high = @ \/ byte >= 128]

PairWalk(fb, pb) ==
  LET walked[k \in 0..Len(fb)] == IF k = 0 THEN WalkStart ELSE WalkOn(fb, pb, walked[k - 1])
      done == walked[Len(fb)]
  IN  [done EXCEPT !.equal = @ /\ done.j = Len(pb)]

CrossWalk(a, b) == IF a.utf8 THEN PairWalk(a.bytes, b.bytes) ELSE PairWalk(b.bytes, a.bytes)
CrossGrid(a, b) == IF a.utf8 THEN Grid(a, b) ELSE Grid(b, a)

Equal(a, b) ==
  IF a.utf8 = b.utf8 THEN ~GridSameFlag(a, b) /\ a.bytes = b.bytes
  ELSE ~CrossGrid(a, b) /\ CrossWalk(a, b).equal

(* A walk that proves equality has found the range of both sides.          *)
LearnsOfEqual(s, high) ==
  Learning(s, IF ~high THEN "Ascii" ELSE IF s.utf8 THEN "Utf8Latin1" ELSE "NonAscii")

Compare ==
  /\ IF left.utf8 # right.utf8 /\ Equal(left, right)
     THEN LET high == CrossWalk(left, right).high IN
          /\ left' = LearnsOfEqual(left, high)
          /\ right' = LearnsOfEqual(right, high)
     ELSE UNCHANGED pairVars

-----------------------------------------------------------------------------
(* cmp_perl: -1, 0 or 1.                                                   *)

Lexical(s, t) ==
  LET n == CHOOSE k \in 0..Len(s) : /\ k <= Len(t) /\ \A i \in 1..k : s[i] = t[i]
                                    /\ k = Len(s) \/ k = Len(t) \/ s[k + 1] # t[k + 1]
  IN  IF n = Len(s) /\ n = Len(t) THEN 0
      ELSE IF n = Len(s) THEN -1 ELSE IF n = Len(t) THEN 1
      ELSE IF s[n + 1] < t[n + 1] THEN -1 ELSE 1

(* The unflagged side presents the encoding of each of its octets.         *)
CmpCrossFlag(flagged, plain) == Lexical(flagged.bytes, UpgradedBytes(plain.bytes))

Order(a, b) ==
  IF a.utf8 = b.utf8 THEN Lexical(a.bytes, b.bytes)
  ELSE IF a.utf8 THEN CmpCrossFlag(a, b) ELSE -CmpCrossFlag(b, a)

-----------------------------------------------------------------------------
(* content_digest: what is fed to the hasher, and what is learnt.          *)

Chunks(s) ==
  [k \in 1..(Len(s) + Chunk - 1) \div Chunk |->
     Bytes(s, (k - 1) * Chunk, IF k * Chunk < Len(s) THEN k * Chunk ELSE Len(s))]

(* The decoded characters of a content in the Latin-1 range, and whether   *)
(* the dual calculation finds it to be in it.                              *)
Downgradable(b) == ClassifyFull(b).class \in {"Ascii", "Utf8Latin1"}

Digest(s) ==
  Chunks(IF ~s.utf8 \/ s.scan = "Ascii" THEN s.bytes
         ELSE IF s.scan = "Utf8Latin1" THEN DowngradedBytes(s.bytes)
         ELSE IF IsKnownBeyondLatin1(s.scan) \/ s.scan = "MalformedUtf8" THEN s.bytes
         ELSE IF Downgradable(s.bytes) THEN DowngradedBytes(s.bytes) ELSE s.bytes)

Unresolved(s) ==
  s.utf8 /\ s.scan \notin {"Ascii", "Utf8Latin1", "MalformedUtf8"} /\ ~IsKnownBeyondLatin1(s.scan)

Digested(s) ==
  LET c == ClassifyFull(s.bytes) IN
  IF ~Unresolved(s) THEN s
  ELSE [Learning(s, c.class) EXCEPT !.count = IF s.form = "heap" /\ c.class # "MalformedUtf8" THEN c.chars ELSE @]

Hash ==
  \/ left' = Digested(left) /\ UNCHANGED right
  \/ right' = Digested(right) /\ UNCHANGED left

-----------------------------------------------------------------------------
PairInit == left \in Strings /\ right \in Strings

PairNext == Compare \/ Hash

PairSpec == PairInit /\ [][PairNext]_pairVars

-----------------------------------------------------------------------------
(* Equality, the ordering and the digest tell the same story, whatever is  *)
(* known of either string and in whatever order it was learnt: strings are *)
(* equal when their characters are, ordered as their characters are, and   *)
(* equal strings are filed under one digest.  What a comparison or a       *)
(* digest leaves in the shared slots is true.                              *)
VerdictsAgree ==
  /\ Equal(left, right) = (Characters(left) = Characters(right))
  /\ Order(left, right) = Lexical(Characters(left), Characters(right))
  /\ Equal(left, right) => Digest(left) = Digest(right)
  /\ \A s \in {left, right} :
       LET c == ClassifyFull(s.bytes)
       IN  Certifies(s.scan, c.class) /\ (s.count > 0 => s.count = c.chars)
=============================================================================
