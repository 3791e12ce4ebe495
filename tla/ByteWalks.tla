------------------------------ MODULE ByteWalks ------------------------------
(***************************************************************************)
(* The byte loops below perl-core's strings, one step per iteration: the   *)
(* blocked classifier (classify_walk), the two that trust their input to   *)
(* be Rust-valid (classify_known_valid and its copying twin), and the two  *)
(* that rewrite a buffer in place (expand_latin1_in_place and              *)
(* contract_latin1_in_place).  A behaviour runs one loop over one text.    *)
(*                                                                         *)
(* A text is put together of pieces, so that what a walk should find is    *)
(* known without walking: a piece is the bytes of one character with its   *)
(* class, or bytes that no reading accepts.                                *)
(***************************************************************************)
EXTENDS Utf8Scan

CONSTANTS
  Pieces,     \* [bytes, class]
  MaxPieces,  \* of a text
  Short,      \* bytes of a piece, in texts of more than two
  Block       \* bytes a classifying walk gates at once

ASSUME WalkAssumption == Block \in Nat \ {0} /\ MaxPieces \in Nat

(* A piece is one character, or malformed.                                 *)
ASSUME PiecesAssumption ==
  \A p \in Pieces :
    /\ p.bytes \in Seq(0..255) \ {<<>>}
    /\ LET c == ClassifyFull(p.bytes) IN
       p.class = c.class /\ (c.class # "MalformedUtf8" => c.chars = 1)

VARIABLES
  walk,    \* the loop
  text,    \* its input
  truth,   \* the class and number of characters of the input
  buf,     \* what has been copied out, or the buffer rewritten in place
  pos,     \* the source cursor
  dst,     \* the destination cursor of a rewrite
  soft,    \* the end of the block under way, at most pos between blocks
  facts,   \* what the characters so far amount to, and their number
  result   \* <<class, chars>> of a walk that has ended, <<length>> of a rewrite

walkVars == <<walk, text, truth, buf, pos, dst, soft, facts, result>>
input == <<walk, text, truth>>

Classifying == {"classify", "known", "known_into"}
Rewriting == {"expand", "contract"}

(* No piece is completed by the one after it.                              *)
Apart(p, q) == p.class = "MalformedUtf8" => ~IsContinuation(Head(q.bytes))
Texts ==
  {ps \in UNION {[1..n -> Pieces] : n \in 0..MaxPieces} :
     /\ \A i \in 1..Len(ps) - 1 : Apart(ps[i], ps[i + 1])
     /\ Len(ps) > 2 => \A i \in DOMAIN ps : Len(ps[i].bytes) <= Short}

TruthOf(ps) ==
  LET classes == {"Ascii"} \cup {ps[i].class : i \in DOMAIN ps}
      c == CHOOSE a \in classes : \A b \in classes : ClassJoin(a, b) = a
  IN  [class |-> c, chars |-> IF c = "MalformedUtf8" THEN 0 ELSE Len(ps)]

(* The callers' promises: known-valid input, room for the expansion, only  *)
(* Latin-1 range to contract.                                              *)
Accepts(w, t) ==
  CASE w \in {"known", "known_into"} -> t.class \in ValidRange
    [] w = "contract"                -> t.class \in {"Ascii", "Utf8Latin1"}
    [] OTHER                         -> TRUE

WalkInit ==
  \E ps \in Texts :
    /\ truth = TruthOf(ps)
    /\ walk \in {w \in Classifying \cup Rewriting : Accepts(w, truth)}
    /\ text = FlattenSeq([i \in DOMAIN ps |-> ps[i].bytes])
    /\ buf = CASE walk = "expand"   -> text \o [i \in 1..VariantCount(text) + 1 |-> 0]
               [] walk = "contract" -> text
               [] OTHER             -> <<>>
    /\ pos = CASE walk = "expand"   -> Len(text)
               [] walk = "contract" -> IF FirstVariant(text) < 0 THEN Len(text) ELSE FirstVariant(text)
               [] OTHER             -> 0
    /\ dst = IF walk = "expand" THEN Len(text) + VariantCount(text) ELSE pos
    /\ soft = 0 /\ facts = [class |-> "Ascii", chars |-> 0]
    /\ result = <<>>

Running(w) == walk = w /\ result = <<>>

-----------------------------------------------------------------------------
(* classify_walk, whose sink copies.                                       *)

BlockEnd(p, len) == LET e == (p \div Block + 1) * Block IN IF e < len THEN e ELSE len

Pending == Bytes(text, pos, BlockEnd(pos, Len(text)))  \* the next block
AtGate(w) == Running(w) /\ soft <= pos /\ pos < Len(text)

AsciiBlock ==
  /\ AtGate("classify") /\ ~HasHigh(Pending)
  /\ facts' = [facts EXCEPT !.chars = @ + Len(Pending)]
  /\ buf' = buf \o Pending
  /\ pos' = BlockEnd(pos, Len(text)) /\ soft' = pos'
  /\ UNCHANGED <<input, dst, result>>

EnterBlock ==
  /\ AtGate("classify") /\ HasHigh(Pending)
  /\ soft' = BlockEnd(pos, Len(text))
  /\ UNCHANGED <<input, buf, pos, dst, facts, result>>

InBlock == Running("classify") /\ pos < soft

(* A sequence that starts in the block is read whole; the block is copied  *)
(* out when the walk leaves it.                                            *)
DecodeChar ==
  /\ InBlock /\ Decodes(text, pos)
  /\ pos' = pos + SeqLen(At(text, pos))
  /\ facts' = [class |-> ClassJoin(facts.class, CharClass(text, pos)), chars |-> facts.chars + 1]
  /\ buf' = IF pos' >= soft THEN buf \o Bytes(text, Len(buf), pos') ELSE buf
  /\ UNCHANGED <<input, dst, soft, result>>

\* Variant: a sequence that crosses the block's end is taken for truncated.
MalformedAtEdge ==
  /\ InBlock /\ (~Decodes(text, pos) \/ pos + SeqLen(At(text, pos)) > soft)
  /\ result' = <<"MalformedUtf8", 0>>
  /\ buf' = buf \o Bytes(text, Len(buf), Len(text))
  /\ UNCHANGED <<input, pos, dst, soft, facts>>

(* Classification stops, the copy does not.                                *)
Malformed ==
  /\ InBlock /\ ~Decodes(text, pos)
  /\ result' = <<"MalformedUtf8", 0>>
  /\ buf' = buf \o Bytes(text, Len(buf), Len(text))
  /\ UNCHANGED <<input, pos, dst, soft, facts>>

Classified ==
  /\ walk \in Classifying /\ result = <<>> /\ pos = Len(text)
  /\ result' = <<facts.class, facts.chars>>
  /\ UNCHANGED <<input, buf, pos, dst, soft, facts>>

-----------------------------------------------------------------------------
(* classify_known_valid and classify_known_valid_into.                     *)

BeyondLatin1(block) == \E i \in DOMAIN block : block[i] >= 196
Starts(block) == Cardinality({i \in DOMAIN block : ~IsContinuation(block[i])})

BlockRange ==
  IF ~HasHigh(Pending) THEN "Ascii"
  ELSE IF BeyondLatin1(Pending) THEN "Utf8NonLatin1" ELSE "Utf8Latin1"

(* The pure walk gives up the count once the range cannot change.          *)
KnownBail ==
  /\ AtGate("known") /\ BeyondLatin1(Pending)
  /\ result' = <<"Utf8NonLatin1", 0>>
  /\ UNCHANGED <<input, buf, pos, dst, soft, facts>>

KnownBlock ==
  /\ \/ AtGate("known") /\ ~BeyondLatin1(Pending) /\ buf' = buf
     \/ AtGate("known_into") /\ buf' = buf \o Pending
  /\ facts' = [class |-> RangeJoin(facts.class, BlockRange), chars |-> facts.chars + Starts(Pending)]
  /\ pos' = BlockEnd(pos, Len(text)) /\ soft' = pos'
  /\ UNCHANGED <<input, dst, result>>

-----------------------------------------------------------------------------
(* The rewrites.                                                           *)

First == IF FirstVariant(text) < 0 THEN Len(text) ELSE FirstVariant(text)

(* From the ends towards the first variant byte.                           *)
ExpandByte ==
  /\ Running("expand") /\ pos > First
  /\ LET b == At(buf, pos - 1)
         wide == Widen(b)
     IN  /\ dst' = dst - Len(wide)
         /\ buf' = [i \in DOMAIN buf |->
                      IF i - 1 >= dst' /\ i - 1 < dst THEN wide[i - dst'] ELSE buf[i]]
  /\ pos' = pos - 1
  /\ UNCHANGED <<input, soft, facts, result>>

Expanded ==
  /\ Running("expand") /\ pos <= First
  /\ result' = <<Len(text) + VariantCount(text)>>
  /\ UNCHANGED <<input, buf, pos, dst, soft, facts>>

\* Variant: the continuation is kept whole.
ContractUnmasked ==
  /\ Running("contract") /\ pos < Len(text)
  /\ LET b == At(buf, pos) IN
     IF b < 128
     THEN /\ buf' = [buf EXCEPT ![dst + 1] = b]
          /\ pos' = pos + 1
     ELSE /\ buf' = [buf EXCEPT ![dst + 1] = (b % 4) * 64 + At(buf, pos + 1)]
          /\ pos' = pos + 2
  /\ dst' = dst + 1
  /\ UNCHANGED <<input, soft, facts, result>>

ContractChar ==
  /\ Running("contract") /\ pos < Len(text)
  /\ LET b == At(buf, pos) IN
     IF b < 128
     THEN /\ buf' = [buf EXCEPT ![dst + 1] = b]
          /\ pos' = pos + 1
     ELSE /\ buf' = [buf EXCEPT ![dst + 1] = Narrowed(b, At(buf, pos + 1))]
          /\ pos' = pos + 2
  /\ dst' = dst + 1
  /\ UNCHANGED <<input, soft, facts, result>>

Contracted ==
  /\ Running("contract") /\ pos >= Len(text)
  /\ result' = <<Len(text) - LatinContractions(text)>>
  /\ UNCHANGED <<input, buf, pos, dst, soft, facts>>

-----------------------------------------------------------------------------
WalkNext ==
  \/ AsciiBlock \/ EnterBlock \/ DecodeChar \/ Malformed \/ Classified
  \/ KnownBail \/ KnownBlock
  \/ ExpandByte \/ Expanded
  \/ ContractChar \/ Contracted

WalkSpec == WalkInit /\ [][WalkNext]_walkVars

-----------------------------------------------------------------------------
(* A walk finds the class and the number of characters whatever the block  *)
(* boundaries cut, a bail-out being the one answer without a count, and    *)
(* what it copies is the text, malformed text too.                         *)
ClassifiesRight ==
  walk \in Classifying /\ result # <<>> =>
    /\ result[1] = truth.class
    /\ \/ result[2] = truth.chars
       \/ result[2] = 0 /\ walk = "known" /\ truth.class = "Utf8NonLatin1"
    /\ walk # "known" => buf = text
    /\ truth = ClassifyFull(text)

(* An in-place rewrite never overwrites a byte it has still to read, its   *)
(* cursors meet where the loop's callers say, and what it leaves reads     *)
(* back as the text.                                                       *)
RewritesRight ==
  /\ walk = "expand" => \A i \in 1..pos : buf[i] = text[i]
  /\ walk = "contract" => \A i \in pos + 1..Len(text) : buf[i] = text[i]
  /\ walk \in Rewriting /\ result # <<>> =>
       LET out == Bytes(buf, 0, result[1]) IN
       /\ dst = IF walk = "expand" THEN First ELSE result[1]
       /\ IF walk = "expand" THEN Contracts(out) /\ DowngradedBytes(out) = text
                             ELSE UpgradedBytes(out) = text
=============================================================================
