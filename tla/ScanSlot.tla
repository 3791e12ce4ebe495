------------------------------ MODULE ScanSlot ------------------------------
(***************************************************************************)
(* Readers racing on the scan slot and the character count cached beside   *)
(* one immutable string buffer.  No reader holds a lock: each asks what is *)
(* already known, classifies the bytes when that does not decide its       *)
(* question, and records what it found with a compare-and-swap meet loop   *)
(* (HeapView::narrow_scan and Adopted::narrow_scan).                       *)
(*                                                                         *)
(* The buffer has one of two forms: "Heap", a large heap tier whose        *)
(* envelope holds no state of its own, or "Adopted", a whole-object view   *)
(* whose envelope keeps the state it was born with and reads through the   *)
(* meet of that state with the shared slot.                                *)
(***************************************************************************)
EXTENDS ScanLattice, Naturals

CONSTANTS
  Readers,  \* threads holding a handle on the buffer
  Ops,      \* the questions the readers ask
  Births,   \* the states the slot of each form may be born with
  Chars     \* the number of characters of the content, where it has any

Forms == {"Heap", "Adopted"}
AllOps == {"as_str", "is_ascii", "is_perl_utf8_valid", "char_len", "hash"}

ASSUME OpsAssumption == Ops \subseteq AllOps
ASSUME BirthsAssumption == Births \in [Forms -> SUBSET ScanState]
ASSUME CharsAssumption == Chars \in Nat \ {0}

VARIABLES
  form,    \* what holds the bytes
  class,   \* the content class of the bytes, which no reader changes
  birth,   \* the envelope's state, copied with every handle
  slot,    \* the shared scan byte
  count,   \* the shared character count, 0 while unfilled
  pc,      \* where each reader is
  op,      \* its question
  seen,    \* the last state it loaded
  cnt,     \* the count it loaded
  cert,    \* the state its own walk over the bytes certified
  answer   \* its last answer, with the question

vars == <<form, class, birth, slot, count, pc, op, seen, cnt, cert, answer>>

Stages == {"idle", "peek", "match", "count", "classify", "load", "cas", "fill"}

(* The content is not empty, so a multi-byte encoding is longer than its   *)
(* characters.  Malformed content has no count; 0 is the empty slot too.   *)
ByteLen == IF class = "Ascii" THEN Chars ELSE Chars + 1
NoChars == 0
CharCount == IF class = "MalformedUtf8" THEN NoChars ELSE Chars

Answer(o, v) == [of |-> o, is |-> v]
NoAnswer == Answer("none", FALSE)

-----------------------------------------------------------------------------
(* What a reader learns from a state alone.  When Decided(o, st) is false  *)
(* the state leaves the question open and the bytes have to be walked.     *)

AsStrRefused ==
  {"MalformedUtf8", "ExtendedUtf8"} \cup (IF form = "Heap" THEN {} ELSE {"PerlValidNonAscii"})

AsciiRefused ==
  IF form = "Heap"
  THEN {"Utf8Latin1", "Utf8NonLatin1", "Utf8NonAscii", "MalformedUtf8", "NonAscii", "ExtendedUtf8"}
  ELSE {s \in ScanState : IsKnownNonAscii(s)}

Decided(o, st) ==
  CASE o = "as_str"             -> IsRustValid(st) \/ st \in AsStrRefused
    [] o = "is_ascii"           -> st = "Ascii" \/ st \in AsciiRefused
    [] o = "is_perl_utf8_valid" -> IsPerlDecodable(st) \/ st = "MalformedUtf8"
    [] o = "char_len"           -> st \in {"Ascii", "MalformedUtf8"}
    [] o = "hash"               -> st = "Ascii"

DecidedAnswer(o, st) ==
  CASE o = "as_str"             -> IsRustValid(st)
    [] o = "is_ascii"           -> st = "Ascii"
    [] o = "is_perl_utf8_valid" -> IsPerlDecodable(st)
    [] o = "char_len"           -> IF st = "Ascii" THEN ByteLen ELSE NoChars
    [] o = "hash"               -> "downgraded"

\* Variant: a failed probe claims validity nobody checked.
WalkClaimsValidity(o, st) ==
  IF o # "is_ascii" THEN class
  ELSE IF class = "Ascii" THEN "Ascii" ELSE "Utf8NonAscii"

(* What walking the bytes certifies: the class itself, except that is_ascii *)
(* only probes for a high bit and keeps the validity it already had.       *)
Walk(o, st) ==
  IF o # "is_ascii" THEN class
  ELSE IF class = "Ascii" THEN "Ascii"
  ELSE IF st = "ValidUtf8" THEN "Utf8NonAscii" ELSE "NonAscii"

(* The answer after the walk; hash feeds its hasher the characters as       *)
(* Latin-1 octets where all of them fit, and the raw bytes otherwise.      *)
WalkedAnswer(o) ==
  CASE o = "as_str"             -> IsRustValid(class)
    [] o = "is_ascii"           -> class = "Ascii"
    [] o = "is_perl_utf8_valid" -> IsPerlDecodable(class)
    [] o = "char_len"           -> CharCount
    [] o = "hash"               -> IF class \in {"Ascii", "Utf8Latin1"} THEN "downgraded" ELSE "raw"

(* Heap readers keep the count whenever their walk counted characters;     *)
(* readers of a view keep it for char_len alone.                           *)
KeepsCount(o) ==
  /\ class # "MalformedUtf8"
  /\ IF form = "Heap" THEN o # "is_ascii" ELSE o = "char_len"

(* hash records what it learned in a heap buffer only.                     *)
Records(o) == form = "Heap" \/ o # "hash"
-----------------------------------------------------------------------------
Init ==
  /\ form \in Forms
  /\ class \in Terminal
  /\ birth \in {s \in Births[form] : Certifies(s, class)}
  /\ slot = birth
  /\ count = 0
  /\ pc = [r \in Readers |-> "idle"]
  /\ op = [r \in Readers |-> "as_str"]
  /\ seen = [r \in Readers |-> "Unknown"]
  /\ cnt = [r \in Readers |-> 0]
  /\ cert = [r \in Readers |-> "Unknown"]
  /\ answer = [r \in Readers |-> NoAnswer]

Goto(r, stage) ==
  /\ pc' = [pc EXCEPT ![r] = stage]
  /\ UNCHANGED answer

Finish(r, v) ==
  /\ answer' = [answer EXCEPT ![r] = Answer(op[r], v)]
  /\ pc' = [pc EXCEPT ![r] = "idle"]

(* A heap reader's view snapshots the count first, then the scan byte.     *)
Begin(r, o) ==
  /\ pc[r] = "idle"
  /\ pc' = [pc EXCEPT ![r] = "peek"]
  /\ op' = [op EXCEPT ![r] = o]
  /\ seen' = [seen EXCEPT ![r] = "Unknown"]
  /\ cnt' = [cnt EXCEPT ![r] = IF form = "Heap" THEN count ELSE 0]
  /\ cert' = [cert EXCEPT ![r] = "Unknown"]
  /\ answer' = [answer EXCEPT ![r] = NoAnswer]
  /\ UNCHANGED <<form, class, birth, slot, count>>

(* hash asks scan_state, which reads a view's envelope and not its slot.   *)
Known(r) ==
  IF form = "Heap" THEN slot
  ELSE IF op[r] = "hash" THEN birth
  ELSE Meet(birth, slot)

Undecided(r) ==
  CASE op[r] = "hash"                          -> "match"
    [] op[r] = "char_len" /\ form = "Adopted"  -> "count"
    [] OTHER                                   -> "classify"

Peek(r) ==
  /\ pc[r] = "peek"
  /\ seen' = [seen EXCEPT ![r] = Known(r)]
  /\ IF Decided(op[r], Known(r)) THEN Finish(r, DecidedAnswer(op[r], Known(r)))
     ELSE IF op[r] = "char_len" /\ cnt[r] > 0 THEN Finish(r, cnt[r])
     ELSE Goto(r, Undecided(r))
  /\ UNCHANGED <<form, class, birth, slot, count, op, cnt, cert>>

\* Variant: any high bit is taken to rule out a downgraded form.
MatchTakesNonAscii(r) ==
  /\ pc[r] = "match"
  /\ seen' = [seen EXCEPT ![r] = Known(r)]
  /\ IF Known(r) = "Utf8Latin1" THEN Finish(r, "downgraded")
     ELSE IF IsKnownNonAscii(Known(r)) THEN Finish(r, "raw")
     ELSE Goto(r, "classify")
  /\ UNCHANGED <<form, class, birth, slot, count, op, cnt, cert>>

(* hash loads the state a second time; Ascii found only now is walked.     *)
Match(r) ==
  /\ pc[r] = "match"
  /\ seen' = [seen EXCEPT ![r] = Known(r)]
  /\ IF Known(r) = "Utf8Latin1" THEN Finish(r, "downgraded")
     ELSE IF IsKnownBeyondLatin1(Known(r)) \/ Known(r) = "MalformedUtf8" THEN Finish(r, "raw")
     ELSE Goto(r, "classify")
  /\ UNCHANGED <<form, class, birth, slot, count, op, cnt, cert>>

LoadCount(r) ==
  /\ pc[r] = "count"
  /\ cnt' = [cnt EXCEPT ![r] = count]
  /\ IF count # 0 THEN Finish(r, count) ELSE Goto(r, "classify")
  /\ UNCHANGED <<form, class, birth, slot, count, op, seen, cert>>

Classify(r) ==
  /\ pc[r] = "classify"
  /\ cert' = [cert EXCEPT ![r] = Walk(op[r], seen[r])]
  /\ IF Records(op[r]) THEN Goto(r, "load") ELSE Finish(r, WalkedAnswer(op[r]))
  /\ UNCHANGED <<form, class, birth, slot, count, op, seen, cnt>>

(* narrow_scan: load, then swap in the meet until it changes nothing.      *)
Reload(r) ==
  /\ seen' = [seen EXCEPT ![r] = slot]
  /\ Goto(r, IF Meet(slot, cert[r]) = slot THEN "fill" ELSE "cas")
  /\ UNCHANGED <<form, class, birth, slot, count, op, cnt, cert>>

Load(r) == pc[r] = "load" /\ Reload(r)

CasSucceeds(r) ==
  /\ pc[r] = "cas"
  /\ slot = seen[r]
  /\ slot' = Meet(seen[r], cert[r])
  /\ Goto(r, "fill")
  /\ UNCHANGED <<form, class, birth, count, op, seen, cnt, cert>>

\* Variant: a lost compare-and-swap is not retried.
CasFailsOnce(r) ==
  /\ pc[r] = "cas"
  /\ slot # seen[r]
  /\ Goto(r, "fill")
  /\ UNCHANGED <<form, class, birth, slot, count, op, seen, cnt, cert>>

\* Variant: a lost compare-and-swap is retried with the old expectation.
CasFailsStale(r) ==
  /\ pc[r] = "cas"
  /\ slot # seen[r]
  /\ UNCHANGED vars

CasFails(r) == pc[r] = "cas" /\ slot # seen[r] /\ Reload(r)

Fill(r) ==
  /\ pc[r] = "fill"
  /\ count' = IF KeepsCount(op[r]) THEN Chars ELSE count
  /\ Finish(r, WalkedAnswer(op[r]))
  /\ UNCHANGED <<form, class, birth, slot, op, seen, cnt, cert>>

Step(r) ==
  \/ Peek(r) \/ Match(r) \/ LoadCount(r) \/ Classify(r)
  \/ Load(r) \/ CasSucceeds(r) \/ CasFails(r) \/ Fill(r)

Next == \E r \in Readers : Step(r) \/ \E o \in Ops : Begin(r, o)

Spec == Init /\ [][Next]_vars

(* A reader is never blocked.  A weak compare-and-swap may also fail for no *)
(* reason, which leaves every variable as it was; fairness says it does    *)
(* not do so for ever.                                                     *)
FairSpec == Spec /\ \A r \in Readers : WF_vars(Step(r))

-----------------------------------------------------------------------------
TypeOK ==
  /\ form \in Forms
  /\ class \in Terminal
  /\ birth \in ScanState
  /\ slot \in ScanState
  /\ count \in Nat
  /\ pc \in [Readers -> Stages]
  /\ op \in [Readers -> AllOps]
  /\ seen \in [Readers -> ScanState]
  /\ cnt \in [Readers -> Nat]
  /\ cert \in [Readers -> ScanState]

(* Whatever the readers race to record, the shared slot says nothing false *)
(* of the bytes, no loaded or certified state does, and a filled count is  *)
(* the count (the SAFETY notes of every unchecked conversion rest on it).  *)
SlotTrue ==
  /\ Certifies(birth, class) /\ Certifies(slot, class)
  /\ count \in {0, CharCount}
  /\ \A r \in Readers : /\ Certifies(seen[r], class)
                        /\ Certifies(cert[r], class)
                        /\ cnt[r] \in {0, CharCount}

(* as_str on an adopted object refuses a state that leaves Rust validity    *)
(* open, without looking at the bytes.                                     *)
RefusedUnasked(r) ==
  /\ form = "Adopted" /\ seen[r] = "PerlValidNonAscii"
  /\ answer[r] = Answer("as_str", FALSE)

(* Every answer is the one a fresh walk over the bytes would give, however *)
(* the reader came by it: from the slot before or after another reader     *)
(* narrowed it, from a cached count, or from its own walk.  In particular  *)
(* hash never depends on what happens to be known.  The one exception is   *)
(* the refusal AsStrIsFact shows to be wrong.                              *)
AnswersTrue ==
  \A r \in Readers :
    \/ answer[r] = NoAnswer
    \/ answer[r] = Answer(op[r], WalkedAnswer(op[r]))
    \/ RefusedUnasked(r)

(* What as_str promises: a &str whenever the bytes are valid UTF-8, a fact *)
(* question.  It is violated: see RefusedUnasked.                          *)
AsStrIsFact ==
  \A r \in Readers : answer[r].of = "as_str" => answer[r].is = IsRustValid(class)

(* What a walk paid for is in the slot when narrow_scan returns: a coarse  *)
(* probe finishing late never overwrites a full classification, and a      *)
(* classification never loses to a probe.                                  *)
CertificationKept ==
  \A r \in Readers : pc[r] = "fill" => Classes(slot) \subseteq Classes(cert[r])

(* The slot only ever narrows.                                             *)
NarrowOnly == [][Classes(slot') \subseteq Classes(slot)]_vars

(* Every question is answered: a reader can lose its compare-and-swap to   *)
(* the others only as often as the slot can still narrow.                  *)
ReadsFinish == \A r \in Readers : pc[r] # "idle" ~> pc[r] = "idle"
=============================================================================
