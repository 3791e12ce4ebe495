----------------------------- MODULE StringBuffer -----------------------------
(***************************************************************************)
(* One PString through the operations that give it bytes, change them or   *)
(* ask about them (string.rs): which form holds it, what it knows of its   *)
(* bytes, and whether that stays true.  Sharing is what others do with the *)
(* same allocation; how they do it is CowBuffer's subject, and how readers *)
(* race on what is learned is ScanSlot's.                                  *)
(*                                                                         *)
(* Sizes are scaled: an envelope of InlineMax bytes for 15, small tiers up *)
(* to SmallMax for 65535, views classified below EagerFloor for 4096.      *)
(***************************************************************************)
EXTENDS Utf8Scan

CONSTANTS
  InlineMax,   \* bytes an envelope holds
  DecodeMax,   \* bytes an envelope form decodes to
  SmallMax,    \* bytes a small tier holds
  EagerFloor,  \* views shorter than this are classified at birth
  MaxBytes,    \* bound on the length of a string
  MaxCut,      \* bound on what a part leaves out at each end
  Packable,    \* bytes of a packed alphabet
  Originals,   \* contents strings are constructed from
  Strs,        \* Rust-valid pieces that are appended
  Raws         \* raw pieces that are appended

ASSUME SizesAssumption ==
  /\ {InlineMax, DecodeMax, SmallMax, EagerFloor, MaxBytes, MaxCut} \subseteq Nat
  /\ 2 * InlineMax <= DecodeMax /\ DecodeMax <= SmallMax /\ SmallMax <= MaxBytes

ASSUME ContentsAssumption ==
  /\ Originals \cup Strs \cup Raws \subseteq Seq(0..255) /\ Packable \subseteq 0..127
  /\ \A b \in Originals : Len(b) <= MaxBytes
  /\ \A b \in Strs : ClassifyFull(b).class \in ValidRange

VARIABLE v

StringForms == {"inline", "latin1", "packed", "small", "large", "view", "adopted", "borrowed"}
InEnvelope(s) == s.form \in {"inline", "latin1", "packed"}
OnHeap(s) == s.form \in {"small", "large"}

-----------------------------------------------------------------------------
(* Forms.  scan is the envelope's state, or the one in the allocation for  *)
(* "large" and "adopted"; env is the envelope's copy in an "adopted" one.  *)

Value0(form, b, utf8, scan, count) ==
  [form |-> form, bytes |-> b, utf8 |-> utf8, scan |-> scan, env |-> "Unknown",
   count |-> count, cap |-> Len(b), unique |-> TRUE]

(* The allocator's size classes: capacities are even, within the tier.     *)
Capacity(n) ==
  LET room == n + (n % 2) IN IF n <= SmallMax /\ room > SmallMax THEN SmallMax ELSE room

(* build_heap: a small Ascii string keeps neither state nor count.         *)
FromSlice(b, utf8, scan, count) ==
  LET form == IF Len(b) <= SmallMax THEN "small" ELSE "large"
      kept == IF form = "small" /\ scan = "Ascii" THEN Len(b) ELSE count
  IN  [Value0(form, b, utf8, scan, kept) EXCEPT !.cap = Capacity(Len(b))]

Reclassified(b, utf8) ==
  LET As(c) == FromSlice(b, utf8, c.class, c.chars) IN As(ClassifyFull(b))

(* heap_parts_transitioned: what an append can tell, or a classification.  *)
Transitioned(b, utf8, state, chars) ==
  IF IsTerminal(state) THEN FromSlice(b, utf8, state, chars) ELSE Reclassified(b, utf8)

(* The envelope ladder: verbatim, transcoded to Latin-1, packed.           *)
Transcodes(b) ==
  Len(b) <= DecodeMax /\ Contracts(b) /\ Len(DowngradedBytes(b)) <= InlineMax
Packs(b) == Len(b) <= DecodeMax /\ \A i \in DOMAIN b : b[i] \in Packable
FitsEnvelope(b) == Len(b) <= InlineMax \/ Transcodes(b) \/ Packs(b)

Envelope(b, utf8) ==
  LET As(c) == Value0(IF Len(b) <= InlineMax THEN "inline" ELSE IF Transcodes(b) THEN "latin1"
                      ELSE "packed", b, utf8, c.class, c.chars)
  IN  As(ClassifyFull(b))

Tiered(b, utf8) == IF FitsEnvelope(b) THEN Envelope(b, utf8) ELSE Reclassified(b, utf8)

(* What a reader of the string can know without looking at the bytes.      *)
KnownOf(s) == IF s.form = "adopted" THEN Meet(s.env, s.scan) ELSE s.scan

StringInit == v = Envelope(<<>>, FALSE)

-----------------------------------------------------------------------------
(* Constructors.                                                           *)

FromBytes(b) == v' = Tiered(b, FALSE)

New(b) ==
  LET c == ClassifyFull(b) IN
  /\ c.class \in ValidRange
  /\ v' = Tiered(b, c.class # "Ascii")

FromStatic(b) ==
  LET As(c) == Value0("borrowed", b, FALSE, c.class, c.chars) IN v' = As(ClassifyFull(b))

AdoptedWhole(b, utf8, scan) == [Value0("adopted", b, utf8, scan, 0) EXCEPT !.env = scan]

Adopt(b) == v' = AdoptedWhole(b, FALSE, "Unknown")

-----------------------------------------------------------------------------
(* What holders of the same allocation do.                                 *)

Share == OnHeap(v) /\ v.unique /\ v' = [v EXCEPT !.unique = FALSE]

OthersDrop == ~v.unique /\ v' = [v EXCEPT !.unique = TRUE]

-----------------------------------------------------------------------------
(* Questions that record what they learn.                                  *)

Learns(s, fact) ==
  IF s.form \in {"large", "adopted"} THEN [s EXCEPT !.scan = Meet(@, fact)] ELSE s

(* is_ascii: a heap tier and a view differ in what they take as answered.  *)
AsciiAsked(s) ==
  LET answered == IF s.form = "adopted" THEN KnownOf(s) = "Ascii" \/ IsKnownNonAscii(KnownOf(s))
                  ELSE s.scan \in {"Ascii", "Utf8Latin1", "Utf8NonLatin1", "Utf8NonAscii",
                                   "MalformedUtf8", "NonAscii", "ExtendedUtf8"}
      ascii == VariantCount(s.bytes) = 0
  IN  IF answered THEN s
      ELSE Learns(s, IF ascii THEN "Ascii"
                     ELSE IF KnownOf(s) = "ValidUtf8" THEN "Utf8NonAscii" ELSE "NonAscii")

IsAscii(s) == VariantCount(s.bytes) = 0

CharLenAsked(s) ==
  LET Told(c) == [Learns(s, c.class) EXCEPT
                    !.count = IF c.class # "MalformedUtf8" /\ s.form \in {"large", "adopted"}
                              THEN c.chars ELSE @]
  IN  IF s.bytes = <<>> \/ KnownOf(s) \in {"Ascii", "MalformedUtf8"} \/ s.count > 0 THEN s
      ELSE Told(ClassifyFull(s.bytes))

(* as_str; is_perl_utf8_valid differs in what it takes as answered.        *)
ValidityAsked(s, answered) ==
  LET Told(c) == [Learns(s, c.class) EXCEPT
                    !.count = IF s.form = "large" /\ c.chars > 0 THEN c.chars ELSE @]
  IN  IF answered THEN s ELSE Told(ClassifyFull(s.bytes))

StrAsked(s) ==
  ValidityAsked(s, \/ IsRustValid(KnownOf(s))
                   \/ KnownOf(s) \in {"MalformedUtf8", "ExtendedUtf8"}
                   \/ KnownOf(s) = "PerlValidNonAscii" /\ s.form # "large")
PerlValidAsked(s) ==
  ValidityAsked(s, IsPerlDecodable(KnownOf(s)) \/ KnownOf(s) = "MalformedUtf8")

Asked(s) == {AsciiAsked(s), CharLenAsked(s), StrAsked(s), PerlValidAsked(s)}

-----------------------------------------------------------------------------
(* Appends.  kind is what the caller knows of the piece.                   *)

KindOfStr(b) ==
  LET Kind(c) == [class |-> c.class, chars |-> IF c.class = "Utf8NonLatin1" THEN 0 ELSE c.chars]
  IN  Kind(ClassifyFull(b))

KindOfRaw(b) ==
  IF VariantCount(b) = 0 THEN [class |-> "Ascii", chars |-> Len(b)] ELSE [class |-> "Unknown", chars |-> 0]

CountAfter(kind, state) ==
  IF v.count > 0 /\ kind.chars > 0 /\ IsPerlDecodable(state) THEN v.count + kind.chars ELSE 0

HasRoom(b) == OnHeap(v) /\ v.unique /\ Len(v.bytes) + Len(b) <= v.cap

\* Variant: appended pieces count their bytes.
AppendInPlaceBytes(b, kind) ==
  LET all == v.bytes \o b
      state == AppendTransition(v.scan, kind.class)
  IN  /\ HasRoom(b)
      /\ v.form = "large" \/ v.scan # "Ascii"
      /\ v' = [v EXCEPT !.bytes = all, !.scan = state, !.count = IF @ = 0 THEN 0 ELSE @ + Len(b)]

(* append_heap_in_place: a small tier must end settled; a large one keeps  *)
(* what the transition tells.                                              *)
AppendInPlace(b, kind) ==
  LET all == v.bytes \o b
      state == AppendTransition(v.scan, kind.class)
      chars == CountAfter(kind, state)
      c == ClassifyFull(all)
  IN  /\ HasRoom(b)
      /\ v' = IF v.form = "large" THEN [v EXCEPT !.bytes = all, !.scan = state, !.count = chars]
              ELSE IF v.scan = "Ascii" THEN [v EXCEPT !.bytes = all, !.count = Len(all)]
              ELSE IF IsTerminal(state) /\ chars > 0
                   THEN [v EXCEPT !.bytes = all, !.scan = state, !.count = chars]
              ELSE [v EXCEPT !.bytes = all, !.scan = c.class, !.count = c.chars]

(* The small Ascii forms extend in place only by Ascii.                    *)
ExtendsInPlace(b, kind) ==
  HasRoom(b) /\ (v.form = "small" /\ v.scan = "Ascii" => kind.class = "Ascii")

(* An append that moves: an envelope that takes the result, or a fresh     *)
(* heap value seeded by what the old form knew of its bytes.               *)
Rebuild(b, kind) ==
  LET all == v.bytes \o b
      chars == IF OnHeap(v) THEN CountAfter(kind, AppendTransition(v.scan, kind.class)) ELSE 0
      seed == IF v.form = "adopted" THEN v.env ELSE v.scan
      stays == \/ v.form \in {"inline", "latin1"} /\ FitsEnvelope(all)
               \/ v.form = "packed" /\ Packs(all)
  IN  v' = IF stays THEN Envelope(all, v.utf8)
           ELSE Transitioned(all, v.utf8, AppendTransition(seed, kind.class), chars)

PushRaw(b, kind) ==
  /\ b # <<>> /\ Len(v.bytes) + Len(b) <= MaxBytes
  /\ IF ExtendsInPlace(b, kind) THEN AppendInPlace(b, kind) ELSE Rebuild(b, kind)

PushStr(b) == PushRaw(b, KindOfStr(b))
PushBytes(b) == PushRaw(b, KindOfRaw(b))

-----------------------------------------------------------------------------
(* Transforms.                                                             *)

(* upgraded: the copy of a string that is neither flagged nor Ascii.       *)
Upgraded(s) ==
  LET wide == UpgradedBytes(s.bytes)
      n == Len(s.bytes)
  IN  IF n > InlineMax THEN FromSlice(wide, TRUE, "Utf8Latin1", n)
      ELSE Value0(IF Len(wide) <= InlineMax THEN "inline" ELSE "latin1", wide, TRUE, "Utf8Latin1", n)

(* upgrade_in_place: rewritten where it stands if it is this handle's      *)
(* alone and there is room, else copied.                                   *)
UpgradedInPlace(s) ==
  LET wide == UpgradedBytes(s.bytes) IN
  IF s.utf8 THEN s
  ELSE IF IsAscii(s) THEN [AsciiAsked(s) EXCEPT !.utf8 = TRUE]
  ELSE IF OnHeap(s) /\ s.unique /\ Len(wide) <= s.cap
       THEN [s EXCEPT !.bytes = wide, !.utf8 = TRUE,
                      !.scan = "Utf8Latin1", !.count = Len(s.bytes)]
  ELSE Upgraded(s)

(* downgraded: only the Latin-1 range has a copy without the flag.         *)
Downgraded(s) ==
  LET out == DowngradedBytes(s.bytes) IN
  IF Len(out) <= DecodeMax THEN Tiered(out, FALSE) ELSE Reclassified(out, FALSE)

ContractInPlace(s) ==
  LET out == DowngradedBytes(s.bytes)
      c == ClassifyFull(out)
      moved == [s EXCEPT !.bytes = out, !.utf8 = FALSE, !.scan = "Unknown", !.count = 0]
  IN  IF s.form = "large" THEN moved ELSE [moved EXCEPT !.scan = c.class, !.count = c.chars]

\* Variant: only the flag goes.
DowngradedByFlag(s) ==
  IF s.utf8 /\ Contracts(s.bytes) THEN [AsciiAsked(s) EXCEPT !.utf8 = FALSE] ELSE s

(* downgrade_in_place: refused, with the flag left on, beyond U+00FF.      *)
DowngradedInPlace(s) ==
  IF ~s.utf8 THEN s
  ELSE IF IsAscii(s) THEN [AsciiAsked(s) EXCEPT !.utf8 = FALSE]
  ELSE IF ~Contracts(s.bytes) THEN AsciiAsked(s)
  ELSE IF OnHeap(s) /\ s.unique THEN ContractInPlace(s) ELSE Downgraded(s)

Unshared(s) ==
  IF OnHeap(s) /\ ~s.unique THEN Transitioned(s.bytes, s.utf8, s.scan, s.count)
  ELSE IF s.form = "adopted" THEN Transitioned(s.bytes, s.utf8, s.env, 0)
  ELSE IF s.form = "view" THEN Transitioned(s.bytes, s.utf8, s.scan, 0)
  ELSE s

Reinterpreted(s) == [s EXCEPT !.utf8 = ~@]

-----------------------------------------------------------------------------
(* Parts of a string; the handle goes on with the part.                    *)

(* view_birth_state: nothing is scanned unless it is short.                *)
ViewBirth(parent, b, offset, len) ==
  LET table == SliceBirth(parent, CutIsClean(b, offset, len)) IN
  IF len < EagerFloor /\ table \notin {"Ascii", "MalformedUtf8"}
  THEN ClassifyFull(Bytes(b, offset, offset + len)).class ELSE table

Slice(offset, len) ==
  LET b == Bytes(v.bytes, offset, offset + len)
      parent == IF v.form = "adopted" THEN v.env ELSE v.scan
      birth == ViewBirth(parent, v.bytes, offset, len)
      c == ClassifyFull(b)
  IN  IF FitsEnvelope(b) THEN v' = Envelope(b, v.utf8)
      ELSE IF InEnvelope(v) THEN v' = Reclassified(b, v.utf8)
      ELSE IF v.form = "borrowed" THEN v' = Value0("borrowed", b, v.utf8, c.class, c.chars)
      ELSE \/ v' = Value0("view", b, v.utf8, birth, 0)
           \/ /\ v.form # "small"   \* beyond the reach of a compact view
              /\ v' = AdoptedWhole(b, v.utf8, birth)

Substr(offset, len) ==
  LET b == Bytes(v.bytes, offset, offset + len) IN
  v' = IF len <= DecodeMax THEN Tiered(b, v.utf8) ELSE Reclassified(b, v.utf8)

-----------------------------------------------------------------------------
Construct == \E b \in Originals : FromBytes(b) \/ New(b) \/ FromStatic(b) \/ Adopt(b)

Push == (\E b \in Strs : PushStr(b)) \/ (\E b \in Raws : PushBytes(b))

Part == \E offset, rest \in 0..MaxCut :
  LET len == Len(v.bytes) - offset - rest IN
  len >= 0 /\ (Slice(offset, len) \/ Substr(offset, len))

Ask == v' \in Asked(v)

UpgradeInPlace == v' = UpgradedInPlace(v)
DowngradeInPlace == v' = DowngradedInPlace(v)
Unshare == v' = Unshared(v)
Reinterpret == v' = Reinterpreted(v)

StringNext ==
  \/ v.bytes = <<>> /\ Construct
  \/ Share \/ OthersDrop \/ Ask \/ Push \/ Part
  \/ Reinterpret \/ DowngradeInPlace \/ Unshare
  \/ Len(UpgradedBytes(v.bytes)) <= MaxBytes /\ UpgradeInPlace

StringSpec == StringInit /\ [][StringNext]_v

-----------------------------------------------------------------------------
(* Each form holds what its fields can say: short enough, terminal states  *)
(* where no later discovery can be stored, the class its name claims.      *)
FormHolds ==
  /\ v.form \in StringForms /\ Len(v.bytes) <= MaxBytes
  /\ v.form \notin {"large", "view", "adopted"} => IsTerminal(v.scan)
  /\ InEnvelope(v) => Len(v.bytes) <= DecodeMax
  /\ v.form = "latin1" => v.scan = "Utf8Latin1"
  /\ v.form = "packed" => v.scan = "Ascii"
  /\ v.form = "small" => v.cap <= SmallMax
  /\ Len(v.bytes) <= v.cap

(* What a string knows is true of its bytes, whatever sequence of appends, *)
(* rewrites, copies and cuts produced them: the state, the count of        *)
(* characters wherever there is one, and their absence.  Its form can hold *)
(* it, with no state that a later discovery could not be stored beside.    *)
KnowledgeTrue ==
  LET c == ClassifyFull(v.bytes) IN
  /\ FormHolds
  /\ Certifies(v.scan, c.class) /\ Certifies(v.env, c.class)
  /\ v.count > 0 => v.count = c.chars

(* Upgrading, downgrading, unsharing and asking change where and how a     *)
(* string is stored, never its characters, from any state reached; while   *)
(* the bytes stay, what is known of them only grows, by reinterpreting and *)
(* by unsharing too, which 'only improves knowledge'.                      *)
TransformsKeep ==
  /\ \A s \in {UpgradedInPlace(v), DowngradedInPlace(v), Unshared(v)} \cup Asked(v) :
       Characters(s) = Characters(v)
  /\ \A s \in {Reinterpreted(v), Unshared(v)} \cup Asked(v) :
       Classes(s.scan) \subseteq Classes(v.scan)
=============================================================================
