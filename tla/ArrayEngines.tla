----------------------------- MODULE ArrayEngines -----------------------------
(***************************************************************************)
(* The two engines behind Array (containers.rs).  PerlArray keeps a window *)
(* of live slots in a buffer with a gap before it and spare room after it, *)
(* described by a header of narrow fields that spills once to a wide one.  *)
(* ImmutableArray keeps a persistent vector.  The engine is chosen when    *)
(* the array is made and every call runs under its lock, so a call is one  *)
(* step.  A call refused for the read-only flag changes nothing and is no  *)
(* step; one whose allocation fails is the action's second disjunct.       *)
(***************************************************************************)
EXTENDS Naturals, Sequences, FiniteSets

CONSTANTS
  Engines,      \* the engines an array may be made with
  Values,       \* what a program stores
  Glue,         \* the values whose destructor frees something
  Undef, Hole,
  Indices,      \* the indices a program uses
  Slack,        \* how many slots more a size class may grant
  Narrow,       \* the largest number a narrow header field holds (u32::MAX)
  Failing,      \* the calls whose allocations may fail
  MaxLen        \* bound on the length

ASSUME NumbersAssumption == Slack \in Nat /\ Narrow \in Nat /\ Indices \subseteq Nat

VARIABLES
  engine,
  hdr,          \* PerlArray: the geometry its header describes
  large,        \* and whether the header is the wide one
  buf,          \* the buffer's slots, from 0
  dead,         \* the values in the buffer whose destructor has run
  vec,          \* ImmutableArray: its vector
  given,        \* the last call and what it returned
  readonly

vars == <<engine, hdr, large, buf, dead, vec, given, readonly>>

Slot == Values \cup {Undef, Hole}
Read(slot) == IF slot = Hole THEN Undef ELSE slot
Least(a, b) == IF a < b THEN a ELSE b
Greatest(a, b) == IF a < b THEN b ELSE a

(* An operation works on a copy of the geometry, here with the memory the  *)
(* geometry speaks of.                                                     *)
Parts == [start |-> hdr.start, len |-> hdr.len, cap |-> hdr.cap, buf |-> buf, dead |-> dead]
Total(p) == p.start + p.cap
Live(p) == [k \in 1..p.len |-> p.buf[p.start + k - 1]]
Window == hdr.start..(hdr.start + hdr.len - 1)
Contents == IF engine = "Perl" THEN Live(Parts) ELSE vec

(* The same with another window, or with other contents.                   *)
Resized(p, start, len, cap) ==
  [start |-> start, len |-> len, cap |-> cap, buf |-> p.buf, dead |-> p.dead]

Filled(p, slots, gone) ==
  [start |-> p.start, len |-> p.len, cap |-> p.cap, buf |-> slots, dead |-> gone]

Put(p, i, slot) ==
  Filled(p, [p.buf EXCEPT ![p.start + i] = slot], p.dead \ {p.buf[p.start + i], slot})

-----------------------------------------------------------------------------
(* The header.                                                             *)

Fits(p) == p.start <= Narrow /\ p.len <= Narrow /\ p.cap <= Narrow

Kept(p) ==
  LET field(n) == IF large \/ ~Fits(p) THEN n ELSE n % (Narrow + 1)
  IN  [start |-> field(p.start), len |-> field(p.len), cap |-> field(p.cap)]

StoreParts(p) ==
  /\ hdr' = Kept(p)
  /\ large' = (large \/ ~Fits(p))
  /\ buf' = p.buf
  /\ dead' = p.dead

-----------------------------------------------------------------------------
(* Growth.  Writing None over a slot drops what the slot still holds: after *)
(* a move that is a copy of a value that lives on in its new slot.         *)

Vacate(p, from, to) ==
  LET gone == {p.buf[i] : i \in from..(to - 1)} \cap Glue
  IN  Filled(p, [i \in DOMAIN p.buf |-> IF i \in from..(to - 1) THEN Hole ELSE p.buf[i]],
             p.dead \cup gone)

Moved(p, from, to) ==
  Filled(p, [i \in DOMAIN p.buf |->
               IF i \in to..(to + p.len - 1) THEN p.buf[i - to + from] ELSE p.buf[i]], p.dead)

\* Variant: the slots the window left keep what they held.
SlideUncleared(p) == Resized(Moved(p, p.start, 0), 0, p.len, Total(p))

Slide(p) ==
  Resized(Vacate(Moved(p, p.start, 0), p.len, p.start + p.len), 0, p.len, Total(p))

AllocateSlots(n) == {[i \in 0..(n + more - 1) |-> Hole] : more \in 0..Slack}

Reallocated(p, fresh) ==
  Filled(Resized(p, 0, p.len, Cardinality(DOMAIN fresh)),
         [i \in DOMAIN fresh |-> IF i < p.len THEN p.buf[p.start + i] ELSE fresh[i]], p.dead)

(* What grow may leave, and whether it succeeded: a failed allocation      *)
(* leaves the window slid.                                                 *)
Grow(p, n) ==
  LET slid == IF p.start > 0 THEN Slide(p) ELSE p
  IN  IF p.cap >= n THEN {<<p, TRUE>>}
      ELSE IF slid.cap >= n THEN {<<slid, TRUE>>}
      ELSE {<<slid, FALSE>>}
             \cup {<<Reallocated(slid, fresh), TRUE>> : fresh \in AllocateSlots(n + slid.cap \div 5)}

Lengthened(p, n) == Resized(p, p.start, Greatest(p.len, n), p.cap)

ExtendTo(p, i) ==
  {<<IF g[2] THEN Lengthened(g[1], i + 1) ELSE g[1], g[2]>> : g \in Grow(p, i + 1)}

-----------------------------------------------------------------------------
Init ==
  /\ engine \in Engines
  /\ hdr = [start |-> 0, len |-> 0, cap |-> 0] /\ large = FALSE
  /\ buf = [i \in {} |-> Hole] /\ dead = {}
  /\ vec = <<>>
  /\ given = <<"new", Undef>>
  /\ readonly = FALSE

Calls(e) == engine = e /\ ~readonly /\ UNCHANGED <<engine, readonly>>
PerlCall == Calls("Perl") /\ UNCHANGED vec
ImmutableCall == Calls("Immutable") /\ UNCHANGED <<hdr, large, buf, dead>>

(* A value that frees something is stored once.                            *)
Storable(v) == v \notin Glue \/ \A i \in DOMAIN buf : buf[i] # v

Fails(op, g) == op \in Failing /\ ~g[2]

PerlSet(i, v) ==
  /\ PerlCall /\ Storable(v)
  /\ \E g \in ExtendTo(Parts, i) :
       \/ g[2] /\ StoreParts(Put(g[1], i, v)) /\ given' = <<"set", Undef>>
       \/ Fails("set", g) /\ StoreParts(g[1]) /\ UNCHANGED given

(* The new geometry is stored only when extending succeeded, whatever was  *)
(* done to the buffer.                                                     *)
PerlEnsureElement(i) ==
  /\ PerlCall
  /\ \E g \in ExtendTo(Parts, i) :
       LET slot == g[1].buf[g[1].start + i]
       IN  \/ g[2] /\ StoreParts(Put(g[1], i, Read(slot))) /\ given' = <<"ensure_element", Read(slot)>>
           \/ /\ Fails("ensure_element", g)
              /\ buf' = g[1].buf /\ dead' = g[1].dead
              /\ UNCHANGED <<hdr, large, given>>

\* Variant: only the deleted slot goes.
PastLast(p) == Resized(p, p.start, p.len - 1, p.cap)

(* How many slots are left of the window when the holes at its end go.     *)
LastStored(p) ==
  CHOOSE n \in 0..p.len : /\ n = 0 \/ p.buf[p.start + n - 1] # Hole
                          /\ \A k \in (n + 1)..p.len : p.buf[p.start + k - 1] = Hole

PastHoles(p) == Resized(p, p.start, LastStored(p), p.cap)

PerlDelete(i) ==
  LET p == Put(Parts, i, Hole)
  IN  /\ PerlCall
      /\ IF i >= hdr.len THEN StoreParts(Parts) /\ given' = <<"delete", Undef>>
         ELSE /\ StoreParts(IF i = hdr.len - 1 THEN PastHoles(p) ELSE p)
              /\ given' = <<"delete", Read(Parts.buf[hdr.start + i])>>

PerlPush(v) ==
  /\ PerlCall /\ Storable(v)
  /\ \E g \in ExtendTo(Parts, hdr.len) :
       \/ g[2] /\ StoreParts(Put(g[1], hdr.len, v)) /\ given' = <<"push", Undef>>
       \/ Fails("push", g) /\ StoreParts(g[1]) /\ UNCHANGED given

PerlPop ==
  /\ PerlCall
  /\ IF hdr.len = 0 THEN StoreParts(Parts) /\ given' = <<"pop", Undef>>
     ELSE /\ StoreParts(Resized(Put(Parts, hdr.len - 1, Hole), hdr.start, hdr.len - 1, hdr.cap))
          /\ given' = <<"pop", Read(buf[hdr.start + hdr.len - 1])>>

PerlShift ==
  /\ PerlCall
  /\ IF hdr.len = 0 THEN StoreParts(Parts) /\ given' = <<"shift", Undef>>
     ELSE /\ StoreParts(Resized(Put(Parts, 0, Hole), hdr.start + 1, hdr.len - 1, hdr.cap - 1))
          /\ given' = <<"shift", Read(buf[hdr.start])>>

(* Phase one takes a slot of the gap; without one, phase two slides the    *)
(* window right past a gap of as many slots as it has elements but one.    *)
Prepaid(p) == IF p.len >= 2 THEN p.len - 1 ELSE 0

SlideRight(p, gap) ==
  Resized(Vacate(Moved(p, p.start, p.start + gap + 1), p.start, p.start + Least(gap + 1, p.len)),
          p.start + gap, p.len + 1, p.cap - gap)

PerlUnshift(v) ==
  /\ PerlCall /\ Storable(v)
  /\ LET gap == Prepaid(Parts)
     IN  IF hdr.start > 0
         THEN /\ StoreParts(Put(Resized(Parts, hdr.start - 1, hdr.len + 1, hdr.cap + 1), 0, v))
              /\ given' = <<"unshift", Undef>>
         ELSE \E g \in Grow(Parts, hdr.len + 1 + gap) :
                \/ g[2] /\ StoreParts(Put(SlideRight(g[1], gap), 0, v)) /\ given' = <<"unshift", Undef>>
                \/ Fails("unshift", g) /\ StoreParts(g[1]) /\ UNCHANGED given

PerlClear ==
  /\ PerlCall
  /\ StoreParts(Resized(Filled(Parts, [i \in DOMAIN buf |-> IF i \in Window THEN Hole ELSE buf[i]], {}),
                        hdr.start, 0, hdr.cap))
  /\ given' = <<"clear", Undef>>

-----------------------------------------------------------------------------
(* The immutable engine.                                                   *)

Reaching(i) == [k \in 1..Greatest(Len(vec), i + 1) |-> IF k <= Len(vec) THEN vec[k] ELSE Hole]

ImmutableSet(i, v) ==
  /\ ImmutableCall
  /\ vec' = [Reaching(i) EXCEPT ![i + 1] = v]
  /\ given' = <<"set", Undef>>

ImmutableEnsureElement(i) ==
  /\ ImmutableCall
  /\ vec' = [Reaching(i) EXCEPT ![i + 1] = Read(@)]
  /\ given' = <<"ensure_element", Read(Reaching(i)[i + 1])>>

(* Every hole at the end goes, whichever element was deleted.              *)
ImmutableDelete(i) ==
  LET s == [vec EXCEPT ![i + 1] = Hole]
      n == CHOOSE m \in 0..Len(s) : /\ m = 0 \/ s[m] # Hole
                                    /\ \A k \in (m + 1)..Len(s) : s[k] = Hole
  IN  /\ ImmutableCall
      /\ IF i >= Len(vec) THEN UNCHANGED vec /\ given' = <<"delete", Undef>>
         ELSE vec' = SubSeq(s, 1, n) /\ given' = <<"delete", Read(vec[i + 1])>>

ImmutablePush(v) == ImmutableCall /\ vec' = Append(vec, v) /\ given' = <<"push", Undef>>
ImmutableUnshift(v) == ImmutableCall /\ vec' = <<v>> \o vec /\ given' = <<"unshift", Undef>>

ImmutablePop ==
  /\ ImmutableCall
  /\ IF vec = <<>> THEN UNCHANGED vec /\ given' = <<"pop", Undef>>
     ELSE vec' = SubSeq(vec, 1, Len(vec) - 1) /\ given' = <<"pop", Read(vec[Len(vec)])>>

ImmutableShift ==
  /\ ImmutableCall
  /\ IF vec = <<>> THEN UNCHANGED vec /\ given' = <<"shift", Undef>>
     ELSE vec' = Tail(vec) /\ given' = <<"shift", Read(Head(vec))>>

ImmutableClear == ImmutableCall /\ vec' = <<>> /\ given' = <<"clear", Undef>>

SetReadonly ==
  /\ readonly' = ~readonly
  /\ UNCHANGED <<engine, hdr, large, buf, dead, vec, given>>

Short == Len(Contents) < MaxLen

Next ==
  \/ \E i \in Indices, v \in Values : PerlSet(i, v) \/ ImmutableSet(i, v)
  \/ \E i \in Indices : \/ PerlEnsureElement(i) \/ ImmutableEnsureElement(i)
                        \/ PerlDelete(i) \/ ImmutableDelete(i)
  \/ Short /\ \E v \in Values : \/ PerlPush(v) \/ ImmutablePush(v)
                                \/ PerlUnshift(v) \/ ImmutableUnshift(v)
  \/ PerlPop \/ ImmutablePop \/ PerlShift \/ ImmutableShift
  \/ PerlClear \/ ImmutableClear \/ SetReadonly

Spec == Init /\ [][Next]_vars

-----------------------------------------------------------------------------
(* Properties.                                                             *)

(* The header describes the buffer that is there: the gap and the spare    *)
(* room are all of it, the window lies within, and nothing outside the     *)
(* window holds a value: extending the window, or releasing the buffer,    *)
(* never meets one.                                                        *)
WindowHolds ==
  /\ DOMAIN buf = 0..(hdr.start + hdr.cap - 1)
  /\ hdr.len <= hdr.cap
  /\ \A i \in DOMAIN buf : i \notin Window => buf[i] = Hole

(* Whatever slides, grows, spills, or fails on the way, either engine is   *)
(* the sequence its documentation promises, and returns what it promises.  *)
Contract == INSTANCE ArrayContract WITH seq <- Contents
KeepsContract == Contract!Spec

(* A move keeps the values: no value of the window has had its destructor  *)
(* run (containers.rs, Geometry::grow).                                    *)
ValuesAlive == {Live(Parts)[k] : k \in 1..hdr.len} \cap dead = {}
=============================================================================
