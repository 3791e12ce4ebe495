-------------------------- MODULE Containers_proofs --------------------------
(***************************************************************************)
(* Proofs about the containers.  ArrayEngines, for any values, indices,    *)
(* header width and size classes: the header describes the buffer, and     *)
(* either engine keeps the contract of an array.  HashEach, for any keys   *)
(* and any bucket counts of which one holds them all: each visits every    *)
(* key once, on all three engines.                                         *)
(***************************************************************************)
EXTENDS ArrayEngines, HashEach, FiniteSetTheorems, SequenceTheorems, WellFoundedInduction, TLAPS

-----------------------------------------------------------------------------
(* A geometry that describes its buffer.                                   *)

Sound(p) ==
  /\ p.start \in Nat /\ p.len \in Nat /\ p.cap \in Nat /\ p.len <= p.cap
  /\ p.buf \in [0..(p.start + p.cap - 1) -> Slot]
  /\ \A i \in 0..(p.start + p.cap - 1) :
       i \notin p.start..(p.start + p.len - 1) => p.buf[i] = Hole

LEMMA LiveIsSequence ==
  ASSUME NEW p, Sound(p)
  PROVE  /\ Live(p) \in Seq(Slot)
         /\ Len(Live(p)) = p.len
         /\ \A k \in 1..p.len : Live(p)[k] = p.buf[p.start + k - 1]
<1>1. \A k \in 1..p.len : p.start + k - 1 \in 0..(p.start + p.cap - 1)
  BY DEF Sound
<1>2. \A k \in 1..p.len : p.buf[p.start + k - 1] \in Slot
  BY <1>1 DEF Sound
<1>3. Live(p) \in [1..p.len -> Slot]
  BY <1>2 DEF Live
<1>4. p.len \in Nat
  BY DEF Sound
<1>5. Live(p) \in Seq(Slot)
  BY <1>3, <1>4
<1>6. Len(Live(p)) = p.len
  BY <1>3, <1>4, <1>5
<1> QED
  BY <1>5, <1>6 DEF Live

(* A slot of the window is written.                                        *)
LEMMA PutSound ==
  ASSUME NEW p, Sound(p), NEW i \in 0..(p.len - 1), NEW slot \in Slot
  PROVE  /\ Sound(Put(p, i, slot))
         /\ Put(p, i, slot).start = p.start
         /\ Put(p, i, slot).len = p.len
         /\ Put(p, i, slot).cap = p.cap
         /\ Put(p, i, slot).buf = [p.buf EXCEPT ![p.start + i] = slot]
<1>1. PICK s \in Nat, l \in Nat, c \in Nat, b \in {p.buf} : p.start = s /\ p.len = l /\ p.cap = c /\ p.buf = b
  BY DEF Sound
<1>2. s + i \in 0..(s + c - 1) /\ s + i \in s..(s + l - 1)
  BY <1>1 DEF Sound
<1>3. b \in [0..(s + c - 1) -> Slot]
  BY <1>1 DEF Sound
<1>4. [b EXCEPT ![s + i] = slot] \in [0..(s + c - 1) -> Slot]
  BY <1>2, <1>3
<1>5. \A j \in 0..(s + c - 1) : j \notin s..(s + l - 1) => [b EXCEPT ![s + i] = slot][j] = Hole
  BY <1>1, <1>2, <1>3 DEF Sound
<1>6. /\ Put(p, i, slot).start = s /\ Put(p, i, slot).len = l /\ Put(p, i, slot).cap = c
      /\ Put(p, i, slot).buf = [b EXCEPT ![s + i] = slot]
  BY <1>1 DEF Put, Filled
<1>7. Sound(Put(p, i, slot))
  BY <1>1, <1>4, <1>5, <1>6 DEF Sound
<1> QED
  BY <1>1, <1>6, <1>7

(* The window is moved within the buffer, which clears the slots it left.  *)
LEMMA SlideSound ==
  ASSUME NEW p, Sound(p)
  PROVE  /\ Sound(Slide(p))
         /\ Slide(p).start = 0
         /\ Slide(p).len = p.len
         /\ Slide(p).cap = p.start + p.cap
         /\ \A k \in 0..(p.len - 1) : Slide(p).buf[k] = p.buf[p.start + k]
<1>1. PICK s \in Nat, l \in Nat, c \in Nat : p.start = s /\ p.len = l /\ p.cap = c
  BY DEF Sound
<1>2. PICK n \in Nat : n = s + c
  OBVIOUS
<1>3. PICK gone \in Nat : gone = s + l
  OBVIOUS
<1>4. PICK b \in [0..(n - 1) -> Slot] : p.buf = b
  BY <1>1, <1>2 DEF Sound
<1>5. l <= c /\ gone <= n /\ \A i \in 0..(n - 1) : i >= gone => b[i] = Hole
  BY <1>1, <1>2, <1>3, <1>4 DEF Sound
<1> DEFINE m == Moved(p, s, 0)
           v == Vacate(m, l, gone)
<1>6. Slide(p) = Resized(v, 0, l, n)
  BY <1>1, <1>2, <1>3 DEF Slide, Total
<1>7. /\ m.buf \in [0..(n - 1) -> Slot]
      /\ \A i \in 0..(n - 1) : m.buf[i] = IF i < l THEN b[i + s] ELSE b[i]
  <2>1. m.buf = [i \in 0..(n - 1) |-> IF i \in 0..(0 + l - 1) THEN b[i - 0 + s] ELSE b[i]]
    BY <1>1, <1>4 DEF Moved, Filled
  <2>2. \A i \in 0..(n - 1) : i < l => i + s \in 0..(n - 1)
    BY <1>2, <1>5
  <2> HIDE DEF m
  <2>3. \A i \in 0..(n - 1) : m.buf[i] = IF i < l THEN b[i + s] ELSE b[i]
    BY <2>1
  <2>4. \A i \in 0..(n - 1) : m.buf[i] \in Slot
    BY <2>2, <2>3
  <2> QED
    BY <2>1, <2>3, <2>4
<1> HIDE DEF m
<1>8. /\ v.buf \in [0..(n - 1) -> Slot]
      /\ \A i \in 0..(n - 1) : v.buf[i] = IF l <= i /\ i < gone THEN Hole ELSE m.buf[i]
  <2>1. v.buf = [i \in 0..(n - 1) |-> IF i \in l..(gone - 1) THEN Hole ELSE m.buf[i]]
    BY <1>7 DEF Vacate, Filled
  <2> HIDE DEF v
  <2> QED
    BY <2>1, <1>7 DEF Slot
<1> HIDE DEF v
<1>9. /\ Slide(p).start = 0 /\ Slide(p).len = l /\ Slide(p).cap = n
      /\ Slide(p).buf = v.buf
  BY <1>6 DEF Resized
<1>10. \A k \in 0..(l - 1) : v.buf[k] = b[s + k]
  <2>1. \A k \in 0..(l - 1) : k \in 0..(n - 1) /\ ~(l <= k)
    BY <1>3, <1>5
  <2>2. \A k \in 0..(l - 1) : v.buf[k] = m.buf[k]
    BY <2>1, <1>8
  <2>3. \A k \in 0..(l - 1) : m.buf[k] = b[s + k]
    BY <2>1, <1>7
  <2> QED
    BY <2>2, <2>3
<1>11. \A i \in 0..(n - 1) : i \notin 0..(l - 1) => v.buf[i] = Hole
  <2>1. \A i \in 0..(n - 1) : i \notin 0..(l - 1) => l <= i
    OBVIOUS
  <2>2. \A i \in 0..(n - 1) : i >= gone => i >= l /\ m.buf[i] = b[i]
    BY <1>3, <1>7
  <2>3. \A i \in 0..(n - 1) : l <= i => i < gone \/ i >= gone
    OBVIOUS
  <2> QED
    BY <1>5, <1>8, <2>1, <2>2, <2>3
<1>12. Sound(Slide(p))
  BY <1>2, <1>3, <1>5, <1>8, <1>9, <1>11 DEF Sound
<1> QED
  BY <1>1, <1>2, <1>4, <1>9, <1>10, <1>12

(* The window is copied into a fresh buffer.                               *)
LEMMA ReallocatedSound ==
  ASSUME NEW p, Sound(p), p.start = 0, NEW n \in Nat, p.len <= n,
         NEW fresh \in AllocateSlots(n)
  PROVE  /\ Sound(Reallocated(p, fresh))
         /\ Reallocated(p, fresh).start = 0
         /\ Reallocated(p, fresh).len = p.len
         /\ Reallocated(p, fresh).cap >= n
         /\ \A k \in 0..(p.len - 1) : Reallocated(p, fresh).buf[k] = p.buf[p.start + k]
<1> DEFINE s == Reallocated(p, fresh)
<1>1. PICK more \in 0..Slack : fresh = [i \in 0..(n + more - 1) |-> Hole]
  BY DEF AllocateSlots
<1> DEFINE c == n + more
           b == [i \in 0..(c - 1) |-> IF i < p.len THEN p.buf[p.start + i] ELSE Hole]
<1>2. c \in Nat /\ c >= n
  BY NumbersAssumption
<1>3. DOMAIN fresh = 0..(c - 1) /\ \A i \in 0..(c - 1) : fresh[i] = Hole
  BY <1>1
<1>4. Cardinality(0..(c - 1)) = c
  <2> HIDE DEF c
  <2> QED BY <1>2, FS_Interval
<1> HIDE DEF c
<1>5. s.start = 0 /\ s.len = p.len /\ s.cap = c /\ s.buf = b
  BY <1>3, <1>4 DEF Reallocated, Resized, Filled
<1>6. b \in [0..(c - 1) -> Slot] /\ \A i \in 0..(c - 1) : i >= p.len => b[i] = Hole
  <2>1. \A i \in 0..(p.len - 1) : p.start + i \in 0..(p.start + p.cap - 1)
    BY DEF Sound
  <2>2. \A i \in 0..(p.len - 1) : p.buf[p.start + i] \in Slot
    BY <2>1 DEF Sound
  <2>3. \A i \in 0..(c - 1) : i < p.len => i \in 0..(p.len - 1)
    BY <1>2 DEF Sound
  <2>4. \A i \in 0..(c - 1) : b[i] \in Slot
    BY <2>2, <2>3 DEF Slot
  <2>5. \A i \in 0..(c - 1) : i >= p.len => b[i] = Hole
    BY <1>2 DEF Sound
  <2> QED
    BY <2>4, <2>5
<1>7. \A k \in 0..(p.len - 1) : b[k] = p.buf[p.start + k]
  BY <1>2 DEF Sound
<1> HIDE DEF b, s
<1>8. Sound(s)
  BY <1>2, <1>5, <1>6 DEF Sound
<1> QED
  BY <1>2, <1>5, <1>7, <1>8 DEF s

(* Two geometries that show the same slots.                                *)
LEMMA SameLive ==
  ASSUME NEW p, Sound(p), NEW q, Sound(q), q.len = p.len,
         \A k \in 0..(p.len - 1) : q.buf[q.start + k] = p.buf[p.start + k]
  PROVE  Live(q) = Live(p)
<1>1. PICK s \in Nat, l \in Nat, z \in Nat : p.start = s /\ p.len = l /\ q.start = z
  BY DEF Sound
<1>2. \A k \in 1..l : k - 1 \in 0..(l - 1) /\ z + (k - 1) = z + k - 1 /\ s + (k - 1) = s + k - 1
  OBVIOUS
<1>3. \A k \in 1..l : q.buf[z + k - 1] = p.buf[s + k - 1]
  BY <1>1, <1>2
<1> QED
  BY <1>1, <1>3 DEF Live

(* Growth keeps what the array shows, succeeding or not, and makes room    *)
(* when it succeeds.                                                       *)
LEMMA GrowSound ==
  ASSUME NEW p, Sound(p), NEW n \in Nat, NEW g \in Grow(p, n)
  PROVE  /\ Sound(g[1]) /\ g[1].len = p.len /\ Live(g[1]) = Live(p)
         /\ p.start = 0 => g[1].start = 0
         /\ g[2] \in BOOLEAN /\ (g[2] => g[1].cap >= n)
<1> DEFINE slid == IF p.start > 0 THEN Slide(p) ELSE p
<1>1. /\ Sound(slid) /\ slid.start = 0 /\ slid.len = p.len /\ slid.cap >= p.cap
      /\ Live(slid) = Live(p)
  <2>1. CASE p.start > 0
    <3>1. slid = Slide(p)
      BY <2>1
    <3> DEFINE q == Slide(p)
    <3>2. /\ Sound(q) /\ q.start = 0 /\ q.len = p.len
          /\ \A k \in 0..(p.len - 1) : q.buf[k] = p.buf[p.start + k]
      BY SlideSound
    <3> HIDE DEF q
    <3>3. \A k \in 0..(p.len - 1) : q.buf[q.start + k] = p.buf[p.start + k]
      BY <3>2 DEF Sound
    <3>4. Live(q) = Live(p)
      BY <3>2, <3>3, SameLive
    <3>5. q.cap >= p.cap
      <4>1. p.start \in Nat /\ p.cap \in Nat
        BY DEF Sound
      <4>2. q.cap = p.start + p.cap
        BY SlideSound DEF q
      <4> QED
        BY <4>1, <4>2
    <3>6. slid = q
      BY <3>1 DEF q
    <3> QED
      BY <3>2, <3>4, <3>5, <3>6
  <2>2. CASE ~(p.start > 0)
    BY <2>2 DEF Sound
  <2> QED
    BY <2>1, <2>2
<1>2. \/ g = <<p, TRUE>> /\ p.cap >= n
      \/ g = <<slid, TRUE>> /\ slid.cap >= n
      \/ g = <<slid, FALSE>>
      \/ /\ ~(slid.cap >= n)
         /\ \E fresh \in AllocateSlots(n + slid.cap \div 5) : g = <<Reallocated(slid, fresh), TRUE>>
  BY DEF Grow
<1> HIDE DEF slid
<1>3. CASE g = <<p, TRUE>> /\ p.cap >= n
  BY <1>3
<1>4. CASE g = <<slid, TRUE>> /\ slid.cap >= n
  BY <1>1, <1>4
<1>5. CASE g = <<slid, FALSE>>
  BY <1>1, <1>5
<1>6. ASSUME ~(slid.cap >= n), NEW fresh \in AllocateSlots(n + slid.cap \div 5),
             g = <<Reallocated(slid, fresh), TRUE>>
      PROVE  /\ Sound(g[1]) /\ g[1].len = p.len /\ Live(g[1]) = Live(p)
             /\ p.start = 0 => g[1].start = 0
             /\ g[2] \in BOOLEAN /\ (g[2] => g[1].cap >= n)
  <2> DEFINE r == Reallocated(slid, fresh)
  <2>1. PICK c \in Nat : c = slid.cap
    BY <1>1 DEF Sound
  <2>2. PICK m \in Nat : m = n + c \div 5
    OBVIOUS
  <2>3. m >= n /\ slid.len <= m
    BY <1>1, <1>6, <2>1, <2>2 DEF Sound
  <2>4. fresh \in AllocateSlots(m)
    BY <1>6, <2>1, <2>2
  <2>5. /\ Sound(r) /\ r.start = 0 /\ r.len = slid.len /\ r.cap >= m
        /\ \A k \in 0..(slid.len - 1) : r.buf[k] = slid.buf[slid.start + k]
    BY <1>1, <2>3, <2>4, ReallocatedSound
  <2> HIDE DEF r
  <2>6. \A k \in 0..(slid.len - 1) : r.buf[r.start + k] = slid.buf[slid.start + k]
    BY <2>5, <1>1 DEF Sound
  <2>7. Live(r) = Live(slid)
    BY <1>1, <2>5, <2>6, SameLive
  <2>8. r.cap >= n
    BY <2>3, <2>5 DEF Sound
  <2>9. g[1] = r /\ g[2] = TRUE
    BY <1>6 DEF r
  <2> QED
    BY <1>1, <2>5, <2>7, <2>8, <2>9
<1> QED
  BY <1>2, <1>3, <1>4, <1>5, <1>6

(* Room a window grows into holds nothing, so a longer window shows holes. *)
LEMMA LengthenedSound ==
  ASSUME NEW p, Sound(p), NEW i \in Nat, i + 1 <= p.cap
  PROVE  LET q == Lengthened(p, i + 1)
         IN  /\ Sound(q) /\ q.start = p.start
             /\ q.len = Greatest(p.len, i + 1)
             /\ Live(q) = Contract!Reaching(Live(p), i)
<1> DEFINE q == Lengthened(p, i + 1)
<1>1. PICK s \in Nat, l \in Nat, c \in Nat, b \in {p.buf} : p.start = s /\ p.len = l /\ p.cap = c /\ p.buf = b
  BY DEF Sound
<1>2. PICK m \in Nat : m = Greatest(l, i + 1)
  BY DEF Greatest
<1>3. l <= m /\ i + 1 <= m /\ m <= c /\ m = IF i < l THEN l ELSE i + 1
  BY <1>1, <1>2 DEF Sound, Greatest
<1>4. q = [start |-> s, len |-> m, cap |-> c, buf |-> b, dead |-> p.dead]
  BY <1>1, <1>2 DEF Lengthened, Resized
<1> HIDE DEF q
<1>5. b \in [0..(s + c - 1) -> Slot]
      /\ \A j \in 0..(s + c - 1) : j \notin s..(s + l - 1) => b[j] = Hole
  BY <1>1 DEF Sound
<1>6. Sound(q)
  BY <1>3, <1>4, <1>5 DEF Sound
<1>7. Live(p) = [k \in 1..l |-> b[s + k - 1]] /\ Live(q) = [k \in 1..m |-> b[s + k - 1]]
  BY <1>1, <1>4 DEF Live
<1>8. Len(Live(p)) = l
  BY <1>1, LiveIsSequence
<1>9. \A k \in 1..m : ~(k <= l) => b[s + k - 1] = Hole
  <2>1. \A k \in 1..m : ~(k <= l) => s + k - 1 \in 0..(s + c - 1) /\ s + k - 1 \notin s..(s + l - 1)
    BY <1>3
  <2> QED
    BY <1>5, <2>1
<1>10. Live(q) = [k \in 1..m |-> IF k <= l THEN Live(p)[k] ELSE Hole]
  <2>1. \A k \in 1..m : k <= l => Live(p)[k] = b[s + k - 1]
    BY <1>7
  <2>2. \A k \in 1..m : b[s + k - 1] = IF k <= l THEN Live(p)[k] ELSE Hole
    BY <1>9, <2>1
  <2> QED
    BY <1>7, <2>2
<1>11. Contract!Reaching(Live(p), i) = [k \in 1..m |-> IF k <= l THEN Live(p)[k] ELSE Hole]
  BY <1>3, <1>8 DEF Contract!Reaching
<1> QED
  BY <1>1, <1>2, <1>4, <1>6, <1>10, <1>11 DEF q

(* Reaching an index: the array is the contract's, or as it was.           *)
LEMMA ExtendSound ==
  ASSUME NEW p, Sound(p), NEW i \in Nat, NEW g \in ExtendTo(p, i)
  PROVE  /\ Sound(g[1]) /\ g[2] \in BOOLEAN
         /\ g[2] => /\ g[1].len = Greatest(p.len, i + 1)
                    /\ Live(g[1]) = Contract!Reaching(Live(p), i)
         /\ ~g[2] => Live(g[1]) = Live(p)
<1>1. PICK f \in Grow(p, i + 1) : g = <<IF f[2] THEN Lengthened(f[1], i + 1) ELSE f[1], f[2]>>
  BY DEF ExtendTo
<1>2. /\ Sound(f[1]) /\ f[1].len = p.len /\ Live(f[1]) = Live(p)
      /\ f[2] \in BOOLEAN /\ (f[2] => f[1].cap >= i + 1)
  BY GrowSound
<1>3. CASE f[2]
  <2> DEFINE r == f[1]
  <2>1. g[1] = Lengthened(r, i + 1) /\ g[2] = f[2]
    BY <1>1, <1>3
  <2>2. i + 1 <= r.cap /\ Sound(r)
    BY <1>2, <1>3 DEF Sound
  <2> HIDE DEF r
  <2>3. /\ Sound(Lengthened(r, i + 1)) /\ Lengthened(r, i + 1).len = Greatest(r.len, i + 1)
        /\ Live(Lengthened(r, i + 1)) = Contract!Reaching(Live(r), i)
    BY <2>2, LengthenedSound
  <2>4. r.len = p.len /\ Live(r) = Live(p)
    BY <1>2 DEF r
  <2> QED
    BY <1>3, <2>1, <2>3, <2>4
<1>4. CASE ~f[2]
  BY <1>1, <1>2, <1>4
<1> QED
  BY <1>2, <1>3, <1>4

(* Writing a slot of the window writes the slot the array shows.           *)
LEMMA PutLive ==
  ASSUME NEW p, Sound(p), NEW i \in 0..(p.len - 1), NEW slot \in Slot
  PROVE  Live(Put(p, i, slot)) = [Live(p) EXCEPT ![i + 1] = slot]
<1> DEFINE q == Put(p, i, slot)
<1>1. PICK s \in Nat, l \in Nat, c \in Nat, b \in {p.buf} : p.start = s /\ p.len = l /\ p.cap = c /\ p.buf = b
  BY DEF Sound
<1>2. q.start = s /\ q.len = l /\ q.buf = [b EXCEPT ![s + i] = slot]
  BY <1>1, PutSound
<1> HIDE DEF q
<1>3. b \in [0..(s + c - 1) -> Slot] /\ l <= c /\ i \in Nat /\ i < l
  BY <1>1 DEF Sound
<1>4. Live(p) = [k \in 1..l |-> b[s + k - 1]]
  BY <1>1 DEF Live
<1>5. Live(q) = [k \in 1..l |-> [b EXCEPT ![s + i] = slot][s + k - 1]]
  BY <1>2 DEF Live
<1>6. \A k \in 1..l : [b EXCEPT ![s + i] = slot][s + k - 1] = IF k = i + 1 THEN slot ELSE b[s + k - 1]
  <2>1. \A k \in 1..l : s + k - 1 \in 0..(s + c - 1) /\ (s + k - 1 = s + i <=> k = i + 1)
    BY <1>3
  <2> QED
    BY <1>3, <2>1
<1>7. Live(q) = [k \in 1..l |-> IF k = i + 1 THEN slot ELSE b[s + k - 1]]
  BY <1>5, <1>6
<1>8. [Live(p) EXCEPT ![i + 1] = slot] = [k \in 1..l |-> IF k = i + 1 THEN slot ELSE b[s + k - 1]]
  BY <1>3, <1>4
<1> QED
  BY <1>7, <1>8 DEF q

(* A window that gives up holes at its end.                                *)
LEMMA ShrunkSound ==
  ASSUME NEW p, Sound(p), NEW n \in 0..p.len,
         \A k \in (n + 1)..p.len : Live(p)[k] = Hole
  PROVE  LET q == Resized(p, p.start, n, p.cap)
         IN  Sound(q) /\ Live(q) = SubSeq(Live(p), 1, n)
<1> DEFINE q == Resized(p, p.start, n, p.cap)
<1>1. PICK s \in Nat, l \in Nat, c \in Nat, b \in {p.buf} : p.start = s /\ p.len = l /\ p.cap = c /\ p.buf = b
  BY DEF Sound
<1>2. q.start = s /\ q.len = n /\ q.cap = c /\ q.buf = b
  BY <1>1 DEF Resized
<1> HIDE DEF q
<1>3. /\ b \in [0..(s + c - 1) -> Slot] /\ l <= c /\ n \in Nat /\ n <= l
      /\ \A j \in 0..(s + c - 1) : j \notin s..(s + l - 1) => b[j] = Hole
  BY <1>1 DEF Sound
<1>4. \A k \in (n + 1)..l : b[s + k - 1] = Hole
  <2>1. \A k \in (n + 1)..l : Live(p)[k] = Hole
    BY <1>1
  <2>2. \A k \in 1..l : Live(p)[k] = b[s + k - 1]
    BY <1>1, LiveIsSequence
  <2>3. \A k \in (n + 1)..l : k \in 1..l
    BY <1>3
  <2> QED
    BY <2>1, <2>2, <2>3
<1>5. \A j \in 0..(s + c - 1) : j \notin s..(s + n - 1) => b[j] = Hole
  <2>1. ASSUME NEW j \in 0..(s + c - 1), j \notin s..(s + n - 1), j \in s..(s + l - 1)
        PROVE  b[j] = Hole
    <3>1. PICK k \in Int : k = j - s + 1
      OBVIOUS
    <3>2. k \in (n + 1)..l /\ s + k - 1 = j
      BY <1>3, <2>1, <3>1
    <3> QED
      BY <1>4, <3>2
  <2> QED
    BY <1>3, <2>1
<1>6. Sound(q)
  BY <1>2, <1>3, <1>5 DEF Sound
<1>7. Live(q) = [k \in 1..n |-> b[s + k - 1]] /\ Live(p) = [k \in 1..l |-> b[s + k - 1]]
  BY <1>1, <1>2 DEF Live
<1>8. SubSeq(Live(p), 1, n) = [k \in 1..n |-> Live(p)[k]]
  BY <1>1, <1>3, LiveIsSequence
<1>9. \A k \in 1..n : Live(p)[k] = b[s + k - 1]
  BY <1>3, <1>7
<1> QED
  BY <1>6, <1>7, <1>8, <1>9 DEF q

(* A window that gives up a hole at its start.                             *)
LEMMA DroppedFirstSound ==
  ASSUME NEW p, Sound(p), p.len > 0, Live(p)[1] = Hole
  PROVE  LET q == Resized(p, p.start + 1, p.len - 1, p.cap - 1)
         IN  Sound(q) /\ Live(q) = Tail(Live(p))
<1> DEFINE q == Resized(p, p.start + 1, p.len - 1, p.cap - 1)
<1>1. PICK s \in Nat, l \in Nat, c \in Nat, b \in {p.buf} : p.start = s /\ p.len = l /\ p.cap = c /\ p.buf = b
  BY DEF Sound
<1>2. q.start = s + 1 /\ q.len = l - 1 /\ q.cap = c - 1 /\ q.buf = b
  BY <1>1 DEF Resized
<1> HIDE DEF q
<1>3. /\ b \in [0..(s + c - 1) -> Slot] /\ l <= c /\ l > 0
      /\ \A j \in 0..(s + c - 1) : j \notin s..(s + l - 1) => b[j] = Hole
  BY <1>1 DEF Sound
<1>4. b[s] = Hole
  BY <1>1, <1>3, LiveIsSequence
<1>5. s + 1 + (c - 1) - 1 = s + c - 1 /\ s + 1 + (l - 1) - 1 = s + l - 1 /\ l - 1 \in Nat /\ c - 1 \in Nat
  BY <1>3
<1>6. \A j \in 0..(s + c - 1) : j \notin (s + 1)..(s + l - 1) => b[j] = Hole
  BY <1>3, <1>4
<1>7. Sound(q)
  BY <1>2, <1>3, <1>5, <1>6 DEF Sound
<1>8. Live(q) = [k \in 1..(l - 1) |-> b[s + 1 + k - 1]] /\ Live(p) = [k \in 1..l |-> b[s + k - 1]]
  BY <1>1, <1>2 DEF Live
<1>9. Tail(Live(p)) = [k \in 1..(l - 1) |-> Live(p)[k + 1]]
  <2>1. Live(p) \in Seq(Slot) /\ Len(Live(p)) = l
    BY <1>1, LiveIsSequence
  <2> QED
    BY <2>1, <1>3
<1>10. \A k \in 1..(l - 1) : Live(p)[k + 1] = b[s + 1 + k - 1]
  <2>1. \A k \in 1..(l - 1) : k + 1 \in 1..l /\ s + (k + 1) - 1 = s + 1 + k - 1
    OBVIOUS
  <2> QED
    BY <1>8, <2>1
<1> QED
  BY <1>7, <1>8, <1>9, <1>10 DEF q

(* A window that takes a slot of the gap.                                  *)
LEMMA TookGapSound ==
  ASSUME NEW p, Sound(p), p.start > 0
  PROVE  LET q == Resized(p, p.start - 1, p.len + 1, p.cap + 1)
         IN  Sound(q) /\ q.len = p.len + 1 /\ Live(q) = <<Hole>> \o Live(p)
<1> DEFINE q == Resized(p, p.start - 1, p.len + 1, p.cap + 1)
<1>1. PICK s \in Nat, l \in Nat, c \in Nat, b \in {p.buf} : p.start = s /\ p.len = l /\ p.cap = c /\ p.buf = b
  BY DEF Sound
<1>2. q.start = s - 1 /\ q.len = l + 1 /\ q.cap = c + 1 /\ q.buf = b
  BY <1>1 DEF Resized
<1> HIDE DEF q
<1>3. /\ b \in [0..(s + c - 1) -> Slot] /\ l <= c /\ s > 0
      /\ \A j \in 0..(s + c - 1) : j \notin s..(s + l - 1) => b[j] = Hole
  BY <1>1 DEF Sound
<1>4. /\ s - 1 + (c + 1) - 1 = s + c - 1 /\ s - 1 + (l + 1) - 1 = s + l - 1
      /\ s - 1 \in Nat /\ l + 1 \in Nat /\ c + 1 \in Nat /\ l + 1 <= c + 1
  BY <1>3
<1>5. \A j \in 0..(s + c - 1) : j \notin (s - 1)..(s + l - 1) => b[j] = Hole
  BY <1>3
<1>6. Sound(q)
  BY <1>2, <1>3, <1>4, <1>5 DEF Sound
<1>7. Live(q) = [k \in 1..(l + 1) |-> b[s - 1 + k - 1]]
  BY <1>2 DEF Live
<1>8. <<Hole>> \o Live(p) = [k \in 1..(l + 1) |-> IF k = 1 THEN Hole ELSE Live(p)[k - 1]]
  <2>1. Live(p) \in Seq(Slot) /\ Len(Live(p)) = l
    BY <1>1, LiveIsSequence
  <2>2. <<Hole>> \in Seq(Slot) /\ Len(<<Hole>>) = 1 /\ <<Hole>>[1] = Hole
    BY DEF Slot
  <2> QED
    BY <2>1, <2>2
<1>9. \A k \in 1..(l + 1) : b[s - 1 + k - 1] = IF k = 1 THEN Hole ELSE Live(p)[k - 1]
  <2>1. b[s - 1] = Hole
    BY <1>3
  <2>2. \A k \in 1..(l + 1) : k = 1 \/ (k - 1 \in 1..l /\ s + (k - 1) - 1 = s - 1 + k - 1)
    OBVIOUS
  <2>3. \A k \in 1..l : Live(p)[k] = b[s + k - 1]
    BY <1>1, LiveIsSequence
  <2> QED
    BY <2>1, <2>2, <2>3
<1> QED
  BY <1>1, <1>2, <1>6, <1>7, <1>8, <1>9 DEF q

(* The window slides right past the gap it prepays and a slot more.  The   *)
(* gap is one less than the window is long, so every slot it is copied out *)
(* of is cleared, and none it is copied into.                              *)
LEMMA SlideRightSound ==
  ASSUME NEW p, Sound(p), p.start = 0, p.len + 1 + Prepaid(p) <= p.cap
  PROVE  LET q == SlideRight(p, Prepaid(p))
         IN  Sound(q) /\ q.len = p.len + 1 /\ Live(q) = <<Hole>> \o Live(p)
<1>1. PICK l \in Nat, n \in Nat : p.len = l /\ p.cap = n
  BY DEF Sound
<1>2. PICK gap \in Nat : gap = Prepaid(p) /\ gap = (IF l >= 2 THEN l - 1 ELSE 0)
  BY <1>1 DEF Prepaid
<1>3. PICK b \in [0..(n - 1) -> Slot] : p.buf = b
  <2>1. 0 + n - 1 = n - 1
    OBVIOUS
  <2>2. p.buf \in [0..(0 + n - 1) -> Slot]
    BY <1>1 DEF Sound
  <2> QED
    BY <2>1, <2>2
<1>4. \A i \in 0..(n - 1) : i >= l => b[i] = Hole
  BY <1>1, <1>3 DEF Sound
<1>5. l + 1 + gap <= n
  BY <1>1, <1>2
<1>6. PICK past \in Nat : past = gap + 1
  OBVIOUS
<1>7. PICK gone \in Nat : gone = Least(gap + 1, l) /\ gone = (IF l = 0 THEN 0 ELSE gap + 1)
  BY <1>2 DEF Least
<1> DEFINE m == Moved(p, 0, past)
           v == Vacate(m, 0, gone)
           q == SlideRight(p, Prepaid(p))
<1>8. q = Resized(v, gap, l + 1, n - gap)
  <2>1. /\ p.start + Prepaid(p) + 1 = past /\ p.start + Least(Prepaid(p) + 1, p.len) = gone
        /\ p.start + Prepaid(p) = gap
    BY <1>1, <1>2, <1>6, <1>7
  <2> QED
    BY <1>1, <1>2, <2>1 DEF SlideRight
<1>9. m.buf \in [0..(n - 1) -> Slot]
      /\ \A i \in 0..(n - 1) : m.buf[i] = IF past <= i /\ i < past + l THEN b[i - past] ELSE b[i]
  <2>1. m.buf = [i \in 0..(n - 1) |-> IF i \in past..(past + l - 1) THEN b[i - past + 0] ELSE b[i]]
    BY <1>1, <1>3 DEF Moved, Filled
  <2>2. \A i \in 0..(n - 1) : i \in past..(past + l - 1) => i - past \in 0..(n - 1) /\ i - past + 0 = i - past
    OBVIOUS
  <2>3. \A i \in 0..(n - 1) : i \in past..(past + l - 1) <=> past <= i /\ i < past + l
    OBVIOUS
  <2> HIDE DEF m
  <2>4. \A i \in 0..(n - 1) : m.buf[i] = IF past <= i /\ i < past + l THEN b[i - past] ELSE b[i]
    BY <2>1, <2>2, <2>3
  <2>5. \A i \in 0..(n - 1) : m.buf[i] \in Slot
    BY <2>2, <2>3, <2>4
  <2> QED
    BY <2>1, <2>4, <2>5
<1> HIDE DEF m
<1>10. v.buf \in [0..(n - 1) -> Slot]
       /\ \A i \in 0..(n - 1) : v.buf[i] = IF i < gone THEN Hole ELSE m.buf[i]
  <2>1. v.buf = [i \in 0..(n - 1) |-> IF i \in 0..(gone - 1) THEN Hole ELSE m.buf[i]]
    BY <1>9 DEF Vacate, Filled
  <2> HIDE DEF v
  <2> QED
    BY <2>1, <1>9 DEF Slot
<1> HIDE DEF v
<1>11. q.start = gap /\ q.len = l + 1 /\ q.cap = n - gap /\ q.buf = v.buf
  BY <1>8 DEF Resized
<1> HIDE DEF q
<1>12. \A i \in 0..(n - 1) : i < past => v.buf[i] = Hole
  <2>1. CASE l = 0
    <3>1. \A i \in 0..(n - 1) : v.buf[i] = m.buf[i] /\ m.buf[i] = b[i]
      BY <2>1, <1>7, <1>9, <1>10
    <3> QED
      BY <2>1, <1>4, <3>1
  <2>2. CASE l # 0
    BY <2>2, <1>6, <1>7, <1>10
  <2> QED
    BY <2>1, <2>2
<1>13. \A i \in 0..(n - 1) : i >= past + l => v.buf[i] = Hole
  <2>1. \A i \in 0..(n - 1) : i >= past + l => v.buf[i] = m.buf[i] /\ m.buf[i] = b[i]
    BY <1>6, <1>7, <1>9, <1>10
  <2> QED
    BY <1>4, <2>1
<1>14. \A k \in 0..(l - 1) : k + past \in 0..(n - 1) /\ v.buf[k + past] = b[k]
  <2>1. \A k \in 0..(l - 1) : k + past \in 0..(n - 1) /\ ~(k + past < gone)
    BY <1>5, <1>6, <1>7
  <2>2. \A k \in 0..(l - 1) : v.buf[k + past] = m.buf[k + past]
    BY <2>1, <1>10
  <2>3. \A k \in 0..(l - 1) : past <= k + past /\ k + past < past + l /\ k + past - past = k
    OBVIOUS
  <2>4. ASSUME NEW k \in 0..(l - 1) PROVE m.buf[k + past] = b[k]
    <3>1. PICK i \in 0..(n - 1) : i = k + past
      BY <2>1
    <3>2. past <= i /\ i < past + l /\ i - past = k
      BY <3>1
    <3>3. m.buf[i] = b[i - past]
      BY <1>9, <3>2
    <3> QED
      BY <3>1, <3>2, <3>3
  <2> QED
    BY <2>1, <2>2, <2>4
<1>15. Sound(q)
  <2>1. gap + (n - gap) - 1 = n - 1 /\ gap + (l + 1) - 1 = gap + l /\ l + 1 \in Nat /\ n - gap \in Nat
        /\ l + 1 <= n - gap
    BY <1>5
  <2>2. \A i \in 0..(n - 1) : i \notin gap..(gap + l) => i < past \/ i >= past + l
    BY <1>6
  <2>3. \A i \in 0..(n - 1) : i \notin gap..(gap + l) => v.buf[i] = Hole
    BY <2>2, <1>12, <1>13
  <2> QED
    BY <2>1, <2>3, <1>10, <1>11 DEF Sound
<1>16. Live(q) = [k \in 1..(l + 1) |-> v.buf[gap + k - 1]]
  BY <1>11 DEF Live
<1>17. <<Hole>> \o Live(p) = [k \in 1..(l + 1) |-> IF k = 1 THEN Hole ELSE Live(p)[k - 1]]
  <2>1. Live(p) \in Seq(Slot) /\ Len(Live(p)) = l
    BY <1>1, LiveIsSequence
  <2>2. <<Hole>> \in Seq(Slot) /\ Len(<<Hole>>) = 1 /\ <<Hole>>[1] = Hole
    BY DEF Slot
  <2> QED
    BY <2>1, <2>2
<1>18. \A k \in 1..(l + 1) : v.buf[gap + k - 1] = IF k = 1 THEN Hole ELSE Live(p)[k - 1]
  <2>1. v.buf[gap] = Hole
    BY <1>5, <1>6, <1>12
  <2>2. \A k \in 0..(l - 1) : Live(p)[k + 1] = b[k]
    <3>1. \A k \in 0..(l - 1) : k + 1 \in 1..l /\ 0 + (k + 1) - 1 = k
      OBVIOUS
    <3>2. \A k \in 1..l : Live(p)[k] = b[0 + k - 1]
      BY <1>1, <1>3, LiveIsSequence
    <3> QED
      BY <3>1, <3>2
  <2>3. ASSUME NEW k \in 1..(l + 1), k # 1 PROVE v.buf[gap + k - 1] = Live(p)[k - 1]
    <3>1. PICK j \in 0..(l - 1) : j = k - 2
      BY <2>3
    <3>2. j + 1 = k - 1 /\ j + past = gap + k - 1
      BY <3>1, <1>6
    <3>3. v.buf[j + past] = b[j] /\ Live(p)[j + 1] = b[j]
      BY <2>2, <1>14
    <3> QED
      BY <3>2, <3>3
  <2>4. \A k \in 1..(l + 1) : k = 1 => gap + k - 1 = gap
    OBVIOUS
  <2> QED
    BY <2>1, <2>3, <2>4
<1> QED
  BY <1>1, <1>11, <1>15, <1>16, <1>17, <1>18 DEF q

(* An emptied window.                                                      *)
LEMMA ClearedSound ==
  ASSUME NEW p, Sound(p), NEW gone
  PROVE  LET b == [i \in DOMAIN p.buf |-> IF i \in p.start..(p.start + p.len - 1) THEN Hole ELSE p.buf[i]]
             q == Resized(Filled(p, b, gone), p.start, 0, p.cap)
         IN  Sound(q) /\ Live(q) = <<>>
<1> DEFINE b == [i \in DOMAIN p.buf |-> IF i \in p.start..(p.start + p.len - 1) THEN Hole ELSE p.buf[i]]
           q == Resized(Filled(p, b, gone), p.start, 0, p.cap)
<1>1. PICK s \in Nat, l \in Nat, c \in Nat, f \in {p.buf} : p.start = s /\ p.len = l /\ p.cap = c /\ p.buf = f
  BY DEF Sound
<1>2. /\ f \in [0..(s + c - 1) -> Slot]
      /\ \A i \in 0..(s + c - 1) : i \notin s..(s + l - 1) => f[i] = Hole
  BY <1>1 DEF Sound
<1>3. b = [i \in 0..(s + c - 1) |-> IF i \in s..(s + l - 1) THEN Hole ELSE f[i]]
  BY <1>1, <1>2
<1>4. q.start = s /\ q.len = 0 /\ q.cap = c /\ q.buf = b
  BY <1>1 DEF Resized, Filled
<1> HIDE DEF b, q
<1>5. b \in [0..(s + c - 1) -> Slot] /\ \A i \in 0..(s + c - 1) : b[i] = Hole
  BY <1>2, <1>3 DEF Slot
<1>6. Sound(q)
  BY <1>4, <1>5 DEF Sound
<1>7. Live(q) = <<>>
  BY <1>4 DEF Live
<1> QED
  BY <1>6, <1>7 DEF b, q

(* A slot of a sequence is the last that holds something.                  *)
LEMMA LastExists ==
  ASSUME NEW l \in Nat, NEW f
  PROVE  \E n \in 0..l : /\ n = 0 \/ f[n] # Hole
                         /\ \A k \in (n + 1)..l : f[k] = Hole
<1> DEFINE R == OpToRel(<, Nat)
           T == {n \in 0..l : \A k \in (n + 1)..l : f[k] = Hole}
<1>1. l \in T
  OBVIOUS
<1>2. T \subseteq Nat /\ T # {}
  BY <1>1
<1> HIDE DEF T
<1>3. PICK n \in T : \A m \in T : ~(<<m, n>> \in R)
  <2> HIDE DEF R
  <2>1. IsWellFoundedOn(R, Nat)
    BY NatLessThanWellFounded DEF R
  <2> QED
    BY <1>2, <2>1, WFMin
<1>4. \A m \in T : ~(m < n)
  BY <1>2, <1>3 DEF OpToRel
<1>5. n \in 0..l /\ \A k \in (n + 1)..l : f[k] = Hole
  BY <1>3 DEF T
<1>6. n = 0 \/ f[n] # Hole
  <2> SUFFICES ASSUME n # 0, f[n] = Hole PROVE FALSE
    OBVIOUS
  <2>1. PICK m \in 0..l : m = n - 1
    BY <1>5
  <2>2. \A k \in (m + 1)..l : k = n \/ k \in (n + 1)..l
    BY <2>1, <1>5
  <2>3. m \in T
    BY <2>2, <1>5 DEF T
  <2> QED
    BY <2>1, <2>3, <1>4, <1>5
<1> QED
  BY <1>5, <1>6

LEMMA LastUnique ==
  ASSUME NEW l \in Nat, NEW f, NEW m \in 0..l, NEW n \in 0..l,
         m = 0 \/ f[m] # Hole, \A k \in (m + 1)..l : f[k] = Hole,
         n = 0 \/ f[n] # Hole, \A k \in (n + 1)..l : f[k] = Hole
  PROVE  m = n
<1>1. CASE m < n
  BY <1>1
<1>2. CASE n < m
  BY <1>2
<1> QED
  BY <1>1, <1>2

(* Without the holes at its end, a window is what the contract trims.      *)
LEMMA PastHolesSound ==
  ASSUME NEW p, Sound(p)
  PROVE  Sound(PastHoles(p)) /\ Live(PastHoles(p)) = Contract!Trimmed(Live(p))
<1>1. PICK l \in Nat : p.len = l
  BY DEF Sound
<1>2. PICK f \in Seq(Slot) : f = Live(p) /\ Len(f) = l /\ \A k \in 1..l : f[k] = p.buf[p.start + k - 1]
  BY <1>1, LiveIsSequence
<1> DEFINE Last(n) == /\ n = 0 \/ f[n] # Hole
                      /\ \A k \in (n + 1)..l : f[k] = Hole
<1>3. \E n \in 0..l : Last(n)
  BY LastExists
<1> DEFINE m == LastStored(p)
           n == CHOOSE x \in 0..Len(f) : /\ x = 0 \/ f[x] # Hole
                                         /\ \A k \in (x + 1)..Len(f) : f[k] = Hole
<1>4. n \in 0..l /\ Last(n)
  BY <1>2, <1>3
<1>5. m \in 0..l /\ Last(m)
  <2>1. \A x \in 0..l : Last(x) <=> /\ x = 0 \/ p.buf[p.start + x - 1] # Hole
                                    /\ \A k \in (x + 1)..l : p.buf[p.start + k - 1] = Hole
    <3>1. \A x \in 0..l : x = 0 \/ f[x] = p.buf[p.start + x - 1]
      BY <1>2
    <3>2. \A x \in 0..l : \A k \in (x + 1)..l : f[k] = p.buf[p.start + k - 1]
      BY <1>2
    <3> QED
      BY <3>1, <3>2
  <2>2. \E x \in 0..l : /\ x = 0 \/ p.buf[p.start + x - 1] # Hole
                        /\ \A k \in (x + 1)..l : p.buf[p.start + k - 1] = Hole
    BY <1>3, <2>1
  <2> HIDE DEF Last
  <2>3. m \in 0..l /\ (/\ m = 0 \/ p.buf[p.start + m - 1] # Hole
                       /\ \A k \in (m + 1)..l : p.buf[p.start + k - 1] = Hole)
    BY <1>1, <2>2 DEF LastStored
  <2> QED
    BY <2>1, <2>3
<1>6. Contract!Trimmed(f) = SubSeq(f, 1, n)
  BY DEF Contract!Trimmed
<1> HIDE DEF m, n
<1>7. m = n
  BY <1>4, <1>5, LastUnique
<1>8. PastHoles(p) = Resized(p, p.start, m, p.cap)
  BY DEF PastHoles, m
<1>9. /\ Sound(Resized(p, p.start, m, p.cap))
      /\ Live(Resized(p, p.start, m, p.cap)) = SubSeq(Live(p), 1, m)
  BY <1>1, <1>2, <1>5, ShrunkSound
<1> QED
  BY <1>2, <1>6, <1>7, <1>8, <1>9

-----------------------------------------------------------------------------
(* The inductive invariant.                                                *)

(* The header describes the buffer, and the vector holds slots.            *)
ArrayIInv == Sound(Parts) /\ vec \in Seq(Slot)

(* A header takes the geometry it is given, narrow or wide: a number that  *)
(* fits a narrow field keeps its value there.                              *)
LEMMA Stored ==
  ASSUME NEW p, Sound(p), StoreParts(p)
  PROVE  Sound(Parts)' /\ Live(Parts)' = Live(p)
<1>1. Kept(p) = [start |-> p.start, len |-> p.len, cap |-> p.cap]
  <2>1. \A n \in Nat : n <= Narrow => n % (Narrow + 1) = n
    BY NumbersAssumption
  <2> QED
    BY <2>1 DEF Kept, Fits, Sound
<1>2. /\ Parts'.start = p.start /\ Parts'.len = p.len /\ Parts'.cap = p.cap
      /\ Parts'.buf = p.buf
  BY <1>1 DEF StoreParts, Parts
<1> QED
  BY <1>2 DEF Sound, Live

(* What the contract speaks of.                                            *)
Shown == <<Contents, given, readonly>>

LEMMA PerlStores ==
  ASSUME ArrayIInv, PerlCall, NEW p, Sound(p), StoreParts(p)
  PROVE  /\ ArrayIInv' /\ Contents = Live(Parts) /\ Contents' = Live(p)
         /\ ~readonly /\ UNCHANGED readonly
<1>1. Sound(Parts)' /\ Live(Parts)' = Live(p)
  BY Stored
<1>2. engine = "Perl" /\ engine' = "Perl" /\ vec' = vec /\ ~readonly /\ readonly' = readonly
  BY DEF PerlCall, Calls
<1> QED
  BY <1>1, <1>2 DEF ArrayIInv, Contents

-----------------------------------------------------------------------------
(* Each operation of PerlArray keeps the header true and is the operation  *)
(* of the contract, or, when its allocation fails, shows no change.        *)

(* set, which reaches the index first.                                     *)
LEMMA PutReached ==
  ASSUME NEW p, Sound(p), NEW i \in Nat, NEW g \in ExtendTo(p, i), g[2], NEW slot \in Slot
  PROVE  /\ Sound(Put(g[1], i, slot))
         /\ Live(Put(g[1], i, slot)) = [Contract!Reaching(Live(p), i) EXCEPT ![i + 1] = slot]
         /\ i \in 0..(g[1].len - 1)
<1>1. PICK r : r = g[1]
  OBVIOUS
<1>2. Sound(r) /\ r.len = Greatest(p.len, i + 1) /\ Live(r) = Contract!Reaching(Live(p), i)
  BY <1>1, ExtendSound
<1>3. i \in 0..(r.len - 1)
  BY <1>2 DEF Greatest, Sound
<1>4. Sound(Put(r, i, slot)) /\ Live(Put(r, i, slot)) = [Live(r) EXCEPT ![i + 1] = slot]
  <2>1. Sound(r)
    BY <1>2
  <2>2. Sound(Put(r, i, slot))
    BY <2>1, <1>3, PutSound
  <2>3. Live(Put(r, i, slot)) = [Live(r) EXCEPT ![i + 1] = slot]
    BY <2>1, <1>3, PutLive
  <2> QED
    BY <2>2, <2>3
<1> QED
  BY <1>1, <1>2, <1>3, <1>4

LEMMA PerlSetMaps ==
  ASSUME ArrayIInv, NEW i \in Indices, NEW v \in Values, PerlSet(i, v)
  PROVE  ArrayIInv' /\ (Contract!Set(i, v) \/ UNCHANGED Shown)
<1>1. Sound(Parts) /\ PerlCall /\ i \in Nat /\ v \in Slot
  BY NumbersAssumption DEF ArrayIInv, PerlSet, Slot
<1>2. PICK g \in ExtendTo(Parts, i) :
        \/ g[2] /\ StoreParts(Put(g[1], i, v)) /\ given' = <<"set", Undef>>
        \/ Fails("set", g) /\ StoreParts(g[1]) /\ UNCHANGED given
  BY DEF PerlSet
<1>3. CASE g[2] /\ StoreParts(Put(g[1], i, v)) /\ given' = <<"set", Undef>>
  <2>1. PICK q : q = Put(g[1], i, v)
    OBVIOUS
  <2>2. Sound(q) /\ Live(q) = [Contract!Reaching(Live(Parts), i) EXCEPT ![i + 1] = v]
    BY <1>1, <1>3, <2>1, PutReached
  <2>3. /\ ArrayIInv' /\ Contents = Live(Parts) /\ Contents' = Live(q)
        /\ ~readonly /\ UNCHANGED readonly
    BY <1>1, <1>3, <2>1, <2>2, PerlStores
  <2> QED
    BY <1>3, <2>2, <2>3 DEF Contract!Set, Contract!Write
<1>4. CASE Fails("set", g) /\ StoreParts(g[1]) /\ UNCHANGED given
  <2>1. PICK q : q = g[1]
    OBVIOUS
  <2>2. Sound(q) /\ Live(q) = Live(Parts)
    BY <1>1, <1>4, <2>1, ExtendSound DEF Fails
  <2>3. /\ ArrayIInv' /\ Contents = Live(Parts) /\ Contents' = Live(q) /\ UNCHANGED readonly
    BY <1>1, <1>4, <2>1, <2>2, PerlStores
  <2> QED
    BY <1>4, <2>2, <2>3 DEF Shown
<1> QED
  BY <1>2, <1>3, <1>4

(* ensure_element.  It fails without storing the geometry it has grown the *)
(* buffer to (containers.rs:363), so this is about those that succeed.     *)
EnsureSucceeds == "ensure_element" \notin Failing

LEMMA PerlEnsureElementMaps ==
  ASSUME EnsureSucceeds, ArrayIInv, NEW i \in Indices, PerlEnsureElement(i)
  PROVE  ArrayIInv' /\ Contract!EnsureElement(i)
<1>1. Sound(Parts) /\ PerlCall /\ i \in Nat
  BY NumbersAssumption DEF ArrayIInv, PerlEnsureElement
<1>2. PICK g \in ExtendTo(Parts, i) :
        /\ g[2] /\ StoreParts(Put(g[1], i, Read(g[1].buf[g[1].start + i])))
        /\ given' = <<"ensure_element", Read(g[1].buf[g[1].start + i])>>
  BY DEF PerlEnsureElement, EnsureSucceeds, Fails
<1> DEFINE s == Contract!Reaching(Live(Parts), i)
<1>3. PICK r : r = g[1]
  OBVIOUS
<1>4. Sound(r) /\ r.len = Greatest(Parts.len, i + 1) /\ Live(r) = s
  BY <1>1, <1>2, <1>3, ExtendSound
<1>5. i + 1 \in 1..r.len /\ r.start + i = r.start + (i + 1) - 1
  <2>1. i \in 0..(r.len - 1)
    <3>1. Hole \in Slot
      BY DEF Slot
    <3> QED
      BY <1>1, <1>2, <1>3, <3>1, PutReached
  <2>2. r.start \in Nat /\ r.len \in Nat
    BY <1>4 DEF Sound
  <2> QED
    BY <2>1, <2>2, <1>1
<1>6. s[i + 1] = r.buf[r.start + i] /\ s[i + 1] \in Slot
  <2>1. Live(r)[i + 1] = r.buf[r.start + (i + 1) - 1]
    BY <1>4, <1>5, LiveIsSequence
  <2>2. Live(r) \in Seq(Slot) /\ Len(Live(r)) = r.len
    BY <1>4, LiveIsSequence
  <2>3. Live(r)[i + 1] \in Slot
    BY <2>2, <1>5
  <2> QED
    BY <1>4, <1>5, <2>1, <2>3
<1>7. Read(s[i + 1]) \in Slot /\ Contract!Read(s[i + 1]) = Read(s[i + 1])
  BY <1>6 DEF Read, Slot, Contract!Read
<1> HIDE DEF s
<1>8. PICK slot \in Slot : slot = Read(s[i + 1])
  BY <1>7
<1>9. PICK q : q = Put(g[1], i, slot)
  OBVIOUS
<1>10. Sound(q) /\ Live(q) = [s EXCEPT ![i + 1] = slot]
  BY <1>1, <1>2, <1>9, PutReached DEF s
<1>11. StoreParts(q) /\ given' = <<"ensure_element", slot>>
  BY <1>2, <1>3, <1>6, <1>8, <1>9
<1>12. /\ ArrayIInv' /\ Contents = Live(Parts) /\ Contents' = Live(q)
       /\ ~readonly /\ UNCHANGED readonly
  BY <1>1, <1>10, <1>11, PerlStores
<1> QED
  BY <1>7, <1>8, <1>10, <1>11, <1>12 DEF Contract!EnsureElement, Contract!Write, s

(* A call that finds nothing to do stores the geometry it read.            *)
LEMMA PartsStored ==
  ASSUME ArrayIInv, PerlCall, StoreParts(Parts)
  PROVE  /\ ArrayIInv' /\ Contents = Live(Parts) /\ Contents' = Live(Parts)
         /\ ~readonly /\ UNCHANGED readonly
<1>1. PICK p : p = Parts
  OBVIOUS
<1>2. Sound(p) /\ StoreParts(p)
  BY <1>1 DEF ArrayIInv
<1> QED
  BY <1>1, <1>2, PerlStores

(* delete.                                                                 *)
LEMMA PerlDeleteMaps ==
  ASSUME ArrayIInv, NEW i \in Indices, PerlDelete(i)
  PROVE  ArrayIInv' /\ Contract!Delete(i)
<1>1. PICK p : p = Parts
  OBVIOUS
<1>2. /\ Sound(p) /\ PerlCall /\ i \in Nat /\ Hole \in Slot
      /\ p.len = hdr.len /\ p.start = hdr.start
  BY <1>1, NumbersAssumption DEF ArrayIInv, PerlDelete, Slot, Parts
<1>3. Len(Live(p)) = p.len /\ p.len \in Nat
  BY <1>2, LiveIsSequence DEF Sound
<1>4. CASE i >= hdr.len
  <2>1. StoreParts(Parts) /\ given' = <<"delete", Undef>>
    BY <1>4 DEF PerlDelete
  <2>2. /\ ArrayIInv' /\ Contents = Live(Parts) /\ Contents' = Live(Parts)
        /\ ~readonly /\ UNCHANGED readonly
    BY <1>2, <2>1, PartsStored
  <2> QED
    BY <1>1, <1>2, <1>3, <1>4, <2>1, <2>2 DEF Contract!Delete, Contract!Write
<1>5. CASE ~(i >= hdr.len)
  <2>1. PICK q : q = Put(p, i, Hole)
    OBVIOUS
  <2>2. i \in 0..(p.len - 1) /\ i + 1 \in 1..p.len /\ p.start + i = p.start + (i + 1) - 1
    BY <1>2, <1>3, <1>5 DEF Sound
  <2>3. Sound(q) /\ Live(q) = [Live(p) EXCEPT ![i + 1] = Hole]
    <3>1. Sound(q)
      BY <1>2, <2>1, <2>2, PutSound
    <3> QED
      BY <3>1, <1>2, <2>1, <2>2, PutLive
  <2>4. given' = <<"delete", Read(p.buf[p.start + i])>>
    BY <1>1, <1>2, <1>5 DEF PerlDelete
  <2>5. Live(p)[i + 1] = p.buf[p.start + i]
    BY <1>2, <2>2, LiveIsSequence
  <2>6. given' = <<"delete", Contract!Read(Live(p)[i + 1])>>
    BY <2>4, <2>5 DEF Read, Contract!Read
  <2>7. CASE i = hdr.len - 1
    <3>1. PICK z : z = PastHoles(q)
      OBVIOUS
    <3>2. Sound(z) /\ Live(z) = Contract!Trimmed(Live(q))
      BY <2>3, <3>1, PastHolesSound
    <3>3. StoreParts(z)
      BY <1>1, <1>5, <2>1, <2>7, <3>1 DEF PerlDelete
    <3>4. /\ ArrayIInv' /\ Contents = Live(Parts) /\ Contents' = Live(z)
          /\ ~readonly /\ UNCHANGED readonly
      BY <1>2, <3>2, <3>3, PerlStores
    <3> QED
      BY <1>1, <1>2, <1>3, <1>5, <2>3, <2>6, <3>2, <3>4 DEF Contract!Delete, Contract!Write
  <2>8. CASE i # hdr.len - 1
    <3>1. StoreParts(q)
      BY <1>1, <1>5, <2>1, <2>8 DEF PerlDelete
    <3>2. /\ ArrayIInv' /\ Contents = Live(Parts) /\ Contents' = Live(q)
          /\ ~readonly /\ UNCHANGED readonly
      BY <1>2, <2>3, <3>1, PerlStores
    <3>3. i + 1 < Len(Live(p))
      BY <1>2, <1>3, <1>5, <2>2, <2>8
    <3> QED
      BY <1>1, <1>2, <1>3, <1>5, <2>3, <2>6, <3>2, <3>3 DEF Contract!Delete, Contract!Write
  <2> QED
    BY <2>7, <2>8
<1> QED
  BY <1>4, <1>5

(* Appending is reaching the index past the end and writing it.            *)
LEMMA AppendIsReach ==
  ASSUME NEW s \in Seq(Slot), NEW v \in Slot
  PROVE  [Contract!Reaching(s, Len(s)) EXCEPT ![Len(s) + 1] = v] = Append(s, v)
<1>1. PICK l \in Nat : l = Len(s)
  OBVIOUS
<1>2. Contract!Reaching(s, l) = [k \in 1..(l + 1) |-> IF k <= l THEN s[k] ELSE Hole]
  BY <1>1 DEF Contract!Reaching
<1>3. [Contract!Reaching(s, l) EXCEPT ![l + 1] = v] = [k \in 1..(l + 1) |-> IF k = l + 1 THEN v ELSE s[k]]
  BY <1>2
<1>4. Append(s, v) = [k \in 1..(l + 1) |-> IF k = l + 1 THEN v ELSE s[k]]
  <2>1. Append(s, v) \in Seq(Slot) /\ Len(Append(s, v)) = l + 1
    BY <1>1
  <2>2. \A k \in 1..(l + 1) : Append(s, v)[k] = IF k = l + 1 THEN v ELSE s[k]
    BY <1>1
  <2> DEFINE a == Append(s, v)
  <2>3. a = [k \in 1..(l + 1) |-> a[k]]
    <3> HIDE DEF a
    <3>1. a \in Seq(Slot) /\ Len(a) = l + 1
      BY <2>1 DEF a
    <3> QED
      BY <3>1
  <2> HIDE DEF a
  <2>4. \A k \in 1..(l + 1) : a[k] = IF k = l + 1 THEN v ELSE s[k]
    BY <2>2 DEF a
  <2>5. a = [k \in 1..(l + 1) |-> IF k = l + 1 THEN v ELSE s[k]]
    BY <2>3, <2>4
  <2> QED
    BY <2>5 DEF a
<1> QED
  BY <1>1, <1>3, <1>4

(* push_value.                                                             *)
LEMMA PerlPushMaps ==
  ASSUME ArrayIInv, NEW v \in Values, PerlPush(v)
  PROVE  ArrayIInv' /\ (Contract!Push(v) \/ UNCHANGED Shown)
<1>1. /\ Sound(Parts) /\ PerlCall /\ hdr.len \in Nat /\ v \in Slot
      /\ Live(Parts) \in Seq(Slot) /\ Len(Live(Parts)) = hdr.len
  <2>1. Sound(Parts) /\ PerlCall /\ v \in Slot /\ Parts.len = hdr.len
    BY DEF ArrayIInv, PerlPush, Slot, Parts
  <2> QED
    BY <2>1, LiveIsSequence DEF Sound
<1>2. PICK i \in Nat : i = hdr.len
  BY <1>1
<1>3. PICK g \in ExtendTo(Parts, i) :
        \/ g[2] /\ StoreParts(Put(g[1], i, v)) /\ given' = <<"push", Undef>>
        \/ Fails("push", g) /\ StoreParts(g[1]) /\ UNCHANGED given
  BY <1>2 DEF PerlPush
<1>4. CASE g[2] /\ StoreParts(Put(g[1], i, v)) /\ given' = <<"push", Undef>>
  <2>1. PICK q : q = Put(g[1], i, v)
    OBVIOUS
  <2>2. Sound(q) /\ Live(q) = [Contract!Reaching(Live(Parts), i) EXCEPT ![i + 1] = v]
    BY <1>1, <1>4, <2>1, PutReached
  <2>3. Live(q) = Append(Live(Parts), v)
    BY <1>1, <1>2, <2>2, AppendIsReach
  <2>4. /\ ArrayIInv' /\ Contents = Live(Parts) /\ Contents' = Live(q)
        /\ ~readonly /\ UNCHANGED readonly
    BY <1>1, <1>4, <2>1, <2>2, PerlStores
  <2> QED
    BY <1>4, <2>3, <2>4 DEF Contract!Push, Contract!Write
<1>5. CASE Fails("push", g) /\ StoreParts(g[1]) /\ UNCHANGED given
  <2>1. PICK q : q = g[1]
    OBVIOUS
  <2>2. Sound(q) /\ Live(q) = Live(Parts)
    BY <1>1, <1>5, <2>1, ExtendSound DEF Fails
  <2>3. /\ ArrayIInv' /\ Contents = Live(Parts) /\ Contents' = Live(q) /\ UNCHANGED readonly
    BY <1>1, <1>5, <2>1, <2>2, PerlStores
  <2> QED
    BY <1>5, <2>2, <2>3 DEF Shown
<1> QED
  BY <1>3, <1>4, <1>5

(* pop_value and shift_value empty a slot before the window gives it up.   *)
LEMMA Emptied ==
  ASSUME NEW p, Sound(p), NEW i \in 0..(p.len - 1)
  PROVE  LET q == Put(p, i, Hole)
         IN  /\ Sound(q) /\ q.start = p.start /\ q.len = p.len /\ q.cap = p.cap
             /\ Live(q) = [Live(p) EXCEPT ![i + 1] = Hole]
<1>1. Hole \in Slot
  BY DEF Slot
<1>2. /\ Sound(Put(p, i, Hole)) /\ Put(p, i, Hole).start = p.start
      /\ Put(p, i, Hole).len = p.len /\ Put(p, i, Hole).cap = p.cap
  BY <1>1, PutSound
<1> QED
  BY <1>1, <1>2, PutLive

LEMMA PerlPopMaps ==
  ASSUME ArrayIInv, PerlPop
  PROVE  ArrayIInv' /\ Contract!Pop
<1>1. PICK p : p = Parts
  OBVIOUS
<1>2. /\ Sound(p) /\ PerlCall /\ p.buf = buf
      /\ p.len = hdr.len /\ p.start = hdr.start /\ p.cap = hdr.cap
  BY <1>1 DEF ArrayIInv, PerlPop, Parts
<1>3. PICK l \in Nat : l = p.len
  BY <1>2 DEF Sound
<1>4. PICK s \in Seq(Slot) : s = Live(p) /\ Len(s) = l /\ \A k \in 1..l : s[k] = p.buf[p.start + k - 1]
  BY <1>2, <1>3, LiveIsSequence
<1>5. CASE l = 0
  <2>1. StoreParts(Parts) /\ given' = <<"pop", Undef>>
    BY <1>2, <1>3, <1>5 DEF PerlPop
  <2>2. /\ ArrayIInv' /\ Contents = Live(Parts) /\ Contents' = Live(Parts)
        /\ ~readonly /\ UNCHANGED readonly
    BY <1>2, <2>1, PartsStored
  <2>3. s = <<>>
    BY <1>4, <1>5
  <2> QED
    BY <1>1, <1>4, <2>1, <2>2, <2>3 DEF Contract!Pop, Contract!Write
<1>6. CASE l # 0
  <2>1. PICK i \in 0..(l - 1) : i = l - 1
    BY <1>6
  <2>2. PICK q : q = Put(p, i, Hole)
    OBVIOUS
  <2>3. /\ Sound(q) /\ q.start = p.start /\ q.len = l /\ q.cap = p.cap
        /\ Live(q) = [s EXCEPT ![i + 1] = Hole]
    BY <1>2, <1>3, <1>4, <2>1, <2>2, Emptied
  <2>4. i \in 0..q.len /\ \A k \in (i + 1)..q.len : Live(q)[k] = Hole
    BY <1>4, <2>1, <2>3
  <2>5. PICK z : z = Resized(q, q.start, i, q.cap)
    OBVIOUS
  <2>6. Sound(z) /\ Live(z) = SubSeq(Live(q), 1, i)
    BY <2>3, <2>4, <2>5, ShrunkSound
  <2>7. SubSeq(Live(q), 1, i) = SubSeq(s, 1, i)
    BY <1>4, <2>1, <2>3
  <2>8. StoreParts(z) /\ given' = <<"pop", Read(buf[hdr.start + hdr.len - 1])>>
    BY <1>1, <1>2, <1>3, <1>6, <2>1, <2>2, <2>3, <2>5 DEF PerlPop
  <2>9. /\ ArrayIInv' /\ Contents = Live(Parts) /\ Contents' = Live(z)
        /\ ~readonly /\ UNCHANGED readonly
    BY <1>2, <2>6, <2>8, PerlStores
  <2>10. given' = <<"pop", Contract!Read(s[l])>>
    BY <1>2, <1>3, <1>4, <1>6, <2>8 DEF Read, Contract!Read
  <2>11. s # <<>>
    BY <1>4, <1>6
  <2> QED
    BY <1>1, <1>4, <2>1, <2>6, <2>7, <2>9, <2>10, <2>11 DEF Contract!Pop, Contract!Write
<1> QED
  BY <1>5, <1>6

LEMMA PerlShiftMaps ==
  ASSUME ArrayIInv, PerlShift
  PROVE  ArrayIInv' /\ Contract!Shift
<1>1. PICK p : p = Parts
  OBVIOUS
<1>2. /\ Sound(p) /\ PerlCall /\ p.buf = buf
      /\ p.len = hdr.len /\ p.start = hdr.start /\ p.cap = hdr.cap
  BY <1>1 DEF ArrayIInv, PerlShift, Parts
<1>3. PICK l \in Nat : l = p.len
  BY <1>2 DEF Sound
<1>4. PICK s \in Seq(Slot) : s = Live(p) /\ Len(s) = l /\ \A k \in 1..l : s[k] = p.buf[p.start + k - 1]
  BY <1>2, <1>3, LiveIsSequence
<1>5. CASE l = 0
  <2>1. StoreParts(Parts) /\ given' = <<"shift", Undef>>
    BY <1>2, <1>3, <1>5 DEF PerlShift
  <2>2. /\ ArrayIInv' /\ Contents = Live(Parts) /\ Contents' = Live(Parts)
        /\ ~readonly /\ UNCHANGED readonly
    BY <1>2, <2>1, PartsStored
  <2>3. s = <<>>
    BY <1>4, <1>5
  <2> QED
    BY <1>1, <1>4, <2>1, <2>2, <2>3 DEF Contract!Shift, Contract!Write
<1>6. CASE l # 0
  <2>1. PICK i \in 0..(l - 1) : i = 0
    BY <1>6
  <2>2. PICK q : q = Put(p, i, Hole)
    OBVIOUS
  <2>3. /\ Sound(q) /\ q.start = p.start /\ q.len = l /\ q.cap = p.cap
        /\ Live(q) = [s EXCEPT ![i + 1] = Hole]
    BY <1>2, <1>3, <1>4, <2>1, <2>2, Emptied
  <2>4. q.len > 0 /\ Live(q)[1] = Hole
    BY <1>4, <1>6, <2>1, <2>3
  <2>5. PICK z : z = Resized(q, q.start + 1, q.len - 1, q.cap - 1)
    OBVIOUS
  <2>6. Sound(z) /\ Live(z) = Tail(Live(q))
    BY <2>3, <2>4, <2>5, DroppedFirstSound
  <2>7. Tail(Live(q)) = Tail(s)
    BY <1>4, <1>6, <2>1, <2>3
  <2>8. StoreParts(z) /\ given' = <<"shift", Read(buf[hdr.start])>>
    BY <1>1, <1>2, <1>3, <1>6, <2>1, <2>2, <2>3, <2>5 DEF PerlShift
  <2>9. /\ ArrayIInv' /\ Contents = Live(Parts) /\ Contents' = Live(z)
        /\ ~readonly /\ UNCHANGED readonly
    BY <1>2, <2>6, <2>8, PerlStores
  <2>10. s[1] = buf[hdr.start]
    <3>1. hdr.start \in Nat
      BY <1>2 DEF Sound
    <3>2. hdr.start + 1 - 1 = hdr.start
      BY <3>1
    <3> QED
      BY <1>2, <1>4, <1>6, <3>2
  <2>11. given' = <<"shift", Contract!Read(Head(s))>> /\ s # <<>>
    BY <1>4, <1>6, <2>8, <2>10 DEF Read, Contract!Read
  <2> QED
    BY <1>1, <1>4, <2>6, <2>7, <2>9, <2>11 DEF Contract!Shift, Contract!Write
<1> QED
  BY <1>5, <1>6

(* unshift_value: a slot of the gap, or room and a gap of its own.         *)
LEMMA FrontWritten ==
  ASSUME NEW p, Sound(p), NEW s \in Seq(Slot), p.len = Len(s) + 1, Live(p) = <<Hole>> \o s,
         NEW v \in Slot
  PROVE  Sound(Put(p, 0, v)) /\ Live(Put(p, 0, v)) = <<v>> \o s
<1>1. PICK i \in 0..(p.len - 1) : i = 0
  BY DEF Sound
<1>2. Sound(Put(p, i, v))
  BY PutSound
<1>3. Live(Put(p, i, v)) = [Live(p) EXCEPT ![i + 1] = v]
  BY PutLive
<1>4. [<<Hole>> \o s EXCEPT ![1] = v] = <<v>> \o s
  <2> DEFINE a == <<Hole>> \o s
             b == <<v>> \o s
  <2>1. Hole \in Slot
    BY DEF Slot
  <2>2. /\ a \in Seq(Slot) /\ Len(a) = Len(s) + 1 /\ b \in Seq(Slot) /\ Len(b) = Len(s) + 1
        /\ b[1] = v /\ \A k \in 2..(Len(s) + 1) : a[k] = s[k - 1] /\ b[k] = s[k - 1]
    BY <2>1
  <2> HIDE DEF a, b
  <2>3. PICK l \in Nat : l = Len(s) + 1
    OBVIOUS
  <2>4. b = [k \in 1..l |-> b[k]] /\ [a EXCEPT ![1] = v] = [k \in 1..l |-> IF k = 1 THEN v ELSE a[k]]
    <3>1. b = [k \in 1..l |-> b[k]] /\ a = [k \in 1..l |-> a[k]]
      BY <2>2, <2>3
    <3>2. DOMAIN a = 1..l
      BY <2>2, <2>3
    <3>3. [a EXCEPT ![1] = v] = [k \in 1..l |-> IF k = 1 THEN v ELSE a[k]]
      BY <3>2
    <3> QED
      BY <3>1, <3>3
  <2>5. \A k \in 1..l : b[k] = IF k = 1 THEN v ELSE a[k]
    <3>1. \A k \in 1..l : k = 1 \/ k \in 2..l
      OBVIOUS
    <3> QED
      BY <2>2, <2>3, <3>1
  <2>6. [a EXCEPT ![1] = v] = b
    BY <2>4, <2>5
  <2> QED
    BY <2>6 DEF a, b
<1>5. Sound(Put(p, 0, v)) /\ Live(Put(p, 0, v)) = [Live(p) EXCEPT ![0 + 1] = v]
  BY <1>1, <1>2, <1>3
<1>6. 0 + 1 = 1
  OBVIOUS
<1> QED
  BY <1>4, <1>5, <1>6

LEMMA PerlUnshiftMaps ==
  ASSUME ArrayIInv, NEW v \in Values, PerlUnshift(v)
  PROVE  ArrayIInv' /\ (Contract!Unshift(v) \/ UNCHANGED Shown)
<1>1. PICK p : p = Parts
  OBVIOUS
<1>2. /\ Sound(p) /\ PerlCall /\ v \in Slot
      /\ p.len = hdr.len /\ p.start = hdr.start /\ p.cap = hdr.cap
  BY <1>1 DEF ArrayIInv, PerlUnshift, Slot, Parts
<1>3. PICK l \in Nat : l = p.len
  BY <1>2 DEF Sound
<1>4. PICK s \in Seq(Slot) : s = Live(p) /\ Len(s) = l
  BY <1>2, <1>3, LiveIsSequence
<1>5. ASSUME NEW q, Sound(q), q.len = l + 1, Live(q) = <<Hole>> \o s,
             StoreParts(Put(q, 0, v)), given' = <<"unshift", Undef>>
      PROVE  ArrayIInv' /\ Contract!Unshift(v)
  <2>1. PICK z : z = Put(q, 0, v)
    OBVIOUS
  <2>2. Sound(z) /\ Live(z) = <<v>> \o s
    BY <1>2, <1>4, <1>5, <2>1, FrontWritten
  <2>3. /\ ArrayIInv' /\ Contents = Live(Parts) /\ Contents' = Live(z)
        /\ ~readonly /\ UNCHANGED readonly
    BY <1>2, <1>5, <2>1, <2>2, PerlStores
  <2> QED
    BY <1>1, <1>4, <1>5, <2>2, <2>3 DEF Contract!Unshift, Contract!Write
<1>6. CASE hdr.start > 0
  <2>1. PICK q : q = Resized(p, p.start - 1, p.len + 1, p.cap + 1)
    OBVIOUS
  <2>2. Sound(q) /\ q.len = l + 1 /\ Live(q) = <<Hole>> \o s
    BY <1>2, <1>3, <1>4, <1>6, <2>1, TookGapSound
  <2>3. StoreParts(Put(q, 0, v)) /\ given' = <<"unshift", Undef>>
    BY <1>1, <1>2, <1>6, <2>1 DEF PerlUnshift
  <2> QED
    BY <1>5, <2>2, <2>3
<1>7. CASE ~(hdr.start > 0)
  <2>1. PICK gap \in Nat : gap = Prepaid(p)
    BY <1>3 DEF Prepaid
  <2>2. PICK n \in Nat : n = l + 1 + gap
    OBVIOUS
  <2>3. PICK g \in Grow(p, n) :
          \/ g[2] /\ StoreParts(Put(SlideRight(g[1], gap), 0, v)) /\ given' = <<"unshift", Undef>>
          \/ Fails("unshift", g) /\ StoreParts(g[1]) /\ UNCHANGED given
    BY <1>1, <1>2, <1>3, <1>7, <2>1, <2>2 DEF PerlUnshift
  <2>4. PICK r : r = g[1]
    OBVIOUS
  <2>5. p.start = 0
    BY <1>2, <1>7 DEF Sound
  <2>6. Sound(r) /\ r.len = l /\ Live(r) = s /\ r.start = 0 /\ (g[2] => r.cap >= n)
    BY <1>2, <1>3, <1>4, <2>4, <2>5, GrowSound
  <2>7. CASE g[2] /\ StoreParts(Put(SlideRight(g[1], gap), 0, v)) /\ given' = <<"unshift", Undef>>
    <3>1. Prepaid(r) = gap
      BY <1>3, <2>1, <2>6 DEF Prepaid
    <3>2. r.len + 1 + Prepaid(r) <= r.cap
      BY <2>2, <2>6, <2>7, <3>1 DEF Sound
    <3>3. PICK q : q = SlideRight(r, Prepaid(r))
      OBVIOUS
    <3>4. Sound(q) /\ q.len = l + 1 /\ Live(q) = <<Hole>> \o s
      BY <2>6, <3>2, <3>3, SlideRightSound
    <3> QED
      BY <1>5, <2>4, <2>7, <3>1, <3>3, <3>4
  <2>8. CASE Fails("unshift", g) /\ StoreParts(g[1]) /\ UNCHANGED given
    <3>1. /\ ArrayIInv' /\ Contents = Live(Parts) /\ Contents' = Live(r) /\ UNCHANGED readonly
      BY <1>2, <2>4, <2>6, <2>8, PerlStores
    <3> QED
      BY <1>1, <1>4, <2>6, <2>8, <3>1 DEF Shown
  <2> QED
    BY <2>3, <2>7, <2>8
<1> QED
  BY <1>6, <1>7

LEMMA PerlClearMaps ==
  ASSUME ArrayIInv, PerlClear
  PROVE  ArrayIInv' /\ Contract!Clear
<1>1. PICK p : p = Parts
  OBVIOUS
<1>2. /\ Sound(p) /\ PerlCall /\ p.buf = buf
      /\ p.len = hdr.len /\ p.start = hdr.start /\ p.cap = hdr.cap
  BY <1>1 DEF ArrayIInv, PerlClear, Parts
<1>3. PICK b : b = [i \in DOMAIN p.buf |-> IF i \in p.start..(p.start + p.len - 1) THEN Hole ELSE p.buf[i]]
  OBVIOUS
<1>4. PICK q : q = Resized(Filled(p, b, {}), p.start, 0, p.cap)
  OBVIOUS
<1>5. Sound(q) /\ Live(q) = <<>>
  <2>1. PICK gone : gone = {}
    OBVIOUS
  <2>2. q = Resized(Filled(p, b, gone), p.start, 0, p.cap)
    BY <1>4, <2>1
  <2> QED
    BY <1>2, <1>3, <2>2, ClearedSound
<1>6. StoreParts(q) /\ given' = <<"clear", Undef>>
  BY <1>1, <1>2, <1>3, <1>4 DEF PerlClear, Window
<1>7. /\ ArrayIInv' /\ Contents = Live(Parts) /\ Contents' = Live(q)
      /\ ~readonly /\ UNCHANGED readonly
  BY <1>2, <1>5, <1>6, PerlStores
<1> QED
  BY <1>5, <1>6, <1>7 DEF Contract!Clear, Contract!Write

-----------------------------------------------------------------------------
(* The operations of ImmutableArray, whose vector is the sequence.         *)

LEMMA VectorStores ==
  ASSUME ArrayIInv, ImmutableCall, vec' \in Seq(Slot)
  PROVE  /\ ArrayIInv' /\ Contents = vec /\ Contents' = vec'
         /\ ~readonly /\ UNCHANGED readonly
<1>1. engine = "Immutable" /\ engine' = "Immutable" /\ ~readonly /\ UNCHANGED readonly
      /\ UNCHANGED <<hdr, buf, dead>>
  BY DEF ImmutableCall, Calls
<1>2. Contents = vec /\ Contents' = vec'
  BY <1>1 DEF Contents
<1>3. Parts' = Parts
  BY <1>1 DEF Parts
<1> QED
  BY <1>1, <1>2, <1>3 DEF ArrayIInv

LEMMA ReachingIsSequence ==
  ASSUME vec \in Seq(Slot), NEW i \in Nat
  PROVE  /\ Reaching(i) = Contract!Reaching(vec, i)
         /\ Reaching(i) \in Seq(Slot)
         /\ i + 1 \in 1..Len(Reaching(i))
<1>1. PICK m \in Nat : m = Greatest(Len(vec), i + 1)
  BY DEF Greatest
<1>2. m = (IF i < Len(vec) THEN Len(vec) ELSE i + 1) /\ i + 1 \in 1..m
  BY <1>1 DEF Greatest
<1>3. Reaching(i) = [k \in 1..m |-> IF k <= Len(vec) THEN vec[k] ELSE Hole]
  BY <1>1 DEF Reaching
<1>4. Contract!Reaching(vec, i) = [k \in 1..m |-> IF k <= Len(vec) THEN vec[k] ELSE Hole]
  BY <1>2 DEF Contract!Reaching
<1>5. Reaching(i) \in [1..m -> Slot]
  BY <1>3 DEF Slot
<1>6. Reaching(i) \in Seq(Slot) /\ Len(Reaching(i)) = m
  BY <1>5
<1> QED
  BY <1>2, <1>3, <1>4, <1>6

LEMMA SequenceWritten ==
  ASSUME NEW s \in Seq(Slot), NEW k \in 1..Len(s), NEW slot \in Slot
  PROVE  [s EXCEPT ![k] = slot] \in Seq(Slot) /\ Len([s EXCEPT ![k] = slot]) = Len(s)
OBVIOUS

LEMMA ImmutableMaps ==
  ASSUME ArrayIInv,
         \/ \E i \in Indices, v \in Values : ImmutableSet(i, v)
         \/ \E i \in Indices : ImmutableEnsureElement(i) \/ ImmutableDelete(i)
         \/ \E v \in Values : ImmutablePush(v) \/ ImmutableUnshift(v)
         \/ ImmutablePop \/ ImmutableShift \/ ImmutableClear
  PROVE  ArrayIInv' /\ Contract!Next
<1>1. vec \in Seq(Slot) /\ Indices \subseteq Nat /\ Values \subseteq Slot /\ Hole \in Slot
      /\ \A slot \in Slot : Read(slot) \in Slot /\ Read(slot) = Contract!Read(slot)
  BY NumbersAssumption DEF ArrayIInv, Slot, Read, Contract!Read
<1>2. \A slot : Read(slot) = Contract!Read(slot)
  BY DEF Read, Contract!Read
<1>3. ASSUME NEW i \in Indices, NEW v \in Values, ImmutableSet(i, v)
      PROVE  ArrayIInv' /\ Contract!Set(i, v)
  <2>1. ImmutableCall /\ vec' = [Reaching(i) EXCEPT ![i + 1] = v] /\ given' = <<"set", Undef>>
    BY <1>3 DEF ImmutableSet
  <2>2. PICK s \in Seq(Slot) : s = Reaching(i) /\ s = Contract!Reaching(vec, i) /\ i + 1 \in 1..Len(s)
    BY <1>1, ReachingIsSequence
  <2>3. vec' = [s EXCEPT ![i + 1] = v] /\ v \in Slot
    BY <1>1, <2>1, <2>2
  <2>4. vec' \in Seq(Slot)
    BY <2>2, <2>3, SequenceWritten
  <2>5. /\ ArrayIInv' /\ Contents = vec /\ Contents' = vec' /\ ~readonly /\ UNCHANGED readonly
    BY <2>1, <2>4, VectorStores
  <2> QED
    BY <2>1, <2>2, <2>3, <2>5 DEF Contract!Set, Contract!Write
<1>4. ASSUME NEW i \in Indices, ImmutableEnsureElement(i)
      PROVE  ArrayIInv' /\ Contract!EnsureElement(i)
  <2>1. PICK s \in Seq(Slot) : s = Reaching(i) /\ s = Contract!Reaching(vec, i) /\ i + 1 \in 1..Len(s)
    BY <1>1, ReachingIsSequence
  <2>2. PICK slot \in Slot : slot = Read(s[i + 1]) /\ slot = Contract!Read(s[i + 1])
    BY <1>1, <2>1
  <2>3. /\ ImmutableCall /\ vec' = [s EXCEPT ![i + 1] = slot] /\ given' = <<"ensure_element", slot>>
    BY <1>4, <2>1, <2>2 DEF ImmutableEnsureElement
  <2>4. vec' \in Seq(Slot)
    BY <2>1, <2>3, SequenceWritten
  <2>5. /\ ArrayIInv' /\ Contents = vec /\ Contents' = vec' /\ ~readonly /\ UNCHANGED readonly
    BY <2>3, <2>4, VectorStores
  <2> QED
    BY <2>1, <2>2, <2>3, <2>5 DEF Contract!EnsureElement, Contract!Write
<1>5. ASSUME NEW i \in Indices, ImmutableDelete(i)
      PROVE  ArrayIInv' /\ Contract!Delete(i)
  <2>1. ImmutableCall
    BY <1>5 DEF ImmutableDelete
  <2>2. CASE i >= Len(vec)
    <3>1. vec' = vec /\ given' = <<"delete", Undef>>
      BY <1>5, <2>2 DEF ImmutableDelete
    <3>2. /\ ArrayIInv' /\ Contents = vec /\ Contents' = vec' /\ ~readonly /\ UNCHANGED readonly
      BY <1>1, <2>1, <3>1, VectorStores
    <3> QED
      BY <2>2, <3>1, <3>2 DEF Contract!Delete, Contract!Write
  <2>3. CASE ~(i >= Len(vec))
    <3>1. PICK s \in Seq(Slot) : s = [vec EXCEPT ![i + 1] = Hole]
      <4>1. i + 1 \in 1..Len(vec)
        BY <1>1, <2>3
      <4> QED
        BY <4>1, <1>1, SequenceWritten
    <3>2. PICK l \in Nat : l = Len(s)
      OBVIOUS
    <3> DEFINE n == CHOOSE m \in 0..Len(s) : /\ m = 0 \/ s[m] # Hole
                                             /\ \A k \in (m + 1)..Len(s) : s[k] = Hole
    <3>3. n \in 0..l
      <4>1. \E m \in 0..l : /\ m = 0 \/ s[m] # Hole
                            /\ \A k \in (m + 1)..l : s[k] = Hole
        BY LastExists
      <4> QED
        BY <3>2, <4>1
    <3>4. vec' = SubSeq(s, 1, n) /\ given' = <<"delete", Read(vec[i + 1])>>
      BY <1>5, <2>3, <3>1 DEF ImmutableDelete
    <3>5. Contract!Trimmed(s) = SubSeq(s, 1, n)
      BY DEF Contract!Trimmed
    <3> HIDE DEF n
    <3>6. vec' \in Seq(Slot)
      BY <3>2, <3>3, <3>4
    <3>7. /\ ArrayIInv' /\ Contents = vec /\ Contents' = vec' /\ ~readonly /\ UNCHANGED readonly
      BY <2>1, <3>6, VectorStores
    <3> QED
      BY <1>2, <2>3, <3>1, <3>4, <3>5, <3>7 DEF Contract!Delete, Contract!Write
  <2> QED
    BY <2>2, <2>3
<1>6. ASSUME NEW v \in Values, ImmutablePush(v) \/ ImmutableUnshift(v)
      PROVE  ArrayIInv' /\ (Contract!Push(v) \/ Contract!Unshift(v))
  <2>1. /\ ImmutableCall
        /\ \/ vec' = Append(vec, v) /\ given' = <<"push", Undef>>
           \/ vec' = <<v>> \o vec /\ given' = <<"unshift", Undef>>
    BY <1>6 DEF ImmutablePush, ImmutableUnshift
  <2>2. v \in Slot
    BY <1>1
  <2>3. vec' \in Seq(Slot)
    <3>1. Append(vec, v) \in Seq(Slot) /\ <<v>> \o vec \in Seq(Slot)
      BY <1>1, <2>2
    <3> QED
      BY <2>1, <3>1
  <2>4. /\ ArrayIInv' /\ Contents = vec /\ Contents' = vec' /\ ~readonly /\ UNCHANGED readonly
    BY <2>1, <2>3, VectorStores
  <2> QED
    BY <2>1, <2>4 DEF Contract!Push, Contract!Unshift, Contract!Write
<1>7. ASSUME ImmutablePop
      PROVE  ArrayIInv' /\ Contract!Pop
  <2>1. ImmutableCall
    BY <1>7 DEF ImmutablePop
  <2>2. vec' \in Seq(Slot)
    BY <1>1, <1>7 DEF ImmutablePop
  <2>3. /\ ArrayIInv' /\ Contents = vec /\ Contents' = vec' /\ ~readonly /\ UNCHANGED readonly
    BY <2>1, <2>2, VectorStores
  <2> QED
    BY <1>2, <1>7, <2>3 DEF ImmutablePop, Contract!Pop, Contract!Write
<1>8. ASSUME ImmutableShift
      PROVE  ArrayIInv' /\ Contract!Shift
  <2>1. ImmutableCall
    BY <1>8 DEF ImmutableShift
  <2>2. vec' \in Seq(Slot)
    <3>1. vec # <<>> => Tail(vec) \in Seq(Slot)
      BY <1>1
    <3> QED
      BY <1>1, <1>8, <3>1 DEF ImmutableShift
  <2>3. /\ ArrayIInv' /\ Contents = vec /\ Contents' = vec' /\ ~readonly /\ UNCHANGED readonly
    BY <2>1, <2>2, VectorStores
  <2> QED
    BY <1>2, <1>8, <2>3 DEF ImmutableShift, Contract!Shift, Contract!Write
<1>9. ASSUME ImmutableClear
      PROVE  ArrayIInv' /\ Contract!Clear
  <2>1. ImmutableCall /\ vec' = <<>> /\ given' = <<"clear", Undef>>
    BY <1>9 DEF ImmutableClear
  <2>2. vec' \in Seq(Slot)
    BY <2>1
  <2>3. /\ ArrayIInv' /\ Contents = vec /\ Contents' = vec' /\ ~readonly /\ UNCHANGED readonly
    BY <2>1, <2>2, VectorStores
  <2> QED
    BY <2>1, <2>3 DEF Contract!Clear, Contract!Write
<1>10. CASE \E i \in Indices, v \in Values : ImmutableSet(i, v)
  BY <1>3, <1>10 DEF Contract!Next
<1>11. CASE \E i \in Indices : ImmutableEnsureElement(i) \/ ImmutableDelete(i)
  BY <1>4, <1>5, <1>11 DEF Contract!Next
<1>12. CASE \E v \in Values : ImmutablePush(v) \/ ImmutableUnshift(v)
  BY <1>6, <1>12 DEF Contract!Next
<1>13. CASE ImmutablePop \/ ImmutableShift \/ ImmutableClear
  BY <1>7, <1>8, <1>9, <1>13 DEF Contract!Next
<1> QED
  BY <1>10, <1>11, <1>12, <1>13

-----------------------------------------------------------------------------
LEMMA PerlMaps ==
  ASSUME EnsureSucceeds, ArrayIInv,
         \/ \E i \in Indices, v \in Values : PerlSet(i, v)
         \/ \E i \in Indices : PerlEnsureElement(i) \/ PerlDelete(i)
         \/ \E v \in Values : PerlPush(v) \/ PerlUnshift(v)
         \/ PerlPop \/ PerlShift \/ PerlClear
  PROVE  ArrayIInv' /\ (Contract!Next \/ UNCHANGED Shown)
<1>1. CASE \E i \in Indices, v \in Values : PerlSet(i, v)
  BY <1>1, PerlSetMaps DEF Contract!Next
<1>2. CASE \E i \in Indices : PerlEnsureElement(i) \/ PerlDelete(i)
  BY <1>2, PerlEnsureElementMaps, PerlDeleteMaps DEF Contract!Next
<1>3. CASE \E v \in Values : PerlPush(v) \/ PerlUnshift(v)
  BY <1>3, PerlPushMaps, PerlUnshiftMaps DEF Contract!Next
<1>4. CASE PerlPop \/ PerlShift \/ PerlClear
  BY <1>4, PerlPopMaps, PerlShiftMaps, PerlClearMaps DEF Contract!Next
<1> QED
  BY <1>1, <1>2, <1>3, <1>4

LEMMA InitHolds == Init => ArrayIInv /\ Contract!Init
<1> SUFFICES ASSUME Init PROVE ArrayIInv /\ Contract!Init
  OBVIOUS
<1>1. Parts.start = 0 /\ Parts.len = 0 /\ Parts.cap = 0 /\ Parts.buf = [i \in {} |-> Hole]
  BY DEF Init, Parts
<1>2. 0..(0 + 0 - 1) = {}
  OBVIOUS
<1>3. Parts.buf \in [0..(0 + 0 - 1) -> Slot]
  BY <1>1, <1>2
<1>4. Sound(Parts)
  BY <1>1, <1>2, <1>3 DEF Sound
<1>5. Live(Parts) = <<>>
  BY <1>1 DEF Live
<1> QED
  BY <1>4, <1>5 DEF Init, ArrayIInv, Contract!Init, Contents

LEMMA StepHolds ==
  ASSUME EnsureSucceeds, ArrayIInv, [Next]_vars
  PROVE  ArrayIInv' /\ (Contract!Next \/ UNCHANGED Shown)
<1>1. CASE UNCHANGED vars
  <2>1. Parts' = Parts /\ vec' = vec /\ UNCHANGED <<engine, given, readonly>>
    BY <1>1 DEF vars, Parts
  <2> QED
    BY <2>1 DEF ArrayIInv, Shown, Contents
<1>2. CASE SetReadonly
  <2>1. /\ Parts' = Parts /\ vec' = vec /\ UNCHANGED <<engine, given>>
        /\ readonly' = ~readonly
    BY <1>2 DEF SetReadonly, Parts
  <2>2. Contents' = Contents
    BY <2>1 DEF Contents
  <2> QED
    BY <2>1, <2>2 DEF ArrayIInv, Contract!Next, Contract!SetReadonly
<1>3. CASE Next /\ ~SetReadonly
  BY <1>3, PerlMaps, ImmutableMaps DEF Next
<1> QED
  BY <1>1, <1>2, <1>3

(* The header describes the buffer in every reachable state, however the   *)
(* array slid, grew, spilled or failed to: the gap and the spare room are  *)
(* all there is beside the window, and hold nothing (Geometry, whose       *)
(* unsafe blocks rely on it).                                              *)
THEOREM HeaderDescribesBuffer ==
  ASSUME EnsureSucceeds
  PROVE  Spec => []WindowHolds
<1>1. ArrayIInv => WindowHolds
  <2> SUFFICES ASSUME ArrayIInv PROVE WindowHolds
    OBVIOUS
  <2>1. Parts.start = hdr.start /\ Parts.len = hdr.len /\ Parts.cap = hdr.cap /\ Parts.buf = buf
    BY DEF Parts
  <2> QED
    BY <2>1 DEF ArrayIInv, Sound, WindowHolds, Window
<1>2. Init => ArrayIInv
  BY InitHolds
<1>3. ArrayIInv /\ [Next]_vars => ArrayIInv'
  BY StepHolds
<1> QED
  BY <1>1, <1>2, <1>3, PTL DEF Spec

(* Either engine is the array its documentation promises, and returns what *)
(* it promises: each call is one step of the contract, and one whose       *)
(* allocation fails is none (containers.rs, PerlArray and ImmutableArray). *)
THEOREM EnginesKeepContract ==
  ASSUME EnsureSucceeds
  PROVE  Spec => KeepsContract
<1>1. Init => ArrayIInv /\ Contract!Init
  BY InitHolds
<1>2. ArrayIInv /\ [Next]_vars => ArrayIInv' /\ [Contract!Next]_<<Contents, given, readonly>>
  BY StepHolds DEF Shown
<1> QED
  BY <1>1, <1>2, PTL DEF Spec, KeepsContract, Contract!Spec, Contract!vars


-----------------------------------------------------------------------------
(* Tables.                                                                 *)

KeysOf(t) == {t[b] : b \in DOMAIN t} \ {Free}
KeysFrom(t, c) == {t[b] : b \in {d \in DOMAIN t : d >= c}} \ {Free}

(* n buckets, no key in two of them.                                       *)
Tidy(t, n) ==
  /\ n \in Sizes \cup {0}
  /\ t \in [0..(n - 1) -> Keys \cup {Free}]
  /\ \A b, c \in 0..(n - 1) : t[b] = t[c] /\ t[b] # Free => b = c

(* The room a table of n buckets and u tombs has left; the code never      *)
(* takes more than there is.                                               *)
Spare(t, n, u) == (IF n = 0 THEN 0 ELSE n - 1) - Cardinality(KeysOf(t)) - u

Spacious(t, n, u) == Tidy(t, n) /\ u \in Nat /\ Spare(t, n, u) >= 0

LEMMA SizesAreNat ==
  ASSUME TablesAssumption, NEW n \in Sizes \cup {0}
  PROVE  n \in Nat
BY DEF TablesAssumption

(* What n buckets hold.                                                    *)
LEMMA KeysInTable ==
  ASSUME TablesAssumption, NEW t, NEW n, Tidy(t, n)
  PROVE  /\ n \in Nat /\ DOMAIN t = 0..(n - 1)
         /\ KeysOf(t) \subseteq Keys
         /\ \A k : k \in KeysOf(t) <=> k # Free /\ \E b \in 0..(n - 1) : t[b] = k
         /\ \A c \in Nat : \A k : k \in KeysFrom(t, c) <=>
              k # Free /\ \E b \in 0..(n - 1) : b >= c /\ t[b] = k
<1>1. n \in Nat
  BY SizesAreNat DEF Tidy
<1>2. DOMAIN t = 0..(n - 1)
  BY DEF Tidy
<1>3. \A b \in 0..(n - 1) : t[b] \in Keys \cup {Free}
  BY DEF Tidy
<1>4. \A k : k \in KeysOf(t) <=> k # Free /\ \E b \in 0..(n - 1) : t[b] = k
  BY <1>2 DEF KeysOf
<1>5. \A c \in Nat : \A k : k \in KeysFrom(t, c) <=>
              k # Free /\ \E b \in 0..(n - 1) : b >= c /\ t[b] = k
  BY <1>2 DEF KeysFrom
<1> QED
  BY <1>1, <1>2, <1>3, <1>4, <1>5

LEMMA KeysCounted ==
  ASSUME TablesAssumption, NEW S \in SUBSET Keys
  PROVE  IsFiniteSet(S) /\ Cardinality(S) \in Nat /\ Cardinality(S) <= Cardinality(Keys)
BY FS_Subset, FS_CardinalityType DEF TablesAssumption

LEMMA BucketsCounted ==
  ASSUME NEW n \in Nat
  PROVE  /\ Cardinality(0..(n - 1)) = n
         /\ (0..(n - 1) = {}) <=> n = 0
<1>1. Cardinality(0..(n - 1)) = IF 0 > n - 1 THEN 0 ELSE (n - 1) - 0 + 1
  BY FS_Interval
<1> QED
  BY <1>1

LEMMA LowestExists ==
  ASSUME NEW S, S \subseteq Nat, S # {}
  PROVE  Lowest(S) \in S /\ \A m \in S : Lowest(S) <= m
<1> DEFINE R == OpToRel(<, Nat)
<1>1. PICK n \in S : \A m \in S : ~(<<m, n>> \in R)
  <2> HIDE DEF R
  <2>1. IsWellFoundedOn(R, Nat)
    BY NatLessThanWellFounded DEF R
  <2> QED
    BY <2>1, WFMin
<1>2. \A m \in S : ~(m < n)
  BY <1>1 DEF OpToRel
<1>3. \A m \in S : n <= m
  BY <1>2
<1> QED
  BY <1>3 DEF Lowest

(* The whole table, from its first bucket.                                 *)
LEMMA FromTheStart ==
  ASSUME TablesAssumption, NEW t, NEW n, Tidy(t, n)
  PROVE  KeysFrom(t, 0) = KeysOf(t)
<1>1. PICK m \in Nat : m = n /\ DOMAIN t = 0..(m - 1)
  BY KeysInTable
<1> QED
  BY <1>1 DEF KeysFrom, KeysOf

(* A key is inserted into a free bucket.                                   *)
LEMMA InsertedKeeps ==
  ASSUME TablesAssumption, NEW t, NEW n, Tidy(t, n), NEW k \in Keys, k \notin KeysOf(t),
         NEW s \in Inserted(t, k)
  PROVE  /\ Tidy(s, n)
         /\ KeysOf(s) = KeysOf(t) \cup {k}
         /\ Cardinality(KeysOf(s)) = Cardinality(KeysOf(t)) + 1
<1>1. n \in Nat /\ DOMAIN t = 0..(n - 1) /\ KeysOf(t) \subseteq Keys
  BY KeysInTable
<1>2. PICK m \in Nat : m = n
  BY <1>1
<1>3. PICK b \in 0..(m - 1) : t[b] = Free /\ s = [t EXCEPT ![b] = k]
  BY <1>1, <1>2 DEF Inserted
<1>4. k # Free
  BY DEF TablesAssumption
<1>5. \A c, d \in 0..(m - 1) : t[c] = t[d] /\ t[c] # Free => c = d
  BY <1>2 DEF Tidy
<1>6. t \in [0..(m - 1) -> Keys \cup {Free}]
  BY <1>2 DEF Tidy
<1>7. /\ s \in [0..(m - 1) -> Keys \cup {Free}]
      /\ \A c \in 0..(m - 1) : s[c] = IF c = b THEN k ELSE t[c]
  BY <1>3, <1>6
<1>8. \A c \in 0..(m - 1) : t[c] # k
  BY <1>1, <1>2, <1>4 DEF KeysOf
<1>9. \A c, d \in 0..(m - 1) : s[c] = s[d] /\ s[c] # Free => c = d
  BY <1>5, <1>7, <1>8
<1>10. Tidy(s, n)
  BY <1>2, <1>7, <1>9 DEF Tidy
<1>11. KeysOf(s) = KeysOf(t) \cup {k}
  <2>1. \A x : x \in KeysOf(t) <=> x # Free /\ \E c \in 0..(m - 1) : t[c] = x
    BY <1>1, <1>2 DEF KeysOf
  <2>2. \A x : x \in KeysOf(s) <=> x # Free /\ \E c \in 0..(m - 1) : s[c] = x
    BY <1>7 DEF KeysOf
  <2>3. ASSUME NEW x \in KeysOf(t) PROVE x \in KeysOf(s)
    <3>1. PICK c \in 0..(m - 1) : t[c] = x /\ x # Free
      BY <2>1
    <3> QED
      BY <3>1, <1>3, <1>7, <2>2
  <2>4. k \in KeysOf(s)
    BY <1>3, <1>4, <1>7, <2>2
  <2>5. ASSUME NEW x \in KeysOf(s), x # k PROVE x \in KeysOf(t)
    <3>1. PICK c \in 0..(m - 1) : s[c] = x /\ x # Free
      BY <2>2
    <3>2. t[c] = x
      BY <1>7, <2>5, <3>1
    <3> QED
      BY <2>1, <3>1, <3>2
  <2> QED
    BY <2>3, <2>4, <2>5
<1>12. Cardinality(KeysOf(t) \cup {k}) = Cardinality(KeysOf(t)) + 1
  <2>1. IsFiniteSet(KeysOf(t))
    BY <1>1, KeysCounted
  <2> QED
    BY <2>1, FS_AddElement
<1> QED
  BY <1>10, <1>11, <1>12

(* A key's bucket is freed.                                                *)
LEMMA ErasedKeeps ==
  ASSUME TablesAssumption, NEW t, NEW n, Tidy(t, n), NEW k \in KeysOf(t), NEW s,
         s = [b \in DOMAIN t |-> IF t[b] = k THEN Free ELSE t[b]]
  PROVE  /\ Tidy(s, n)
         /\ KeysOf(s) = KeysOf(t) \ {k}
         /\ \A c \in Nat : KeysFrom(s, c) = KeysFrom(t, c) \ {k}
         /\ Cardinality(KeysOf(s)) = Cardinality(KeysOf(t)) - 1
<1>1. n \in Nat /\ DOMAIN t = 0..(n - 1) /\ KeysOf(t) \subseteq Keys
  BY KeysInTable
<1>2. PICK m \in Nat : m = n
  BY <1>1
<1>3. k # Free
  BY DEF KeysOf
<1>4. t \in [0..(m - 1) -> Keys \cup {Free}]
  BY <1>2 DEF Tidy
<1>5. /\ s \in [0..(m - 1) -> Keys \cup {Free}]
      /\ \A b \in 0..(m - 1) : s[b] = IF t[b] = k THEN Free ELSE t[b]
  BY <1>1, <1>2, <1>4
<1>6. \A b, c \in 0..(m - 1) : s[b] = s[c] /\ s[b] # Free => b = c
  <2>1. \A c, d \in 0..(m - 1) : t[c] = t[d] /\ t[c] # Free => c = d
    BY <1>2 DEF Tidy
  <2> QED
    BY <2>1, <1>5
<1>7. Tidy(s, n)
  BY <1>2, <1>5, <1>6 DEF Tidy
<1>8. DOMAIN s = 0..(m - 1) /\ DOMAIN t = 0..(m - 1)
  BY <1>4, <1>5
<1>9. KeysOf(s) = KeysOf(t) \ {k}
  BY <1>3, <1>5, <1>8 DEF KeysOf
<1>10. ASSUME NEW c \in Nat PROVE KeysFrom(s, c) = KeysFrom(t, c) \ {k}
  BY <1>3, <1>5, <1>8 DEF KeysFrom
<1>11. Cardinality(KeysOf(t) \ {k}) = Cardinality(KeysOf(t)) - 1
  <2>1. IsFiniteSet(KeysOf(t))
    BY <1>1, KeysCounted
  <2> QED
    BY <2>1, FS_RemoveElement
<1> QED
  BY <1>7, <1>9, <1>10, <1>11

(* The walk takes the first key at or after its cursor.                    *)
LEMMA WalkedOn ==
  ASSUME TablesAssumption, NEW t, NEW n, Tidy(t, n), NEW c \in Nat,
         NEW b \in DOMAIN t, b >= c, t[b] # Free,
         \A d \in DOMAIN t : d >= c /\ t[d] # Free => b <= d
  PROVE  /\ b + 1 \in Nat
         /\ t[b] \in KeysOf(t)
         /\ t[b] \notin KeysFrom(t, b + 1)
         /\ KeysFrom(t, c) = {t[b]} \cup KeysFrom(t, b + 1)
<1>1. n \in Nat /\ DOMAIN t = 0..(n - 1)
  BY KeysInTable
<1>2. PICK m \in Nat : m = n
  BY <1>1
<1>3. b \in 0..(m - 1) /\ DOMAIN t = 0..(m - 1)
  BY <1>1, <1>2
<1>4. \A d, e \in 0..(m - 1) : t[d] = t[e] /\ t[d] # Free => d = e
  BY <1>2 DEF Tidy
<1>5. t[b] \notin KeysFrom(t, b + 1)
  BY <1>3, <1>4 DEF KeysFrom
<1>6. \A d \in 0..(m - 1) : d >= c /\ t[d] # Free <=> (d = b \/ (d >= b + 1 /\ t[d] # Free))
  BY <1>3
<1>7. KeysFrom(t, c) = {t[b]} \cup KeysFrom(t, b + 1)
  BY <1>3, <1>6 DEF KeysFrom
<1> QED
  BY <1>3, <1>5, <1>7 DEF KeysOf

-----------------------------------------------------------------------------
(* The table of a PerlHash.                                                *)

LEMMA HeldInTable ==
  ASSUME hashEngine = "Perl"
  PROVE  Held = KeysOf(table) /\ Ahead = KeysFrom(table, cursor)
BY DEF Held, Ahead, KeysOf, KeysFrom, Buckets

LEMMA RoomIsSpare ==
  ASSUME TablesAssumption, hashEngine = "Perl", NEW n, Tidy(table, n)
  PROVE  Room = Spare(table, n, tombs) /\ Cardinality(Buckets) = n
<1>1. n \in Nat /\ Buckets = 0..(n - 1)
  BY KeysInTable DEF Buckets
<1>2. PICK m \in Nat : m = n
  BY <1>1
<1>3. Cardinality(Buckets) = n /\ (Buckets = {} <=> n = 0)
  BY <1>1, BucketsCounted
<1>4. Held = KeysOf(table)
  BY HeldInTable
<1> QED
  BY <1>3, <1>4 DEF Room, Spare

(* Some number of buckets takes every key, and not fewer than there are.   *)
LEMMA RehashedKeeps ==
  ASSUME TablesAssumption, hashEngine = "Perl", NEW n, Tidy(table, n), NEW t \in Rehashed
  PROVE  \E m : Tidy(t, m) /\ KeysOf(t) = Held /\ Spare(t, m, 0) > 0
<1> DEFINE fitting == {m \in Sizes : m >= Cardinality(Buckets) /\ m - 1 > Cardinality(Held)}
<1>1. Cardinality(Buckets) = n /\ n \in Nat /\ n \in Sizes \cup {0}
  BY RoomIsSpare, KeysInTable DEF Tidy
<1>2. Held \subseteq Keys
  BY KeysInTable, HeldInTable
<1>3. Cardinality(Held) \in Nat /\ Cardinality(Held) <= Cardinality(Keys) /\ Cardinality(Keys) \in Nat
  BY <1>2, KeysCounted DEF TablesAssumption
<1>4. fitting \subseteq Nat
  BY DEF TablesAssumption
<1>5. fitting # {}
  <2>1. PICK m \in Sizes : m \in Nat /\ m > Cardinality(Keys) + 1
    BY DEF TablesAssumption
  <2>2. CASE m >= n
    BY <1>1, <1>3, <2>1, <2>2
  <2>3. CASE n > m
    <3>1. n \in Sizes /\ n - 1 > Cardinality(Held)
      BY <1>1, <1>3, <2>1, <2>3
    <3> QED
      BY <1>1, <3>1
  <2> QED
    BY <1>1, <2>1, <2>2, <2>3
<1>6. PICK m \in fitting : t \in Layouts(Held, m)
  <2>1. Lowest(fitting) \in fitting
    BY <1>4, <1>5, LowestExists
  <2>2. PICK m \in {Lowest(fitting)} \cup {x \in fitting : x = Cardinality(Buckets)} : t \in Layouts(Held, m)
    BY DEF Rehashed
  <2> HIDE DEF fitting
  <2> QED
    BY <2>1, <2>2
<1>7. m \in Nat /\ m \in Sizes /\ m - 1 > Cardinality(Held)
  BY <1>4, <1>6
<1>8. PICK l \in Nat : l = m
  BY <1>7
<1>9. /\ t \in [0..(l - 1) -> Held \cup {Free}]
      /\ Held \subseteq {t[b] : b \in 0..(l - 1)}
      /\ \A b, c \in 0..(l - 1) : t[b] = t[c] /\ t[b] # Free => b = c
  BY <1>6, <1>8 DEF Layouts
<1>10. t \in [0..(l - 1) -> Keys \cup {Free}]
  BY <1>2, <1>9
<1>11. Tidy(t, m)
  BY <1>7, <1>8, <1>9, <1>10 DEF Tidy
<1>12. KeysOf(t) = Held
  <2>1. Free \notin Held
    BY <1>2 DEF TablesAssumption
  <2>2. KeysOf(t) = {t[b] : b \in 0..(l - 1)} \ {Free}
    BY <1>9 DEF KeysOf
  <2>3. \A b \in 0..(l - 1) : t[b] \in Held \cup {Free}
    BY <1>9
  <2> QED
    BY <1>9, <2>1, <2>2, <2>3
<1>13. Spare(t, m, 0) > 0
  BY <1>3, <1>7, <1>12 DEF Spare
<1> QED
  BY <1>11, <1>12, <1>13

(* Making room keeps the keys, and touches nothing when there is room.     *)
LEMMA ReservedKeeps ==
  ASSUME TablesAssumption, hashEngine = "Perl", NEW n, Spacious(table, n, tombs), NEW r \in Reserved
  PROVE  /\ \E m : Tidy(r[1], m) /\ KeysOf(r[1]) = Held /\ r[2] \in Nat /\ Spare(r[1], m, r[2]) > 0
         /\ Room # 0 => r[1] = table /\ r[2] = tombs
<1>1. Tidy(table, n) /\ tombs \in Nat /\ Spare(table, n, tombs) >= 0 /\ n \in Nat
  BY KeysInTable DEF Spacious
<1>2. Room = Spare(table, n, tombs)
  BY <1>1, RoomIsSpare
<1>3. Cardinality(KeysOf(table)) \in Nat
  BY <1>1, KeysInTable, KeysCounted
<1>4. Room \in Nat
  <2>1. PICK l \in Nat, x \in Nat, u \in Nat : l = n /\ x = Cardinality(KeysOf(table)) /\ u = tombs
    BY <1>1, <1>3
  <2> QED
    BY <1>1, <1>2, <2>1 DEF Spare
<1>5. CASE Room > 0
  <2>1. r = <<table, tombs>>
    BY <1>5 DEF Reserved
  <2> QED
    BY <1>1, <1>2, <1>5, <2>1, HeldInTable
<1>6. CASE Room = 0
  <2>1. PICK t \in Rehashed : r = <<t, 0>>
    BY <1>6 DEF Reserved
  <2>2. \E m : Tidy(t, m) /\ KeysOf(t) = Held /\ Spare(t, m, 0) > 0
    BY <1>1, <2>1, RehashedKeeps
  <2> QED
    BY <1>6, <2>1, <2>2
<1> QED
  BY <1>4, <1>5, <1>6

-----------------------------------------------------------------------------
(* The order of an OrderedHash.                                            *)

Once(s) == s \in Seq(Keys) /\ \A i, j \in 1..Len(s) : s[i] = s[j] => i = j

Listed(s) == {s[i] : i \in DOMAIN s}
ListedFrom(s, c) == {s[i] : i \in {j \in DOMAIN s : j > c}}

LEMMA AppendedKeeps ==
  ASSUME NEW s, Once(s), NEW k \in Keys, k \notin Listed(s), NEW c \in Nat
  PROVE  /\ Once(Append(s, k))
         /\ Listed(Append(s, k)) = Listed(s) \cup {k}
         /\ ListedFrom(s, c) \subseteq ListedFrom(Append(s, k), c)
         /\ ListedFrom(Append(s, k), c) \subseteq ListedFrom(s, c) \cup {k}
<1>1. PICK n \in Nat : n = Len(s) /\ DOMAIN s = 1..n
  BY DEF Once
<1>2. PICK a : a = Append(s, k)
  OBVIOUS
<1>3. /\ a \in Seq(Keys) /\ Len(a) = n + 1 /\ DOMAIN a = 1..(n + 1)
      /\ \A i \in 1..n : a[i] = s[i]
      /\ a[n + 1] = k
  BY <1>1, <1>2 DEF Once
<1>4. \A i \in 1..(n + 1) : i \in 1..n \/ i = n + 1
  BY <1>1
<1>5. \A i \in 1..n : s[i] # k
  BY <1>1 DEF Listed
<1>6. \A i, j \in 1..n : s[i] = s[j] => i = j
  BY <1>1 DEF Once
<1>7. \A i, j \in 1..(n + 1) : a[i] = a[j] => i = j
  BY <1>3, <1>4, <1>5, <1>6
<1>8. Once(a)
  BY <1>3, <1>7 DEF Once
<1>9. Listed(a) = Listed(s) \cup {k}
  <2>1. \A i \in 1..n : i \in 1..(n + 1)
    OBVIOUS
  <2>2. n + 1 \in 1..(n + 1)
    OBVIOUS
  <2> QED
    BY <1>1, <1>3, <1>4, <2>1, <2>2 DEF Listed
<1>10. ListedFrom(s, c) \subseteq ListedFrom(a, c)
  <2>1. \A i \in 1..n : i \in 1..(n + 1)
    OBVIOUS
  <2> QED
    BY <1>1, <1>3, <2>1 DEF ListedFrom
<1>11. ListedFrom(a, c) \subseteq ListedFrom(s, c) \cup {k}
  BY <1>1, <1>3, <1>4 DEF ListedFrom
<1> QED
  BY <1>2, <1>8, <1>9, <1>10, <1>11

(* The last key takes the place of the one at p: of those from p on, every *)
(* other key is still from p on.                                           *)
SwapsOut(s, p, a) ==
  p \in 1..Len(s) /\ a = SubSeq([s EXCEPT ![p] = s[Len(s)]], 1, Len(s) - 1)

LEMMA SwapRemovedKeeps ==
  ASSUME NEW s, Once(s), NEW p, NEW a, SwapsOut(s, p, a)
  PROVE  /\ Once(a)
         /\ Listed(a) = Listed(s) \ {s[p]}
         /\ \A c \in Nat : c < p => ListedFrom(a, c) = ListedFrom(s, c) \ {s[p]}
<1>1. PICK n \in Nat : n = Len(s) /\ DOMAIN s = 1..n
  BY DEF Once
<1>2. p \in 1..n /\ n \in 1..n
  BY <1>1 DEF SwapsOut
<1>3. \A i \in 1..n : s[i] \in Keys
  BY <1>1 DEF Once
<1>4. \A i, j \in 1..n : s[i] = s[j] => i = j
  BY <1>1 DEF Once
<1>5. PICK e : e = [s EXCEPT ![p] = s[n]]
  OBVIOUS
<1>6. /\ e \in [1..n -> Keys]
      /\ \A i \in 1..n : e[i] = IF i = p THEN s[n] ELSE s[i]
  BY <1>1, <1>2, <1>3, <1>5 DEF Once
<1>7. e \in Seq(Keys) /\ Len(e) = n
  BY <1>6
<1>8. a = SubSeq(e, 1, n - 1)
  BY <1>1, <1>5 DEF SwapsOut
<1>9. PICK m \in Nat : m = n - 1
  BY <1>2
<1>10. a = [i \in 1..m |-> e[i]]
  <2>1. a = [i \in 1..(m - 1 + 1) |-> e[i + 1 - 1]]
    BY <1>8, <1>9
  <2>2. \A i \in 1..m : i + 1 - 1 = i
    OBVIOUS
  <2> QED
    BY <2>1, <2>2
<1>11. \A i \in 1..m : i \in 1..n /\ i # n
  BY <1>9
<1>12. \A i \in 1..n : i # n => i \in 1..m
  BY <1>9
<1>13. /\ DOMAIN a = 1..m
       /\ \A i \in 1..m : a[i] = IF i = p THEN s[n] ELSE s[i]
  BY <1>6, <1>10, <1>11
<1>14. a \in Seq(Keys) /\ Len(a) = m
  <2>1. \A i \in 1..m : a[i] \in Keys
    BY <1>2, <1>3, <1>11, <1>13
  <2>2. a \in [1..m -> Keys]
    BY <1>10, <2>1
  <2>3. a \in Seq(Keys)
    BY <1>10, <2>1, <2>2
  <2>4. a = [i \in 1..m |-> a[i]]
    BY <2>2
  <2> QED
    BY <1>13, <2>3, <2>4
<1>15. \A i, j \in 1..m : a[i] = a[j] => i = j
  BY <1>2, <1>4, <1>11, <1>13
<1>16. Once(a)
  BY <1>14, <1>15 DEF Once
<1>17. Listed(a) = Listed(s) \ {s[p]}
  <2>1. ASSUME NEW x \in Listed(a) PROVE x \in Listed(s) /\ x # s[p]
    <3>1. PICK i \in 1..m : x = a[i]
      BY <1>13 DEF Listed
    <3>2. CASE i = p
      BY <1>1, <1>2, <1>4, <1>11, <1>13, <3>1, <3>2 DEF Listed
    <3>3. CASE i # p
      BY <1>1, <1>2, <1>4, <1>11, <1>13, <3>1, <3>3 DEF Listed
    <3> QED
      BY <3>2, <3>3
  <2>2. ASSUME NEW x \in Listed(s), x # s[p] PROVE x \in Listed(a)
    <3>1. PICK i \in 1..n : x = s[i] /\ i # p
      BY <1>1, <2>2 DEF Listed
    <3>2. CASE i = n
      <4>1. p \in 1..m /\ a[p] = x
        BY <1>2, <1>12, <1>13, <3>1, <3>2
      <4> QED
        BY <1>13, <4>1 DEF Listed
    <3>3. CASE i # n
      <4>1. i \in 1..m /\ a[i] = x
        BY <1>12, <1>13, <3>1, <3>3
      <4> QED
        BY <1>13, <4>1 DEF Listed
    <3> QED
      BY <3>2, <3>3
  <2> QED
    BY <2>1, <2>2
<1>18. ASSUME NEW c \in Nat, c < p PROVE ListedFrom(a, c) = ListedFrom(s, c) \ {s[p]}
  <2>1. ASSUME NEW x \in ListedFrom(a, c) PROVE x \in ListedFrom(s, c) /\ x # s[p]
    <3>1. PICK i \in 1..m : x = a[i] /\ i > c
      BY <1>13 DEF ListedFrom
    <3>2. n > c
      BY <1>2, <1>18
    <3>3. CASE i = p
      BY <1>1, <1>2, <1>4, <1>11, <1>13, <3>1, <3>2, <3>3 DEF ListedFrom
    <3>4. CASE i # p
      BY <1>1, <1>2, <1>4, <1>11, <1>13, <3>1, <3>4 DEF ListedFrom
    <3> QED
      BY <3>3, <3>4
  <2>2. ASSUME NEW x \in ListedFrom(s, c), x # s[p] PROVE x \in ListedFrom(a, c)
    <3>1. PICK i \in 1..n : x = s[i] /\ i # p /\ i > c
      BY <1>1, <2>2 DEF ListedFrom
    <3>2. CASE i = n
      <4>1. p \in 1..m /\ a[p] = x /\ p > c
        BY <1>2, <1>12, <1>13, <1>18, <3>1, <3>2
      <4> QED
        BY <1>13, <4>1 DEF ListedFrom
    <3>3. CASE i # n
      <4>1. i \in 1..m /\ a[i] = x
        BY <1>12, <1>13, <3>1, <3>3
      <4> QED
        BY <1>13, <3>1, <4>1 DEF ListedFrom
    <3> QED
      BY <3>2, <3>3
  <2> QED
    BY <2>1, <2>2
<1> QED
  BY <1>16, <1>17, <1>18

-----------------------------------------------------------------------------
(* The inductive invariant.  A walk is only as good as the engine under    *)
(* it: no key sits in two places, so that the cursor meets each once; and  *)
(* a table never takes more than its room, so that the entry call moves    *)
(* entries exactly when no room is left.                                   *)

TableShape == \E n : Spacious(table, n, tombs)
MapShape == map \subseteq Keys /\ iter \in [parked : BOOLEAN, keys : SUBSET Keys]
Excuses ==
  CASE hashEngine = "Perl" -> {"rehash"} [] hashEngine = "Ordered" -> {"removal"} [] OTHER -> {}
WalkShape == cursor \in Nat /\ exempt \subseteq Excuses /\ returned \subseteq Held /\ owed \subseteq Held
WalkSound == exempt # {} \/ WalkWhole

EngineShape == TableShape /\ Once(order) /\ MapShape

HashIInv == EngineShape /\ WalkShape /\ WalkSound

(* What each engine holds, and what is ahead, before and after a step.     *)
LEMMA HeldByEngine ==
  /\ hashEngine = "Perl" => Held = KeysOf(table) /\ Ahead = KeysFrom(table, cursor)
  /\ hashEngine = "Ordered" => Held = Listed(order) /\ Ahead = ListedFrom(order, cursor)
  /\ hashEngine \notin {"Perl", "Ordered"} =>
       Held = map /\ Ahead = IF iter.parked THEN iter.keys \cap map ELSE map
BY DEF Held, Ahead, KeysOf, KeysFrom, Buckets, Listed, ListedFrom

LEMMA HeldByEngineAfter ==
  /\ hashEngine' = "Perl" => Held' = KeysOf(table') /\ Ahead' = KeysFrom(table', cursor')
  /\ hashEngine' = "Ordered" => Held' = Listed(order') /\ Ahead' = ListedFrom(order', cursor')
  /\ hashEngine' \notin {"Perl", "Ordered"} =>
       Held' = map' /\ Ahead' = IF iter'.parked THEN iter'.keys \cap map' ELSE map'
BY DEF Held, Ahead, KeysOf, KeysFrom, Buckets, Listed, ListedFrom

(* At its start a walk has before it all the hash holds.                   *)
LEMMA AheadAtStart ==
  ASSUME TablesAssumption, EngineShape', cursor' = 0, iter' = NoIter
  PROVE  Ahead' = Held'
<1>1. CASE hashEngine' = "Perl"
  <2>1. PICK n : Tidy(table', n)
    BY DEF EngineShape, TableShape, Spacious
  <2>2. KeysFrom(table', 0) = KeysOf(table')
    BY <2>1, FromTheStart
  <2> QED
    BY <1>1, <2>2, HeldByEngineAfter
<1>2. CASE hashEngine' = "Ordered"
  <2>1. PICK n \in Nat : n = Len(order') /\ DOMAIN order' = 1..n
    BY DEF EngineShape, Once
  <2>2. ListedFrom(order', 0) = Listed(order')
    BY <2>1 DEF ListedFrom, Listed
  <2> QED
    BY <1>2, <2>2, HeldByEngineAfter
<1>3. CASE hashEngine' \notin {"Perl", "Ordered"}
  BY <1>3, HeldByEngineAfter DEF NoIter
<1> QED
  BY <1>1, <1>2, <1>3

LEMMA WalkRestarted ==
  ASSUME EngineShape', cursor' \in Nat, Ahead' = Held', Restart(Held')
  PROVE  HashIInv'
BY DEF HashIInv, WalkShape, WalkSound, WalkWhole, Restart

-----------------------------------------------------------------------------
(* The operations of a PerlHash.                                           *)

LEMMA NewInTableKeeps ==
  ASSUME TablesAssumption, HashIInv, NEW k \in Keys, k \notin Held, NewInTable(k),
         Writes("Perl"), InTable
  PROVE  HashIInv'
<1>1. hashEngine = "Perl" /\ hashEngine' = "Perl"
  BY DEF Writes
<1>2. PICK n : Spacious(table, n, tombs)
  BY DEF HashIInv, EngineShape, TableShape
<1>3. PICK r \in Reserved : table' \in Inserted(r[1], k) /\ tombs' = r[2]
  BY DEF NewInTable
<1>4. PICK m : Tidy(r[1], m) /\ KeysOf(r[1]) = Held /\ r[2] \in Nat /\ Spare(r[1], m, r[2]) > 0
  BY <1>1, <1>2, <1>3, ReservedKeeps
<1>5. /\ Tidy(table', m)
      /\ KeysOf(table') = Held \cup {k}
      /\ Cardinality(KeysOf(table')) = Cardinality(KeysOf(r[1])) + 1
  BY <1>3, <1>4, InsertedKeeps
<1>6. Spare(table', m, tombs') >= 0
  <2>1. m \in Nat /\ KeysOf(r[1]) \subseteq Keys
    BY <1>4, KeysInTable
  <2>2. Cardinality(KeysOf(r[1])) \in Nat
    BY <2>1, KeysCounted
  <2>3. PICK l \in Nat, x \in Nat, u \in Nat : l = m /\ x = Cardinality(KeysOf(r[1])) /\ u = r[2]
    BY <1>4, <2>1, <2>2
  <2> QED
    BY <1>3, <1>4, <1>5, <2>3 DEF Spare
<1>7. EngineShape'
  BY <1>3, <1>4, <1>5, <1>6 DEF HashIInv, EngineShape, TableShape, MapShape, Spacious, InTable
<1>8. cursor' = 0 /\ Restart(Held \cup {k})
  BY DEF NewInTable
<1>9. Held' = Held \cup {k}
  BY <1>1, <1>5, HeldByEngineAfter
<1>10. Ahead' = Held'
  <2>1. KeysFrom(table', 0) = KeysOf(table')
    BY <1>5, FromTheStart
  <2> QED
    BY <1>1, <1>8, <2>1, HeldByEngineAfter
<1> QED
  BY <1>7, <1>8, <1>9, <1>10, WalkRestarted

LEMMA TableEntryKeeps ==
  ASSUME TablesAssumption, HashIInv, NEW k \in Keys, TableEntry(k)
  PROVE  HashIInv'
<1>1. Writes("Perl") /\ InTable /\ hashEngine = "Perl" /\ hashEngine' = "Perl"
  BY DEF TableEntry, Writes
<1>2. CASE k \notin Held
  BY <1>1, <1>2, NewInTableKeeps DEF TableEntry
<1>3. CASE k \in Held
  <2>1. PICK n : Spacious(table, n, tombs)
    BY DEF HashIInv, EngineShape, TableShape
  <2>2. PICK r \in Reserved : table' = r[1] /\ tombs' = r[2]
    BY <1>3 DEF TableEntry
  <2>3. /\ exempt' = exempt \cup (IF Room = 0 /\ cursor > 0 THEN {"rehash"} ELSE {})
        /\ UNCHANGED <<cursor, returned, owed>>
    BY <1>3 DEF TableEntry
  <2>4. PICK m : Tidy(r[1], m) /\ KeysOf(r[1]) = Held /\ r[2] \in Nat /\ Spare(r[1], m, r[2]) > 0
    BY <1>1, <2>1, <2>2, ReservedKeeps
  <2>5. Room # 0 => r[1] = table
    BY <1>1, <2>1, <2>2, ReservedKeeps
  <2>6. Spacious(table', m, tombs')
    <3>1. m \in Nat /\ KeysOf(r[1]) \subseteq Keys
      BY <2>4, KeysInTable
    <3>2. Cardinality(KeysOf(r[1])) \in Nat
      BY <3>1, KeysCounted
    <3>3. PICK l \in Nat, x \in Nat, u \in Nat : l = m /\ x = Cardinality(KeysOf(r[1])) /\ u = r[2]
      BY <2>4, <3>1, <3>2
    <3>4. Spare(r[1], m, r[2]) >= 0
      BY <2>4, <3>3 DEF Spare
    <3> QED
      BY <2>2, <2>4, <3>4 DEF Spacious
  <2>7. EngineShape'
    BY <1>1, <2>6 DEF HashIInv, EngineShape, TableShape, MapShape, InTable
  <2>8. Held' = Held
    BY <1>1, <2>2, <2>4, HeldByEngineAfter
  <2>9. WalkShape'
    <3>1. exempt' \subseteq Excuses'
      BY <1>1, <2>3 DEF HashIInv, WalkShape, Excuses
    <3> QED
      BY <2>3, <2>8, <3>1 DEF HashIInv, WalkShape
  <2>10. WalkSound'
    <3>1. CASE exempt # {} \/ (Room = 0 /\ cursor > 0)
      BY <2>3, <3>1 DEF WalkSound, WalkWhole
    <3>2. CASE exempt = {} /\ ~(Room = 0 /\ cursor > 0)
      <4>1. Ahead' = Ahead
        <5>1. CASE Room # 0
          BY <1>1, <2>2, <2>3, <2>5, <5>1, HeldByEngine, HeldByEngineAfter
        <5>2. CASE cursor = 0
          <6>1. Ahead = Held
            BY <1>1, <2>1, <5>2, FromTheStart, HeldByEngine DEF Spacious
          <6>2. Ahead' = Held'
            BY <1>1, <2>3, <2>6, <5>2, FromTheStart, HeldByEngineAfter DEF Spacious
          <6> QED
            BY <2>8, <6>1, <6>2
        <5>3. cursor \in Nat
          BY DEF HashIInv, WalkShape
        <5> QED
          BY <3>2, <5>1, <5>2, <5>3
      <4> QED
        BY <2>3, <3>2, <4>1 DEF HashIInv, WalkSound, WalkWhole
    <3> QED
      BY <3>1, <3>2
  <2> QED
    BY <2>7, <2>9, <2>10 DEF HashIInv
<1> QED
  BY <1>2, <1>3

LEMMA TableDeleteKeeps ==
  ASSUME TablesAssumption, HashIInv, NEW k \in Keys, TableDelete(k)
  PROVE  HashIInv'
<1>1. hashEngine = "Perl" /\ hashEngine' = "Perl" /\ InTable /\ k \in Held
  BY DEF TableDelete, Writes
<1>2. PICK n : Spacious(table, n, tombs)
  BY DEF HashIInv, EngineShape, TableShape
<1>3. Tidy(table, n) /\ Held = KeysOf(table) /\ Ahead = KeysFrom(table, cursor)
  BY <1>1, <1>2, HeldByEngine DEF Spacious
<1>4. table' = [b \in DOMAIN table |-> IF table[b] = k THEN Free ELSE table[b]]
  BY DEF TableDelete, Buckets
<1>5. /\ Tidy(table', n)
      /\ KeysOf(table') = KeysOf(table) \ {k}
      /\ \A c \in Nat : KeysFrom(table', c) = KeysFrom(table, c) \ {k}
      /\ Cardinality(KeysOf(table')) = Cardinality(KeysOf(table)) - 1
  BY <1>1, <1>3, <1>4, ErasedKeeps
<1>6. cursor' = cursor /\ exempt' = exempt /\ returned' = returned \ {k} /\ owed' = owed \ {k}
  BY DEF TableDelete, Leaves
<1>7. Spacious(table', n, tombs')
  <2>1. PICK used \in 0..1 : tombs' = tombs + used
    BY DEF TableDelete
  <2>2. n \in Nat /\ KeysOf(table) \subseteq Keys
    BY <1>3, KeysInTable
  <2>3. Cardinality(KeysOf(table)) \in Nat
    BY <2>2, KeysCounted
  <2>4. PICK l \in Nat, x \in Nat, u \in Nat : l = n /\ x = Cardinality(KeysOf(table)) /\ u = tombs
    BY <1>2, <2>2, <2>3 DEF Spacious
  <2>5. Spare(table, n, tombs) >= 0
    BY <1>2 DEF Spacious
  <2>6. Spare(table', n, tombs') >= 0 /\ tombs' \in Nat
    BY <1>5, <2>1, <2>4, <2>5 DEF Spare
  <2> QED
    BY <1>5, <2>6 DEF Spacious
<1>8. EngineShape'
  BY <1>1, <1>7 DEF HashIInv, EngineShape, TableShape, MapShape, InTable
<1>9. cursor \in Nat /\ returned \subseteq Held /\ owed \subseteq Held /\ exempt \subseteq Excuses
  BY DEF HashIInv, WalkShape
<1>10. Held' = Held \ {k} /\ Ahead' = Ahead \ {k}
  BY <1>1, <1>3, <1>5, <1>6, <1>9, HeldByEngineAfter
<1>11. WalkShape'
  BY <1>1, <1>6, <1>9, <1>10 DEF WalkShape, Excuses
<1>12. WalkSound'
  BY <1>6, <1>10 DEF HashIInv, WalkSound, WalkWhole
<1> QED
  BY <1>8, <1>11, <1>12 DEF HashIInv

LEMMA TableEachKeeps ==
  ASSUME TablesAssumption, HashIInv, TableEach
  PROVE  HashIInv'
<1> DEFINE live == {b \in Buckets : b >= cursor /\ table[b] # Free}
<1>1. /\ hashEngine = "Perl" /\ hashEngine' = "Perl"
      /\ table' = table /\ tombs' = tombs /\ InTable
  BY DEF TableEach
<1>2. PICK n : Tidy(table, n)
  BY DEF HashIInv, EngineShape, TableShape, Spacious
<1>3. Held = KeysOf(table) /\ Held' = Held
  BY <1>1, HeldByEngine, HeldByEngineAfter
<1>4. EngineShape'
  BY <1>1 DEF HashIInv, EngineShape, TableShape, MapShape, InTable
<1>5. CASE live = {}
  <2>1. cursor' = 0 /\ Restart(Held)
    BY <1>5 DEF TableEach
  <2>2. KeysFrom(table, 0) = KeysOf(table)
    BY <1>2, FromTheStart
  <2>3. Ahead' = Held'
    BY <1>1, <1>3, <2>1, <2>2, HeldByEngineAfter
  <2> QED
    BY <1>3, <1>4, <2>1, <2>3, WalkRestarted
<1>6. CASE live # {}
  <2>1. cursor \in Nat
    BY DEF HashIInv, WalkShape
  <2>2. PICK b : b = Lowest(live)
    OBVIOUS
  <2>3. cursor' = b + 1 /\ returned' = returned \cup {table[b]} /\ UNCHANGED <<owed, exempt>>
    BY <1>6, <2>2 DEF TableEach, Returns
  <2>4. live \subseteq Nat
    <3>1. n \in Nat /\ DOMAIN table = 0..(n - 1)
      BY <1>2, KeysInTable
    <3> QED
      BY <3>1 DEF Buckets
  <2>5. b \in live /\ \A d \in live : b <= d
    <3> HIDE DEF live
    <3> QED
      BY <1>6, <2>2, <2>4, LowestExists
  <2>6. /\ b \in DOMAIN table /\ b >= cursor /\ table[b] # Free
        /\ \A d \in DOMAIN table : d >= cursor /\ table[d] # Free => b <= d
    BY <2>5 DEF Buckets
  <2>7. /\ b + 1 \in Nat
        /\ table[b] \in KeysOf(table)
        /\ table[b] \notin KeysFrom(table, b + 1)
        /\ KeysFrom(table, cursor) = {table[b]} \cup KeysFrom(table, b + 1)
    BY <1>2, <2>1, <2>6, WalkedOn
  <2>8. Ahead = {table[b]} \cup Ahead' /\ table[b] \notin Ahead'
    BY <1>1, <2>3, <2>7, HeldByEngine, HeldByEngineAfter
  <2>9. WalkShape'
    BY <1>1, <1>3, <2>3, <2>7 DEF HashIInv, WalkShape, Excuses
  <2>10. WalkSound'
    BY <2>3, <2>8 DEF HashIInv, WalkSound, WalkWhole
  <2> QED
    BY <1>4, <2>9, <2>10 DEF HashIInv
<1> QED
  BY <1>5, <1>6

-----------------------------------------------------------------------------
(* The operations of an OrderedHash.                                       *)

LEMMA OrderedStoreKeeps ==
  ASSUME HashIInv, NEW k \in Keys, OrderedStore(k)
  PROVE  HashIInv'
<1>1. /\ hashEngine = "Ordered" /\ hashEngine' = "Ordered" /\ InOrder
      /\ k \notin Held /\ order' = Append(order, k) /\ cursor' = cursor
      /\ returned' = returned /\ owed' = owed /\ exempt' = exempt
  BY DEF OrderedStore, Writes, Onward
<1>2. Once(order) /\ Held = Listed(order) /\ Ahead = ListedFrom(order, cursor) /\ cursor \in Nat
  BY <1>1, HeldByEngine DEF HashIInv, EngineShape, WalkShape
<1>3. /\ Once(order')
      /\ Listed(order') = Listed(order) \cup {k}
      /\ ListedFrom(order, cursor) \subseteq ListedFrom(order', cursor)
      /\ ListedFrom(order', cursor) \subseteq ListedFrom(order, cursor) \cup {k}
  BY <1>1, <1>2, AppendedKeeps
<1>4. Held' = Held \cup {k} /\ Ahead \subseteq Ahead' /\ Ahead' \subseteq Ahead \cup {k}
  BY <1>1, <1>2, <1>3, HeldByEngineAfter
<1>5. EngineShape'
  BY <1>1, <1>3 DEF HashIInv, EngineShape, TableShape, MapShape, InOrder
<1>6. WalkShape'
  BY <1>1, <1>4 DEF HashIInv, WalkShape, Excuses
<1>7. WalkSound'
  BY <1>1, <1>4 DEF HashIInv, WalkShape, WalkSound, WalkWhole
<1> QED
  BY <1>5, <1>6, <1>7 DEF HashIInv

LEMMA OrderedDeleteKeeps ==
  ASSUME HashIInv, NEW k \in Keys, OrderedDelete(k)
  PROVE  HashIInv'
<1>1. /\ hashEngine = "Ordered" /\ hashEngine' = "Ordered" /\ InOrder /\ k \in Held
      /\ returned' = returned \ {k} /\ owed' = owed \ {k}
  BY DEF OrderedDelete, Writes, Leaves
<1>2. Once(order) /\ Held = Listed(order) /\ Ahead = ListedFrom(order, cursor)
  BY <1>1, HeldByEngine DEF HashIInv, EngineShape
<1>3. cursor \in Nat /\ returned \subseteq Held /\ owed \subseteq Held /\ exempt \subseteq Excuses
  BY DEF HashIInv, WalkShape
<1>4. PICK n \in Nat : n = Len(order) /\ DOMAIN order = 1..n
  BY <1>2 DEF Once
<1>5. PICK p \in Nat : p \in 1..n /\ order[p] = k
  BY <1>1, <1>2, <1>4 DEF Listed
<1>6. IndexOf(k) = p - 1
  <2> DEFINE q == CHOOSE i \in DOMAIN order : order[i] = k
  <2>1. q \in 1..n /\ order[q] = k
    BY <1>4, <1>5
  <2>2. \A i, j \in 1..n : order[i] = order[j] => i = j
    BY <1>2, <1>4 DEF Once
  <2>3. IndexOf(k) = q - 1
    BY DEF IndexOf
  <2> HIDE DEF q
  <2> QED
    BY <1>5, <2>1, <2>2, <2>3
<1>7. order' = SubSeq([order EXCEPT ![p] = order[Len(order)]], 1, Len(order) - 1)
  <2>1. (p - 1) + 1 = p
    OBVIOUS
  <2> QED
    BY <1>6, <2>1 DEF OrderedDelete, SwapRemoved
<1>8. /\ Once(order')
      /\ Listed(order') = Listed(order) \ {k}
      /\ \A c \in Nat : c < p => ListedFrom(order', c) = ListedFrom(order, c) \ {k}
  <2>1. p \in 1..Len(order)
    BY <1>4, <1>5
  <2>2. PICK a : a = order'
    OBVIOUS
  <2>3. SwapsOut(order, p, a)
    BY <1>7, <2>1, <2>2 DEF SwapsOut
  <2>4. /\ Once(a)
        /\ Listed(a) = Listed(order) \ {order[p]}
        /\ \A c \in Nat : c < p => ListedFrom(a, c) = ListedFrom(order, c) \ {order[p]}
    BY <1>2, <2>3, SwapRemovedKeeps
  <2> QED
    BY <1>5, <2>2, <2>4
<1>9. Held' = Held \ {k} /\ Ahead' = ListedFrom(order', cursor')
  BY <1>1, <1>2, <1>8, HeldByEngineAfter
<1>10. EngineShape'
  BY <1>1, <1>8 DEF HashIInv, EngineShape, TableShape, MapShape, InOrder
<1>11. /\ cursor' = IF p - 1 < cursor THEN cursor - 1 ELSE cursor
       /\ exempt' = exempt \cup (IF (p - 1) + 1 < cursor THEN {"removal"} ELSE {})
  BY <1>6 DEF OrderedDelete, CursorAfterRemoval
<1>12. WalkShape'
  <2>1. cursor' \in Nat
    BY <1>3, <1>5, <1>11
  <2>2. exempt' \subseteq Excuses'
    BY <1>11, <1>1, <1>3 DEF Excuses
  <2> QED
    BY <1>1, <1>3, <1>9, <2>1, <2>2 DEF WalkShape
<1>13. WalkSound'
  <2>1. CASE exempt # {} \/ p < cursor
    <3>1. exempt # {} \/ (p - 1) + 1 < cursor
      BY <1>3, <1>5, <2>1
    <3>2. exempt' # {}
      BY <1>11, <3>1
    <3> QED
      BY <3>2 DEF WalkSound, WalkWhole
  <2>2. CASE exempt = {} /\ ~(p < cursor)
    <3>1. Ahead' = Ahead \ {k}
      <4>1. CASE p = cursor
        <5>1. cursor' = p - 1 /\ p - 1 \in Nat /\ p - 1 < p
          BY <1>3, <1>4, <1>5, <1>11, <4>1
        <5>2. Ahead' = ListedFrom(order, p - 1) \ {k}
          BY <1>8, <1>9, <5>1
        <5>3. ListedFrom(order, p - 1) = {k} \cup ListedFrom(order, p)
          <6>1. \A i \in 1..n : i > p - 1 <=> (i = p \/ i > p)
            BY <1>4, <1>5
          <6> QED
            BY <1>4, <1>5, <6>1 DEF ListedFrom
        <5> QED
          BY <1>2, <4>1, <5>2, <5>3
      <4>2. CASE p > cursor
        <5>1. cursor' = cursor /\ cursor < p
          BY <1>3, <1>5, <1>11, <4>2
        <5> QED
          BY <1>2, <1>3, <1>8, <1>9, <5>1
      <4> QED
        BY <1>3, <1>5, <2>2, <4>1, <4>2
    <3> QED
      BY <1>1, <2>2, <3>1 DEF HashIInv, WalkSound, WalkWhole
  <2> QED
    BY <2>1, <2>2
<1> QED
  BY <1>10, <1>12, <1>13 DEF HashIInv

LEMMA OrderedEachKeeps ==
  ASSUME TablesAssumption, HashIInv, OrderedEach
  PROVE  HashIInv'
<1>1. hashEngine = "Ordered" /\ hashEngine' = "Ordered" /\ InOrder /\ order' = order
  BY DEF OrderedEach
<1>2. Once(order) /\ Held = Listed(order) /\ Ahead = ListedFrom(order, cursor) /\ cursor \in Nat
  BY <1>1, HeldByEngine DEF HashIInv, EngineShape, WalkShape
<1>3. PICK n \in Nat : n = Len(order) /\ DOMAIN order = 1..n
  BY <1>2 DEF Once
<1>4. Held' = Held /\ Ahead' = ListedFrom(order, cursor')
  BY <1>1, <1>2, HeldByEngineAfter
<1>5. EngineShape'
  BY <1>1 DEF HashIInv, EngineShape, TableShape, MapShape, InOrder
<1>6. CASE cursor >= Len(order)
  <2>1. cursor' = 0 /\ Restart(Held)
    BY <1>6 DEF OrderedEach
  <2>2. Ahead' = Held'
    BY <1>2, <1>3, <1>4, <2>1 DEF Listed, ListedFrom
  <2> QED
    BY <1>4, <1>5, <2>1, <2>2, WalkRestarted
<1>7. CASE ~(cursor >= Len(order))
  <2>1. cursor' = cursor + 1 /\ returned' = returned \cup {order[cursor + 1]} /\ UNCHANGED <<owed, exempt>>
    BY <1>7 DEF OrderedEach, Returns
  <2>2. PICK q \in 1..n : q = cursor + 1
    BY <1>2, <1>3, <1>7
  <2>3. order[q] \in Held
    BY <1>2, <1>3 DEF Listed
  <2>4. order[q] \notin ListedFrom(order, q)
    <3>1. \A i, j \in 1..n : order[i] = order[j] => i = j
      BY <1>2, <1>3 DEF Once
    <3> QED
      BY <1>3, <2>2, <3>1 DEF ListedFrom
  <2>5. Ahead = {order[q]} \cup ListedFrom(order, q)
    <3>1. \A i \in 1..n : i > cursor <=> (i = q \/ i > q)
      BY <1>2, <2>2
    <3> QED
      BY <1>2, <1>3, <2>2, <3>1 DEF ListedFrom
  <2>6. Ahead' = ListedFrom(order, q)
    BY <1>4, <2>1, <2>2
  <2>7. WalkShape'
    BY <1>1, <1>2, <1>4, <2>1, <2>2, <2>3 DEF HashIInv, WalkShape, Excuses
  <2>8. WalkSound'
    BY <2>1, <2>2, <2>4, <2>5, <2>6 DEF HashIInv, WalkSound, WalkWhole
  <2> QED
    BY <1>5, <2>7, <2>8 DEF HashIInv
<1> QED
  BY <1>6, <1>7

-----------------------------------------------------------------------------
(* The operations of an ImmutableHash.                                     *)

LEMMA MapStoreKeeps ==
  ASSUME HashIInv, NEW k \in Keys, MapStore(k)
  PROVE  HashIInv'
<1>1. /\ hashEngine = "Immutable" /\ hashEngine' = "Immutable"
      /\ InMap /\ k \notin Held /\ map' = map \cup {k} /\ iter' = iter
      /\ owed' = (IF iter.parked THEN owed ELSE map') /\ returned' = returned /\ exempt' = exempt
  BY DEF MapStore, Writes
<1>2. /\ Held = map /\ Ahead = (IF iter.parked THEN iter.keys \cap map ELSE map)
      /\ Held' = map' /\ Ahead' = (IF iter.parked THEN iter.keys \cap map' ELSE map')
  BY <1>1, HeldByEngine, HeldByEngineAfter
<1>3. EngineShape'
  BY <1>1 DEF HashIInv, EngineShape, TableShape, MapShape, InMap
<1>4. WalkShape'
  BY <1>1, <1>2 DEF HashIInv, WalkShape, InMap, Excuses
<1>5. WalkSound'
  BY <1>1, <1>2 DEF HashIInv, WalkShape, WalkSound, WalkWhole
<1> QED
  BY <1>3, <1>4, <1>5 DEF HashIInv

LEMMA MapDeleteKeeps ==
  ASSUME HashIInv, NEW k \in Keys, MapDelete(k)
  PROVE  HashIInv'
<1>1. /\ hashEngine = "Immutable" /\ hashEngine' = "Immutable"
      /\ InMap /\ map' = map \ {k} /\ iter' = iter
      /\ owed' = owed \ {k} /\ returned' = returned \ {k} /\ exempt' = exempt
  BY DEF MapDelete, Writes, Leaves
<1>2. /\ Held = map /\ Ahead = (IF iter.parked THEN iter.keys \cap map ELSE map)
      /\ Held' = map' /\ Ahead' = (IF iter.parked THEN iter.keys \cap map' ELSE map')
  BY <1>1, HeldByEngine, HeldByEngineAfter
<1>3. EngineShape'
  BY <1>1 DEF HashIInv, EngineShape, TableShape, MapShape, InMap
<1>4. WalkShape'
  BY <1>1, <1>2 DEF HashIInv, WalkShape, InMap, Excuses
<1>5. WalkSound'
  BY <1>1, <1>2 DEF HashIInv, WalkSound, WalkWhole
<1> QED
  BY <1>3, <1>4, <1>5 DEF HashIInv

LEMMA MapEachKeeps ==
  ASSUME TablesAssumption, HashIInv, MapEach
  PROVE  HashIInv'
<1> DEFINE walk == IF iter.parked THEN iter.keys ELSE map
<1>1. hashEngine = "Immutable" /\ hashEngine' = "Immutable" /\ InMap /\ map' = map
  BY DEF MapEach
<1>2. /\ Held = map /\ Ahead = walk \cap map
      /\ Held' = map /\ Ahead' = (IF iter'.parked THEN iter'.keys \cap map ELSE map)
  BY <1>1, HeldByEngine, HeldByEngineAfter
<1>3. cursor' \in Nat /\ cursor' = cursor
  BY <1>1 DEF HashIInv, WalkShape, InMap
<1>4. walk \subseteq Keys
  BY DEF HashIInv, EngineShape, MapShape
<1>5. CASE iter' = NoIter /\ Restart(map)
  <2>1. EngineShape'
    BY <1>1, <1>5 DEF HashIInv, EngineShape, TableShape, MapShape, InMap, NoIter
  <2>2. Ahead' = Held'
    BY <1>2, <1>5 DEF NoIter
  <2> QED
    BY <1>2, <1>3, <1>5, <2>1, <2>2, WalkRestarted
<1>6. ASSUME NEW k \in walk \cap map, NEW past \in SUBSET (walk \ map),
             iter' = [parked |-> TRUE, keys |-> walk \ ({k} \cup past)], Returns(k)
      PROVE  HashIInv'
  <2> HIDE DEF walk
  <2>1. EngineShape'
    BY <1>1, <1>4, <1>6 DEF HashIInv, EngineShape, TableShape, MapShape, InMap
  <2>2. returned' = returned \cup {k} /\ owed' = owed /\ exempt' = exempt
    BY <1>6 DEF Returns
  <2>3. Ahead' = (walk \cap map) \ {k}
    BY <1>2, <1>6
  <2>4. WalkShape'
    BY <1>1, <1>2, <1>3, <1>6, <2>2 DEF HashIInv, WalkShape, Excuses
  <2>5. WalkSound'
    BY <1>2, <1>6, <2>2, <2>3 DEF HashIInv, WalkSound, WalkWhole
  <2> QED
    BY <2>1, <2>4, <2>5 DEF HashIInv
<1>7. \/ iter' = NoIter /\ Restart(map)
      \/ \E k \in walk \cap map, past \in SUBSET (walk \ map) :
           iter' = [parked |-> TRUE, keys |-> walk \ ({k} \cup past)] /\ Returns(k)
  BY DEF MapEach
<1> HIDE DEF walk
<1> QED
  BY <1>5, <1>6, <1>7

-----------------------------------------------------------------------------
(* What every engine does alike.                                           *)

LEMMA KeysOrValuesKeeps ==
  ASSUME TablesAssumption, HashIInv, KeysOrValues
  PROVE  HashIInv'
<1>1. /\ cursor' = 0 /\ iter' = NoIter /\ Restart(Held)
      /\ UNCHANGED <<hashEngine, table, order, map, tombs>>
  BY DEF KeysOrValues
<1>2. Held' = Held
  BY <1>1 DEF Held, Buckets
<1>3. EngineShape'
  BY <1>1 DEF HashIInv, EngineShape, TableShape, MapShape, NoIter
<1>4. Ahead' = Held'
  BY <1>1, <1>3, AheadAtStart
<1> QED
  BY <1>1, <1>2, <1>3, <1>4, WalkRestarted

LEMMA ClearKeeps ==
  ASSUME TablesAssumption, HashIInv, Clear
  PROVE  HashIInv'
<1>1. /\ table' = [b \in DOMAIN table |-> Free] /\ tombs' = 0
      /\ order' = <<>> /\ map' = {} /\ iter' = NoIter /\ cursor' = 0
      /\ Restart({})
  BY DEF Clear, Buckets
<1>2. PICK n : Tidy(table, n)
  BY DEF HashIInv, EngineShape, TableShape, Spacious
<1>3. PICK m \in Nat : m = n /\ DOMAIN table = 0..(m - 1)
  BY <1>2, KeysInTable
<1>4. table' \in [0..(m - 1) -> Keys \cup {Free}] /\ \A b \in 0..(m - 1) : table'[b] = Free
  BY <1>1, <1>3
<1>5. Tidy(table', n)
  BY <1>2, <1>3, <1>4 DEF Tidy
<1>6. KeysOf(table') = {}
  BY <1>4 DEF KeysOf
<1>7. Spacious(table', n, tombs')
  <2>1. Cardinality(KeysOf(table')) = 0
    BY <1>6, FS_EmptySet
  <2> QED
    BY <1>1, <1>3, <1>5, <2>1 DEF Spacious, Spare
<1>8. Once(order')
  BY <1>1 DEF Once
<1>9. EngineShape'
  BY <1>1, <1>7, <1>8 DEF EngineShape, TableShape, MapShape, NoIter
<1>10. Held' = {}
  <2>1. Listed(order') = {}
    BY <1>1 DEF Listed
  <2> QED
    BY <1>1, <1>6, <2>1, HeldByEngineAfter
<1>11. Ahead' = Held'
  BY <1>1, <1>9, AheadAtStart
<1> QED
  BY <1>1, <1>9, <1>10, <1>11, WalkRestarted

LEMMA StutterKeeps ==
  ASSUME HashIInv, UNCHANGED <<hashEngine, table, tombs, order, map, iter, cursor, returned, owed, exempt>>
  PROVE  HashIInv'
BY DEF HashIInv, EngineShape, TableShape, MapShape, WalkShape, WalkSound, WalkWhole, Held, Ahead, Buckets, Excuses

-----------------------------------------------------------------------------
LEMMA InitSound ==
  ASSUME TablesAssumption, HashInit
  PROVE  HashIInv
<1>1. /\ table = [b \in {} |-> Free] /\ tombs = 0 /\ order = <<>> /\ map = {} /\ iter = NoIter
      /\ cursor = 0 /\ returned = {} /\ owed = {} /\ exempt = {}
  BY DEF HashInit
<1>2. Tidy(table, 0)
  <2>1. 0..(0 - 1) = {}
    OBVIOUS
  <2> QED
    BY <1>1, <2>1 DEF Tidy
<1>3. KeysOf(table) = {}
  BY <1>1 DEF KeysOf
<1>4. Spacious(table, 0, tombs)
  <2>1. Cardinality(KeysOf(table)) = 0
    BY <1>3, FS_EmptySet
  <2> QED
    BY <1>1, <1>2, <2>1 DEF Spacious, Spare
<1>5. Once(order)
  BY <1>1 DEF Once
<1>6. EngineShape
  BY <1>1, <1>4, <1>5 DEF EngineShape, TableShape, MapShape, NoIter
<1> QED
  BY <1>1, <1>6 DEF HashIInv, WalkShape, WalkSound, WalkWhole

LEMMA NextKeeps ==
  ASSUME TablesAssumption, HashIInv, [HashNext]_hashVars
  PROVE  HashIInv'
<1>1. CASE UNCHANGED hashVars
  BY <1>1, StutterKeeps DEF hashVars
<1>2. ASSUME NEW k \in Keys, StoreKnown(k) PROVE HashIInv'
  BY <1>2, StutterKeeps DEF StoreKnown, hashVars
<1>3. ASSUME NEW k \in Keys, TableStore(k) PROVE HashIInv'
  BY <1>3, NewInTableKeeps DEF TableStore
<1>4. ASSUME NEW k \in Keys, TableEntry(k) PROVE HashIInv'
  BY <1>4, TableEntryKeeps
<1>5. ASSUME NEW k \in Keys, TableDelete(k) PROVE HashIInv'
  BY <1>5, TableDeleteKeeps
<1>6. ASSUME NEW k \in Keys, OrderedStore(k) PROVE HashIInv'
  BY <1>6, OrderedStoreKeeps
<1>7. ASSUME NEW k \in Keys, OrderedDelete(k) PROVE HashIInv'
  BY <1>7, OrderedDeleteKeeps
<1>8. ASSUME NEW k \in Keys, MapStore(k) PROVE HashIInv'
  BY <1>8, MapStoreKeeps
<1>9. ASSUME NEW k \in Keys, MapDelete(k) PROVE HashIInv'
  BY <1>9, MapDeleteKeeps
<1>10. CASE TableEach
  BY <1>10, TableEachKeeps
<1>11. CASE OrderedEach
  BY <1>11, OrderedEachKeeps
<1>12. CASE MapEach
  BY <1>12, MapEachKeeps
<1>13. CASE KeysOrValues
  BY <1>13, KeysOrValuesKeeps
<1>14. CASE Clear
  BY <1>14, ClearKeeps
<1>15. CASE SetHashReadonly
  BY <1>15, StutterKeeps DEF SetHashReadonly
<1> QED
  BY <1>1, <1>2, <1>3, <1>4, <1>5, <1>6, <1>7, <1>8, <1>9, <1>10, <1>11, <1>12, <1>13, <1>14, <1>15
  DEF HashNext

(* Whatever is stored and deleted while each walks a hash of any engine,   *)
(* over any keys, no key the hash holds comes a second time and none it    *)
(* has held since the walk began is passed over.  Excepted are, of ordered *)
(* hashes, walks in which a key behind the last one returned is deleted,   *)
(* and of tables walks in which an entry call for a key at hand rehashes;  *)
(* of these the theorem says nothing (Hash::each, store, delete and        *)
(* entry_or_undef).                                                        *)
THEOREM WalksVisitAll ==
  ASSUME TablesAssumption
  PROVE  HashSpec => []EachVisitsAll
<1>1. HashInit => HashIInv
  BY InitSound
<1>2. HashIInv /\ [HashNext]_hashVars => HashIInv'
  BY NextKeeps
<1>3. HashIInv => EachVisitsAll
  BY DEF HashIInv, WalkShape, WalkSound, Excuses, EachVisitsAll
<1> QED
  BY <1>1, <1>2, <1>3, PTL DEF HashSpec
================================================================================
