----------------------------- MODULE Values_proofs -----------------------------
(***************************************************************************)
(* Proofs about Values, Numeric and NumericStrings, for any slots, any     *)
(* supply of cells, any values put in a slot, any strings over any         *)
(* alphabet and any widths.                                                *)
(***************************************************************************)
EXTENDS Values, NumericStrings, SequenceTheorems, WellFoundedInduction, TLAPS

(* A non-empty set of natural numbers has a least element.                 *)
LEMMA LeastExists ==
  ASSUME NEW S, S \subseteq Nat, S # {}
  PROVE  \E n \in S : \A m \in S : n <= m
<1> DEFINE R == OpToRel(<, Nat)
<1>1. PICK n \in S : \A m \in S : ~(<<m, n>> \in R)
  <2> HIDE DEF R
  <2>1. IsWellFoundedOn(R, Nat)
    BY NatLessThanWellFounded DEF R
  <2> QED
    BY <2>1, WFMin
<1>2. \A m \in S : ~(m < n)
  BY <1>1 DEF OpToRel
<1> QED
  BY <1>2

(* Induction up to a bound, over a set instead of a predicate: a set that  *)
(* holds 0 and, with every number below the bound, the next one, holds     *)
(* every number up to the bound.                                           *)
LEMMA UpTo ==
  ASSUME NEW N \in Nat, NEW S, 0 \in S, \A i \in 0..(N - 1) : i \in S => i + 1 \in S
  PROVE  \A i \in 0..N : i \in S
<1> DEFINE T == {i \in 0..N : i \notin S}
<1>1. SUFFICES ASSUME T # {} PROVE FALSE
  OBVIOUS
<1>2. PICK n \in T : \A m \in T : n <= m
  <2>1. T \subseteq Nat
    OBVIOUS
  <2> HIDE DEF T
  <2> QED
    BY <1>1, <2>1, LeastExists
<1>3. n \in 0..N /\ n \notin S /\ n # 0
  BY <1>2
<1>4. n - 1 \in 0..(N - 1)
  BY <1>3
<1>5. n - 1 \in S
  BY <1>2, <1>3, <1>4
<1>6. (n - 1) + 1 \in S
  BY <1>4, <1>5
<1> QED
  BY <1>3, <1>6

(* Functions that map a set to itself can be applied one after another,    *)
(* from any element.                                                       *)
Stepped(N, V, a, D) ==
  \E f \in [0..N -> V] : f[0] = a /\ \A i \in 1..N : f[i] = D[i][f[i - 1]]

(* What starts at a and goes on by D exists up to any bound.               *)
LEMMA StepsExist ==
  ASSUME NEW N \in Nat, NEW V, NEW a \in V, NEW D \in [1..N -> [V -> V]]
  PROVE  Stepped(N, V, a, D)
<1> DEFINE Is(f, n) == f \in [0..n -> V] /\ f[0] = a /\ \A i \in 1..n : f[i] = D[i][f[i - 1]]
           S == {n \in 0..N : \E f : Is(f, n)}
<1>1. 0 \in S
  <2>1. Is([i \in 0..0 |-> a], 0)
    OBVIOUS
  <2> HIDE DEF Is
  <2>2. \E f : Is(f, 0)
    BY <2>1
  <2> QED
    BY <2>2
<1>2. ASSUME NEW n \in 0..(N - 1), n \in S
      PROVE  n + 1 \in S
  <2>1. PICK f : Is(f, n)
    BY <1>2
  <2> DEFINE g == [i \in 0..(n + 1) |-> IF i = n + 1 THEN D[n + 1][f[n]] ELSE f[i]]
  <2>2. f[n] \in V /\ D[n + 1][f[n]] \in V
    BY <2>1
  <2>3. g \in [0..(n + 1) -> V] /\ g[0] = a
    BY <2>1, <2>2
  <2>4. ASSUME NEW i \in 1..(n + 1) PROVE g[i] = D[i][g[i - 1]]
    <3>1. CASE i = n + 1
      BY <3>1
    <3>2. CASE i # n + 1
      <4>1. i \in 1..n /\ i - 1 \in 0..n
        BY <3>2
      <4>2. g[i] = f[i] /\ g[i - 1] = f[i - 1]
        BY <4>1
      <4> QED
        BY <2>1, <4>1, <4>2
    <3> QED
      BY <3>1, <3>2
  <2>5. Is(g, n + 1)
    BY <2>3, <2>4
  <2> HIDE DEF g, Is
  <2> QED
    BY <2>5
<1>3. \A n \in 0..N : n \in S
  <2> HIDE DEF S
  <2> QED
    BY <1>1, <1>2, UpTo
<1>4. N \in S
  BY <1>3
<1> QED
  BY <1>4 DEF Stepped

(* One function can be applied any number of times.                        *)
Iterable(N, V, a, D) ==
  \E f \in [0..N -> V] : f[0] = a /\ \A i \in 1..N : f[i] = D[f[i - 1]]

(* What starts at a and goes on by one function exists.                    *)
LEMMA IterationExists ==
  ASSUME NEW N \in Nat, NEW V, NEW a \in V, NEW D \in [V -> V]
  PROVE  Iterable(N, V, a, D)
<1> DEFINE E == [i \in 1..N |-> D]
<1>1. E \in [1..N -> [V -> V]] /\ \A i \in 1..N : E[i] = D
  OBVIOUS
<1> HIDE DEF E
<1>2. Stepped(N, V, a, E)
  BY <1>1, StepsExist
<1> QED
  BY <1>1, <1>2 DEF Stepped, Iterable

-----------------------------------------------------------------------------
(* The cells a value names are there, in the form it names them as; a cell *)
(* holds no alias; a number carries its own digits or none, and a string   *)
(* is as it came.                                                          *)

Names(v) ==
  /\ v.kind \in {"ScalarRef", "AliasMut"} => v.cell \in Cells /\ cell[v.cell].form = "Mut"
  /\ v.kind \in {"ConstScalarRef", "AliasConst"} =>
       v.cell \in Cells /\ cell[v.cell].form = "Const"

NumberOf(t, x, d) == [kind |-> "Number", tainted |-> t, x |-> x, digits |-> d]
Kinds == {"Undef", "True", "False", "String", "Dual", "Number"} \cup References \cup Aliases
WellBuilt(v) ==
  /\ v.kind \in Kinds
  /\ v.kind = "String" => v \in Births
  /\ v.kind = "Number" =>
       /\ IsNumber(v.x) /\ v.digits \in {Empty, Filled(v.x)}
       /\ v = NumberOf(v.tainted, v.x, v.digits)

CellAt(form, v) == [form |-> form, payload |-> v]
CellsRight ==
  /\ cell = [c \in Cells |-> cell[c]]
  /\ \A c \in Cells :
       /\ cell[c] = CellAt(cell[c].form, cell[c].payload)
       /\ cell[c].payload.kind \notin Aliases
       /\ Names(cell[c].payload) /\ WellBuilt(cell[c].payload)

SlotsRight ==
  /\ slot = [i \in Slots |-> slot[i]]
  /\ \A i \in Slots : Names(slot[i]) /\ WellBuilt(slot[i])

IInv ==
  /\ CellsRight /\ SlotsRight
  /\ taken \in [Slots -> Slots \cup {NoSlot}]
  /\ OneIdentity

(* What comes from outside names no cell.                                  *)
LEMMA BirthsName ==
  ASSUME ValuesAssumption, NEW v \in Births
  PROVE  /\ v.kind \notin Aliases /\ v.kind \notin References
         /\ Names(v) /\ Names(v)' /\ WellBuilt(v)
<1>1. IsBirth(v)
  BY DEF ValuesAssumption
<1>2. v.kind \in {"Undef", "True", "False", "String", "Dual", "Number"}
  BY <1>1 DEF IsBirth
<1>3. WellBuilt(v)
  <2>1. SUFFICES ASSUME v.kind = "Number" PROVE WellBuilt(v)
    BY <1>2 DEF WellBuilt, Kinds
  <2>2. IsNumber(v.x) /\ v = NumberOf(v.tainted, v.x, Empty)
    BY <1>1, <2>1 DEF IsBirth, NumberOf
  <2>3. v.digits = Empty
    BY <2>2 DEF NumberOf
  <2> QED
    BY <2>1, <2>2, <2>3 DEF WellBuilt, Kinds
<1> QED
  BY <1>2, <1>3 DEF Names, Aliases, References

(* An allocation takes a cell that is free.                                *)
LEMMA NewCellFree ==
  ASSUME ValuesAssumption, FreeCells # {}
  PROVE  NewCell \in Cells /\ cell[NewCell].form = "None"
<1>1. \E c \in FreeCells : \A d \in FreeCells : c <= d
  BY LeastExists DEF ValuesAssumption, FreeCells
<1>2. NewCell \in FreeCells
  BY <1>1 DEF NewCell
<1> QED
  BY <1>2 DEF FreeCells

(* A cell that has a form keeps it: what names it goes on naming it.       *)
FormsKept == \A c \in Cells : cell[c].form \in {"Mut", "Const"} => cell'[c].form = cell[c].form

(* What a value names stays while no cell changes its form.                *)
LEMMA NamesKept ==
  ASSUME NEW v, Names(v), FormsKept
  PROVE  Names(v)'
BY DEF Names, FormsKept

(* The value that answers for a slot names what it refers to, is no alias. *)
LEMMA ResolvedNames ==
  ASSUME IInv, NEW i \in Slots
  PROVE  /\ Names(Resolved(slot[i])) /\ Resolved(slot[i]).kind \notin Aliases
         /\ WellBuilt(Resolved(slot[i]))
<1>1. CASE slot[i].kind \in Aliases
  BY <1>1 DEF IInv, SlotsRight, CellsRight, Resolved, Names, Aliases
<1>2. CASE slot[i].kind \notin Aliases
  BY <1>2 DEF IInv, SlotsRight, Resolved
<1> QED
  BY <1>1, <1>2

(* Where the cells did not change, a slot that kept its value answers as   *)
(* before.                                                                 *)
LEMMA SameAnswer ==
  ASSUME NEW i \in Slots, slot'[i] = slot[i],
         slot[i].kind \in Aliases => cell'[slot[i].cell].payload = cell[slot[i].cell].payload
  PROVE  Resolved(slot[i])' = Resolved(slot[i])
BY DEF Resolved, Aliases

-----------------------------------------------------------------------------
(* Each operation.                                                         *)

(* A slot is given a value that is no alias.                               *)
LEMMA PlaceKeeps ==
  ASSUME ValuesAssumption, IInv, NEW j \in Slots, NEW v, NEW from \in Slots \cup {NoSlot},
         v.kind \notin Aliases, Names(v), WellBuilt(v),
         from # NoSlot => /\ from # j /\ slot[from].kind \in Aliases
                          /\ DerefScalar(v) = slot[from].cell,
         Place(j, v, from), UNCHANGED cell
  PROVE  IInv'
<1>1. /\ slot' = [slot EXCEPT ![j] = v]
      /\ taken' = [k \in Slots |-> IF k = j THEN from ELSE IF taken[k] = j THEN NoSlot ELSE taken[k]]
  BY DEF Place
<1>2. \A k \in Slots : slot'[k] = IF k = j THEN v ELSE slot[k]
  BY <1>1 DEF IInv, SlotsRight
<1>3. \A w : Names(w) => Names(w)'
  BY DEF Names
<1>4. SlotsRight'
  <2>1. slot' = [i \in Slots |-> slot'[i]]
    BY <1>1 DEF IInv, SlotsRight
  <2> QED
    BY <1>2, <1>3, <2>1 DEF IInv, SlotsRight
<1>5. CellsRight'
  BY <1>3 DEF IInv, CellsRight
<1>6. taken' \in [Slots -> Slots \cup {NoSlot}]
  BY <1>1 DEF IInv
<1>7. OneIdentity'
  <2>1. SUFFICES ASSUME NEW k \in Slots, taken'[k] # NoSlot
                 PROVE  /\ slot'[taken'[k]].kind \in Aliases
                        /\ DerefScalar(Resolved(slot[k])') = slot'[taken'[k]].cell
    BY DEF OneIdentity, DerefScalar, References, Aliases
  <2>2. CASE k = j
    <3>1. taken'[k] = from /\ from \in Slots /\ slot'[from] = slot[from]
      BY <1>1, <1>2, <2>1, <2>2
    <3>2. Resolved(slot[k])' = v
      BY <1>2, <2>2 DEF Resolved
    <3> QED
      BY <2>1, <3>1, <3>2
  <2>3. CASE k # j
    <3>1. taken'[k] = taken[k] /\ taken[k] # j /\ taken[k] \in Slots
      BY <1>1, <1>6, <2>1, <2>3
    <3>2. slot'[k] = slot[k] /\ slot'[taken[k]] = slot[taken[k]]
      BY <1>2, <2>3, <3>1
    <3>3. Resolved(slot[k])' = Resolved(slot[k])
      BY <3>2, SameAnswer
    <3> QED
      BY <2>1, <3>1, <3>2, <3>3 DEF IInv, OneIdentity
  <2> QED
    BY <2>2, <2>3
<1> QED
  BY <1>4, <1>5, <1>6, <1>7 DEF IInv

(* A value from outside.                                                   *)
LEMMA PutKeeps ==
  ASSUME ValuesAssumption, IInv, NEW j \in Slots, NEW v \in Births, Put(j, v)
  PROVE  IInv'
BY BirthsName, PlaceKeeps DEF Put

(* A value copied, with the place its reference was taken from.            *)
LEMMA CopyKeeps ==
  ASSUME ValuesAssumption, IInv, NEW i \in Slots, NEW j \in Slots, Copy(i, j)
  PROVE  IInv'
<1> DEFINE v == Resolved(slot[i])
           from == IF slot[i].kind \in References /\ taken[i] # j THEN taken[i] ELSE NoSlot
<1>1. Place(j, v, from) /\ UNCHANGED cell
  BY DEF Copy
<1>2. Names(v) /\ v.kind \notin Aliases /\ WellBuilt(v)
  BY ResolvedNames
<1>3. from \in Slots \cup {NoSlot}
  BY DEF IInv
<1>4. ASSUME from # NoSlot
      PROVE  from # j /\ slot[from].kind \in Aliases /\ DerefScalar(v) = slot[from].cell
  <2>1. from = taken[i] /\ taken[i] # j
    BY <1>4
  <2> QED
    BY <1>4, <2>1 DEF IInv, OneIdentity
<1> HIDE DEF v, from
<1> QED
  BY <1>1, <1>2, <1>3, <1>4, PlaceKeeps

(* What a birth leaves: the new cell, and the others as they were.         *)
LEMMA BirthIs ==
  ASSUME ValuesAssumption, IInv, FreeCells # {}, NEW form \in {"Mut", "Const"}, NEW v,
         v.kind \notin Aliases, Names(v), WellBuilt(v), Birth(form, v)
  PROVE  /\ NewCell \in Cells /\ cell'[NewCell] = CellAt(form, v)
         /\ \A c \in Cells : cell[c].form \in {"Mut", "Const"} => cell'[c] = cell[c]
         /\ FormsKept /\ CellsRight'
<1>1. NewCell \in Cells /\ cell[NewCell].form = "None"
  BY NewCellFree
<1>2. /\ cell' = [cell EXCEPT ![NewCell] = CellAt(form, v)]
      /\ cell = [c \in Cells |-> cell[c]]
  BY DEF Birth, CellAt, IInv, CellsRight
<1>3. PICK m \in Cells : m = NewCell
  BY <1>1
<1>4. \A c \in Cells : cell'[c] = IF c = m THEN CellAt(form, v) ELSE cell[c]
  BY <1>2, <1>3
<1>5. \A c \in Cells : cell[c].form \in {"Mut", "Const"} => cell'[c] = cell[c]
  BY <1>1, <1>3, <1>4
<1>6. FormsKept
  BY <1>5 DEF FormsKept
<1>7. CellsRight'
  <2>1. cell' = [c \in Cells |-> cell'[c]]
    BY <1>2
  <2>2. ASSUME NEW c \in Cells
        PROVE  /\ cell'[c] = CellAt(cell'[c].form, cell'[c].payload)
               /\ cell'[c].payload.kind \notin Aliases
               /\ Names(cell[c].payload)' /\ WellBuilt(cell'[c].payload)
    <3>1. CASE c = m
      <4>1. cell'[c].form = form /\ cell'[c].payload = v /\ cell'[c] = CellAt(form, v)
        BY <1>4, <3>1 DEF CellAt
      <4>2. Names(v)'
        BY <1>6, NamesKept
      <4> QED
        BY <4>1, <4>2 DEF Names
    <3>2. CASE c # m
      <4>1. cell'[c] = cell[c]
        BY <1>4, <3>2
      <4>2. Names(cell[c].payload)
        BY DEF IInv, CellsRight
      <4>3. PICK w : w = cell[c].payload
        OBVIOUS
      <4>4. Names(w)'
        BY <1>6, <4>2, <4>3, NamesKept
      <4> QED
        BY <4>1, <4>3, <4>4 DEF IInv, CellsRight, Names
    <3> QED
      BY <3>1, <3>2
  <2> QED
    BY <2>1, <2>2 DEF CellsRight
<1> QED
  BY <1>1, <1>3, <1>4, <1>5, <1>6, <1>7

(* A slot that a reference is taken to answers through its cell as it did  *)
(* before, and so does every other slot but the one the reference is put   *)
(* in.                                                                     *)
LEMMA TakeRefAnswers ==
  ASSUME ValuesAssumption, IInv, NEW i \in Slots, NEW j \in Slots, TakeRef(i, j)
  PROVE  /\ i # j /\ CellsRight' /\ FormsKept
         /\ slot'[i].kind \in Aliases /\ Names(slot[i])' /\ WellBuilt(slot'[i])
         /\ slot' = [k \in Slots |-> slot'[k]]
         /\ \A k \in Slots : slot[k].kind \in Aliases /\ k # j => slot'[k] = slot[k]
         /\ \A k \in Slots : k \notin {i, j} => slot'[k] = slot[k]
         /\ slot'[j] = ReferenceTo(slot'[i])
         /\ \A k \in Slots \ {j} : Resolved(slot[k])' = Resolved(slot[k])
<1>1. i # j
  BY DEF TakeRef
<1>2. CASE slot[i].kind \in Aliases
  <2>1. slot' = [slot EXCEPT ![i] = slot[i], ![j] = ReferenceTo(slot[i])] /\ UNCHANGED cell
    BY <1>2 DEF TakeRef
  <2>2. \A k \in Slots : slot'[k] = IF k = j THEN ReferenceTo(slot[i]) ELSE slot[k]
    BY <1>1, <2>1 DEF IInv, SlotsRight
  <2>3. slot' = [k \in Slots |-> slot'[k]]
    BY <2>1 DEF IInv, SlotsRight
  <2>4. \A k \in Slots \ {j} : Resolved(slot[k])' = Resolved(slot[k])
    BY <2>1, <2>2, SameAnswer
  <2>5. CellsRight' /\ FormsKept
    BY <2>1 DEF IInv, CellsRight, FormsKept, Names
  <2>6. Names(slot[i])' /\ WellBuilt(slot'[i])
    BY <1>1, <2>1, <2>2 DEF IInv, SlotsRight, Names
  <2> QED
    BY <1>1, <1>2, <2>2, <2>3, <2>4, <2>5, <2>6
<1>3. CASE slot[i].kind \notin Aliases
  <2> DEFINE alias == To("AliasMut", NewCell, FALSE)
  <2>1. /\ FreeCells # {} /\ Birth("Mut", slot[i])
        /\ slot' = [slot EXCEPT ![i] = alias, ![j] = ReferenceTo(alias)]
    BY <1>3 DEF TakeRef
  <2>2. PICK v : v = slot[i]
    OBVIOUS
  <2>3. /\ NewCell \in Cells /\ cell'[NewCell] = CellAt("Mut", v)
        /\ \A c \in Cells : cell[c].form \in {"Mut", "Const"} => cell'[c] = cell[c]
        /\ FormsKept /\ CellsRight'
    BY <1>3, <2>1, <2>2, BirthIs DEF IInv, SlotsRight
  <2>4. alias.kind = "AliasMut" /\ alias.cell = NewCell
    BY DEF To
  <2> HIDE DEF alias
  <2>5. \A k \in Slots : slot'[k] = IF k = j THEN ReferenceTo(alias) ELSE IF k = i THEN alias ELSE slot[k]
    BY <1>1, <2>1 DEF IInv, SlotsRight
  <2>6. slot' = [k \in Slots |-> slot'[k]]
    BY <2>1 DEF IInv, SlotsRight
  <2>7. ASSUME NEW k \in Slots \ {j} PROVE Resolved(slot[k])' = Resolved(slot[k])
    <3>1. CASE k = i
      <4>1. slot'[k] = alias
        BY <2>5, <3>1
      <4>2. Resolved(slot[k])' = cell'[alias.cell].payload
        BY <2>4, <4>1 DEF Resolved, Aliases
      <4> QED
        BY <1>3, <2>2, <2>3, <2>4, <3>1, <4>2 DEF Resolved, CellAt
    <3>2. CASE k # i
      <4>1. slot'[k] = slot[k]
        BY <2>5, <3>2
      <4>2. slot[k].kind \in Aliases => cell'[slot[k].cell].payload = cell[slot[k].cell].payload
        BY <2>3 DEF IInv, SlotsRight, Names, Aliases
      <4> QED
        BY <4>1, <4>2, SameAnswer
    <3> QED
      BY <3>1, <3>2
  <2>8. Names(slot[i])' /\ WellBuilt(slot'[i]) /\ slot'[i].kind \in Aliases
    <3>1. slot'[i] = alias
      BY <1>1, <2>5
    <3>2. cell'[alias.cell].form = "Mut" /\ alias.cell \in Cells
      BY <2>3, <2>4 DEF CellAt
    <3> QED
      BY <2>4, <3>1, <3>2 DEF Names, WellBuilt, Aliases, Kinds, References
  <2>9. slot'[j] = ReferenceTo(slot'[i])
    BY <1>1, <2>5
  <2> QED
    BY <1>1, <1>3, <2>3, <2>5, <2>6, <2>7, <2>8, <2>9
<1> QED
  BY <1>2, <1>3

(* take_ref: the slot and the reference name one cell.                     *)
LEMMA TakeRefKeeps ==
  ASSUME ValuesAssumption, IInv, NEW i \in Slots, NEW j \in Slots, TakeRef(i, j)
  PROVE  IInv'
<1>1. /\ i # j /\ CellsRight' /\ FormsKept
      /\ slot'[i].kind \in Aliases /\ Names(slot[i])' /\ WellBuilt(slot'[i])
      /\ slot' = [k \in Slots |-> slot'[k]]
      /\ \A k \in Slots : slot[k].kind \in Aliases /\ k # j => slot'[k] = slot[k]
      /\ \A k \in Slots : k \notin {i, j} => slot'[k] = slot[k]
      /\ slot'[j] = ReferenceTo(slot'[i])
      /\ \A k \in Slots \ {j} : Resolved(slot[k])' = Resolved(slot[k])
  BY TakeRefAnswers
<1>2. taken' = [k \in Slots |-> IF k = j THEN i ELSE IF taken[k] = j THEN NoSlot ELSE taken[k]]
  BY DEF TakeRef
<1>3. taken' \in [Slots -> Slots \cup {NoSlot}]
  BY <1>2 DEF IInv
<1>4. /\ slot'[j].kind \in References /\ slot'[j].cell = slot'[i].cell
      /\ Names(slot[j])' /\ WellBuilt(slot'[j])
  <2>1. slot'[j].cell = slot'[i].cell
    BY <1>1 DEF ReferenceTo, To
  <2>2. slot'[j].kind = IF slot'[i].kind = "AliasConst" THEN "ConstScalarRef" ELSE "ScalarRef"
    BY <1>1 DEF ReferenceTo, To
  <2> QED
    BY <1>1, <2>1, <2>2 DEF Names, WellBuilt, Aliases, References, Kinds
<1>5. SlotsRight'
  <2>1. ASSUME NEW k \in Slots PROVE Names(slot[k])' /\ WellBuilt(slot'[k])
    <3>1. CASE k \in {i, j}
      BY <1>1, <1>4, <3>1
    <3>2. CASE k \notin {i, j}
      <4>1. PICK v : v = slot[k]
        OBVIOUS
      <4>2. Names(v) /\ WellBuilt(v)
        BY <4>1 DEF IInv, SlotsRight
      <4>3. Names(v)'
        BY <1>1, <4>2, NamesKept
      <4>4. slot'[k] = v
        BY <1>1, <3>2, <4>1
      <4> QED
        BY <4>2, <4>3, <4>4 DEF Names
    <3> QED
      BY <3>1, <3>2
  <2> QED
    BY <1>1, <2>1 DEF SlotsRight
<1>6. OneIdentity'
  <2>1. SUFFICES ASSUME NEW k \in Slots, taken'[k] # NoSlot
                 PROVE  /\ slot'[taken'[k]].kind \in Aliases
                        /\ DerefScalar(Resolved(slot[k])') = slot'[taken'[k]].cell
    BY DEF OneIdentity, DerefScalar, References, Aliases
  <2>2. CASE k = j
    <3>1. taken'[k] = i
      BY <1>2, <2>2
    <3>2. Resolved(slot[j])' = slot'[j]
      BY <1>4 DEF Resolved, References, Aliases
    <3> QED
      BY <1>1, <1>4, <2>2, <3>1, <3>2 DEF DerefScalar
  <2>3. CASE k # j
    <3>1. taken'[k] = taken[k] /\ taken[k] # j /\ taken[k] \in Slots
      BY <1>2, <1>3, <2>1, <2>3
    <3>2. Resolved(slot[k])' = Resolved(slot[k])
      BY <1>1, <2>3
    <3>3. slot[taken[k]].kind \in Aliases /\ DerefScalar(Resolved(slot[k])) = slot[taken[k]].cell
      BY <2>1, <3>1 DEF IInv, OneIdentity
    <3>4. slot'[taken[k]] = slot[taken[k]]
      BY <1>1, <3>1, <3>3
    <3> QED
      BY <3>1, <3>2, <3>3, <3>4
  <2> QED
    BY <2>2, <2>3
<1> QED
  BY <1>1, <1>3, <1>5, <1>6 DEF IInv

(* A frozen slot answers as before, and so do the others.                  *)
LEMMA FreezeAnswers ==
  ASSUME ValuesAssumption, IInv, NEW i \in Slots, Freeze(i)
  PROVE  /\ CellsRight' /\ FormsKept /\ slot[i].kind \notin Aliases
         /\ slot' = [k \in Slots |-> slot'[k]]
         /\ Names(slot[i])' /\ WellBuilt(slot'[i])
         /\ \A k \in Slots : k # i => slot'[k] = slot[k]
         /\ \A k \in Slots : Resolved(slot[k])' = Resolved(slot[k])
<1> DEFINE alias == To("AliasConst", NewCell, FALSE)
<1>1. /\ slot[i].kind \notin Aliases /\ FreeCells # {} /\ Birth("Const", slot[i])
      /\ slot' = [slot EXCEPT ![i] = alias]
  BY DEF Freeze
<1>2. PICK v : v = slot[i]
  OBVIOUS
<1>3. /\ NewCell \in Cells /\ cell'[NewCell] = CellAt("Const", v)
      /\ \A c \in Cells : cell[c].form \in {"Mut", "Const"} => cell'[c] = cell[c]
      /\ FormsKept /\ CellsRight'
  BY <1>1, <1>2, BirthIs DEF IInv, SlotsRight
<1>4. alias.kind = "AliasConst" /\ alias.cell = NewCell
  BY DEF To
<1> HIDE DEF alias
<1>5. \A k \in Slots : slot'[k] = IF k = i THEN alias ELSE slot[k]
  BY <1>1 DEF IInv, SlotsRight
<1>6. slot' = [k \in Slots |-> slot'[k]]
  BY <1>1 DEF IInv, SlotsRight
<1>7. ASSUME NEW k \in Slots PROVE Resolved(slot[k])' = Resolved(slot[k])
  <2>1. CASE k = i
    <3>1. Resolved(slot[k])' = cell'[alias.cell].payload
      BY <1>4, <1>5, <2>1 DEF Resolved, Aliases
    <3> QED
      BY <1>1, <1>2, <1>3, <1>4, <2>1, <3>1 DEF Resolved, CellAt
  <2>2. CASE k # i
    <3>1. slot'[k] = slot[k]
      BY <1>5, <2>2
    <3>2. slot[k].kind \in Aliases => cell'[slot[k].cell].payload = cell[slot[k].cell].payload
      BY <1>3 DEF IInv, SlotsRight, Names, Aliases
    <3> QED
      BY <3>1, <3>2, SameAnswer
  <2> QED
    BY <2>1, <2>2
<1>8. Names(slot[i])' /\ WellBuilt(slot'[i])
  <2>1. slot'[i] = alias
    BY <1>5
  <2>2. cell'[alias.cell].form = "Const" /\ alias.cell \in Cells
    BY <1>3, <1>4 DEF CellAt
  <2> QED
    BY <1>4, <2>1, <2>2 DEF Names, WellBuilt, Kinds, Aliases, References
<1> QED
  BY <1>1, <1>3, <1>5, <1>6, <1>7, <1>8

(* A payload frozen: no slot that a reference was taken to is frozen.      *)
LEMMA FreezeKeeps ==
  ASSUME ValuesAssumption, IInv, NEW i \in Slots, Freeze(i)
  PROVE  IInv'
<1>1. /\ CellsRight' /\ FormsKept /\ slot[i].kind \notin Aliases
      /\ slot' = [k \in Slots |-> slot'[k]]
      /\ Names(slot[i])' /\ WellBuilt(slot'[i])
      /\ \A k \in Slots : k # i => slot'[k] = slot[k]
      /\ \A k \in Slots : Resolved(slot[k])' = Resolved(slot[k])
  BY FreezeAnswers
<1>2. UNCHANGED taken /\ taken' \in [Slots -> Slots \cup {NoSlot}]
  BY DEF Freeze, IInv
<1>3. SlotsRight'
  <2>1. ASSUME NEW k \in Slots, k # i PROVE Names(slot[k])' /\ WellBuilt(slot'[k])
    <3>1. PICK v : v = slot[k]
      OBVIOUS
    <3>2. Names(v) /\ WellBuilt(v)
      BY <3>1 DEF IInv, SlotsRight
    <3>3. Names(v)'
      BY <1>1, <3>2, NamesKept
    <3> QED
      BY <1>1, <2>1, <3>1, <3>2, <3>3 DEF Names
  <2> QED
    BY <1>1, <2>1 DEF SlotsRight
<1>4. OneIdentity'
  <2>1. SUFFICES ASSUME NEW k \in Slots, taken'[k] # NoSlot
                 PROVE  /\ slot'[taken'[k]].kind \in Aliases
                        /\ DerefScalar(Resolved(slot[k])') = slot'[taken'[k]].cell
    BY DEF OneIdentity, DerefScalar, References, Aliases
  <2>2. /\ taken'[k] = taken[k] /\ taken[k] \in Slots
        /\ slot[taken[k]].kind \in Aliases
        /\ DerefScalar(Resolved(slot[k])) = slot[taken[k]].cell
    BY <1>2, <2>1 DEF IInv, OneIdentity
  <2>3. slot'[taken[k]] = slot[taken[k]]
    BY <1>1, <2>2
  <2> QED
    BY <1>1, <2>2, <2>3
<1> QED
  BY <1>1, <1>2, <1>3, <1>4 DEF IInv

(* The payload of a cell replaced by one that names what it refers to.     *)
LEMMA PayloadKeeps ==
  ASSUME IInv, NEW c \in Cells, NEW v, cell' = [cell EXCEPT ![c].payload = v],
         v.kind \notin Aliases, Names(v), WellBuilt(v), UNCHANGED slot
  PROVE  /\ CellsRight' /\ SlotsRight'
         /\ \A d \in Cells : cell'[d] = IF d = c THEN CellAt(cell[c].form, v) ELSE cell[d]
<1>1. /\ cell = [d \in Cells |-> cell[d]]
      /\ \A d \in Cells : cell[d] = CellAt(cell[d].form, cell[d].payload)
  BY DEF IInv, CellsRight
<1>2. [cell[c] EXCEPT !.payload = v] = CellAt(cell[c].form, v)
  <2>1. PICK r, form, p : r = cell[c] /\ r = CellAt(form, p)
    BY <1>1
  <2>2. [r EXCEPT !.payload = v] = CellAt(form, v) /\ r.form = form
    BY <2>1 DEF CellAt
  <2> QED
    BY <2>1, <2>2
<1>3. cell' = [cell EXCEPT ![c] = CellAt(cell[c].form, v)]
  BY <1>2
<1>4. \A d \in Cells : cell'[d] = IF d = c THEN CellAt(cell[c].form, v) ELSE cell[d]
  BY <1>1, <1>3
<1>5. cell'[c].form = cell[c].form /\ cell'[c].payload = v
  BY <1>4 DEF CellAt
<1>6. FormsKept
  BY <1>4, <1>5 DEF FormsKept
<1>7. CellsRight'
  <2>1. cell' = [d \in Cells |-> cell'[d]]
    BY <1>1, <1>3
  <2>2. ASSUME NEW d \in Cells
        PROVE  /\ cell'[d] = CellAt(cell'[d].form, cell'[d].payload)
               /\ cell'[d].payload.kind \notin Aliases
               /\ Names(cell[d].payload)' /\ WellBuilt(cell'[d].payload)
    <3>1. CASE d = c
      <4>1. Names(v)'
        BY <1>6, NamesKept
      <4> QED
        BY <1>4, <1>5, <3>1, <4>1 DEF Names
    <3>2. CASE d # c
      <4>1. cell'[d] = cell[d]
        BY <1>4, <3>2
      <4>2. PICK w : w = cell[d].payload
        OBVIOUS
      <4>3. Names(w) /\ w.kind \notin Aliases /\ WellBuilt(w)
        BY <4>2 DEF IInv, CellsRight
      <4>4. Names(w)'
        BY <1>6, <4>3, NamesKept
      <4> QED
        BY <1>1, <4>1, <4>2, <4>3, <4>4 DEF Names
    <3> QED
      BY <3>1, <3>2
  <2> QED
    BY <2>1, <2>2 DEF CellsRight
<1>8. SlotsRight'
  <2>1. ASSUME NEW k \in Slots PROVE Names(slot[k])' /\ WellBuilt(slot'[k])
    <3>1. PICK w : w = slot[k]
      OBVIOUS
    <3>2. Names(w) /\ WellBuilt(w)
      BY <3>1 DEF IInv, SlotsRight
    <3>3. Names(w)'
      BY <1>6, <3>2, NamesKept
    <3> QED
      BY <3>1, <3>2, <3>3 DEF Names
  <2> QED
    BY <2>1 DEF IInv, SlotsRight
<1> QED
  BY <1>4, <1>7, <1>8

(* A cell that no reference counts on any more is written.                 *)
LEMMA IdentityPastPayload ==
  ASSUME IInv, NEW c \in Cells, NEW v, UNCHANGED slot,
         \A d \in Cells : cell'[d] = IF d = c THEN CellAt(cell[c].form, v) ELSE cell[d],
         \A k \in Slots : taken'[k] = taken[k] \/ taken'[k] = NoSlot,
         \A k \in Slots : /\ taken'[k] # NoSlot /\ slot[k].kind \in Aliases
                           => slot[k].cell # c
  PROVE  OneIdentity'
<1>1. SUFFICES ASSUME NEW k \in Slots, taken'[k] # NoSlot
               PROVE  /\ slot'[taken'[k]].kind \in Aliases
                      /\ DerefScalar(Resolved(slot[k])') = slot'[taken'[k]].cell
  BY DEF OneIdentity, DerefScalar, References, Aliases
<1>2. /\ taken'[k] = taken[k]
      /\ slot[taken[k]].kind \in Aliases
      /\ DerefScalar(Resolved(slot[k])) = slot[taken[k]].cell
  BY <1>1 DEF IInv, OneIdentity
<1>3. slot[k].kind \in Aliases => cell'[slot[k].cell].payload = cell[slot[k].cell].payload
  <2>1. slot[k].kind \in Aliases => slot[k].cell \in Cells /\ slot[k].cell # c
    BY <1>1 DEF IInv, SlotsRight, Names, Aliases
  <2> QED
    BY <2>1
<1>4. Resolved(slot[k])' = Resolved(slot[k])
  BY <1>3, SameAnswer
<1> QED
  BY <1>2, <1>4

(* Writing through a reference.                                            *)
LEMMA AssignKeeps ==
  ASSUME ValuesAssumption, IInv, NEW i \in Slots, NEW v \in Births, Assign(i, v)
  PROVE  IInv'
<1>1. PICK c : c = DerefScalar(Resolved(slot[i]))
  OBVIOUS
<1>2. c \in Cells
  BY <1>1, ResolvedNames DEF Assign, DerefScalar, Names, References
<1>3. /\ cell' = [cell EXCEPT ![c].payload = v] /\ UNCHANGED slot
      /\ taken' = [j \in Slots |-> IF slot[j].kind \in Aliases /\ slot[j].cell = c THEN NoSlot ELSE taken[j]]
  BY <1>1 DEF Assign
<1>4. /\ CellsRight' /\ SlotsRight'
      /\ \A d \in Cells : cell'[d] = IF d = c THEN CellAt(cell[c].form, v) ELSE cell[d]
  BY <1>2, <1>3, BirthsName, PayloadKeeps
<1>5. taken' \in [Slots -> Slots \cup {NoSlot}]
  BY <1>3 DEF IInv
<1>6. OneIdentity'
  BY <1>2, <1>3, <1>4, IdentityPastPayload
<1> QED
  BY <1>4, <1>5, <1>6 DEF IInv

(* Noting a warning replaces a string, which is no reference.              *)
LEMMA NoteKeeps ==
  ASSUME ValuesAssumption, IInv, NEW i \in Slots, Note(i)
  PROVE  IInv'
<1> DEFINE p == Resolved(slot[i])
<1>1. PICK v, c : /\ v = DualValue(p.s, ClassifyNumeric(p.s)[1], p.tainted)
                  /\ c = slot[i].cell
  OBVIOUS
<1>2. /\ slot[i].kind = "AliasMut" /\ cell[c].payload.kind = "String"
      /\ cell' = [cell EXCEPT ![c].payload = v] /\ UNCHANGED <<slot, taken>>
  BY <1>1 DEF Note, Noting
<1>3. c \in Cells
  BY <1>1, <1>2 DEF IInv, SlotsRight, Names
<1>4. v.kind = "Dual"
  BY <1>1 DEF DualValue
<1>5. v.kind \notin Aliases /\ Names(v) /\ WellBuilt(v)
  BY <1>4 DEF Aliases, Names, WellBuilt, Kinds, References
<1>6. /\ CellsRight' /\ SlotsRight'
      /\ \A d \in Cells : cell'[d] = IF d = c THEN CellAt(cell[c].form, v) ELSE cell[d]
  BY <1>2, <1>3, <1>5, PayloadKeeps
<1>7. ASSUME NEW k \in Slots, taken[k] # NoSlot, slot[k].kind \in Aliases PROVE slot[k].cell # c
  <2>1. SUFFICES ASSUME slot[k].cell = c PROVE FALSE
    OBVIOUS
  <2>2. DerefScalar(Resolved(slot[k])) = 0
    BY <1>2, <1>7, <2>1 DEF Resolved, DerefScalar, References
  <2>3. taken[k] \in Slots /\ slot[taken[k]].kind \in Aliases /\ slot[taken[k]].cell = 0
    BY <1>7, <2>2 DEF IInv, OneIdentity
  <2>4. slot[taken[k]].cell \in Cells
    BY <2>3 DEF IInv, SlotsRight, Names, Aliases
  <2> QED
    BY <2>3, <2>4 DEF ValuesAssumption
<1>8. OneIdentity'
  BY <1>2, <1>3, <1>6, <1>7, IdentityPastPayload
<1>9. taken' \in [Slots -> Slots \cup {NoSlot}]
  BY <1>2 DEF IInv
<1> QED
  BY <1>6, <1>8, <1>9 DEF IInv

(* A number with its digits, and the slots around it.                      *)
LEMMA CacheIs ==
  ASSUME IInv, NEW i \in Slots, WithCachedDigits(i)
  PROVE  /\ UNCHANGED <<cell, taken>> /\ slot[i].kind = "Number"
         /\ slot' = [k \in Slots |-> slot'[k]]
         /\ slot'[i] = NumberOf(slot[i].tainted, slot[i].x, Filled(slot[i].x))
         /\ \A k \in Slots : k # i => slot'[k] = slot[k]
<1>1. /\ UNCHANGED <<cell, taken>> /\ slot[i].kind = "Number"
      /\ slot' = [slot EXCEPT ![i] = [slot[i] EXCEPT !.digits = Filled(slot[i].x)]]
  BY DEF WithCachedDigits
<1>2. PICK v : v = slot[i]
  OBVIOUS
<1>3. v = NumberOf(v.tainted, v.x, v.digits)
  BY <1>1, <1>2 DEF IInv, SlotsRight, WellBuilt
<1>4. PICK t, x, d : t = v.tainted /\ x = v.x /\ d = v.digits
  OBVIOUS
<1>5. [v EXCEPT !.digits = Filled(x)] = NumberOf(t, x, Filled(x))
  <2>1. \A e : [NumberOf(t, x, d) EXCEPT !.digits = e] = NumberOf(t, x, e)
    BY DEF NumberOf
  <2> QED
    BY <1>3, <1>4, <2>1
<1>6. slot' = [slot EXCEPT ![i] = NumberOf(slot[i].tainted, slot[i].x, Filled(slot[i].x))]
  BY <1>1, <1>2, <1>4, <1>5
<1> QED
  BY <1>1, <1>6 DEF IInv, SlotsRight

(* Digits are cached beside a number, which is no reference either.        *)
LEMMA CacheKeeps ==
  ASSUME ValuesAssumption, IInv, NEW i \in Slots, WithCachedDigits(i)
  PROVE  IInv'
<1>1. /\ UNCHANGED <<cell, taken>> /\ slot[i].kind = "Number"
      /\ slot' = [k \in Slots |-> slot'[k]]
      /\ slot'[i] = NumberOf(slot[i].tainted, slot[i].x, Filled(slot[i].x))
      /\ \A k \in Slots : k # i => slot'[k] = slot[k]
  BY CacheIs
<1>2. /\ slot'[i].kind = "Number" /\ slot'[i].x = slot[i].x
      /\ slot'[i].digits = Filled(slot[i].x) /\ slot'[i].tainted = slot[i].tainted
  BY <1>1 DEF NumberOf
<1>3. SlotsRight'
  <2>1. WellBuilt(slot'[i])
    BY <1>1, <1>2 DEF IInv, SlotsRight, WellBuilt
  <2>2. Names(slot[i])'
    BY <1>2 DEF Names
  <2>3. \A k \in Slots : k # i => Names(slot[k])' /\ WellBuilt(slot'[k])
    BY <1>1 DEF IInv, SlotsRight, Names
  <2> QED
    BY <1>1, <2>1, <2>2, <2>3 DEF SlotsRight
<1>4. CellsRight'
  BY <1>1 DEF IInv, CellsRight, Names
<1>5. OneIdentity'
  <2>1. SUFFICES ASSUME NEW k \in Slots, taken'[k] # NoSlot
                 PROVE  /\ slot'[taken'[k]].kind \in Aliases
                        /\ DerefScalar(Resolved(slot[k])') = slot'[taken'[k]].cell
    BY DEF OneIdentity, DerefScalar, References, Aliases
  <2>2. /\ taken'[k] = taken[k] /\ taken[k] \in Slots
        /\ slot[taken[k]].kind \in Aliases
        /\ DerefScalar(Resolved(slot[k])) = slot[taken[k]].cell
    BY <1>1, <2>1 DEF IInv, OneIdentity
  <2>3. taken[k] # i /\ slot'[taken[k]] = slot[taken[k]] /\ slot[taken[k]].cell \in Cells
    BY <1>1, <2>2 DEF Aliases, IInv, SlotsRight, Names
  <2>4. CASE k = i
    <3>1. DerefScalar(Resolved(slot[i])) = 0
      BY <1>1 DEF Resolved, Aliases, DerefScalar, References
    <3> QED
      BY <2>2, <2>3, <2>4, <3>1 DEF ValuesAssumption
  <2>5. CASE k # i
    <3>1. Resolved(slot[k])' = Resolved(slot[k])
      BY <1>1, <2>5, SameAnswer
    <3> QED
      BY <2>2, <2>3, <3>1
  <2> QED
    BY <2>4, <2>5
<1> QED
  BY <1>1, <1>3, <1>4, <1>5 DEF IInv

(* At the beginning nothing is aliased, referred to or allocated.          *)
LEMMA InitHolds ==
  ASSUME Init
  PROVE  IInv
<1>1. Undef.kind = "Undef"
  BY DEF Undef, Plain
<1>2. Names(Undef) /\ WellBuilt(Undef) /\ Undef.kind \notin Aliases
  BY <1>1 DEF Names, WellBuilt, Aliases, Kinds, References
<1>3. SlotsRight
  <2>1. slot = [i \in Slots |-> Undef]
    BY DEF Init
  <2> QED
    BY <1>2, <2>1 DEF SlotsRight
<1>4. CellsRight
  <2>1. cell = [c \in Cells |-> CellAt("None", Undef)]
    BY DEF Init, CellAt
  <2>2. CellAt("None", Undef).form = "None" /\ CellAt("None", Undef).payload = Undef
    BY DEF CellAt
  <2> QED
    BY <1>2, <2>1, <2>2 DEF CellsRight
<1>5. taken = [i \in Slots |-> NoSlot]
  BY DEF Init
<1> QED
  BY <1>3, <1>4, <1>5 DEF IInv, OneIdentity

(* Every operation keeps slots, cells and references together.             *)
LEMMA StepKeeps ==
  ASSUME ValuesAssumption, IInv, [Next]_vars
  PROVE  IInv'
<1>1. CASE Next
  <2>1. PICK i \in Slots :
          \/ \E v \in Births : Put(i, v) \/ Assign(i, v)
          \/ \E j \in Slots : Copy(i, j) \/ TakeRef(i, j)
          \/ Freeze(i) \/ Note(i) \/ WithCachedDigits(i)
    BY <1>1 DEF Next
  <2> QED
    BY <2>1, PutKeeps, AssignKeeps, CopyKeeps, TakeRefKeeps, FreezeKeeps, NoteKeeps, CacheKeeps
<1>2. CASE UNCHANGED vars
  <2>1. UNCHANGED <<slot, cell, taken>>
    BY <1>2 DEF vars
  <2>2. OneIdentity'
    BY <2>1 DEF IInv, OneIdentity, Resolved
  <2> QED
    BY <2>1, <2>2 DEF IInv, SlotsRight, CellsRight, Names
<1> QED
  BY <1>1, <1>2

(* The invariant holds in every state.                                     *)
LEMMA Invariance ==
  ASSUME ValuesAssumption
  PROVE  Spec => []IInv
<1>1. Init => IInv
  BY InitHolds
<1>2. IInv /\ [Next]_vars => IInv'
  BY StepKeeps
<1> QED
  BY <1>1, <1>2, PTL DEF Spec

(* However often references to a slot are taken, copied, written through   *)
(* and frozen, the slot and the references taken to it name one cell, for  *)
(* any number of slots and any supply of cells (value.rs, take_ref).       *)
THEOREM IdentityIsOne ==
  ASSUME ValuesAssumption
  PROVE  Spec => []OneIdentity
<1>1. IInv => OneIdentity
  BY DEF IInv
<1> QED
  BY <1>1, Invariance, PTL

-----------------------------------------------------------------------------
(* Digits.                                                                 *)

(* The quotients DigitsOf goes by.                                         *)
Quotients(n) ==
  LET left[k \in 0..n + 1] == IF k = 0 THEN n ELSE left[k - 1] \div 10 IN left

(* Each quotient is a tenth of the one before it.                          *)
LEMMA QuotientsAre ==
  ASSUME NEW n \in Nat
  PROVE  /\ Quotients(n)[0] = n
         /\ \A k \in 1..n + 1 : Quotients(n)[k] = Quotients(n)[k - 1] \div 10
         /\ \A k \in 0..n + 1 : Quotients(n)[k] \in Nat
<1> DEFINE D == [m \in Nat |-> m \div 10]
           E(f) == [k \in 0..n + 1 |-> IF k = 0 THEN n ELSE f[k - 1] \div 10]
<1>1. D \in [Nat -> Nat]
  OBVIOUS
<1>2. PICK f \in [0..n + 1 -> Nat] : f[0] = n /\ \A k \in 1..n + 1 : f[k] = D[f[k - 1]]
  <2> HIDE DEF D, E
  <2>1. n + 1 \in Nat /\ n \in Nat
    OBVIOUS
  <2>2. Iterable(n + 1, Nat, n, D)
    BY <1>1, <2>1, IterationExists
  <2> QED
    BY <2>2 DEF Iterable
<1>3. f = E(f)
  <2>1. \A k \in 0..n + 1 : f[k] = IF k = 0 THEN n ELSE f[k - 1] \div 10
    <3> TAKE k \in 0..n + 1
    <3>1. CASE k = 0
      BY <3>1, <1>2
    <3>2. CASE k # 0
      <4>1. k \in 1..n + 1 /\ k - 1 \in 0..n + 1
        BY <3>2
      <4> QED
        BY <1>2, <4>1, <3>2
    <3> QED
      BY <3>1, <3>2
  <2> QED
    BY <2>1
<1>4. PICK q : q = Quotients(n)
  OBVIOUS
<1>5. q = E(q)
  <2>1. q = CHOOSE g : g = E(g)
    BY <1>4 DEF Quotients
  <2> HIDE DEF E
  <2> QED
    BY <1>3, <2>1
<1>6. q[0] = n /\ \A k \in 1..n + 1 : q[k] = q[k - 1] \div 10
  BY <1>5
<1>7. \A k \in 0..n + 1 : q[k] \in Nat
  <2> DEFINE S == {k \in 0..n + 1 : q[k] \in Nat}
  <2>1. 0 \in S
    BY <1>6
  <2>2. ASSUME NEW k \in 0..((n + 1) - 1), k \in S PROVE k + 1 \in S
    <3>1. k + 1 \in 1..n + 1 /\ (k + 1) - 1 = k
      OBVIOUS
    <3>2. q[k + 1] = q[k] \div 10
      BY <1>6, <3>1
    <3> QED
      BY <2>2, <3>1, <3>2
  <2>3. \A k \in 0..n + 1 : k \in S
    <3> HIDE DEF S
    <3>1. n + 1 \in Nat
      OBVIOUS
    <3> QED
      BY <2>1, <2>2, <3>1, UpTo
  <2> QED
    BY <2>3
<1> QED
  BY <1>4, <1>6, <1>7

(* A number has finitely many digits, one at least.                        *)
LEMMA DigitsAre ==
  ASSUME NEW n \in Nat
  PROVE  \E count \in Nat \ {0} :
           /\ DigitsOf(n) \in [1..count -> 0..9]
           /\ IF n = 0 THEN DigitsOf(n) = <<0>> ELSE DigitsOf(n)[1] # 0
<1> DEFINE q == Quotients(n)
           Ends(k) == q[k] = 0 /\ (k = 1 \/ q[k - 1] # 0)
           count == CHOOSE k \in 1..n + 1 : Ends(k)
<1>1. DigitsOf(n) = [i \in 1..count |-> q[count - i] % 10]
  BY DEF DigitsOf, Quotients
<1>2. /\ q[0] = n /\ \A k \in 1..n + 1 : q[k] = q[k - 1] \div 10
      /\ \A k \in 0..n + 1 : q[k] \in Nat
  BY QuotientsAre
<1> HIDE DEF q
<1>3. \A k \in 0..n + 1 : q[k] = 0 \/ q[k] + k <= n
  <2> DEFINE S == {k \in 0..n + 1 : q[k] = 0 \/ q[k] + k <= n}
  <2>1. 0 \in S
    BY <1>2
  <2>2. ASSUME NEW k \in 0..((n + 1) - 1), k \in S PROVE k + 1 \in S
    <3>1. k + 1 \in 1..n + 1 /\ (k + 1) - 1 = k
      OBVIOUS
    <3>2. q[k + 1] = q[k] \div 10 /\ q[k] \in Nat
      BY <1>2, <3>1
    <3> QED
      BY <2>2, <3>1, <3>2
  <2>3. \A k \in 0..n + 1 : k \in S
    <3> HIDE DEF S
    <3>1. n + 1 \in Nat
      OBVIOUS
    <3> QED
      BY <2>1, <2>2, <3>1, UpTo
  <2> QED
    BY <2>3
<1>4. q[n + 1] = 0
  BY <1>2, <1>3
<1>5. \E k \in 1..n + 1 : Ends(k)
  <2> DEFINE S == {k \in 1..n + 1 : q[k] = 0}
  <2>1. PICK k \in S : \A m \in S : k <= m
    <3>1. S \subseteq Nat /\ n + 1 \in S
      BY <1>4
    <3> HIDE DEF S
    <3> QED
      BY <3>1, LeastExists
  <2> QED
    BY <2>1
<1>6. count \in 1..n + 1
  <2> HIDE DEF Ends
  <2> QED
    BY <1>5
<1> HIDE DEF count
<1>7. ASSUME NEW i \in 1..count PROVE q[count - i] % 10 \in 0..9
  <2>1. count - i \in 0..n + 1
    BY <1>6
  <2>2. q[count - i] \in Nat
    BY <1>2, <2>1
  <2>3. PICK m \in Nat : m = q[count - i]
    BY <2>2
  <2> QED
    BY <2>3
<1>8. Ends(count)
  <2> HIDE DEF Ends
  <2> QED
    BY <1>5 DEF count
<1> HIDE DEF Ends
<1>9. CASE n = 0
  <2>1. count = 1 /\ q[0] = 0
    BY <1>2, <1>6, <1>9
  <2>2. DigitsOf(n) = [i \in 1..1 |-> 0]
    BY <1>1, <2>1
  <2>3. [i \in 1..1 |-> 0] = <<0>>
    OBVIOUS
  <2> QED
    BY <1>1, <1>6, <1>7, <1>9, <2>2, <2>3
<1>10. CASE n # 0
  <2>1. q[count] = 0 /\ q[count - 1] # 0
    BY <1>2, <1>8, <1>10 DEF Ends
  <2>2. q[count - 1] \in Nat /\ q[count] = q[count - 1] \div 10
    BY <1>2, <1>6
  <2>3. PICK m \in Nat : m = q[count - 1]
    BY <2>2
  <2>4. m # 0 /\ m \div 10 = 0
    BY <2>1, <2>2, <2>3
  <2>5. m % 10 # 0
    BY <2>4
  <2>6. DigitsOf(n)[1] = q[count - 1] % 10
    BY <1>1, <1>6
  <2> QED
    BY <1>1, <1>6, <1>7, <1>10, <2>3, <2>5, <2>6
<1> QED
  BY <1>9, <1>10

(* Digits packed two to a byte come out as they went in.                   *)
LEMMA DigitsUnpack ==
  ASSUME NEW count \in Nat \ {0}, NEW d \in [1..count -> 0..9], NEW exp, NEW capacity,
         Build(d, exp, capacity) # Empty
  PROVE  /\ Build(d, exp, capacity).count = count /\ Build(d, exp, capacity).exp = exp
         /\ CachedDigits(Build(d, exp, capacity)) = d
<1>1. Len(d) = count
  OBVIOUS
<1> DEFINE bytes == [b \in 1..(count + 1) \div 2 |->
                       (d[(2 * b) - 1] * 16) + (IF 2 * b <= count THEN d[2 * b] ELSE 0)]
<1>2. Build(d, exp, capacity) = [count |-> count, exp |-> exp, bytes |-> bytes]
  BY <1>1 DEF Build
<1>3. ASSUME NEW i \in 1..count
      PROVE  (IF i % 2 = 1 THEN bytes[(i + 1) \div 2] \div 16 ELSE bytes[(i + 1) \div 2] % 16) = d[i]
  <2>1. CASE i % 2 = 1
    <3>1. PICK b \in 1..(count + 1) \div 2 : b = (i + 1) \div 2
      OBVIOUS
    <3>2. i = (2 * b) - 1
      BY <2>1, <3>1
    <3>3. PICK low \in 0..9 : bytes[b] = (d[i] * 16) + low
      <4>1. CASE 2 * b <= count
        BY <3>2, <4>1
      <4>2. CASE ~(2 * b <= count)
        BY <3>2, <4>2
      <4> QED
        BY <4>1, <4>2
    <3>4. PICK high \in 0..9 : high = d[i]
      OBVIOUS
    <3>5. ((high * 16) + low) \div 16 = high
      OBVIOUS
    <3> HIDE DEF bytes
    <3> QED
      BY <2>1, <3>1, <3>3, <3>4, <3>5
  <2>2. CASE i % 2 # 1
    <3>1. PICK b \in 1..(count + 1) \div 2 : b = (i + 1) \div 2
      OBVIOUS
    <3>2. i = 2 * b /\ (2 * b) - 1 \in 1..count
      BY <2>2, <3>1
    <3>3. bytes[b] = (d[(2 * b) - 1] * 16) + d[i]
      BY <3>2
    <3>4. PICK high \in 0..9, low \in 0..9 : high = d[(2 * b) - 1] /\ low = d[i]
      BY <3>2
    <3>5. ((high * 16) + low) % 16 = low
      OBVIOUS
    <3> HIDE DEF bytes
    <3> QED
      BY <2>2, <3>1, <3>3, <3>4, <3>5
  <2> QED
    BY <2>1, <2>2
<1> DEFINE built == Build(d, exp, capacity)
<1>4. built.count = count /\ built.exp = exp /\ built.bytes = bytes
  BY <1>2
<1>5. CachedDigits(built) = [i \in 1..count |-> d[i]]
  <2> HIDE DEF built, bytes
  <2> QED
    BY <1>3, <1>4 DEF CachedDigits
<1> QED
  BY <1>4, <1>5

(* The digits a number carries render it as its value does.                *)
LEMMA CachedRenders ==
  ASSUME NEW x, IsNumber(x)
  PROVE  Render(x, Filled(x)) = Render(x, Empty)
<1>1. Empty.count = 0
  BY DEF Empty
<1>2. SUFFICES ASSUME Filled(x) # Empty PROVE Render(x, Filled(x)) = Render(x, Empty)
  OBVIOUS
<1>3. CASE x.kind # "Float"
  <2>1. x.n \in Int
    BY <1>3 DEF IsNumber
  <2>2. Abs(x.n) \in Nat
    BY <2>1 DEF Abs
  <2>3. PICK count \in Nat \ {0} : DigitsOf(Abs(x.n)) \in [1..count -> 0..9]
    BY <2>2, DigitsAre
  <2> DEFINE d == DigitsOf(Abs(x.n))
  <2>4. d \in [1..count -> 0..9]
    BY <2>3
  <2> HIDE DEF d
  <2>5. Filled(x) = Build(d, 0, IntCache)
    BY <1>3 DEF Filled, d
  <2>6. Filled(x).count = count /\ CachedDigits(Filled(x)) = d
    BY <1>2, <2>4, <2>5, DigitsUnpack
  <2>7. Render(x, Filled(x)) = Minus(x.n < 0) \o Chars(d)
    BY <1>3, <2>6 DEF Render
  <2>8. Render(x, Empty) = Minus(x.n < 0) \o Chars(d)
    BY <1>1, <1>3 DEF Render, FormatInt, d
  <2> QED
    BY <2>7, <2>8
<1>4. CASE x.kind = "Float"
  <2>1. x.f.class = "finite" /\ x.f.m # 0
    BY <1>2, <1>4 DEF Filled
  <2>2. x.f.m \in Nat
    BY <1>4, <2>1 DEF IsNumber
  <2>3. PICK count \in Nat \ {0} : FloatDigits(x.f) \in [1..count -> 0..9]
    BY <2>2, DigitsAre DEF FloatDigits
  <2> DEFINE d == FloatDigits(x.f)
  <2>4. d \in [1..count -> 0..9]
    BY <2>3
  <2> HIDE DEF d
  <2>5. Filled(x) = Build(d, FloatExp(x.f), FloatCache)
    BY <1>4, <2>1 DEF Filled, d
  <2>6. /\ Filled(x).count = count /\ Filled(x).exp = FloatExp(x.f)
        /\ CachedDigits(Filled(x)) = d
    BY <1>2, <2>4, <2>5, DigitsUnpack
  <2>7. Render(x, Filled(x)) = PresentFloat(d, FloatExp(x.f), x.f.negative)
    BY <1>4, <2>6 DEF Render
  <2>8. Render(x, Empty) = PresentFloat(d, FloatExp(x.f), x.f.negative)
    BY <1>1, <1>4, <2>1 DEF Render, FormatFloat, d
  <2> QED
    BY <2>7, <2>8
<1> QED
  BY <1>3, <1>4

-----------------------------------------------------------------------------
(* Answers.                                                                *)

(* A number answers the same with its digits and without.                  *)
LEMMA NumberFaces ==
  ASSUME NEW t, NEW x, IsNumber(x), NEW d \in {Empty, Filled(x)}
  PROVE  Faces(NumberOf(t, x, d)) = Faces(NumberOf(t, x, Empty))
<1>1. Render(x, d) = Render(x, Empty)
  BY CachedRenders
<1>2. ASSUME NEW e
      PROVE  Faces(NumberOf(t, x, e)) =
               [truth |-> ~IsZero(x), number |-> x, integer |-> NumberToInt(x),
                float |-> NumberToFloat(x), string |-> Render(x, e), tainted |-> t,
                scalar |-> 0]
  <2>1. PICK v : v = NumberOf(t, x, e)
    OBVIOUS
  <2>2. v.kind = "Number" /\ v.tainted = t /\ v.x = x /\ v.digits = e
    BY <2>1 DEF NumberOf
  <2>3. ToBool(v) = ~IsZero(x)
    BY <2>2 DEF ToBool
  <2>4. Numify(v) = x
    BY <2>2 DEF Numify
  <2>5. ToFloat(v) = NumberToFloat(x)
    BY <2>2, <2>4 DEF ToFloat
  <2>6. Stringify(v) = Render(x, e)
    BY <2>2 DEF Stringify
  <2>7. DerefScalar(v) = 0
    BY <2>2 DEF DerefScalar, References
  <2>8. ToInt(v) = NumberToInt(x)
    BY <2>2, <2>4 DEF ToInt
  <2> QED
    BY <2>1, <2>2, <2>3, <2>4, <2>5, <2>6, <2>7, <2>8 DEF Faces
<1> QED
  BY <1>1, <1>2

(* A string answers the same once its warning is noted, where its float is *)
(* that of its number, but for the integer, which is the number's now.     *)
LEMMA NotedFaces ==
  ASSUME NEW p, p.kind = "String", ToFloat(p) = NumberToFloat(Numify(p)),
         NEW v, v = DualValue(p.s, ClassifyNumeric(p.s)[1], p.tainted)
  PROVE  Faces(v) = IntegerOfNumber(p)
<1>1. /\ v.kind = "Dual" /\ v.s = p.s /\ v.tainted = p.tainted
      /\ v.x = ClassifyNumeric(p.s)[1]
  BY DEF DualValue
<1>2. ToBool(v) = Truth(p.s) /\ ToBool(p) = Truth(p.s)
  BY <1>1 DEF ToBool
<1>3. Numify(v) = Numify(p)
  BY <1>1 DEF Numify
<1>4. ToFloat(v) = ToFloat(p)
  BY <1>1, <1>3 DEF ToFloat
<1>5. ToInt(v) = NumberToInt(Numify(p))
  BY <1>1, <1>3 DEF ToInt
<1>6. Stringify(v) = p.s /\ Stringify(p) = p.s
  BY <1>1 DEF Stringify
<1>7. DerefScalar(v) = 0 /\ DerefScalar(p) = 0
  BY <1>1 DEF DerefScalar, References
<1> QED
  BY <1>1, <1>2, <1>3, <1>4, <1>5, <1>6, <1>7 DEF Faces, IntegerOfNumber

(* Where the integer is the number's already, no answer changes at all.    *)
LEMMA SameInteger ==
  ASSUME NEW p, ToInt(p) = NumberToInt(Numify(p))
  PROVE  IntegerOfNumber(p) = Faces(p)
BY DEF IntegerOfNumber, Faces

(* The symbols of renderings; strings of them; those of two characters or  *)
(* one other than 0; those that begin with another character than 0.       *)
Written ==
  {"0", "1", "2", "3", "4", "5", "6", "7", "8", "9", ".", "e", "-", "+", "inf", "nan",
   "SCALAR(0x", ")"}
Chain(s) == s \in Seq(Written)
Showy(s) == Chain(s) /\ Len(s) >= 1 /\ (Len(s) >= 2 \/ s[1] # "0")
Leads(s) == Chain(s) /\ Len(s) >= 1 /\ s[1] # "0"

(* One symbol.                                                             *)
LEMMA OneWritten ==
  ASSUME NEW c \in Written
  PROVE  Chain(<<c>>) /\ Len(<<c>>) = 1 /\ <<c>>[1] = c
<1> HIDE DEF Written
<1> QED
  BY DEF Chain

(* A string of two characters, or one other than 0, is true.               *)
LEMMA ShowyIsTrue ==
  ASSUME NEW s, Showy(s)
  PROVE  Truth(s)
<1>1. ASSUME NEW c
      PROVE  Len(<<c>>) = 1 /\ <<c>>[1] = c
  OBVIOUS
<1>2. Len(<<>>) = 0
  OBVIOUS
<1>3. Len(s) >= 1 /\ (Len(s) >= 2 \/ s[1] # "0")
  BY DEF Showy
<1>4. s # <<>>
  BY <1>2, <1>3
<1>5. s # <<"0">>
  <2>1. SUFFICES ASSUME s = <<"0">> PROVE FALSE
    OBVIOUS
  <2>2. Len(s) = 1
    BY <1>1, <2>1
  <2>3. s[1] = "0"
    BY <1>1, <2>1
  <2>4. ~(Len(s) >= 2)
    BY <2>2
  <2> QED
    BY <1>3, <2>3, <2>4
<1> QED
  BY <1>4, <1>5 DEF Truth

(* Strings joined.                                                         *)
LEMMA Joined ==
  ASSUME NEW s, NEW t, Chain(s), Chain(t)
  PROVE  /\ Chain(s \o t) /\ Len(s \o t) = Len(s) + Len(t)
         /\ Len(s) >= 1 => (s \o t)[1] = s[1]
         /\ Leads(s) => Leads(s \o t)
         /\ Len(s) + Len(t) >= 2 => Showy(s \o t)
<1>1. /\ s \o t \in Seq(Written) /\ Len(s \o t) = Len(s) + Len(t)
      /\ \A i \in 1..Len(s) + Len(t) : (s \o t)[i] = IF i <= Len(s) THEN s[i] ELSE t[i - Len(s)]
  BY ConcatProperties DEF Chain
<1>2. Len(s) \in Nat /\ Len(t) \in Nat
  BY LenProperties DEF Chain
<1>3. Len(s) >= 1 => (s \o t)[1] = s[1]
  BY <1>1, <1>2
<1> QED
  BY <1>1, <1>2, <1>3 DEF Chain, Leads, Showy

(* The characters of digits.                                               *)
LEMMA CharsAre ==
  ASSUME NEW count \in Nat \ {0}, NEW d \in [1..count -> 0..9]
  PROVE  /\ Chain(Chars(d)) /\ Len(Chars(d)) = count
         /\ d[1] # 0 => Leads(Chars(d))
<1>1. \A n \in 0..9 : DigitChars[n + 1] \in Written /\ (n # 0 => DigitChars[n + 1] # "0")
  <2>1. /\ DigitChars[1] \in Written /\ DigitChars[2] \in Written /\ DigitChars[3] \in Written
        /\ DigitChars[4] \in Written /\ DigitChars[5] \in Written /\ DigitChars[6] \in Written
        /\ DigitChars[7] \in Written /\ DigitChars[8] \in Written /\ DigitChars[9] \in Written
        /\ DigitChars[10] \in Written
    BY DEF DigitChars, Written
  <2>2. /\ DigitChars[2] # "0" /\ DigitChars[3] # "0" /\ DigitChars[4] # "0"
        /\ DigitChars[5] # "0" /\ DigitChars[6] # "0" /\ DigitChars[7] # "0"
        /\ DigitChars[8] # "0" /\ DigitChars[9] # "0" /\ DigitChars[10] # "0"
    BY DEF DigitChars
  <2>3. \A n \in 0..9 : \/ n = 0 \/ n = 1 \/ n = 2 \/ n = 3 \/ n = 4
                        \/ n = 5 \/ n = 6 \/ n = 7 \/ n = 8 \/ n = 9
    OBVIOUS
  <2> QED
    BY <2>1, <2>2, <2>3
<1>2. Chars(d) = [i \in 1..count |-> DigitChars[d[i] + 1]]
  BY DEF Chars
<1>3. Chars(d) \in [1..count -> Written]
  BY <1>1, <1>2
<1>4. Chars(d) \in Seq(Written) /\ Len(Chars(d)) = count
  BY <1>3
<1>5. Chars(d)[1] = DigitChars[d[1] + 1]
  BY <1>2
<1>6. d[1] # 0 => Chars(d)[1] # "0"
  BY <1>1, <1>5
<1> QED
  BY <1>4, <1>6 DEF Chain, Leads

(* A sign is written.                                                      *)
LEMMA MinusIs ==
  ASSUME NEW negative
  PROVE  /\ Chain(Minus(negative)) /\ Minus(negative) \in {<<>>, <<"-">>}
         /\ negative => Len(Minus(negative)) = 1
<1>1. Minus(negative) \in {<<>>, <<"-">>} /\ (negative => Minus(negative) = <<"-">>)
  BY DEF Minus
<1>2. Chain(<<>>) /\ Chain(<<"-">>) /\ Len(<<"-">>) = 1
  BY OneWritten DEF Written, Chain
<1> QED
  BY <1>1, <1>2

(* Zeros are written.                                                      *)
LEMMA ZerosAre ==
  ASSUME NEW n \in Nat
  PROVE  Chain(Zeros(n))
<1>1. "0" \in Written
  BY DEF Written
<1> HIDE DEF Written
<1>2. Zeros(n) \in [1..n -> Written]
  BY <1>1 DEF Zeros
<1> QED
  BY <1>2 DEF Chain

(* With its sign a string is as showy as without.                          *)
LEMMA SignedShowy ==
  ASSUME NEW negative, NEW s, Showy(s)
  PROVE  Showy(Minus(negative) \o s)
<1>1. Chain(s) /\ s \in Seq(Written) /\ Len(s) \in Nat /\ Len(s) >= 1
  BY LenProperties DEF Showy, Chain
<1>2. CASE Minus(negative) = <<>>
  <2>1. <<>> \o s = s
    BY <1>1, ConcatEmptySeq
  <2> QED
    BY <1>2, <2>1
<1>3. CASE Minus(negative) = <<"-">>
  <2>1. Chain(<<"-">>) /\ Len(<<"-">>) = 1
    BY OneWritten DEF Written
  <2> QED
    BY <1>1, <1>3, <2>1, Joined
<1> QED
  BY <1>2, <1>3, MinusIs

(* An integer other than zero shows, and zero shows as 0.                  *)
LEMMA IntegerShows ==
  ASSUME NEW n \in Int
  PROVE  Chain(FormatInt(n)) /\ (n # 0 => Showy(FormatInt(n))) /\ (n = 0 => FormatInt(n) = <<"0">>)
<1>1. Abs(n) \in Nat /\ (n # 0 <=> Abs(n) # 0)
  BY DEF Abs
<1> DEFINE d == DigitsOf(Abs(n))
<1>2. PICK count \in Nat \ {0} :
        d \in [1..count -> 0..9] /\ (IF Abs(n) = 0 THEN d = <<0>> ELSE d[1] # 0)
  BY <1>1, DigitsAre
<1>3. FormatInt(n) = Minus(n < 0) \o Chars(d)
  BY DEF FormatInt
<1> HIDE DEF d
<1>4. Chain(Chars(d)) /\ (d[1] # 0 => Leads(Chars(d)))
  BY <1>2, CharsAre
<1>5. Chain(FormatInt(n))
  BY <1>3, <1>4, MinusIs, Joined
<1>6. ASSUME n # 0 PROVE Showy(FormatInt(n))
  <2>1. Leads(Chars(d))
    BY <1>1, <1>2, <1>4, <1>6
  <2>2. Showy(Chars(d))
    BY <2>1 DEF Leads, Showy
  <2> QED
    BY <1>3, <2>2, SignedShowy
<1>7. ASSUME n = 0 PROVE FormatInt(n) = <<"0">>
  <2>1. d = <<0>>
    BY <1>1, <1>2, <1>7
  <2>2. Chars(<<0>>) = <<"0">>
    <3>1. DOMAIN <<0>> = 1..1 /\ <<0>>[1] = 0 /\ DigitChars[1] = "0"
      BY DEF DigitChars
    <3>2. Chars(<<0>>) = [i \in 1..1 |-> "0"]
      BY <3>1 DEF Chars
    <3> QED
      BY <3>2
  <2>3. Minus(n < 0) = <<>>
    BY <1>7 DEF Minus
  <2>4. <<>> \o <<"0">> = <<"0">>
    OBVIOUS
  <2> QED
    BY <1>3, <2>1, <2>2, <2>3, <2>4
<1> QED
  BY <1>5, <1>6, <1>7

(* A part of a string, and its beginning.                                  *)
LEMMA PartIs ==
  ASSUME NEW s, Chain(s), NEW m \in Nat \ {0}, NEW n \in 0..Len(s), m <= n + 1
  PROVE  /\ Chain(SubSeq(s, m, n))
         /\ (m = 1 /\ n >= 1 /\ Leads(s)) => Leads(SubSeq(s, m, n))
<1>1. s \in Seq(Written) /\ Len(s) \in Nat /\ m \in 1..Len(s) + 1
  BY LenProperties DEF Chain
<1>2. /\ SubSeq(s, m, n) \in Seq(Written)
      /\ Len(SubSeq(s, m, n)) = IF m <= n THEN n - m + 1 ELSE 0
      /\ \A i \in 1..n - m + 1 : SubSeq(s, m, n)[i] = s[m + i - 1]
  BY <1>1, SubSeqProperties
<1>3. ASSUME m = 1, n >= 1, Leads(s)
      PROVE  Leads(SubSeq(s, m, n))
  <2>1. Len(SubSeq(s, m, n)) >= 1
    BY <1>2, <1>3
  <2>2. 1 \in 1..n - m + 1 /\ m + 1 - 1 = 1
    BY <1>3
  <2>3. SubSeq(s, m, n)[1] = s[1]
    BY <1>2, <2>2
  <2> QED
    BY <1>2, <1>3, <2>1, <2>3 DEF Leads, Chain
<1> QED
  BY <1>2, <1>3 DEF Chain

(* Two symbols.                                                            *)
LEMMA TwoWritten ==
  ASSUME NEW b \in Written, NEW c \in Written
  PROVE  Chain(<<b, c>>) /\ Len(<<b, c>>) = 2
<1> HIDE DEF Written
<1> QED
  BY DEF Chain

(* A float rendered from digits the first of which is not 0 is true.       *)
LEMMA PresentedShows ==
  ASSUME WidthAssumption, NEW count \in Nat \ {0}, NEW d \in [1..count -> 0..9], d[1] # 0,
         NEW exp \in Int, NEW negative
  PROVE  Showy(PresentFloat(d, exp, negative))
<1> DEFINE ascii == Chars(d)
<1>1. Chain(ascii) /\ Len(ascii) = count /\ Leads(ascii)
  BY CharsAre
<1>2. Len(d) = count
  OBVIOUS
<1>3. /\ "." \in Written /\ "0" \in Written /\ "e" \in Written
      /\ (IF exp < 0 THEN "-" ELSE "+") \in Written
  BY DEF Written
<1> HIDE DEF ascii, Written
<1>4. MinExp \in Nat /\ Precision \in Nat \ {0}
  BY DEF WidthAssumption
<1>5. CASE exp < -MinExp \/ exp >= Precision
  <2> DEFINE one == SubSeq(ascii, 1, 1)
             more == IF count > 1 THEN <<".">> \o Tail(ascii) ELSE <<>>
             mark == <<"e", IF exp < 0 THEN "-" ELSE "+">>
             zero == IF Abs(exp) < 10 THEN <<"0">> ELSE <<>>
             power == Chars(DigitsOf(Abs(exp)))
  <2>1. Leads(one)
    BY <1>1, PartIs
  <2>2. Chain(<<>>)
    BY DEF Chain
  <2>3. Chain(more)
    <3>1. Chain(Tail(ascii))
      <4>1. ascii \in Seq(Written) /\ ascii # <<>>
        BY <1>1 DEF Chain
      <4> QED
        BY <4>1, HeadTailProperties DEF Chain
    <3>2. Chain(<<".">>)
      BY <1>3, OneWritten
    <3> QED
      BY <2>2, <3>1, <3>2, Joined
  <2>4. Chain(mark)
    BY <1>3, TwoWritten
  <2>5. Chain(zero)
    BY <1>3, <2>2, OneWritten
  <2>6. Chain(power)
    <3>1. Abs(exp) \in Nat
      BY DEF Abs
    <3>2. PICK n \in Nat \ {0} : DigitsOf(Abs(exp)) \in [1..n -> 0..9]
      BY <3>1, DigitsAre
    <3> QED
      BY <3>2, CharsAre
  <2>7. PresentFloat(d, exp, negative) = Minus(negative) \o (one \o more \o mark \o zero \o power)
    <3>1. exp \notin 0..Precision - 1
      BY <1>4, <1>5
    <3> QED
      BY <1>2, <1>5, <3>1, ZenonT(30) DEF PresentFloat, ascii
  <2> HIDE DEF one, more, mark, zero, power
  <2>8. Chain(one)
    BY <2>1 DEF Leads
  <2>9. Leads(one \o more) /\ Chain(one \o more)
    BY <2>1, <2>3, <2>8, Joined
  <2>10. Leads(one \o more \o mark) /\ Chain(one \o more \o mark)
    BY <2>4, <2>9, Joined
  <2>11. Leads(one \o more \o mark \o zero) /\ Chain(one \o more \o mark \o zero)
    BY <2>5, <2>10, Joined
  <2>12. Leads(one \o more \o mark \o zero \o power)
    BY <2>6, <2>11, Joined
  <2>13. Showy(one \o more \o mark \o zero \o power)
    BY <2>12 DEF Leads, Showy
  <2> QED
    BY <2>7, <2>13, SignedShowy
<1>6. CASE exp \in 0..Precision - 1
  <2> DEFINE first == SubSeq(ascii, 1, exp + 1)
             last == SubSeq(ascii, exp + 2, count)
  <2>1. CASE count <= exp + 1
    <3>1. PresentFloat(d, exp, negative) = Minus(negative) \o (ascii \o Zeros(exp + 1 - count))
      BY <1>2, <1>4, <1>6, <2>1 DEF PresentFloat, ascii
    <3>2. exp + 1 - count \in Nat
      BY <1>6, <2>1
    <3>3. Chain(Zeros(exp + 1 - count))
      BY <3>2, ZerosAre
    <3>4. Leads(ascii \o Zeros(exp + 1 - count))
      BY <1>1, <3>3, Joined
    <3>5. Showy(ascii \o Zeros(exp + 1 - count))
      BY <3>4 DEF Leads, Showy
    <3> QED
      BY <3>1, <3>5, SignedShowy
  <2>2. CASE count > exp + 1
    <3>1. PresentFloat(d, exp, negative) = Minus(negative) \o (first \o <<".">> \o last)
      BY <1>2, <1>4, <1>6, <2>2 DEF PresentFloat, ascii
    <3>2. exp + 1 \in 0..Len(ascii) /\ exp + 1 >= 1 /\ count \in 0..Len(ascii)
          /\ exp + 2 \in Nat \ {0} /\ exp + 2 <= count + 1
      BY <1>1, <1>6, <2>2
    <3>3. Leads(first)
      BY <1>1, <3>2, PartIs
    <3>4. Chain(last)
      BY <1>1, <3>2, PartIs
    <3>5. Chain(<<".">>)
      BY <1>3, OneWritten
    <3> HIDE DEF first, last
    <3>6. Chain(first)
      BY <3>3 DEF Leads
    <3>7. Leads(first \o <<".">>) /\ Chain(first \o <<".">>)
      BY <3>3, <3>5, <3>6, Joined
    <3>8. Leads(first \o <<".">> \o last)
      BY <3>4, <3>7, Joined
    <3>9. Showy(first \o <<".">> \o last)
      BY <3>8 DEF Leads, Showy
    <3> QED
      BY <3>1, <3>9, SignedShowy
  <2> QED
    BY <1>6, <2>1, <2>2
<1>7. CASE exp < 0 /\ exp >= -MinExp
  <2>1. PresentFloat(d, exp, negative) = Minus(negative) \o (<<"0", ".">> \o Zeros(-exp - 1) \o ascii)
    <3>1. exp \notin 0..Precision - 1 /\ ~(exp < -MinExp \/ exp >= Precision)
      BY <1>4, <1>7
    <3> QED
      BY <1>2, <3>1, ZenonT(30) DEF PresentFloat, ascii
  <2>2. Chain(Zeros(-exp - 1))
    <3>1. -exp - 1 \in Nat
      BY <1>7
    <3> QED
      BY <3>1, ZerosAre
  <2>3. Chain(<<"0", ".">>) /\ Len(<<"0", ".">>) = 2
    BY <1>3, TwoWritten
  <2>4. PICK zeros : zeros = Zeros(-exp - 1)
    OBVIOUS
  <2>5. PICK point : point = <<"0", ".">>
    OBVIOUS
  <2>6. Chain(zeros) /\ Chain(point) /\ Len(point) = 2
    BY <2>2, <2>3, <2>4, <2>5
  <2>7. Len(zeros) \in Nat /\ Len(ascii) \in Nat
    BY <1>1, <2>6, LenProperties DEF Chain
  <2>8. Chain(point \o zeros) /\ Len(point \o zeros) = 2 + Len(zeros)
    <3>1. Len(point \o zeros) = Len(point) + Len(zeros)
      BY <2>6, Joined
    <3>2. Chain(point \o zeros)
      BY <2>6, Joined
    <3> QED
      BY <2>6, <3>1, <3>2
  <2>9. Len(point \o zeros) + Len(ascii) >= 2
    BY <2>7, <2>8
  <2>10. Showy(point \o zeros \o ascii)
    BY <1>1, <2>8, <2>9, Joined
  <2> QED
    BY <2>1, <2>4, <2>5, <2>10, SignedShowy
<1> QED
  BY <1>4, <1>5, <1>6, <1>7

(* A float other than zero renders as true, and zero as 0.                 *)
LEMMA FloatShows ==
  ASSUME WidthAssumption, NEW f, f.class \in {"finite", "inf", "nan"},
         f.class = "finite" => f.m \in Nat /\ f.e \in Int
  PROVE  (f.class = "finite" /\ f.m = 0) <=> ~Truth(FormatFloat(f))
<1>1. CASE f.class = "nan"
  <2>1. FormatFloat(f) = <<"nan">>
    BY <1>1 DEF FormatFloat
  <2>2. "nan" \in Written /\ "nan" # "0"
    BY DEF Written
  <2>3. Showy(<<"nan">>)
    BY <2>2, OneWritten DEF Showy
  <2> QED
    BY <1>1, <2>1, <2>3, ShowyIsTrue
<1>2. CASE f.class = "inf"
  <2>1. FormatFloat(f) = Minus(f.negative) \o <<"inf">>
    BY <1>2 DEF FormatFloat
  <2>2. "inf" \in Written /\ "inf" # "0"
    BY DEF Written
  <2>3. Showy(<<"inf">>)
    BY <2>2, OneWritten DEF Showy
  <2>4. Showy(Minus(f.negative) \o <<"inf">>)
    BY <2>3, SignedShowy
  <2> QED
    BY <1>2, <2>1, <2>4, ShowyIsTrue
<1>3. CASE f.class = "finite" /\ f.m = 0
  <2>1. FormatFloat(f) = <<"0">>
    BY <1>3 DEF FormatFloat
  <2> QED
    BY <1>3, <2>1 DEF Truth
<1>4. CASE f.class = "finite" /\ f.m # 0
  <2> DEFINE d == DigitsOf(f.m)
  <2>1. f.m \in Nat /\ f.e \in Int
    BY <1>4
  <2>2. PICK count \in Nat \ {0} :
          d \in [1..count -> 0..9] /\ (IF f.m = 0 THEN d = <<0>> ELSE d[1] # 0)
    BY <2>1, DigitsAre
  <2>3. FormatFloat(f) = PresentFloat(d, FloatExp(f), f.negative)
    BY <1>4 DEF FormatFloat, FloatDigits
  <2>4. FloatExp(f) = f.e + Len(d) - 1
    BY DEF FloatExp
  <2> HIDE DEF d
  <2>5. Len(d) = count /\ d[1] # 0
    BY <1>4, <2>2
  <2>6. FloatExp(f) \in Int
    BY <2>1, <2>4, <2>5
  <2>7. Showy(FormatFloat(f))
    BY <2>2, <2>3, <2>5, <2>6, PresentedShows
  <2> QED
    BY <1>4, <2>7, ShowyIsTrue
<1> QED
  BY <1>1, <1>2, <1>3, <1>4

(* A number is as true as the string it renders as.                        *)
LEMMA NumberTruth ==
  ASSUME WidthAssumption, NEW x, IsNumber(x), NEW d \in {Empty, Filled(x)}
  PROVE  (~IsZero(x)) = Truth(Render(x, d))
<1>1. Render(x, d) = Render(x, Empty)
  BY CachedRenders
<1>2. Empty.count = 0
  BY DEF Empty
<1>3. CASE x.kind = "Float"
  <2>1. Render(x, Empty) = FormatFloat(x.f)
    BY <1>2, <1>3 DEF Render
  <2>2. x.f.class \in {"finite", "inf", "nan"} /\ (x.f.class = "finite" => x.f.m \in Nat /\ x.f.e \in Int)
    BY <1>3 DEF IsNumber
  <2>3. IsZero(x) <=> x.f.class = "finite" /\ x.f.m = 0
    BY <1>3 DEF IsZero
  <2>4. IsZero(x) <=> ~Truth(FormatFloat(x.f))
    BY <2>2, <2>3, FloatShows
  <2>5. IsZero(x) \in BOOLEAN /\ Truth(FormatFloat(x.f)) \in BOOLEAN
    BY <1>3 DEF IsZero, Truth
  <2> QED
    BY <1>1, <2>1, <2>4, <2>5
<1>4. CASE x.kind # "Float"
  <2>1. Render(x, Empty) = FormatInt(x.n)
    BY <1>2, <1>4 DEF Render
  <2>2. x.n \in Int
    BY <1>4 DEF IsNumber
  <2>3. IsZero(x) <=> x.n = 0
    BY <1>4 DEF IsZero
  <2>4. x.n # 0 => Truth(FormatInt(x.n))
    BY <2>2, IntegerShows, ShowyIsTrue
  <2>5. x.n = 0 => ~Truth(FormatInt(x.n))
    BY <2>2, IntegerShows DEF Truth
  <2>6. IsZero(x) \in BOOLEAN /\ Truth(FormatInt(x.n)) \in BOOLEAN
    BY <1>4 DEF IsZero, Truth
  <2> QED
    BY <1>1, <2>1, <2>3, <2>4, <2>5, <2>6
<1> QED
  BY <1>3, <1>4

-----------------------------------------------------------------------------
(* What a string is read from and whether reading it warns: runs of        *)
(* symbols first.                                                          *)

(* n is how far A goes on from i, of L positions.                          *)
IsRun(L, i, A, n) ==
  /\ n \in 0..(L - i) /\ \A k \in 0..(n - 1) : i + k \in A
  /\ n = L - i \/ i + n \notin A

(* There is such a number.                                                 *)
LEMMA RunExists ==
  ASSUME NEW L \in Nat, NEW i \in 0..L, NEW A
  PROVE  \E n \in 0..(L - i) : IsRun(L, i, A, n)
<1> DEFINE S == {n \in 0..(L - i) : n = L - i \/ i + n \notin A}
<1>1. PICK n \in S : \A m \in S : n <= m
  <2>1. S \subseteq Nat /\ S # {}
    <3>1. L - i \in S
      OBVIOUS
    <3>2. S \subseteq Nat
      OBVIOUS
    <3> QED
      BY <3>1, <3>2
  <2> HIDE DEF S
  <2> QED
    BY <2>1, LeastExists
<1>2. n \in 0..(L - i) /\ (n = L - i \/ i + n \notin A)
  BY <1>1
<1>3. \A k \in 0..(n - 1) : k \in 0..(L - i) /\ ~(n <= k)
  BY <1>2
<1>4. \A k \in 0..(n - 1) : i + k \in A
  BY <1>1, <1>3
<1> QED
  BY <1>2, <1>4 DEF IsRun

(* And only one.                                                           *)
LEMMA RunUnique ==
  ASSUME NEW L \in Nat, NEW i \in 0..L, NEW A, NEW m, NEW n, IsRun(L, i, A, m), IsRun(L, i, A, n)
  PROVE  m = n
<1>1. m \in 0..(L - i) /\ n \in 0..(L - i)
  BY DEF IsRun
<1>2. CASE m < n
  <2>1. m \in 0..(n - 1) /\ m # L - i
    BY <1>1, <1>2
  <2> QED
    BY <2>1 DEF IsRun
<1>3. CASE n < m
  <2>1. n \in 0..(m - 1) /\ n # L - i
    BY <1>1, <1>3
  <2> QED
    BY <2>1 DEF IsRun
<1> QED
  BY <1>1, <1>2, <1>3

(* Symbols told apart.  Beyond a string there is none.                     *)
Beyond == ""
Words == {"inf", "nan"}
Marks == {".", "e"}

(* The digits are the ten characters.                                      *)
LEMMA DigitsAreChars ==
  \A c : IsDigit(c) <=> c \in {"0", "1", "2", "3", "4", "5", "6", "7", "8", "9"}
<1>1. \A c : IsDigit(c) <=> \E i \in 1..10 : DigitChars[i] = c
  BY DEF IsDigit, Contains, DigitChars
<1>2. \A i \in 1..10 : \/ i = 1 \/ i = 2 \/ i = 3 \/ i = 4 \/ i = 5
                       \/ i = 6 \/ i = 7 \/ i = 8 \/ i = 9 \/ i = 10
  OBVIOUS
<1>3. 1 \in 1..10 /\ 2 \in 1..10 /\ 3 \in 1..10 /\ 4 \in 1..10 /\ 5 \in 1..10 /\ 6 \in 1..10
      /\ 7 \in 1..10 /\ 8 \in 1..10 /\ 9 \in 1..10 /\ 10 \in 1..10
  OBVIOUS
<1>4. /\ DigitChars[1] = "0" /\ DigitChars[2] = "1" /\ DigitChars[3] = "2" /\ DigitChars[4] = "3"
      /\ DigitChars[5] = "4" /\ DigitChars[6] = "5" /\ DigitChars[7] = "6" /\ DigitChars[8] = "7"
      /\ DigitChars[9] = "8" /\ DigitChars[10] = "9"
  BY DEF DigitChars
<1> HIDE DEF DigitChars
<1> QED
  BY <1>1, <1>2, <1>3, <1>4

(* What a word, a mark, a sign or a space is, no digit is, nor the end of  *)
(* a string.                                                               *)
LEMMA SymbolsApart ==
  /\ ~IsDigit(Beyond) /\ Beyond \notin Marks \cup Signs \cup Words \cup {Space, "inity"}
  /\ \A c \in Marks \cup Signs \cup Words : ~IsDigit(c)
  /\ Words \cap (Marks \cup Signs) = {} /\ "." # "e" /\ "inf" # "nan"
BY DigitsAreChars, Zenon DEF Beyond, Marks, Signs, Words, Space

(* The symbol at a place, and beyond the last place.                       *)
LEMMA AtIs ==
  ASSUME NEW s, NEW i
  PROVE  (i < Len(s) => Sym(s, i) = s[i + 1]) /\ (~(i < Len(s)) => Sym(s, i) = Beyond)
BY Zenon DEF Sym, Beyond

-----------------------------------------------------------------------------
(* Digits from a place on.                                                 *)

DigitsAt(s) == {k \in 0..Len(s) : IsDigit(Sym(s, k))}

(* A run of digits is as long as the digits go on from there.              *)
LEMMA DigitRunIs ==
  ASSUME NEW s, Len(s) \in Nat, NEW i \in 0..Len(s)
  PROVE  IsRun(Len(s), i, DigitsAt(s), DigitRun(s, i))
<1> DEFINE L == Len(s)
           Is(n) == /\ \A k \in 0..n - 1 : IsDigit(Sym(s, i + k))
                    /\ n = L - i \/ ~IsDigit(Sym(s, i + n))
<1>1. DigitRun(s, i) = CHOOSE n \in 0..L - i : Is(n)
  BY Zenon DEF DigitRun, RunOf
<1> HIDE DEF L
<1>2. L = Len(s) /\ L \in Nat /\ i \in 0..L
  BY DEF L
<1>3. ASSUME NEW n \in 0..L - i
      PROVE  Is(n) <=> IsRun(L, i, DigitsAt(s), n)
  <2>1. i + n \in 0..L /\ \A k \in 0..n - 1 : i + k \in 0..L
    BY <1>2
  <2> QED
    BY <1>2, <2>1 DEF IsRun, DigitsAt
<1>4. \E n \in 0..L - i : IsRun(L, i, DigitsAt(s), n)
  BY <1>2, RunExists
<1> HIDE DEF Is
<1>5. \E n \in 0..L - i : Is(n)
  BY <1>3, <1>4
<1>6. DigitRun(s, i) \in 0..L - i /\ Is(DigitRun(s, i))
  BY <1>1, <1>5
<1> QED
  BY <1>2, <1>3, <1>6

-----------------------------------------------------------------------------
(* Spaces around.                                                          *)

Led(s, a) ==
  /\ a \in 0..Len(s) /\ \A k \in 1..a : s[k] = Space
  /\ a = Len(s) \/ s[a + 1] # Space
Trailed(s, b) ==
  /\ b \in 0..Len(s) /\ \A k \in 1..b : s[Len(s) + 1 - k] = Space
  /\ b = Len(s) \/ s[Len(s) - b] # Space

(* How many spaces a string begins with.                                   *)
LEMMA LeadingSpaces ==
  ASSUME NEW s, Len(s) \in Nat
  PROVE  /\ \E a \in 0..Len(s) : Led(s, a)
         /\ \A a : Led(s, a) => RunOf(s, 0, LAMBDA c : c = Space) = a
<1> DEFINE L == Len(s)
           A == {k \in 0..L : Sym(s, k) = Space}
           Is(n) == /\ \A k \in 0..n - 1 : Sym(s, 0 + k) = Space
                    /\ n = L - 0 \/ ~(Sym(s, 0 + n) = Space)
           run == RunOf(s, 0, LAMBDA c : c = Space)
<1>1. run = CHOOSE n \in 0..L - 0 : Is(n)
  BY Zenon DEF RunOf
<1>2. \A k \in 0..L - 1 : Sym(s, k) = s[k + 1]
  <2>1. \A k \in 0..L - 1 : k < L
    OBVIOUS
  <2> QED
    BY <2>1, AtIs
<1> HIDE DEF run
<1>3. ASSUME NEW n \in 0..L
      PROVE  (Is(n) <=> IsRun(L, 0, A, n)) /\ (Is(n) <=> Led(s, n))
  <2>1. 0 + n \in 0..L /\ 0 + n = n /\ L - 0 = L
    OBVIOUS
  <2>2. \A k \in 0..n - 1 : 0 + k \in 0..L - 1 /\ 0 + k = k /\ k + 1 \in 1..n /\ 0 + k \in 0..L
    OBVIOUS
  <2>3. Is(n) <=> IsRun(L, 0, A, n)
    BY <2>1, <2>2 DEF IsRun
  <2>4. n = L \/ n \in 0..L - 1
    OBVIOUS
  <2>5. (\A k \in 0..n - 1 : Sym(s, 0 + k) = Space) <=> \A k \in 1..n : s[k] = Space
    <3>1. \A k \in 1..n : k - 1 \in 0..n - 1 /\ (k - 1) + 1 = k
      OBVIOUS
    <3> QED
      BY <1>2, <2>2, <3>1
  <2>6. Is(n) <=> Led(s, n)
    BY <1>2, <2>1, <2>4, <2>5 DEF Led
  <2> QED
    BY <2>3, <2>6
<1>4. \E n \in 0..L : IsRun(L, 0, A, n)
  <2>1. \E n \in 0..L - 0 : IsRun(L, 0, A, n)
    <3>1. 0 \in 0..L
      OBVIOUS
    <3> HIDE DEF A
    <3> QED
      BY <3>1, RunExists
  <2>2. L - 0 = L
    OBVIOUS
  <2> QED
    BY <2>1, <2>2
<1> HIDE DEF Is
<1>5. \E n \in 0..L : Is(n)
  BY <1>3, <1>4
<1>6. run \in 0..L /\ Is(run)
  <2>1. L - 0 = L
    OBVIOUS
  <2> QED
    BY <1>1, <1>5, <2>1
<1>7. ASSUME NEW a, Led(s, a)
      PROVE  run = a
  <2>1. a \in 0..L
    BY <1>7 DEF Led
  <2>2. IsRun(L, 0, A, a) /\ IsRun(L, 0, A, run)
    BY <1>3, <1>6, <1>7, <2>1
  <2>3. 0 \in 0..L
    OBVIOUS
  <2> HIDE DEF A
  <2> QED
    BY <2>2, <2>3, RunUnique
<1>8. \E a \in 0..L : Led(s, a)
  BY <1>3, <1>5
<1> QED
  BY <1>7, <1>8 DEF run

(* How many it ends with.                                                  *)
LEMMA TrailingSpaces ==
  ASSUME NEW s, Len(s) \in Nat
  PROVE  /\ \E b \in 0..Len(s) : Trailed(s, b)
         /\ \A b : Trailed(s, b) => RunOf(Reverse(s), 0, LAMBDA c : c = Space) = b
<1> DEFINE t == Reverse(s)
           L == Len(s)
<1>1. Len(t) = L /\ \A k \in 1..L : t[k] = s[L - k + 1]
  <2>1. t = [i \in 1..L |-> s[L - i + 1]]
    BY DEF Reverse
  <2> HIDE DEF t
  <2>2. DOMAIN t = 1..L
    BY <2>1
  <2>3. Len(t) = L
    BY <2>1
  <2> QED
    BY <2>1, <2>3
<1> HIDE DEF t
<1>2. ASSUME NEW b
      PROVE  Trailed(s, b) <=> Led(t, b)
  <2>1. SUFFICES ASSUME b \in 0..L PROVE Trailed(s, b) <=> Led(t, b)
    BY <1>1 DEF Trailed, Led
  <2>2. \A k \in 1..b : t[k] = s[L + 1 - k]
    BY <1>1, <2>1
  <2>3. b = L \/ t[b + 1] = s[L - b]
    BY <1>1, <2>1
  <2> QED
    BY <1>1, <2>1, <2>2, <2>3 DEF Trailed, Led
<1>3. (\E b \in 0..L : Led(t, b)) /\ \A b : Led(t, b) => RunOf(t, 0, LAMBDA c : c = Space) = b
  <2>1. Len(t) = L /\ Len(t) \in Nat
    BY <1>1
  <2> QED
    BY <2>1, LeadingSpaces
<1>4. (\E b \in 0..L : Trailed(s, b)) /\ \A b : Trailed(s, b) => RunOf(t, 0, LAMBDA c : c = Space) = b
  BY <1>2, <1>3
<1> QED
  BY <1>4 DEF t

(* Skipping the leading spaces leaves what is behind them.                 *)
LEMMA UnspacedIs ==
  ASSUME NEW S, NEW s \in Seq(S), NEW a, Led(s, a)
  PROVE  Unspaced(s) = SubSeq(s, 1 + a, Len(s))
<1>1. Len(s) \in Nat
  BY LenProperties
<1>2. RunOf(s, 0, LAMBDA c : c = Space) = a
  BY <1>1, LeadingSpaces
<1> QED
  BY <1>2 DEF Unspaced

(* Trimming leaves what is before the trailing spaces.                     *)
LEMMA TrimmedIs ==
  ASSUME NEW S, NEW s \in Seq(S), NEW b, Trailed(s, b)
  PROVE  Trimmed(s) = SubSeq(s, 1, Len(s) - b)
<1>1. Len(s) \in Nat
  BY LenProperties
<1>2. RunOf(Reverse(s), 0, LAMBDA c : c = Space) = b
  BY <1>1, TrailingSpaces
<1> QED
  BY <1>2 DEF Trimmed

(* A part of a string.                                                     *)
LEMMA Parted ==
  ASSUME NEW S, NEW s \in Seq(S), NEW m \in Nat, NEW n \in Nat, m >= 1, n <= Len(s), m <= n + 1
  PROVE  /\ SubSeq(s, m, n) \in Seq(S) /\ Len(SubSeq(s, m, n)) = n - m + 1
         /\ \A i \in 1..(n - m + 1) : SubSeq(s, m, n)[i] = s[m + i - 1]
<1>1. Len(s) \in Nat /\ \A i \in 1..Len(s) : s[i] \in S
  BY LenProperties, ElementOfSeq
<1>2. \A i \in m..n : s[i] \in S
  BY <1>1
<1> QED
  BY <1>2, SubSeqProperties

(* Cutting what is behind and what is before are one in either order.      *)
LEMMA TrimsCommute ==
  ASSUME NEW S, NEW s \in Seq(S)
  PROVE  Unspaced(Trimmed(s)) = Trimmed(Unspaced(s)) /\ Unspaced(Trimmed(s)) \in Seq(S)
<1> DEFINE L == Len(s)
<1>1. L \in Nat
  BY LenProperties
<1>2. PICK a \in 0..L : Led(s, a)
  BY <1>1, LeadingSpaces
<1>3. PICK b \in 0..L : Trailed(s, b)
  BY <1>1, TrailingSpaces
<1>4. Unspaced(s) = SubSeq(s, 1 + a, L) /\ Trimmed(s) = SubSeq(s, 1, L - b)
  BY <1>2, <1>3, UnspacedIs, TrimmedIs
<1>5. CASE a = L
  <2>1. b = L
    <3>1. SUFFICES ASSUME b # L PROVE FALSE
      OBVIOUS
    <3>2. L - b \in 1..a /\ s[L - b] # Space
      BY <1>1, <1>3, <1>5, <3>1 DEF Trailed
    <3> QED
      BY <1>2, <3>2 DEF Led
  <2>2. Unspaced(s) = <<>> /\ Trimmed(s) = <<>>
    <3>1. 1 + a > L /\ 1 > L - b
      BY <1>1, <1>5, <2>1
    <3> QED
      BY <1>4, <3>1, SubSeqEmpty
  <2>3. <<>> \in Seq(S) /\ Len(<<>>) = 0
    OBVIOUS
  <2>4. Led(<<>>, 0) /\ Trailed(<<>>, 0)
    BY <2>3 DEF Led, Trailed
  <2>5. Unspaced(<<>>) = SubSeq(<<>>, 1, 0) /\ Trimmed(<<>>) = SubSeq(<<>>, 1, 0)
    <3>1. 1 + 0 = 1 /\ 0 - 0 = 0
      OBVIOUS
    <3> QED
      BY <2>3, <2>4, <3>1, UnspacedIs, TrimmedIs
  <2>6. SubSeq(<<>>, 1, 0) = <<>>
    BY SubSeqEmpty
  <2> QED
    BY <2>2, <2>3, <2>5, <2>6
<1>6. CASE a # L
  <2>1. a + 1 \in 1..L /\ s[a + 1] # Space
    BY <1>1, <1>2, <1>6 DEF Led
  <2>2. b < L - a
    <3>1. SUFFICES ASSUME b >= L - a PROVE FALSE
      BY <1>1
    <3>2. L - a \in 1..b /\ L + 1 - (L - a) = a + 1
      BY <1>1, <1>6, <3>1
    <3> QED
      BY <1>3, <2>1, <3>2 DEF Trailed
  <2>3. b # L /\ L - b \in 1..L /\ s[L - b] # Space
    BY <1>1, <1>3, <2>2 DEF Trailed
  <2> DEFINE t == Trimmed(s)
             u == Unspaced(s)
  <2>4. t \in Seq(S) /\ Len(t) = L - b /\ \A i \in 1..(L - b) : t[i] = s[i]
    <3>1. L - b \in Nat /\ 1 \in Nat /\ 1 >= 1 /\ L - b <= L /\ 1 <= L - b + 1
      BY <1>1, <2>3
    <3>2. /\ SubSeq(s, 1, L - b) \in Seq(S) /\ Len(SubSeq(s, 1, L - b)) = L - b - 1 + 1
          /\ \A i \in 1..(L - b - 1 + 1) : SubSeq(s, 1, L - b)[i] = s[1 + i - 1]
      BY <3>1, Parted
    <3>3. L - b - 1 + 1 = L - b /\ \A i \in 1..(L - b) : 1 + i - 1 = i
      BY <3>1
    <3> QED
      BY <1>4, <3>2, <3>3
  <2>5. u \in Seq(S) /\ Len(u) = L - a /\ \A i \in 1..(L - a) : u[i] = s[a + i]
    <3>1. 1 + a \in Nat /\ 1 + a >= 1 /\ L <= L /\ 1 + a <= L + 1
      BY <1>1
    <3>2. /\ SubSeq(s, 1 + a, L) \in Seq(S) /\ Len(SubSeq(s, 1 + a, L)) = L - (1 + a) + 1
          /\ \A i \in 1..(L - (1 + a) + 1) : SubSeq(s, 1 + a, L)[i] = s[(1 + a) + i - 1]
      BY <1>1, <3>1, Parted
    <3>3. L - (1 + a) + 1 = L - a /\ \A i \in 1..(L - a) : (1 + a) + i - 1 = a + i
      BY <1>1
    <3> QED
      BY <1>4, <3>2, <3>3
  <2> HIDE DEF t, u
  <2>6. Led(t, a)
    <3>1. a \in 0..(L - b) /\ a + 1 \in 1..(L - b) /\ \A k \in 1..a : k \in 1..(L - b)
      BY <1>1, <2>2
    <3> QED
      BY <1>2, <2>1, <2>4, <3>1 DEF Led
  <2>7. Trailed(u, b)
    <3>1. b \in 0..(L - a) /\ L - a - b \in 1..(L - a) /\ a + (L - a - b) = L - b
      BY <1>1, <2>2
    <3>2. \A k \in 1..b : L - a + 1 - k \in 1..(L - a) /\ a + (L - a + 1 - k) = L + 1 - k
      BY <1>1, <2>2
    <3> QED
      BY <1>3, <2>3, <2>5, <3>1, <3>2 DEF Trailed
  <2>8. Unspaced(t) = SubSeq(t, 1 + a, L - b) /\ Trimmed(u) = SubSeq(u, 1, L - a - b)
    BY <2>4, <2>5, <2>6, <2>7, UnspacedIs, TrimmedIs
  <2>9. SubSeq(t, 1 + a, L - b) = SubSeq(s, 1 + a, L - b)
    <3>1. \A i \in 1..(L - b - (1 + a) + 1) : (1 + a) + i - 1 \in 1..(L - b)
      BY <1>1
    <3>2. /\ SubSeq(t, 1 + a, L - b) \in Seq(S)
          /\ Len(SubSeq(t, 1 + a, L - b)) = L - b - (1 + a) + 1
          /\ \A i \in 1..(L - b - (1 + a) + 1) : SubSeq(t, 1 + a, L - b)[i] = t[(1 + a) + i - 1]
      <4>0. 1 + a \in Nat /\ L - b \in Nat
        BY <1>1, <2>2
      <4>1. PICK p \in Nat, q \in Nat : p = 1 + a /\ q = L - b
        BY <4>0, Zenon
      <4>2. p >= 1 /\ q <= Len(t) /\ p <= q + 1
        BY <1>1, <2>2, <2>4, <4>1
      <4>3. /\ SubSeq(t, p, q) \in Seq(S) /\ Len(SubSeq(t, p, q)) = q - p + 1
            /\ \A i \in 1..(q - p + 1) : SubSeq(t, p, q)[i] = t[p + i - 1]
        BY <2>4, <4>2, Parted
      <4> QED
        BY <4>1, <4>3
    <3>3. /\ SubSeq(s, 1 + a, L - b) \in Seq(S)
          /\ Len(SubSeq(s, 1 + a, L - b)) = L - b - (1 + a) + 1
          /\ \A i \in 1..(L - b - (1 + a) + 1) : SubSeq(s, 1 + a, L - b)[i] = s[(1 + a) + i - 1]
      <4>1. 1 + a \in Nat /\ L - b \in Nat /\ 1 + a >= 1 /\ L - b <= L /\ 1 + a <= L - b + 1
        BY <1>1, <2>2
      <4> QED
        BY <4>1, Parted
    <3> DEFINE x == SubSeq(t, 1 + a, L - b)
               y == SubSeq(s, 1 + a, L - b)
               N == L - b - (1 + a) + 1
    <3>4. \A i \in 1..N : x[i] = y[i]
      BY <2>4, <3>1, <3>2, <3>3
    <3> HIDE DEF x, y, N
    <3>5. x \in Seq(S) /\ y \in Seq(S) /\ Len(x) = Len(y) /\ \A i \in 1..Len(x) : x[i] = y[i]
      BY <3>2, <3>3, <3>4 DEF x, y, N
    <3>6. x = y
      BY <3>5, SeqEqual
    <3> QED
      BY <3>6 DEF x, y
  <2>10. SubSeq(u, 1, L - a - b) = SubSeq(s, 1 + a, L - b)
    <3>2. /\ SubSeq(u, 1, L - a - b) \in Seq(S)
          /\ Len(SubSeq(u, 1, L - a - b)) = L - a - b - 1 + 1
          /\ \A i \in 1..(L - a - b - 1 + 1) : SubSeq(u, 1, L - a - b)[i] = u[1 + i - 1]
      <4>1. 1 \in Nat /\ L - a - b \in Nat /\ 1 >= 1 /\ L - a - b <= Len(u) /\ 1 <= L - a - b + 1
        BY <1>1, <2>2, <2>5
      <4> QED
        BY <2>5, <4>1, Parted
    <3>3. /\ SubSeq(s, 1 + a, L - b) \in Seq(S)
          /\ Len(SubSeq(s, 1 + a, L - b)) = L - b - (1 + a) + 1
          /\ \A i \in 1..(L - b - (1 + a) + 1) : SubSeq(s, 1 + a, L - b)[i] = s[(1 + a) + i - 1]
      <4>1. 1 + a \in Nat /\ L - b \in Nat /\ 1 + a >= 1 /\ L - b <= L /\ 1 + a <= L - b + 1
        BY <1>1, <2>2
      <4> QED
        BY <4>1, Parted
    <3> DEFINE x == SubSeq(u, 1, L - a - b)
               y == SubSeq(s, 1 + a, L - b)
               N == L - a - b
    <3>1. L - a - b - 1 + 1 = N /\ L - b - (1 + a) + 1 = N
          /\ \A i \in 1..N : i \in 1..(L - a) /\ 1 + i - 1 = i /\ (1 + a) + i - 1 = a + i
      BY <1>1, <2>2
    <3>4. \A i \in 1..N : x[i] = y[i]
      BY <2>5, <3>1, <3>2, <3>3
    <3> HIDE DEF x, y, N
    <3>5. x \in Seq(S) /\ y \in Seq(S) /\ Len(x) = Len(y) /\ \A i \in 1..Len(x) : x[i] = y[i]
      BY <3>1, <3>2, <3>3, <3>4 DEF x, y
    <3>6. x = y
      BY <3>5, SeqEqual
    <3> QED
      BY <3>6 DEF x, y
  <2>11. SubSeq(s, 1 + a, L - b) \in Seq(S)
    <3>1. 1 + a \in Nat /\ L - b \in Nat /\ 1 + a >= 1 /\ L - b <= L /\ 1 + a <= L - b + 1
      BY <1>1, <2>2
    <3> QED
      BY <3>1, Parted
  <2> QED
    BY <2>8, <2>9, <2>10, <2>11 DEF t, u
<1> QED
  BY <1>5, <1>6

-----------------------------------------------------------------------------
(* How far the walk comes, and what the grammar says.                      *)

Infinity == "inf"
Inity == "inity"
NotANumber == "nan"
Dot == "."
Exp == "e"

(* A body's digits, its point and the digits behind that.                  *)
Whole(r) == DigitRun(r, 0)
Pointed(r) == Sym(r, Whole(r)) = Dot
Part(r) == IF (IF Pointed(r) THEN 1 ELSE 0) = 1 THEN DigitRun(r, Whole(r) + 1) ELSE 0
Length(r) == Whole(r) + (IF Pointed(r) THEN 1 ELSE 0) + Part(r)
Mark(r, at) == at + 1 + (IF Sym(r, at + 1) \in Signs THEN 1 ELSE 0)

Named(r) == r \in {<<Infinity>>, <<Infinity, Inity>>, <<NotANumber>>}

Silent(r) ==
  \/ Named(r)
  \/ /\ Whole(r) + Part(r) > 0
     /\ \/ Length(r) = Len(r)
        \/ /\ Sym(r, Length(r)) = Exp
           /\ Mark(r, Length(r)) < Len(r)
           /\ Mark(r, Length(r)) + DigitRun(r, Mark(r, Length(r))) = Len(r)

Span(negative, r) == Spanned(negative, r, Mantissa(r), Exponent(r, Mantissa(r).len))[2]

Body(s) == IF Sym(s, 0) \in Signs THEN Tail(s) ELSE s

(* The grammar warns of what is neither the one exempt string nor silent.  *)
LEMMA WarnsUnless ==
  ASSUME NEW s
  PROVE  StringWouldWarn(s) <=> ~(s = ButTrue \/ Silent(Body(Trimmed(Unspaced(s)))))
BY Zenon DEF StringWouldWarn, Silent, Body, Named, Whole, Pointed, Part, Length, Mark, Infinity, Inity,
             NotANumber, Dot, Exp

(* The parts are where they should be.                                     *)
LEMMA PartsInPlace ==
  ASSUME NEW r, Len(r) \in Nat
  PROVE  /\ Whole(r) \in 0..Len(r) /\ Part(r) \in Nat /\ Length(r) \in 0..Len(r)
         /\ Pointed(r) => Whole(r) < Len(r)
         /\ Whole(r) > 0 => IsDigit(Sym(r, 0))
         /\ ~Pointed(r) => Part(r) = 0
         /\ Length(r) = Whole(r) + (IF Pointed(r) THEN 1 ELSE 0) + Part(r)
<1>1. IsRun(Len(r), 0, DigitsAt(r), Whole(r))
  BY DigitRunIs DEF Whole
<1>2. Whole(r) \in 0..Len(r) /\ (Whole(r) > 0 => 0 + 0 \in DigitsAt(r))
  BY <1>1 DEF IsRun
<1>3. Whole(r) > 0 => IsDigit(Sym(r, 0))
  BY <1>2 DEF DigitsAt
<1>4. Pointed(r) => Whole(r) < Len(r)
  <2>1. Dot # Beyond
    BY Zenon DEF Dot, Beyond
  <2> QED
    BY <1>2, <2>1, AtIs DEF Pointed
<1>5. Pointed(r) => Part(r) \in 0..(Len(r) - (Whole(r) + 1))
  <2>1. SUFFICES ASSUME Pointed(r) PROVE Part(r) \in 0..(Len(r) - (Whole(r) + 1))
    OBVIOUS
  <2>2. PICK i \in 0..Len(r) : i = Whole(r) + 1
    BY <1>2, <1>4, <2>1
  <2>3. IsRun(Len(r), i, DigitsAt(r), DigitRun(r, i))
    BY DigitRunIs
  <2> QED
    BY <2>1, <2>2, <2>3 DEF IsRun, Part
<1>6. ~Pointed(r) => Part(r) = 0
  BY DEF Part
<1> QED
  BY <1>2, <1>3, <1>4, <1>5, <1>6 DEF Length

(* The walk's mantissa is the grammar's, empty when it has no digits.      *)
LEMMA MantissaIs ==
  ASSUME NEW r, Len(r) \in Nat
  PROVE  /\ Mantissa(r).whole = Whole(r) /\ Mantissa(r).part = Part(r)
         /\ Mantissa(r).len = IF Whole(r) + Part(r) > 0 THEN Length(r) ELSE 0
<1>1. /\ Mantissa(r).whole = Whole(r) /\ Mantissa(r).part = Part(r)
      /\ Mantissa(r).len = IF Pointed(r) /\ Whole(r) + Part(r) > 0 THEN Whole(r) + 1 + Part(r) ELSE Whole(r)
  BY DEF Mantissa, Whole, Part, Pointed, Dot
<1> QED
  BY <1>1, PartsInPlace

(* Where a token with a mantissa ends.                                     *)
LEMMA ExponentIs ==
  ASSUME NEW r, Len(r) \in Nat, NEW at \in 1..Len(r)
  PROVE  LET end == Exponent(r, at).end IN
         /\ end = Len(r) <=> \/ at = Len(r)
                             \/ /\ Sym(r, at) = Exp
                                /\ Mark(r, at) < Len(r) /\ Mark(r, at) + DigitRun(r, Mark(r, at)) = Len(r)
         /\ Sym(r, at) # Exp => end = at /\ Exponent(r, at).power = 0
         /\ Exponent(r, at).power = 0 => end = at
<1> DEFINE mark == Mark(r, at)
           power == IF at > 0 /\ Sym(r, at) = Exp /\ mark <= Len(r) THEN DigitRun(r, mark) ELSE 0
<1>1. Exponent(r, at).power = power /\ Exponent(r, at).end = IF power > 0 THEN mark + power ELSE at
  BY DEF Exponent, Mark, Exp
<1>2. mark \in Nat /\ mark > at
  BY DEF Mark
<1> HIDE DEF mark
<1>3. mark <= Len(r) => DigitRun(r, mark) \in 0..(Len(r) - mark)
  <2>1. SUFFICES ASSUME mark <= Len(r) PROVE DigitRun(r, mark) \in 0..(Len(r) - mark)
    OBVIOUS
  <2>2. mark \in 0..Len(r)
    BY <1>2, <2>1
  <2>3. IsRun(Len(r), mark, DigitsAt(r), DigitRun(r, mark))
    BY <2>2, DigitRunIs
  <2> QED
    BY <2>3 DEF IsRun
<1>4. at = Len(r) => Sym(r, at) # Exp
  <2>1. Exp # Beyond
    BY Zenon DEF Exp, Beyond
  <2> QED
    BY <2>1, AtIs
<1>5. power \in Nat /\ (power > 0 => at > 0 /\ Sym(r, at) = Exp /\ mark <= Len(r) /\ power = DigitRun(r, mark))
  BY <1>3
<1>6. Sym(r, at) = Exp /\ mark <= Len(r) => power = DigitRun(r, mark)
  OBVIOUS
<1> HIDE DEF power
<1>7. (IF power > 0 THEN mark + power ELSE at) = Len(r)
        <=> at = Len(r) \/ (Sym(r, at) = Exp /\ mark < Len(r) /\ mark + DigitRun(r, mark) = Len(r))
  <2>1. CASE power > 0
    <3>1. DigitRun(r, mark) = power /\ mark < Len(r) /\ Sym(r, at) = Exp /\ at # Len(r)
      BY <1>2, <1>3, <1>4, <1>5, <2>1
    <3> QED
      BY <2>1, <3>1
  <2>2. CASE ~(power > 0)
    <3>1. ASSUME Sym(r, at) = Exp, mark < Len(r), mark + DigitRun(r, mark) = Len(r)
          PROVE  FALSE
      BY <1>2, <1>5, <1>6, <2>2, <3>1
    <3> QED
      BY <2>2, <3>1
  <2> QED
    BY <2>1, <2>2
<1>8. Sym(r, at) # Exp => power = 0
  BY <1>5
<1> QED
  BY <1>1, <1>7, <1>8 DEF mark

(* A body is one of three words, or none.                                  *)
LEMMA NamedIs ==
  ASSUME NEW S, NEW r \in Seq(S)
  PROVE  /\ Sym(r, 0) \notin {Infinity, NotANumber} => ~Named(r)
         /\ Sym(r, 0) = Infinity =>
              (Named(r) <=> Len(r) = IF Sym(r, 1) = Inity THEN 2 ELSE 1)
         /\ Sym(r, 0) = NotANumber => (Named(r) <=> Len(r) = 1)
         /\ Sym(r, 0) \in {Infinity, NotANumber} => Len(r) > 0
         /\ Sym(r, 1) = Inity => Len(r) > 1
<1>0. Len(r) \in Nat
  BY LenProperties
<1>1. /\ Infinity # Beyond /\ NotANumber # Beyond /\ Inity # Beyond /\ Infinity # NotANumber
  BY Zenon DEF Infinity, NotANumber, Inity, Beyond
<1>2. Sym(r, 0) \in {Infinity, NotANumber} => Len(r) > 0 /\ Sym(r, 0) = r[1]
  BY <1>0, <1>1, AtIs
<1>3. Sym(r, 1) = Inity => Len(r) > 1 /\ Sym(r, 1) = r[2]
  BY <1>0, <1>1, AtIs
<1>4. \A x : r = <<x>> => Len(r) = 1 /\ Sym(r, 0) = x /\ r[1] = x
  BY <1>0, AtIs
<1>5. \A x, y : r = <<x, y>> => Len(r) = 2 /\ Sym(r, 0) = x /\ Sym(r, 1) = y
  <2>1. SUFFICES ASSUME NEW x, NEW y, r = <<x, y>> PROVE Len(r) = 2 /\ Sym(r, 0) = x /\ Sym(r, 1) = y
    OBVIOUS
  <2>2. Len(r) = 2 /\ r[1] = x /\ r[2] = y
    BY <2>1
  <2>3. 0 + 1 = 1 /\ 1 + 1 = 2 /\ 0 < Len(r) /\ 1 < Len(r)
    BY <2>2
  <2>4. Sym(r, 0) = r[1]
    BY <2>3, AtIs
  <2>5. Sym(r, 1) = r[2]
    BY <2>3, AtIs
  <2> QED
    BY <2>2, <2>4, <2>5
<1>6. \A x : Len(r) = 1 /\ r[1] = x => r = <<x>>
  BY <1>0
<1>7. \A x, y : Len(r) = 2 /\ r[1] = x /\ r[2] = y => r = <<x, y>>
  BY <1>0
<1> HIDE DEF Infinity, NotANumber, Inity
<1>8. ASSUME Sym(r, 0) \notin {Infinity, NotANumber}
      PROVE  ~Named(r)
  BY <1>4, <1>5, <1>8 DEF Named
<1>9. ASSUME Sym(r, 0) = NotANumber
      PROVE  Named(r) <=> Len(r) = 1
  <2>1. Len(r) = 1 => r = <<NotANumber>>
    BY <1>2, <1>6, <1>9
  <2>2. Named(r) => r = <<NotANumber>>
    BY <1>1, <1>4, <1>5, <1>9 DEF Named
  <2> QED
    BY <1>4, <2>1, <2>2 DEF Named
<1>10. ASSUME Sym(r, 0) = Infinity
       PROVE  Named(r) <=> Len(r) = IF Sym(r, 1) = Inity THEN 2 ELSE 1
  <2>1. CASE Sym(r, 1) = Inity
    <3>1. Len(r) = 2 => r = <<Infinity, Inity>>
      BY <1>2, <1>3, <1>7, <1>10, <2>1
    <3>2. Named(r) => Len(r) = 2
      <4>1. Len(r) # 1
        BY <1>0, <1>3, <2>1
      <4> QED
        BY <1>4, <1>5, <4>1 DEF Named
    <3> QED
      BY <2>1, <3>1, <3>2 DEF Named
  <2>2. CASE Sym(r, 1) # Inity
    <3>1. Len(r) = 1 => r = <<Infinity>>
      BY <1>2, <1>6, <1>10
    <3>2. Named(r) => Len(r) = 1
      BY <1>4, <1>5, <2>2 DEF Named
    <3> QED
      BY <2>2, <3>1, <3>2 DEF Named
  <2> QED
    BY <2>1, <2>2
<1> QED
  BY <1>2, <1>3, <1>8, <1>9, <1>10

(* The walk comes to the end of a silent body, and of no other; the digits *)
(* a token consists of are as far as it comes.                             *)
LEMMA SpanIs ==
  ASSUME NEW S, NEW r \in Seq(S), NEW negative
  PROVE  /\ Silent(r) <=> Span(negative, r) = Len(r) /\ Len(r) > 0
         /\ Whole(r) > 0 /\ Sym(r, Whole(r)) \notin Marks => Span(negative, r) = Whole(r)
<1> DEFINE m == Mantissa(r)
           at == IF Whole(r) + Part(r) > 0 THEN Length(r) ELSE 0
           e == Exponent(r, at)
<1>0. Len(r) \in Nat
  BY LenProperties
<1>1. m.len = at
  BY <1>0, MantissaIs
<1>2. /\ Whole(r) \in 0..Len(r) /\ Part(r) \in Nat /\ Length(r) \in 0..Len(r)
      /\ Pointed(r) => Whole(r) < Len(r)
      /\ Whole(r) > 0 => IsDigit(Sym(r, 0))
      /\ ~Pointed(r) => Part(r) = 0
      /\ Length(r) = Whole(r) + (IF Pointed(r) THEN 1 ELSE 0) + Part(r)
  BY <1>0, PartsInPlace
<1>3. Infinity # NotANumber /\ ~IsDigit(Infinity) /\ ~IsDigit(NotANumber) /\ Infinity # Dot /\ NotANumber # Dot
      /\ Marks = {Dot, Exp}
  BY SymbolsApart, Zenon DEF Infinity, NotANumber, Dot, Exp, Marks, Words
<1>4. at \in 0..Len(r)
  BY <1>2
<1>5. Span(negative, r) = Spanned(negative, r, m, e)[2]
  BY <1>1 DEF Span
<1> HIDE DEF m, e, at
<1>6. Sym(r, 0) = Infinity => Span(negative, r) = IF Sym(r, 1) = Inity THEN 2 ELSE 1
  BY <1>3, <1>5 DEF Spanned, Infinity, Inity, NotANumber
<1>7. Sym(r, 0) = NotANumber => Span(negative, r) = 1
  BY <1>3, <1>5 DEF Spanned, Infinity, NotANumber
<1>8. ASSUME Sym(r, 0) \notin {Infinity, NotANumber}
      PROVE  Span(negative, r) = IF at = 0 THEN 0 ELSE e.end
  <2>1. Span(negative, r) = IF m.len = 0 THEN 0
                            ELSE IF /\ e.power = 0 /\ m.whole > MaxFinite
                                    /\ m.whole - RunOf(r, 0, LAMBDA c : c = "0") > MaxFinite
                            THEN m.len ELSE e.end
    BY <1>5, <1>8 DEF Spanned, Infinity, NotANumber
  <2>2. at # 0 /\ e.power = 0 => e.end = at
    <3>1. SUFFICES ASSUME at # 0 PROVE e.power = 0 => e.end = at
      OBVIOUS
    <3>2. at \in 1..Len(r)
      BY <1>0, <1>4, <3>1
    <3> QED
      BY <1>0, <3>2, ExponentIs DEF e
  <2> QED
    BY <1>1, <2>1, <2>2
<1>9. Sym(r, 0) \in {Infinity, NotANumber} => Whole(r) = 0 /\ ~Pointed(r) /\ Part(r) = 0
  BY <1>2, <1>3 DEF Pointed
<1>10. Silent(r) <=> Span(negative, r) = Len(r) /\ Len(r) > 0
  <2>1. CASE Sym(r, 0) \in {Infinity, NotANumber}
    <3>1. Silent(r) <=> Named(r)
      BY <1>9, <2>1 DEF Silent
    <3>2. Named(r) <=> Len(r) = Span(negative, r)
      <4>1. CASE Sym(r, 0) = Infinity
        <5>1. Named(r) <=> Len(r) = IF Sym(r, 1) = Inity THEN 2 ELSE 1
          BY <4>1, NamedIs
        <5>2. CASE Sym(r, 1) = Inity
          <6>1. Span(negative, r) = 2 /\ (Named(r) <=> Len(r) = 2)
            BY <1>6, <4>1, <5>1, <5>2
          <6> QED
            BY <6>1
        <5>3. CASE Sym(r, 1) # Inity
          <6>1. Span(negative, r) = 1 /\ (Named(r) <=> Len(r) = 1)
            BY <1>6, <4>1, <5>1, <5>3
          <6> QED
            BY <6>1
        <5> QED
          BY <5>2, <5>3
      <4>2. CASE Sym(r, 0) = NotANumber
        <5>1. Named(r) <=> Len(r) = 1
          BY <4>2, NamedIs
        <5> QED
          BY <1>7, <4>2, <5>1
      <4> QED
        BY <2>1, <4>1, <4>2
    <3> QED
      BY <2>1, <3>1, <3>2, NamedIs
  <2>2. CASE Sym(r, 0) \notin {Infinity, NotANumber}
    <3>1. ~Named(r)
      BY <2>2, NamedIs
    <3>2. CASE Whole(r) + Part(r) > 0
      <4>1. at = Length(r) /\ at \in 1..Len(r) /\ Len(r) > 0
        BY <1>0, <1>2, <3>2 DEF at
      <4>2. e.end = Len(r) <=> \/ at = Len(r)
                               \/ /\ Sym(r, at) = Exp
                                  /\ Mark(r, at) < Len(r) /\ Mark(r, at) + DigitRun(r, Mark(r, at)) = Len(r)
        BY <1>0, <4>1, ExponentIs DEF e
      <4>3. Silent(r) <=> e.end = Len(r)
        BY <3>1, <3>2, <4>1, <4>2 DEF Silent
      <4>4. Span(negative, r) = e.end
        BY <1>8, <2>2, <4>1
      <4> QED
        BY <4>1, <4>3, <4>4
    <3>3. CASE ~(Whole(r) + Part(r) > 0)
      <4>1. ~Silent(r)
        BY <3>1, <3>3 DEF Silent
      <4>2. Span(negative, r) = 0
        BY <1>8, <2>2, <3>3 DEF at
      <4> QED
        BY <1>0, <4>1, <4>2
    <3> QED
      BY <3>2, <3>3
  <2> QED
    BY <2>1, <2>2
<1>11. ASSUME Whole(r) > 0, Sym(r, Whole(r)) \notin Marks
       PROVE  Span(negative, r) = Whole(r)
  <2>1. Sym(r, 0) \notin {Infinity, NotANumber}
    BY <1>2, <1>3, <1>11
  <2>2. ~Pointed(r) /\ Sym(r, Whole(r)) # Exp
    BY <1>3, <1>11 DEF Pointed
  <2>3. at = Whole(r) /\ at \in 1..Len(r)
    BY <1>0, <1>2, <1>11, <2>2 DEF at
  <2>4. e.end = at
    BY <1>0, <2>2, <2>3, ExponentIs DEF e
  <2> QED
    BY <1>8, <2>1, <2>3, <2>4
<1> QED
  BY <1>10, <1>11

(* Whatever value the digits have, the walk warns when it stops short of   *)
(* the body's end, or has no body.                                         *)
LEMMA WarnsShort ==
  ASSUME IMax \in Nat, NEW S, NEW t, t.rest \in Seq(S), t.negative \in BOOLEAN, NEW value, NEW parsed,
         parsed[2] = Span(t.negative, t.rest)
  PROVE  NumberIn(t, DigitRun(t.rest, 0), value, parsed)[2] = ~Silent(t.rest)
<1> DEFINE r == t.rest
           n == DigitRun(t.rest, 0)
           digits == n > 0 /\ Sym(r, n) \notin Marks
<1>0. Len(r) \in Nat /\ (Len(r) = 0 <=> r = <<>>)
  BY LenProperties, EmptySeq
<1>1. Silent(r) <=> parsed[2] = Len(r) /\ Len(r) > 0
  BY SpanIs
<1>2. n = Whole(r)
  BY DEF Whole
<1>3. digits => parsed[2] = n
  BY <1>2, SpanIs
<1>4. Marks = {".", "e"}
  BY DEF Marks
<1> DEFINE small == value <= IMax + (IF t.negative THEN 1 ELSE 0)
           large == ~t.negative /\ value \in (IMax + 1)..UMax
           number == NumberIn(t, n, value, parsed)
<1>5. ~(small /\ large)
  BY DEF UMax
<1>6. number = CASE digits /\ small -> <<Integer(IF t.negative THEN -value ELSE value), n # Len(r)>>
                 [] digits /\ large -> <<Unsigned(value), n # Len(r)>>
                 [] OTHER -> <<Float(parsed[1]), parsed[2] # Len(r) \/ r = <<>> >>
  <2> HIDE DEF small, large
  <2>1. digits = (n > 0 /\ Sym(r, n) \notin {".", "e"})
    BY <1>4
  <2> QED
    BY <2>1, Zenon DEF NumberIn, small, large
<1> HIDE DEF number, digits, small, large, r
<1>7. r = t.rest /\ ~(r = <<>> /\ Len(r) > 0) /\ (Len(r) > 0 \/ r = <<>>)
  BY <1>0 DEF r
<1>8. ASSUME digits
      PROVE  n # Len(r) <=> ~Silent(r)
  <2>1. parsed[2] = n /\ n > 0
    BY <1>3, <1>8 DEF digits
  <2> QED
    BY <1>1, <2>1
<1>9. parsed[2] # Len(r) \/ r = <<>> <=> ~Silent(r)
  BY <1>1, <1>7
<1>10. CASE digits /\ small
  <2>1. number[2] = (n # Len(r))
    BY <1>5, <1>6, <1>10, Zenon
  <2> QED
    BY <1>7, <1>8, <1>10, <2>1, Zenon DEF number
<1>11. CASE digits /\ large
  <2>1. number[2] = (n # Len(r))
    BY <1>5, <1>6, <1>11, Zenon
  <2> QED
    BY <1>7, <1>8, <1>11, <2>1, Zenon DEF number
<1>12. CASE ~(digits /\ small) /\ ~(digits /\ large)
  <2>1. number[2] = (parsed[2] # Len(r) \/ r = <<>>)
    BY <1>6, <1>12, Zenon
  <2> QED
    BY <1>7, <1>9, <2>1, Zenon DEF number
<1> QED
  BY <1>10, <1>11, <1>12

(* The token the walk reads is the one the grammar is asked of.            *)
LEMMA SplitIs ==
  ASSUME NEW S, NEW s \in Seq(S)
  PROVE  LET t == SplitSign(Trimmed(s)) IN
         /\ t.rest = Body(Trimmed(Unspaced(s))) /\ t.rest \in Seq(S) /\ t.negative \in BOOLEAN
         /\ ParseFloatSpanned(Trimmed(s))[2] = Span(t.negative, t.rest)
<1> DEFINE u == Unspaced(Trimmed(s))
           t == SplitSign(Trimmed(s))
<1>1. u = Trimmed(Unspaced(s)) /\ u \in Seq(S)
  BY TrimsCommute
<1>2. t.rest = Body(u) /\ t.negative = (Sym(u, 0) = "-")
  BY DEF SplitSign, Body
<1>3. ParseFloatSpanned(Trimmed(s))[2] = Span(t.negative, t.rest)
  BY Zenon DEF ParseFloatSpanned, Span
<1> HIDE DEF u, t
<1>4. Sym(u, 0) \in Signs => u # <<>>
  <2>1. Beyond \notin Signs
    BY SymbolsApart
  <2>2. u = <<>> => Len(u) = 0
    BY <1>1, EmptySeq
  <2> QED
    BY <2>1, <2>2, AtIs
<1>5. Body(u) \in Seq(S)
  BY <1>1, <1>4, HeadTailProperties DEF Body
<1> QED
  BY <1>1, <1>2, <1>3, <1>5 DEF u, t

(* The walk that numifies a string says of every string what the grammar   *)
(* says (classify_numeric_noting_warning, string_would_warn).              *)
LEMMA OneGrammar ==
  ASSUME WidthAssumption, NEW S, NEW s \in Seq(S)
  PROVE  ClassifyNumeric(s)[2] = StringWouldWarn(s)
<1> DEFINE token == Trimmed(s)
           t == SplitSign(token)
           n == DigitRun(t.rest, 0)
           value == Number(SubSeq(t.rest, 1, n))
           parsed == ParseFloatSpanned(token)
<1>1. ClassifyNumeric(s) = IF s = ButTrue THEN <<Integer(0), FALSE>> ELSE NumberIn(t, n, value, parsed)
  BY Zenon DEF ClassifyNumeric
<1>2. StringWouldWarn(s) = ~(s = ButTrue \/ Silent(Body(Trimmed(Unspaced(s)))))
  BY WarnsUnless DEF StringWouldWarn
<1>3. t.rest = Body(Trimmed(Unspaced(s)))
  BY SplitIs
<1>4. NumberIn(t, n, value, parsed)[2] = ~Silent(t.rest)
  <2>1. t.rest \in Seq(S) /\ t.negative \in BOOLEAN /\ parsed[2] = Span(t.negative, t.rest)
    BY SplitIs
  <2>2. IMax \in Nat
    BY DEF WidthAssumption
  <2> HIDE DEF t, value, parsed
  <2> QED
    BY <2>1, <2>2, WarnsShort
<1>5. StringWouldWarn(s) = ~(s = ButTrue \/ Silent(t.rest))
  BY <1>2, <1>3
<1> HIDE DEF t, n, value, parsed
<1>6. CASE s = ButTrue
  <2>1. ClassifyNumeric(s)[2] = FALSE
    BY <1>1, <1>6
  <2> QED
    BY <1>5, <1>6, <2>1, Zenon
<1>7. CASE s # ButTrue
  <2>1. ClassifyNumeric(s) = NumberIn(t, n, value, parsed)
    BY <1>1, <1>7, Zenon
  <2> QED
    BY <1>4, <1>5, <1>7, <2>1, Zenon
<1> QED
  BY <1>6, <1>7

(* Strings are strings, whatever they grow to.                             *)
THEOREM WarnsAsTheGrammarSays ==
  ASSUME WidthAssumption
  PROVE  WordSpec => []WarnsAsGrammar
<1> DEFINE Typed == word \in Seq(Alphabet)
<1>1. WordInit => Typed
  BY DEF WordInit
<1>2. Typed /\ [WordNext]_word => Typed'
  BY DEF WordNext, Push
<1>3. Typed => WarnsAsGrammar
  BY OneGrammar DEF WarnsAsGrammar, Read
<1> QED
  BY <1>1, <1>2, <1>3, PTL DEF WordSpec
-----------------------------------------------------------------------------
(* Powers of ten, what digits leave, and what they stand for.              *)

(* The powers Tens goes by.                                                *)
Powers(k) == LET power[i \in 0..k] == IF i = 0 THEN 1 ELSE power[i - 1] * 10 IN power

(* Each is ten times the one before it.                                    *)
LEMMA PowersAre ==
  ASSUME NEW k \in Nat
  PROVE  /\ Powers(k)[0] = 1
         /\ \A i \in 1..k : Powers(k)[i] = Powers(k)[i - 1] * 10
         /\ \A i \in 0..k : Powers(k)[i] \in Nat
<1> DEFINE D == [m \in Nat |-> m * 10]
           E(f) == [i \in 0..k |-> IF i = 0 THEN 1 ELSE f[i - 1] * 10]
<1>1. D \in [Nat -> Nat]
  OBVIOUS
<1>2. PICK f \in [0..k -> Nat] : f[0] = 1 /\ \A i \in 1..k : f[i] = D[f[i - 1]]
  <2> HIDE DEF D, E
  <2>1. Iterable(k, Nat, 1, D)
    BY <1>1, IterationExists
  <2> QED
    BY <2>1 DEF Iterable
<1>3. f = E(f)
  <2>1. \A i \in 0..k : f[i] = IF i = 0 THEN 1 ELSE f[i - 1] * 10
    <3> TAKE i \in 0..k
    <3>1. CASE i = 0
      BY <1>2, <3>1
    <3>2. CASE i # 0
      <4>1. i \in 1..k /\ i - 1 \in 0..k
        BY <3>2
      <4> QED
        BY <1>2, <3>2, <4>1
    <3> QED
      BY <3>1, <3>2
  <2> QED
    BY <2>1
<1>4. PICK q : q = Powers(k)
  OBVIOUS
<1>5. q = E(q)
  <2>1. q = CHOOSE g : g = E(g)
    BY <1>4 DEF Powers
  <2> HIDE DEF E
  <2> QED
    BY <1>3, <2>1
<1>6. q[0] = 1 /\ \A i \in 1..k : q[i] = q[i - 1] * 10
  BY <1>5
<1>7. \A i \in 0..k : q[i] \in Nat
  <2> DEFINE S == {i \in 0..k : q[i] \in Nat}
  <2>1. 0 \in S
    BY <1>6
  <2>2. ASSUME NEW i \in 0..(k - 1), i \in S PROVE i + 1 \in S
    <3>1. i + 1 \in 1..k /\ (i + 1) - 1 = i
      OBVIOUS
    <3>2. q[i + 1] = q[i] * 10
      BY <1>6, <3>1
    <3> QED
      BY <2>2, <3>1, <3>2
  <2>3. \A i \in 0..k : i \in S
    <3> HIDE DEF S
    <3> QED
      BY <2>1, <2>2, UpTo
  <2> QED
    BY <2>3
<1> QED
  BY <1>4, <1>6, <1>7

(* 10^k, one by one.                                                       *)
LEMMA TensAre ==
  /\ Tens(0) = 1
  /\ \A k \in Nat : Tens(k) \in Nat /\ Tens(k + 1) = Tens(k) * 10
<1>1. \A k \in Nat : Tens(k) = Powers(k)[k]
  BY DEF Tens, Powers
<1>2. ASSUME NEW k \in Nat
      PROVE  Tens(k) \in Nat /\ Tens(k + 1) = Tens(k) * 10
  <2>1. PICK p, q : p = Powers(k) /\ q = Powers(k + 1)
    OBVIOUS
  <2>2. p[0] = 1 /\ (\A i \in 1..k : p[i] = p[i - 1] * 10) /\ \A i \in 0..k : p[i] \in Nat
    BY <2>1, PowersAre
  <2>3. q[0] = 1 /\ \A i \in 1..k + 1 : q[i] = q[i - 1] * 10
    <3>1. k + 1 \in Nat
      OBVIOUS
    <3> QED
      BY <2>1, <3>1, PowersAre
  <2> DEFINE S == {i \in 0..k : p[i] = q[i]}
  <2>4. 0 \in S
    BY <2>2, <2>3
  <2>5. ASSUME NEW i \in 0..(k - 1), i \in S PROVE i + 1 \in S
    <3>1. i + 1 \in 1..k /\ i + 1 \in 1..k + 1 /\ (i + 1) - 1 = i
      OBVIOUS
    <3>2. p[i + 1] = p[i] * 10 /\ q[i + 1] = q[i] * 10
      BY <2>2, <2>3, <3>1
    <3> QED
      BY <2>5, <3>1, <3>2
  <2>6. \A i \in 0..k : i \in S
    <3> HIDE DEF S
    <3> QED
      BY <2>4, <2>5, UpTo
  <2>7. p[k] = q[k] /\ p[k] \in Nat
    BY <2>2, <2>6
  <2>8. q[k + 1] = q[k] * 10
    <3>1. k + 1 \in 1..k + 1 /\ (k + 1) - 1 = k
      OBVIOUS
    <3> QED
      BY <2>3, <3>1
  <2>9. Tens(k) = p[k] /\ Tens(k + 1) = q[k + 1]
    BY <1>1, <2>1
  <2> QED
    BY <2>7, <2>8, <2>9
<1>3. Tens(0) = 1
  <2>1. 0 \in Nat
    OBVIOUS
  <2> QED
    BY <1>1, <2>1, PowersAre
<1> QED
  BY <1>2, <1>3

(* The rests Shortened goes by.                                            *)
Rests(m, k) == LET left[i \in 0..k] == IF i = 0 THEN m ELSE left[i - 1] \div 10 IN left

(* Each is a tenth of the one before it.                                   *)
LEMMA RestsAre ==
  ASSUME NEW m \in Nat, NEW k \in Nat
  PROVE  /\ Rests(m, k)[0] = m
         /\ \A i \in 1..k : Rests(m, k)[i] = Rests(m, k)[i - 1] \div 10
         /\ \A i \in 0..k : Rests(m, k)[i] \in Nat
<1> DEFINE D == [n \in Nat |-> n \div 10]
           E(f) == [i \in 0..k |-> IF i = 0 THEN m ELSE f[i - 1] \div 10]
<1>1. D \in [Nat -> Nat]
  OBVIOUS
<1>2. PICK f \in [0..k -> Nat] : f[0] = m /\ \A i \in 1..k : f[i] = D[f[i - 1]]
  <2> HIDE DEF D, E
  <2>1. Iterable(k, Nat, m, D)
    BY <1>1, IterationExists
  <2> QED
    BY <2>1 DEF Iterable
<1>3. f = E(f)
  <2>1. \A i \in 0..k : f[i] = IF i = 0 THEN m ELSE f[i - 1] \div 10
    <3> TAKE i \in 0..k
    <3>1. CASE i = 0
      BY <1>2, <3>1
    <3>2. CASE i # 0
      <4>1. i \in 1..k /\ i - 1 \in 0..k
        BY <3>2
      <4> QED
        BY <1>2, <3>2, <4>1
    <3> QED
      BY <3>1, <3>2
  <2> QED
    BY <2>1
<1>4. PICK q : q = Rests(m, k)
  OBVIOUS
<1>5. q = E(q)
  <2>1. q = CHOOSE g : g = E(g)
    BY <1>4 DEF Rests
  <2> HIDE DEF E
  <2> QED
    BY <1>3, <2>1
<1>6. q[0] = m /\ \A i \in 1..k : q[i] = q[i - 1] \div 10
  BY <1>5
<1>7. \A i \in 0..k : q[i] \in Nat
  <2> DEFINE S == {i \in 0..k : q[i] \in Nat}
  <2>1. 0 \in S
    BY <1>6
  <2>2. ASSUME NEW i \in 0..(k - 1), i \in S PROVE i + 1 \in S
    <3>1. i + 1 \in 1..k /\ (i + 1) - 1 = i
      OBVIOUS
    <3>2. q[i + 1] = q[i] \div 10
      BY <1>6, <3>1
    <3> QED
      BY <2>2, <3>1, <3>2
  <2>3. \A i \in 0..k : i \in S
    <3> HIDE DEF S
    <3> QED
      BY <2>1, <2>2, UpTo
  <2> QED
    BY <2>3
<1> QED
  BY <1>4, <1>6, <1>7

(* A number without its last digits, digit by digit.                       *)
LEMMA ShortenedIs ==
  ASSUME NEW m \in Nat
  PROVE  /\ Shortened(m, 0) = m
         /\ \A k \in Nat : Shortened(m, k) \in Nat /\ Shortened(m, k + 1) = Shortened(m, k) \div 10
<1>1. \A k \in Nat : Shortened(m, k) = Rests(m, k)[k]
  BY DEF Shortened, Rests
<1>2. ASSUME NEW k \in Nat
      PROVE  Shortened(m, k) \in Nat /\ Shortened(m, k + 1) = Shortened(m, k) \div 10
  <2>1. PICK p, q : p = Rests(m, k) /\ q = Rests(m, k + 1)
    OBVIOUS
  <2>2. p[0] = m /\ (\A i \in 1..k : p[i] = p[i - 1] \div 10) /\ \A i \in 0..k : p[i] \in Nat
    BY <2>1, RestsAre
  <2>3. q[0] = m /\ \A i \in 1..k + 1 : q[i] = q[i - 1] \div 10
    <3>1. k + 1 \in Nat
      OBVIOUS
    <3> QED
      BY <2>1, <3>1, RestsAre
  <2> DEFINE S == {i \in 0..k : p[i] = q[i]}
  <2>4. 0 \in S
    BY <2>2, <2>3
  <2>5. ASSUME NEW i \in 0..(k - 1), i \in S PROVE i + 1 \in S
    <3>1. i + 1 \in 1..k /\ i + 1 \in 1..k + 1 /\ (i + 1) - 1 = i
      OBVIOUS
    <3>2. p[i + 1] = p[i] \div 10 /\ q[i + 1] = q[i] \div 10
      BY <2>2, <2>3, <3>1
    <3> QED
      BY <2>5, <3>1, <3>2
  <2>6. \A i \in 0..k : i \in S
    <3> HIDE DEF S
    <3> QED
      BY <2>4, <2>5, UpTo
  <2>7. p[k] = q[k] /\ p[k] \in Nat
    BY <2>2, <2>6
  <2>8. q[k + 1] = q[k] \div 10
    <3>1. k + 1 \in 1..k + 1 /\ (k + 1) - 1 = k
      OBVIOUS
    <3> QED
      BY <2>3, <3>1
  <2>9. Shortened(m, k) = p[k] /\ Shortened(m, k + 1) = q[k + 1]
    BY <1>1, <2>1
  <2> QED
    BY <2>7, <2>8, <2>9
<1>3. Shortened(m, 0) = m
  <2>1. 0 \in Nat
    OBVIOUS
  <2> QED
    BY <1>1, <2>1, RestsAre
<1> QED
  BY <1>2, <1>3

(* Powers of ten grow, and multiply.                                       *)
LEMMA TensGrow ==
  /\ \A k \in Nat : Tens(k) > k
  /\ \A j \in Nat, k \in Nat : Tens(j + k) = Tens(j) * Tens(k) /\ Tens(j + k) >= Tens(j)
<1>1. ASSUME NEW k \in Nat PROVE Tens(k) > k
  <2> DEFINE S == {i \in 0..k : Tens(i) > i}
  <2>1. 0 \in S
    BY TensAre
  <2>2. ASSUME NEW i \in 0..(k - 1), i \in S PROVE i + 1 \in S
    BY <2>2, TensAre
  <2>3. \A i \in 0..k : i \in S
    <3> HIDE DEF S
    <3> QED
      BY <2>1, <2>2, UpTo
  <2> QED
    BY <2>3
<1>2. ASSUME NEW j \in Nat, NEW k \in Nat
      PROVE  Tens(j + k) = Tens(j) * Tens(k) /\ Tens(j + k) >= Tens(j)
  <2>1. PICK p \in Nat : p = Tens(j)
    BY TensAre
  <2> DEFINE S == {i \in 0..k : Tens(j + i) = p * Tens(i) /\ Tens(j + i) >= p}
  <2>2. 0 \in S
    <3>1. j + 0 = j /\ p * 1 = p
      OBVIOUS
    <3> QED
      BY <2>1, <3>1, TensAre
  <2>3. ASSUME NEW i \in 0..(k - 1), i \in S PROVE i + 1 \in S
    <3>1. i + 1 \in 0..k /\ i \in Nat /\ j + i \in Nat /\ j + (i + 1) = (j + i) + 1
      OBVIOUS
    <3>2. PICK a, b : a = Tens(i) /\ b = Tens(j + i)
      OBVIOUS
    <3>3. /\ a \in Nat /\ b \in Nat /\ b = p * a /\ b >= p
          /\ Tens(i + 1) = a * 10 /\ Tens(j + (i + 1)) = b * 10
      BY <2>3, <3>1, <3>2, TensAre
    <3>4. (p * a) * 10 = p * (a * 10) /\ b * 10 >= p
      BY <3>3
    <3> QED
      BY <3>1, <3>3, <3>4
  <2>4. \A i \in 0..k : i \in S
    <3> HIDE DEF S
    <3> QED
      BY <2>2, <2>3, UpTo
  <2>5. k \in S
    BY <2>4
  <2> QED
    BY <2>1, <2>5
<1> QED
  BY <1>1, <1>2

(* Digits are taken off one after another in any portions, and off a       *)
(* product with a power of ten they are the zeros it put on.               *)
LEMMA ShortenedTwice ==
  ASSUME NEW m \in Nat, NEW j \in Nat, NEW k \in Nat
  PROVE  /\ Shortened(Shortened(m, j), k) = Shortened(m, j + k)
         /\ Shortened(m * Tens(k), k) = m
<1>1. PICK n \in Nat : n = Shortened(m, j)
  BY ShortenedIs
<1>2. Shortened(n, k) = Shortened(m, j + k)
  <2> DEFINE S == {i \in 0..k : Shortened(n, i) = Shortened(m, j + i)}
  <2>1. 0 \in S
    <3>1. j + 0 = j
      OBVIOUS
    <3> QED
      BY <1>1, <3>1, ShortenedIs
  <2>2. ASSUME NEW i \in 0..(k - 1), i \in S PROVE i + 1 \in S
    <3>1. i + 1 \in 0..k /\ i \in Nat /\ j + i \in Nat /\ j + (i + 1) = (j + i) + 1
      OBVIOUS
    <3>2. Shortened(n, i + 1) = Shortened(n, i) \div 10
      BY <3>1, ShortenedIs
    <3>3. Shortened(m, j + (i + 1)) = Shortened(m, j + i) \div 10
      BY <3>1, ShortenedIs
    <3> QED
      BY <2>2, <3>1, <3>2, <3>3
  <2>3. \A i \in 0..k : i \in S
    <3> HIDE DEF S
    <3> QED
      BY <2>1, <2>2, UpTo
  <2> QED
    BY <2>3
<1>3. Shortened(m * Tens(k), k) = m
  <2>1. PICK x : x = m * Tens(k)
    OBVIOUS
  <2>2. x \in Nat
    <3>1. \A a, b \in Nat : a * b \in Nat
      OBVIOUS
    <3> QED
      BY <2>1, <3>1, TensAre
  <2> DEFINE S == {i \in 0..k : Shortened(x, i) = m * Tens(k - i)}
  <2>3. 0 \in S
    <3>1. k - 0 = k
      OBVIOUS
    <3> QED
      BY <2>1, <2>2, <3>1, ShortenedIs
  <2>4. ASSUME NEW i \in 0..(k - 1), i \in S PROVE i + 1 \in S
    <3>1. i + 1 \in 0..k /\ i \in Nat /\ k - (i + 1) \in Nat /\ k - i = (k - (i + 1)) + 1
      OBVIOUS
    <3>2. PICK a : a = Tens(k - (i + 1))
      OBVIOUS
    <3>3. a \in Nat /\ Tens(k - i) = a * 10
      BY <3>1, <3>2, TensAre
    <3>4. Shortened(x, i + 1) = (m * (a * 10)) \div 10
      <4>1. Shortened(x, i + 1) = Shortened(x, i) \div 10
        BY <2>2, <3>1, ShortenedIs
      <4> QED
        BY <2>4, <3>3, <4>1
    <3>5. (m * (a * 10)) \div 10 = m * a
      <4>1. m * a \in Nat /\ m * (a * 10) = (m * a) * 10
        BY <3>3
      <4>2. \A b \in Nat : (b * 10) \div 10 = b
        OBVIOUS
      <4> QED
        BY <4>1, <4>2
    <3> QED
      BY <3>1, <3>2, <3>4, <3>5
  <2>5. k \in S
    <3>1. \A i \in 0..k : i \in S
      <4> HIDE DEF S
      <4> QED
        BY <2>3, <2>4, UpTo
    <3> QED
      BY <3>1
  <2>6. k - k = 0 /\ m * 1 = m
    OBVIOUS
  <2> QED
    BY <2>1, <2>5, <2>6, TensAre
<1> QED
  BY <1>1, <1>2, <1>3

-----------------------------------------------------------------------------
(* What digits stand for.                                                  *)

(* A string of digits.                                                     *)
Figures(d) == Len(d) \in Nat /\ \A k \in 1..Len(d) : IsDigit(d[k])

(* A digit's worth.                                                        *)
LEMMA DigitIs ==
  ASSUME NEW c, IsDigit(c)
  PROVE  Digit(c) \in 0..9 /\ (c # "0" => Digit(c) # 0)
<1>1. PICK i \in 1..10 : DigitChars[i] = c
  BY DEF IsDigit, Contains, DigitChars
<1>2. i - 1 \in 0..9 /\ (i - 1) + 1 = i
  OBVIOUS
<1>3. \E d \in 0..9 : DigitChars[d + 1] = c
  BY <1>1, <1>2
<1>4. Digit(c) \in 0..9 /\ DigitChars[Digit(c) + 1] = c
  <2> HIDE DEF DigitChars
  <2> QED
    BY <1>3 DEF Digit
<1>5. DigitChars[0 + 1] = "0"
  BY DEF DigitChars
<1> QED
  BY <1>4, <1>5

(* What the first digits stand for, as Number goes along.                  *)
Partials(d) ==
  LET value[k \in 0..Len(d)] == IF k = 0 THEN 0 ELSE (value[k - 1] * 10) + Digit(d[k]) IN value

(* Each digit makes ten of what is before it and adds itself.              *)
LEMMA PartialsAre ==
  ASSUME NEW d, Figures(d)
  PROVE  /\ Number(d) = Partials(d)[Len(d)] /\ Partials(d)[0] = 0
         /\ \A k \in 1..Len(d) : Partials(d)[k] = (Partials(d)[k - 1] * 10) + Digit(d[k])
         /\ \A k \in 0..Len(d) : Partials(d)[k] \in Nat
<1> DEFINE L == Len(d)
           D == [k \in 1..L |-> [n \in Nat |-> (n * 10) + Digit(d[k])]]
           E(f) == [k \in 0..Len(d) |-> IF k = 0 THEN 0 ELSE (f[k - 1] * 10) + Digit(d[k])]
<1>1. L \in Nat /\ \A k \in 1..L : Digit(d[k]) \in 0..9
  BY DigitIs DEF Figures
<1>2. D \in [1..L -> [Nat -> Nat]]
  BY <1>1
<1>3. PICK f \in [0..L -> Nat] : f[0] = 0 /\ \A k \in 1..L : f[k] = D[k][f[k - 1]]
  <2> HIDE DEF D, E, L
  <2>1. Stepped(L, Nat, 0, D)
    BY <1>1, <1>2, StepsExist
  <2> QED
    BY <2>1 DEF Stepped
<1>4. f = E(f)
  <2>1. \A k \in 0..L : f[k] = IF k = 0 THEN 0 ELSE (f[k - 1] * 10) + Digit(d[k])
    <3> TAKE k \in 0..L
    <3>1. CASE k = 0
      BY <1>3, <3>1
    <3>2. CASE k # 0
      <4>1. k \in 1..L /\ k - 1 \in 0..L
        BY <1>1, <3>2
      <4>2. f[k - 1] \in Nat /\ f[k] = D[k][f[k - 1]]
        BY <1>3, <4>1
      <4> QED
        BY <3>2, <4>1, <4>2
    <3> QED
      BY <3>1, <3>2
  <2> QED
    BY <2>1
<1>5. PICK q : q = Partials(d)
  OBVIOUS
<1>6. q = E(q)
  <2>1. q = CHOOSE g : g = E(g)
    BY <1>5 DEF Partials
  <2> HIDE DEF E
  <2> QED
    BY <1>4, <2>1
<1>7. q[0] = 0 /\ \A k \in 1..L : q[k] = (q[k - 1] * 10) + Digit(d[k])
  <2> HIDE DEF D
  <2>1. 0 \in 0..L /\ \A k \in 1..L : k \in 0..L /\ k # 0
    BY <1>1
  <2> QED
    BY <1>6, <2>1
<1>8. \A k \in 0..L : q[k] \in Nat
  <2> DEFINE S == {k \in 0..L : q[k] \in Nat}
  <2>1. 0 \in S
    BY <1>1, <1>7
  <2>2. ASSUME NEW k \in 0..(L - 1), k \in S PROVE k + 1 \in S
    <3>1. k + 1 \in 1..L /\ (k + 1) - 1 = k
      BY <1>1
    <3>2. q[k + 1] = (q[k] * 10) + Digit(d[k + 1])
      BY <1>7, <3>1
    <3>3. PICK a, b : a = q[k] /\ b = Digit(d[k + 1])
      OBVIOUS
    <3>4. a \in Nat /\ b \in Nat
      BY <1>1, <2>2, <3>1, <3>3
    <3>5. q[k + 1] \in Nat
      BY <3>2, <3>3, <3>4
    <3> QED
      BY <1>1, <3>1, <3>5
  <2>3. \A k \in 0..L : k \in S
    <3> HIDE DEF S, L
    <3> QED
      BY <1>1, <2>1, <2>2, UpTo
  <2> QED
    BY <2>3
<1>9. Number(d) = q[L]
  BY <1>5 DEF Number, Partials
<1> QED
  BY <1>5, <1>7, <1>8, <1>9

(* Without its last digits a string stands for what they leave of its      *)
(* number.                                                                 *)
LEMMA NumberShortens ==
  ASSUME NEW d, NEW e, Figures(d), Figures(e), Len(e) <= Len(d), \A k \in 1..Len(e) : e[k] = d[k]
  PROVE  Number(d) \in Nat /\ Number(e) = Shortened(Number(d), Len(d) - Len(e))
<1> DEFINE L == Len(d)
           N == Len(e)
<1>1. L \in Nat /\ N \in Nat /\ N <= L /\ L - N \in Nat
  BY DEF Figures
<1>2. PICK p, q : p = Partials(d) /\ q = Partials(e)
  OBVIOUS
<1>3. /\ Number(d) = p[L] /\ p[0] = 0 /\ \A k \in 0..L : p[k] \in Nat
      /\ \A k \in 1..L : p[k] = (p[k - 1] * 10) + Digit(d[k])
  BY <1>2, PartialsAre
<1>4. /\ Number(e) = q[N] /\ q[0] = 0
      /\ \A k \in 1..N : q[k] = (q[k - 1] * 10) + Digit(e[k])
  BY <1>2, PartialsAre
<1>5. \A k \in 1..L : Digit(d[k]) \in 0..9
  BY DigitIs DEF Figures
<1>6. \A k \in 1..N : e[k] = d[k]
  OBVIOUS
<1> HIDE DEF L, N
<1>7. q[N] = p[N]
  <2> DEFINE S == {k \in 0..N : q[k] = p[k]}
  <2>1. 0 \in S
    BY <1>1, <1>3, <1>4
  <2>2. ASSUME NEW k \in 0..(N - 1), k \in S PROVE k + 1 \in S
    <3>1. k + 1 \in 1..N /\ k + 1 \in 1..L /\ (k + 1) - 1 = k
      BY <1>1
    <3>2. q[k + 1] = (q[k] * 10) + Digit(e[k + 1]) /\ p[k + 1] = (p[k] * 10) + Digit(d[k + 1])
      BY <1>3, <1>4, <3>1
    <3> QED
      BY <1>6, <2>2, <3>1, <3>2
  <2>3. \A k \in 0..N : k \in S
    <3> HIDE DEF S
    <3> QED
      BY <1>1, <2>1, <2>2, UpTo
  <2> QED
    BY <1>1, <2>3
<1>8. p[N] = Shortened(p[L], L - N)
  <2>1. PICK m \in Nat : m = p[L]
    BY <1>1, <1>3
  <2> DEFINE S == {j \in 0..(L - N) : Shortened(m, j) = p[L - j]}
  <2>2. 0 \in S
    <3>1. L - 0 = L /\ 0 \in 0..(L - N)
      BY <1>1
    <3> QED
      BY <2>1, <3>1, ShortenedIs
  <2>3. ASSUME NEW j \in 0..((L - N) - 1), j \in S PROVE j + 1 \in S
    <3>1. /\ j + 1 \in 0..(L - N) /\ j \in Nat /\ L - j \in 1..L /\ (L - j) - 1 = L - (j + 1)
          /\ L - (j + 1) \in 0..L
      BY <1>1
    <3>2. PICK a, b, c : a = p[L - (j + 1)] /\ b = p[L - j] /\ c = Digit(d[L - j])
      OBVIOUS
    <3>3. a \in Nat /\ c \in 0..9 /\ b = (a * 10) + c
      BY <1>3, <1>5, <3>1, <3>2
    <3>4. b \div 10 = a
      BY <3>3
    <3>5. Shortened(m, j + 1) = Shortened(m, j) \div 10
      BY <3>1, ShortenedIs
    <3>6. Shortened(m, j + 1) = p[L - (j + 1)]
      BY <2>3, <3>2, <3>4, <3>5
    <3> QED
      BY <3>1, <3>6
  <2>4. \A j \in 0..(L - N) : j \in S
    <3> HIDE DEF S
    <3> QED
      BY <1>1, <2>2, <2>3, UpTo
  <2>5. L - N \in S /\ L - (L - N) = N
    BY <1>1, <2>4
  <2> QED
    BY <2>1, <2>5
<1>9. Number(d) \in Nat
  BY <1>1, <1>3
<1> QED
  BY <1>3, <1>4, <1>7, <1>8, <1>9 DEF L, N

(* A number is as large as the power of ten its first digit other than 0   *)
(* stands for.                                                             *)
LEMMA NumberGrows ==
  ASSUME NEW d, Figures(d), NEW z \in 0..(Len(d) - 1), d[z + 1] # "0"
  PROVE  Number(d) >= Tens(Len(d) - z - 1)
<1> DEFINE L == Len(d)
<1>1. L \in Nat /\ z \in 0..(L - 1) /\ L - z - 1 \in Nat
  BY DEF Figures
<1>2. PICK p : p = Partials(d)
  OBVIOUS
<1>3. /\ Number(d) = p[L] /\ \A k \in 0..L : p[k] \in Nat
      /\ \A k \in 1..L : p[k] = (p[k - 1] * 10) + Digit(d[k])
  BY <1>2, PartialsAre
<1>4. \A k \in 1..L : Digit(d[k]) \in 0..9 /\ (d[k] # "0" => Digit(d[k]) # 0)
  BY DigitIs DEF Figures
<1>5. d[z + 1] # "0"
  OBVIOUS
<1> HIDE DEF L
<1> DEFINE S == {i \in 0..(L - z - 1) : p[z + 1 + i] >= Tens(i)}
<1>6. 0 \in S
  <2>1. z + 1 \in 1..L /\ (z + 1) - 1 = z /\ z \in 0..L /\ z + 1 + 0 = z + 1 /\ 0 \in 0..(L - z - 1)
    BY <1>1
  <2>2. PICK a, b, c : a = p[z] /\ b = p[z + 1] /\ c = Digit(d[z + 1])
    OBVIOUS
  <2>3. a \in Nat /\ b = (a * 10) + c /\ c \in 0..9 /\ c # 0
    BY <1>3, <1>4, <1>5, <2>1, <2>2
  <2>4. b >= 1
    BY <2>3
  <2> QED
    BY <2>1, <2>2, <2>4, TensAre
<1>7. ASSUME NEW i \in 0..((L - z - 1) - 1), i \in S PROVE i + 1 \in S
  <2>1. /\ i + 1 \in 0..(L - z - 1) /\ i \in Nat /\ z + 1 + (i + 1) \in 1..L
        /\ (z + 1 + (i + 1)) - 1 = z + 1 + i /\ z + 1 + i \in 0..L
    BY <1>1
  <2>2. PICK a, b, c, x : /\ a = p[z + 1 + i] /\ b = p[z + 1 + (i + 1)]
                          /\ c = Digit(d[z + 1 + (i + 1)]) /\ x = Tens(i)
    OBVIOUS
  <2>3. a \in Nat /\ c \in 0..9 /\ b = (a * 10) + c
    BY <1>3, <1>4, <2>1, <2>2
  <2>4. x \in Nat /\ a >= x /\ Tens(i + 1) = x * 10
    BY <1>7, <2>1, <2>2, TensAre
  <2>5. b >= x * 10
    BY <2>3, <2>4
  <2> QED
    BY <2>1, <2>2, <2>4, <2>5
<1>8. \A i \in 0..(L - z - 1) : i \in S
  <2> HIDE DEF S
  <2> QED
    BY <1>1, <1>6, <1>7, UpTo
<1>9. L - z - 1 \in S /\ z + 1 + (L - z - 1) = L
  BY <1>1, <1>8
<1> QED
  BY <1>3, <1>9 DEF L

(* The zeros a number ends with can be counted.                            *)
LEMMA ZerosOff ==
  ASSUME NEW m \in Nat \ {0}
  PROVE  \E k \in 0..m : Shortened(m, k) % 10 # 0 /\ m = Shortened(m, k) * Tens(k)
<1> DEFINE Ends(k) == Shortened(m, k) % 10 # 0
           Whole10(k) == m = Shortened(m, k) * Tens(k)
<1>0. m \in Nat
  OBVIOUS
<1>1. ASSUME NEW n \in Nat, \A k \in 0..(n - 1) : ~Ends(k) PROVE Whole10(n)
  <2> DEFINE S == {k \in 0..n : Whole10(k)}
  <2>1. 0 \in S
    <3>1. m * 1 = m
      OBVIOUS
    <3> QED
      BY <1>0, <3>1, TensAre, ShortenedIs
  <2>2. ASSUME NEW k \in 0..(n - 1), k \in S PROVE k + 1 \in S
    <3>1. k \in Nat /\ k + 1 \in 0..n
      OBVIOUS
    <3>2. PICK a, t : a = Shortened(m, k) /\ t = Tens(k)
      OBVIOUS
    <3>3. a \in Nat /\ t \in Nat /\ Shortened(m, k + 1) = a \div 10 /\ Tens(k + 1) = t * 10
      BY <1>0, <3>1, <3>2, TensAre, ShortenedIs
    <3>4. a % 10 = 0 /\ m = a * t
      BY <1>1, <2>2, <3>2
    <3>5. PICK b \in Nat : b = a \div 10 /\ a = b * 10
      BY <3>3, <3>4
    <3>6. (b * 10) * t = b * (t * 10)
      BY <3>3
    <3> QED
      BY <3>1, <3>3, <3>4, <3>5, <3>6
  <2>3. \A k \in 0..n : k \in S
    <3> HIDE DEF S
    <3> QED
      BY <2>1, <2>2, UpTo
  <2> QED
    BY <2>3
<1>2. \E k \in 0..m : Ends(k)
  <2>1. SUFFICES ASSUME \A k \in 0..m : ~Ends(k) PROVE FALSE
    OBVIOUS
  <2>2. Whole10(m)
    <3> HIDE DEF Ends, Whole10
    <3>1. \A k \in 0..(m - 1) : ~Ends(k)
      BY <2>1
    <3> QED
      BY <1>0, <1>1, <3>1
  <2>3. PICK a, t : a = Shortened(m, m) /\ t = Tens(m)
    OBVIOUS
  <2>4. a \in Nat /\ t \in Nat /\ t > m /\ m = a * t
    BY <1>0, <2>2, <2>3, TensAre, TensGrow, ShortenedIs
  <2>5. a # 0
    <3>1. 0 * t = 0
      BY <2>4
    <3> QED
      BY <2>4, <3>1
  <2>6. a * t >= t
    <3>1. a - 1 \in Nat /\ a = (a - 1) + 1
      BY <2>4, <2>5
    <3>2. \A b, x \in Nat : (b + 1) * x >= x
      <4>1. \A b, x \in Nat : b * x \in Nat /\ (b + 1) * x = (b * x) + x
        OBVIOUS
      <4> QED
        BY <4>1
    <3> QED
      BY <2>4, <3>1, <3>2
  <2> QED
    BY <2>4, <2>6
<1> DEFINE T == {k \in 0..m : Ends(k)}
<1>3. PICK k \in T : \A j \in T : k <= j
  <2>1. T \subseteq Nat /\ T # {}
    BY <1>2
  <2> HIDE DEF T
  <2> QED
    BY <2>1, LeastExists
<1>4. k \in 0..m /\ Ends(k) /\ \A j \in 0..(k - 1) : ~Ends(j)
  <2>1. \A j \in 0..(k - 1) : j \in 0..m /\ ~(k <= j)
    BY <1>3
  <2> HIDE DEF Ends
  <2> QED
    BY <1>3, <2>1
<1>5. Whole10(k)
  <2> HIDE DEF Ends, Whole10
  <2>1. k \in Nat
    BY <1>4
  <2> QED
    BY <1>1, <1>4, <2>1
<1> QED
  BY <1>4, <1>5

-----------------------------------------------------------------------------
(* One integer.                                                            *)

(* The integer digits are read as, under a sign.                           *)
Clamped(negative, value) ==
  IF negative THEN IF value <= IMax THEN -value ELSE IMin
  ELSE IF value <= UMax THEN Wrapped(value) ELSE -1

(* Nothing has no sign.                                                    *)
LEMMA MinusZero ==
  -0 = 0
<1>1. \A x \in Int : -x = 0 - x
  OBVIOUS
<1>2. PICK x \in Int : x = -0
  OBVIOUS
<1>3. PICK y \in Int : y = 0
  OBVIOUS
<1>4. -y = 0 - y
  BY <1>1
<1>5. 0 - y = 0
  BY <1>3
<1> QED
  BY <1>3, <1>4, <1>5

(* The widths, one above the other.                                        *)
LEMMA WidthsAre ==
  ASSUME WidthAssumption
  PROVE  /\ IMax \in Nat /\ UMax \in Nat /\ UMax = (2 * IMax) + 1 /\ IMin = -IMax - 1
         /\ MaxFinite \in Nat /\ FMax \in Nat /\ FMax > UMax /\ FMax <= Tens(MaxFinite)
<1>1. IMax \in Nat /\ MaxFinite \in Nat /\ FMax \in (UMax + 1)..Tens(MaxFinite)
  BY DEF WidthAssumption
<1>2. UMax = (2 * IMax) + 1 /\ IMin = -IMax - 1 /\ UMax \in Nat
  BY <1>1 DEF UMax, IMin
<1>3. Tens(MaxFinite) \in Nat
  BY <1>1, TensAre
<1> QED
  BY <1>1, <1>2, <1>3

(* A finite float's integer is its integer part's, an infinite one's that  *)
(* of any number too large.                                                *)
LEMMA FloatIs ==
  ASSUME WidthAssumption, NEW negative \in BOOLEAN
  PROVE  /\ \A m, e : Scaled(m, e) \in Nat =>
              FloatToInt(Finite(negative, m, e)) = Clamped(negative, Scaled(m, e))
         /\ \A v \in Nat : v > UMax => FloatToInt(Inf(negative)) = Clamped(negative, v)
<1>1. IMax \in Nat /\ UMax \in Nat /\ UMax = (2 * IMax) + 1
  BY WidthsAre
<1>2. ASSUME NEW m, NEW e, Scaled(m, e) \in Nat
      PROVE  FloatToInt(Finite(negative, m, e)) = Clamped(negative, Scaled(m, e))
  <2>1. PICK f : f = Finite(negative, m, e)
    OBVIOUS
  <2>2. f.class = "finite" /\ f.negative = negative /\ f.m = m /\ f.e = e
    BY <2>1 DEF Finite
  <2>3. PICK n \in Nat : n = Scaled(m, e)
    BY <1>2
  <2>4. FloatToInt(f) = IF negative THEN IF n > IMax THEN IMin ELSE -n
                        ELSE IF n > UMax THEN -1 ELSE Wrapped(n)
    BY <2>2, <2>3 DEF FloatToInt, Truncated
  <2>5. (n > IMax <=> ~(n <= IMax)) /\ (n > UMax <=> ~(n <= UMax))
    BY <1>1
  <2> QED
    BY <2>1, <2>3, <2>4, <2>5 DEF Clamped
<1>3. ASSUME NEW v \in Nat, v > UMax
      PROVE  FloatToInt(Inf(negative)) = Clamped(negative, v)
  <2>1. PICK f : f = Inf(negative)
    OBVIOUS
  <2>2. f.class = "inf" /\ f.negative = negative
    BY <2>1 DEF Inf
  <2>3. FloatToInt(f) = IF negative THEN IMin ELSE -1
    BY <2>2 DEF FloatToInt
  <2>4. ~(v <= IMax) /\ ~(v <= UMax)
    BY <1>1, <1>3
  <2> QED
    BY <2>1, <2>3, <2>4 DEF Clamped
<1> QED
  BY <1>2, <1>3

(* An exact decimal's integer is that of its digits before the point.      *)
LEMMA DecimalIs ==
  ASSUME WidthAssumption, NEW negative \in BOOLEAN, NEW m \in Nat, NEW part \in Nat
  PROVE  FloatToInt(Decimal(negative, m, -part)) = Clamped(negative, Shortened(m, part))
<1>1. PICK v \in Nat : v = Shortened(m, part)
  BY ShortenedIs
<1>2. /\ MaxFinite \in Nat /\ FMax \in Nat /\ FMax > UMax /\ UMax \in Nat
  BY WidthsAre
<1>3. Scaled(m, -part) = v
  <2>1. CASE part = 0
    <3>1. -part = 0 /\ m * 1 = m
      BY <2>1, MinusZero
    <3>2. Scaled(m, 0) = m * Tens(0)
      BY DEF Scaled
    <3> QED
      BY <1>1, <2>1, <3>1, <3>2, TensAre, ShortenedIs
  <2>2. CASE part # 0
    <3>1. ~(-part >= 0) /\ -(-part) = part
      BY <2>2
    <3> QED
      BY <1>1, <3>1 DEF Scaled
  <2> QED
    BY <2>1, <2>2
<1> DEFINE Zeros10(k) == Shortened(m, k) % 10 # 0 /\ m = Shortened(m, k) * Tens(k)
           zeros == CHOOSE k \in 0..m : Zeros10(k)
<1>4. Decimal(negative, m, -part) =
        IF m = 0 THEN Finite(negative, 0, 0)
        ELSE IF -part > MaxFinite \/ v >= FMax THEN Inf(negative)
        ELSE Finite(negative, Shortened(m, zeros), -part + zeros)
  BY <1>3 DEF Decimal
<1>5. ~(-part > MaxFinite)
  BY <1>2
<1> HIDE DEF zeros
<1>6. CASE m = 0
  <2>1. Scaled(0, 0) = 0
    <3>1. Scaled(0, 0) = 0 * Tens(0) /\ 0 * 1 = 0
      BY DEF Scaled
    <3> QED
      BY <3>1, TensAre
  <2>2. v = 0
    <3>1. Tens(part) \in Nat /\ 0 \in Nat
      BY TensAre
    <3>2. 0 * Tens(part) = 0
      BY <3>1
    <3>3. Shortened(0 * Tens(part), part) = 0
      BY <3>1, ShortenedTwice
    <3> QED
      BY <1>1, <1>6, <3>2, <3>3
  <2>3. FloatToInt(Finite(negative, 0, 0)) = Clamped(negative, 0)
    <3>1. Scaled(0, 0) \in Nat
      BY <2>1
    <3> QED
      BY <2>1, <3>1, FloatIs
  <2> QED
    BY <1>1, <1>4, <1>6, <2>2, <2>3
<1>7. CASE m # 0 /\ v >= FMax
  <2>1. v > UMax
    BY <1>2, <1>7
  <2> QED
    BY <1>1, <1>4, <1>7, <2>1, FloatIs
<1>8. CASE m # 0 /\ ~(v >= FMax)
  <2>1. zeros \in 0..m /\ Zeros10(zeros)
    <3>1. \E k \in 0..m : Zeros10(k)
      BY <1>8, ZerosOff
    <3> HIDE DEF Zeros10
    <3> QED
      BY <3>1 DEF zeros
  <2>2. PICK k \in Nat, a \in Nat, t \in Nat : /\ k = zeros /\ a = Shortened(m, k) /\ t = Tens(k)
                                              /\ m = a * t
    <3>1. zeros \in Nat /\ m = Shortened(m, zeros) * Tens(zeros)
      BY <2>1
    <3>2. Shortened(m, zeros) \in Nat /\ Tens(zeros) \in Nat
      BY <3>1, TensAre, ShortenedIs
    <3> HIDE DEF Zeros10
    <3> QED
      BY <3>1, <3>2
  <2>3. Scaled(a, -part + k) = v
    <3>1. CASE k >= part
      <4>1. PICK j \in Nat : j = k - part /\ -part + k = j /\ k = j + part
        BY <3>1
      <4>2. PICK b \in Nat, c \in Nat : b = Tens(j) /\ c = Tens(part) /\ t = b * c
        <5>1. Tens(j) \in Nat /\ Tens(part) \in Nat
          BY TensAre
        <5>2. Tens(j + part) = Tens(j) * Tens(part)
          BY TensGrow
        <5>3. t = Tens(j) * Tens(part)
          BY <2>2, <4>1, <5>2
        <5> QED
          BY <5>1, <5>3
      <4>3. m = (a * b) * c /\ a * b \in Nat
        BY <2>2, <4>2
      <4>4. Shortened(m, part) = a * b
        BY <4>2, <4>3, ShortenedTwice
      <4>5. Scaled(a, j) = a * b
        BY <4>1, <4>2 DEF Scaled
      <4> QED
        BY <1>1, <4>1, <4>4, <4>5
    <3>2. CASE ~(k >= part)
      <4>1. PICK j \in Nat : j = part - k /\ ~(-part + k >= 0) /\ -(-part + k) = j /\ k + j = part
        BY <3>2
      <4>2. Scaled(a, -part + k) = Shortened(a, j)
        BY <4>1 DEF Scaled
      <4>3. Shortened(a, j) = Shortened(m, part)
        <5>1. Shortened(Shortened(m, k), j) = Shortened(m, k + j)
          BY ShortenedTwice
        <5> QED
          BY <2>2, <4>1, <5>1
      <4> QED
        BY <1>1, <4>2, <4>3
    <3> QED
      BY <3>1, <3>2
  <2>4. Decimal(negative, m, -part) = Finite(negative, a, -part + k)
    BY <1>4, <1>5, <1>8, <2>2
  <2> QED
    BY <1>1, <2>3, <2>4, FloatIs
<1> QED
  BY <1>6, <1>7, <1>8

(* Symbols at the places of a string.                                      *)
LEMMA SymIs ==
  ASSUME NEW S, NEW r \in Seq(S)
  PROVE  Len(r) \in Nat /\ \A i \in 1..Len(r) : r[i] \in S /\ Sym(r, i - 1) = r[i]
<1>1. Len(r) \in Nat /\ \A i \in 1..Len(r) : r[i] \in S
  BY LenProperties, ElementOfSeq
<1>2. ASSUME NEW i \in 1..Len(r) PROVE Sym(r, i - 1) = r[i]
  <2>1. i - 1 < Len(r) /\ (i - 1) + 1 = i
    BY <1>1
  <2> QED
    BY <2>1, AtIs
<1> QED
  BY <1>1, <1>2

(* The digits of a run.                                                    *)
LEMMA RunFigures ==
  ASSUME NEW S, NEW r \in Seq(S), NEW i \in 0..Len(r), NEW n \in Nat,
         IsRun(Len(r), i, DigitsAt(r), n)
  PROVE  LET d == SubSeq(r, i + 1, i + n) IN
         /\ i + n <= Len(r) /\ d \in Seq(S) /\ Figures(d) /\ Len(d) = n
         /\ \A k \in 1..n : d[k] = r[i + k]
<1>1. Len(r) \in Nat /\ \A k \in 1..Len(r) : Sym(r, k - 1) = r[k]
  BY SymIs
<1>2. i + n <= Len(r) /\ \A k \in 0..(n - 1) : i + k \in DigitsAt(r)
  BY <1>1 DEF IsRun
<1>3. PICK a \in Nat, b \in Nat : a = i + 1 /\ b = i + n
  BY <1>1
<1>4. a >= 1 /\ b <= Len(r) /\ a <= b + 1 /\ b - a + 1 = n
  BY <1>1, <1>2, <1>3
<1> DEFINE d == SubSeq(r, a, b)
<1>5. /\ d \in Seq(S) /\ Len(d) = b - a + 1
      /\ \A k \in 1..(b - a + 1) : d[k] = r[a + k - 1]
  BY <1>4, Parted
<1> HIDE DEF d
<1>6. Len(d) = n /\ \A k \in 1..n : d[k] = r[i + k]
  <2>1. \A k \in 1..n : a + k - 1 = i + k
    BY <1>3
  <2> QED
    BY <1>4, <1>5, <2>1
<1>7. ASSUME NEW k \in 1..n PROVE IsDigit(d[k])
  <2>1. k - 1 \in 0..(n - 1) /\ i + (k - 1) = (i + k) - 1 /\ i + k \in 1..Len(r)
    BY <1>1, <1>2
  <2>2. IsDigit(Sym(r, i + (k - 1)))
    BY <1>2, <2>1 DEF DigitsAt
  <2>3. Sym(r, i + (k - 1)) = r[i + k]
    BY <1>1, <2>1
  <2> QED
    BY <1>6, <2>2, <2>3
<1>8. Figures(d)
  BY <1>6, <1>7 DEF Figures
<1> QED
  BY <1>2, <1>3, <1>5, <1>6, <1>8 DEF d

ZerosAt(s) == {k \in 0..Len(s) : Sym(s, k) = "0"}

(* How many zeros a string begins with.                                    *)
LEMMA LeadingZeros ==
  ASSUME NEW s, Len(s) \in Nat
  PROVE  LET z == RunOf(s, 0, LAMBDA c : c = "0") IN
         /\ IsRun(Len(s), 0, ZerosAt(s), z)
         /\ z \in 0..Len(s) /\ (z < Len(s) => s[z + 1] # "0")
<1> DEFINE L == Len(s)
           A == ZerosAt(s)
           Is(n) == /\ \A k \in 0..n - 1 : Sym(s, 0 + k) = "0"
                    /\ n = L - 0 \/ ~(Sym(s, 0 + n) = "0")
           run == RunOf(s, 0, LAMBDA c : c = "0")
<1>1. run = CHOOSE n \in 0..L - 0 : Is(n)
  BY Zenon DEF RunOf
<1> HIDE DEF run
<1>2. PICK n \in 0..(L - 0) : IsRun(L, 0, A, n)
  <2>1. 0 \in 0..L
    OBVIOUS
  <2> HIDE DEF A
  <2> QED
    BY <2>1, RunExists
<1>3. Is(n)
  <2>1. 0 + n \in 0..L /\ \A k \in 0..(n - 1) : 0 + k \in A
    BY <1>2 DEF IsRun
  <2>2. n = L - 0 \/ 0 + n \notin A
    BY <1>2 DEF IsRun
  <2> QED
    BY <2>1, <2>2 DEF ZerosAt
<1> HIDE DEF Is
<1>4. run \in 0..L - 0 /\ Is(run)
  BY <1>1, <1>2, <1>3
<1>5. run \in 0..L /\ (run = L \/ Sym(s, run) # "0")
  <2>1. run \in 0..L /\ L - 0 = L /\ 0 + run = run
    BY <1>4
  <2> QED
    BY <1>4, <2>1 DEF Is
<1>6. IsRun(L, 0, A, run)
  <2>1. run \in 0..(L - 0) /\ \A k \in 0..(run - 1) : 0 + k \in 0..L /\ Sym(s, 0 + k) = "0"
    BY <1>4 DEF Is
  <2>2. run = L - 0 \/ Sym(s, 0 + run) # "0"
    BY <1>4 DEF Is
  <2> QED
    BY <2>1, <2>2 DEF IsRun, ZerosAt
<1> QED
  BY <1>5, <1>6, AtIs DEF run

(* No digits are nothing.                                                  *)
LEMMA NumberOfNone ==
  Number(<<>>) = 0
<1>1. Len(<<>>) = 0 /\ Figures(<<>>)
  BY DEF Figures
<1> QED
  BY <1>1, PartialsAre

(* Without an exponent a token is not scaled.                              *)
LEMMA ExponentNone ==
  ASSUME NEW r, NEW at \in Nat, Sym(r, at) # "e"
  PROVE  Exponent(r, at).power = 0 /\ Exponent(r, at).value = 0
<1>1. PICK mark \in Nat : mark = at + 1 + (IF Sym(r, at + 1) \in Signs THEN 1 ELSE 0)
  OBVIOUS
<1> DEFINE value == Number(SubSeq(r, mark + 1, mark + 0))
<1>2. /\ Exponent(r, at).power = 0
      /\ Exponent(r, at).value = IF Sym(r, mark - 1) = "-" THEN -value ELSE value
  BY <1>1 DEF Exponent
<1>3. value = 0
  <2>1. mark + 1 > mark + 0
    OBVIOUS
  <2>2. SubSeq(r, mark + 1, mark + 0) = <<>>
    BY <2>1, SubSeqEmpty
  <2> QED
    BY <2>2, NumberOfNone
<1> HIDE DEF value
<1> QED
  BY <1>2, <1>3, MinusZero

(* The digits of a mantissa, before its point and behind it.               *)
LEMMA MantissaFigures ==
  ASSUME NEW S, NEW r \in Seq(S)
  PROVE  LET d == SubSeq(r, 1, Whole(r))
             m == Number(d \o SubSeq(r, Whole(r) + 2, Whole(r) + 1 + Part(r))) IN
         /\ Figures(d) /\ Len(d) = Whole(r) /\ \A k \in 1..Whole(r) : d[k] = r[k]
         /\ m \in Nat /\ Number(d) = Shortened(m, Part(r))
<1>0. Len(r) \in Nat
  BY LenProperties
<1>1. PICK w \in Nat, p \in Nat : w = Whole(r) /\ p = Part(r) /\ w \in 0..Len(r)
  BY <1>0, PartsInPlace
<1>2. PICK d : d = SubSeq(r, 1, w)
  OBVIOUS
<1>3. d \in Seq(S) /\ Figures(d) /\ Len(d) = w /\ \A k \in 1..w : d[k] = r[k]
  <2>1. 0 \in 0..Len(r) /\ 0 + 1 = 1 /\ 0 + w = w /\ \A k \in 1..w : 0 + k = k
    BY <1>0
  <2>2. IsRun(Len(r), 0, DigitsAt(r), w)
    BY <1>0, <1>1, <2>1, DigitRunIs DEF Whole
  <2>3. /\ SubSeq(r, 0 + 1, 0 + w) \in Seq(S) /\ Figures(SubSeq(r, 0 + 1, 0 + w))
        /\ Len(SubSeq(r, 0 + 1, 0 + w)) = w /\ \A k \in 1..w : SubSeq(r, 0 + 1, 0 + w)[k] = r[0 + k]
    BY <2>1, <2>2, RunFigures
  <2> QED
    BY <1>2, <2>1, <2>3
<1>4. PICK e : e = SubSeq(r, w + 2, w + 1 + p)
  OBVIOUS
<1>5. e \in Seq(S) /\ Figures(e) /\ Len(e) = p
  <2>1. CASE Pointed(r)
    <3>1. PICK i \in 0..Len(r) : i = w + 1 /\ i + 1 = w + 2 /\ i + p = w + 1 + p
      BY <1>0, <1>1, <2>1, PartsInPlace
    <3>2. IsRun(Len(r), i, DigitsAt(r), p)
      BY <1>0, <1>1, <2>1, <3>1, DigitRunIs DEF Part
    <3>3. /\ SubSeq(r, i + 1, i + p) \in Seq(S) /\ Figures(SubSeq(r, i + 1, i + p))
          /\ Len(SubSeq(r, i + 1, i + p)) = p
      BY <3>2, RunFigures
    <3> QED
      BY <1>4, <3>1, <3>3
  <2>2. CASE ~Pointed(r)
    <3>1. p = 0 /\ w + 2 > w + 1 + p
      BY <1>0, <1>1, <2>2, PartsInPlace
    <3>2. e = <<>>
      BY <1>4, <3>1, SubSeqEmpty
    <3> QED
      BY <3>1, <3>2 DEF Figures
  <2> QED
    BY <2>1, <2>2
<1>6. PICK a : a = d \o e
  OBVIOUS
<1>7. Len(a) = w + p /\ \A k \in 1..(w + p) : a[k] = IF k <= w THEN d[k] ELSE e[k - w]
  BY <1>3, <1>5, <1>6, ConcatProperties
<1>8. Figures(a)
  <2>1. \A k \in 1..(w + p) : IF k <= w THEN k \in 1..w ELSE k - w \in 1..p
    OBVIOUS
  <2> QED
    BY <1>3, <1>5, <1>7, <2>1 DEF Figures
<1>9. Number(a) \in Nat /\ Number(d) = Shortened(Number(a), p)
  <2>1. Len(d) <= Len(a) /\ Len(a) - Len(d) = p /\ \A k \in 1..Len(d) : d[k] = a[k]
    BY <1>3, <1>7
  <2> QED
    BY <1>3, <1>8, <2>1, NumberShortens
<1> QED
  BY <1>1, <1>2, <1>3, <1>4, <1>6, <1>9

(* More digits than a finite float has make a number above every integer.  *)
LEMMA TooLong ==
  ASSUME WidthAssumption, NEW S, NEW r \in Seq(S),
         Whole(r) - RunOf(r, 0, LAMBDA c : c = "0") > MaxFinite
  PROVE  /\ Number(SubSeq(r, 1, Whole(r))) \in Nat
         /\ Number(SubSeq(r, 1, Whole(r))) > UMax
<1>0. Len(r) \in Nat
  BY LenProperties
<1>1. PICK w \in Nat : w = Whole(r) /\ w \in 0..Len(r)
  BY <1>0, PartsInPlace
<1>2. PICK d : d = SubSeq(r, 1, w)
  OBVIOUS
<1>3. Figures(d) /\ Len(d) = w /\ \A k \in 1..w : d[k] = r[k]
  BY <1>1, <1>2, MantissaFigures
<1>4. Number(d) \in Nat
  <2>1. Len(d) <= Len(d) /\ \A k \in 1..Len(d) : d[k] = d[k]
    BY <1>3
  <2> QED
    BY <1>3, <2>1, NumberShortens
<1>5. PICK z \in Nat : /\ z \in 0..Len(r) /\ (z < Len(r) => r[z + 1] # "0") /\ w - z > MaxFinite
  BY <1>0, <1>1, LeadingZeros
<1>6. MaxFinite \in Nat /\ UMax \in Nat /\ FMax \in Nat /\ FMax > UMax /\ FMax <= Tens(MaxFinite)
  BY WidthsAre
<1>7. z \in 0..(w - 1) /\ z < Len(r) /\ z + 1 \in 1..w
  BY <1>1, <1>5, <1>6
<1>8. d[z + 1] # "0"
  BY <1>3, <1>5, <1>7
<1>9. Number(d) >= Tens(w - z - 1)
  BY <1>3, <1>7, <1>8, NumberGrows
<1>10. PICK k \in Nat : k = w - z - 1 - MaxFinite /\ MaxFinite + k = w - z - 1
  BY <1>5, <1>6
<1>11. Tens(w - z - 1) >= Tens(MaxFinite)
  BY <1>6, <1>10, TensGrow
<1>12. Tens(w - z - 1) \in Nat /\ Tens(MaxFinite) \in Nat
  <2>1. w - z - 1 \in Nat
    BY <1>6, <1>10
  <2> QED
    BY <1>6, <2>1, TensAre
<1>13. Number(d) > UMax
  BY <1>4, <1>6, <1>9, <1>11, <1>12
<1> QED
  BY <1>1, <1>2, <1>4, <1>13

(* A float read of a body without exponent and words has the integer its   *)
(* digits before the point stand for.                                      *)
LEMMA SpannedReads ==
  ASSUME WidthAssumption, NEW S, S \cap {"e", "inf", "nan"} = {}, NEW r \in Seq(S),
         NEW negative \in BOOLEAN
  PROVE  FloatToInt(Spanned(negative, r, Mantissa(r), Exponent(r, Mantissa(r).len))[1])
           = Clamped(negative, Number(SubSeq(r, 1, Whole(r))))
<1>0. Len(r) \in Nat
  BY LenProperties
<1>1. \A i \in Nat : Sym(r, i) \notin {"e", "inf", "nan"}
  <2>1. SUFFICES ASSUME NEW i \in Nat PROVE Sym(r, i) \notin {"e", "inf", "nan"}
    OBVIOUS
  <2>2. CASE i < Len(r)
    <3>1. i + 1 \in 1..Len(r) /\ Sym(r, i) = r[i + 1]
      BY <1>0, <2>2, AtIs
    <3>2. r[i + 1] \in S
      BY <3>1, SymIs
    <3> QED
      BY <3>1, <3>2
  <2>3. CASE ~(i < Len(r))
    <3>1. Sym(r, i) = Beyond
      BY <2>3, AtIs
    <3>2. Beyond \notin {"e", "inf", "nan"}
      BY Zenon DEF Beyond
    <3> QED
      BY <3>1, <3>2
  <2> QED
    BY <2>2, <2>3
<1>2. PICK w \in Nat, p \in Nat : /\ w = Whole(r) /\ p = Part(r) /\ w \in 0..Len(r)
                                /\ Length(r) \in 0..Len(r)
  BY <1>0, PartsInPlace
<1>3. PICK d, m : /\ d = SubSeq(r, 1, w)
                  /\ m = Number(SubSeq(r, 1, w) \o SubSeq(r, w + 2, w + 1 + p))
  OBVIOUS
<1>4. /\ Figures(d) /\ Len(d) = w /\ \A k \in 1..w : d[k] = r[k]
      /\ m \in Nat /\ Number(d) = Shortened(m, p)
  BY <1>2, <1>3, MantissaFigures
<1>5. PICK at \in Nat : at = Mantissa(r).len /\ (at = 0 => w = 0 /\ p = 0)
  <2>1. Length(r) = w + (IF Pointed(r) THEN 1 ELSE 0) + p
    BY <1>0, <1>2, PartsInPlace
  <2> QED
    BY <1>0, <1>2, <2>1, MantissaIs
<1>6. Exponent(r, at).power = 0 /\ Exponent(r, at).value = 0
  BY <1>1, ExponentNone
<1>7. PICK z : z = RunOf(r, 0, LAMBDA c : c = "0")
  OBVIOUS
<1>9. Mantissa(r).whole = w /\ Mantissa(r).part = p
  BY <1>0, <1>2, MantissaIs
<1> DEFINE read == Spanned(negative, r, Mantissa(r), Exponent(r, Mantissa(r).len))[1]
<1>10. read = IF at = 0 THEN Decimal(FALSE, 0, 0)
              ELSE IF w > MaxFinite /\ w - z > MaxFinite THEN Inf(negative)
              ELSE Decimal(negative, m, 0 - p)
  <2>1. Sym(r, 0) # "inf" /\ Sym(r, 0) # "nan"
    BY <1>1
  <2> QED
    BY <1>3, <1>5, <1>6, <1>7, <1>9, <2>1 DEF Spanned
<1> HIDE DEF read
<1>11. CASE at = 0
  <2>1. d = <<>> /\ Number(d) = 0
    <3>1. 1 > w
      BY <1>5, <1>11
    <3>2. d = <<>>
      BY <1>3, <3>1, SubSeqEmpty
    <3> QED
      BY <3>2, NumberOfNone
  <2>2. FloatToInt(Decimal(FALSE, 0, -0)) = Clamped(FALSE, Shortened(0, 0))
    BY DecimalIs
  <2>3. -0 = 0 /\ Shortened(0, 0) = 0
    BY MinusZero, ShortenedIs
  <2>4. Clamped(FALSE, 0) = Clamped(negative, 0)
    <3>1. 0 <= IMax /\ 0 <= UMax
      BY WidthsAre
    <3> QED
      BY <3>1, MinusZero DEF Clamped, Wrapped
  <2> QED
    BY <1>2, <1>3, <1>10, <1>11, <2>1, <2>2, <2>3, <2>4 DEF read
<1>12. CASE at # 0 /\ w > MaxFinite /\ w - z > MaxFinite
  <2>1. Number(d) \in Nat /\ Number(d) > UMax
    BY <1>2, <1>3, <1>7, <1>12, TooLong
  <2> QED
    BY <1>2, <1>3, <1>10, <1>12, <2>1, FloatIs DEF read
<1>13. CASE at # 0 /\ ~(w > MaxFinite /\ w - z > MaxFinite)
  <2>1. 0 - p = -p
    OBVIOUS
  <2>2. read = Decimal(negative, m, -p)
    BY <1>10, <1>13, <2>1
  <2>3. FloatToInt(Decimal(negative, m, -p)) = Clamped(negative, Shortened(m, p))
    BY <1>4, DecimalIs
  <2> QED
    BY <1>2, <1>3, <1>4, <2>2, <2>3 DEF read
<1> QED
  BY <1>11, <1>12, <1>13

(* A number's integer is the one its digits stand for, whether they fit an *)
(* integer or a float was read.                                            *)
LEMMA NumberReads ==
  ASSUME WidthAssumption, NEW t, t.negative \in BOOLEAN, NEW n, NEW value \in Nat, NEW parsed,
         FloatToInt(parsed[1]) = Clamped(t.negative, value)
  PROVE  NumberToInt(NumberIn(t, n, value, parsed)[1]) = Clamped(t.negative, value)
<1> DEFINE digits == n > 0 /\ Sym(t.rest, n) \notin {".", "e"}
           small == value <= IMax + (IF t.negative THEN 1 ELSE 0)
           large == ~t.negative /\ value \in (IMax + 1)..UMax
           number == NumberIn(t, n, value, parsed)
<1>1. IMax \in Nat /\ UMax \in Nat /\ UMax = (2 * IMax) + 1 /\ IMin = -IMax - 1
  BY WidthsAre
<1>2. ~(small /\ large)
  BY <1>1
<1>3. number = CASE digits /\ small -> <<Integer(IF t.negative THEN -value ELSE value), n # Len(t.rest)>>
                 [] digits /\ large -> <<Unsigned(value), n # Len(t.rest)>>
                 [] OTHER -> <<Float(parsed[1]), parsed[2] # Len(t.rest) \/ t.rest = <<>> >>
  BY Zenon DEF NumberIn
<1> HIDE DEF number, digits
<1>4. CASE digits /\ small
  <2>1. number[1] = Integer(IF t.negative THEN -value ELSE value)
    <3> HIDE DEF small, large
    <3> QED
      BY <1>2, <1>3, <1>4
  <2>2. \A i : NumberToInt(Integer(i)) = i
    BY DEF NumberToInt, Integer
  <2>3. CASE t.negative
    <3>1. value <= IMax + 1
      BY <1>4, <2>3
    <3>2. -value = Clamped(t.negative, value)
      <4>1. CASE value <= IMax
        BY <2>3, <4>1 DEF Clamped
      <4>2. CASE ~(value <= IMax)
        <5>1. value = IMax + 1
          BY <1>1, <3>1, <4>2
        <5>2. -value = IMin
          BY <1>1, <5>1
        <5> QED
          BY <2>3, <4>2, <5>2 DEF Clamped
      <4> QED
        BY <4>1, <4>2
    <3> QED
      BY <2>1, <2>2, <2>3, <3>2 DEF number
  <2>4. CASE ~t.negative
    <3>1. value <= IMax /\ value <= UMax
      BY <1>1, <1>4, <2>4
    <3>2. value = Clamped(t.negative, value)
      BY <2>4, <3>1 DEF Clamped, Wrapped
    <3> QED
      BY <2>1, <2>2, <2>4, <3>2 DEF number
  <2> QED
    BY <2>3, <2>4
<1>5. CASE digits /\ large
  <2>1. number[1] = Unsigned(value)
    <3> HIDE DEF small, large
    <3> QED
      BY <1>2, <1>3, <1>5
  <2>2. NumberToInt(Unsigned(value)) = Wrapped(value)
    BY DEF NumberToInt, Unsigned
  <2>3. value <= UMax /\ ~t.negative
    BY <1>1, <1>5
  <2> QED
    BY <2>1, <2>2, <2>3 DEF Clamped, number
<1>6. CASE ~(digits /\ small) /\ ~(digits /\ large)
  <2>1. number[1] = Float(parsed[1])
    <3> HIDE DEF small, large
    <3> QED
      BY <1>3, <1>6
  <2>2. NumberToInt(Float(parsed[1])) = FloatToInt(parsed[1])
    BY DEF NumberToInt, Float
  <2> QED
    BY <2>1, <2>2 DEF number
<1> QED
  BY <1>4, <1>5, <1>6

(* What is behind a sign.                                                  *)
LEMMA BodyIs ==
  ASSUME NEW S, NEW x \in Seq(S)
  PROVE  LET off == IF Sym(x, 0) \in Signs THEN 1 ELSE 0 IN
         /\ Body(x) \in Seq(S) /\ Len(x) \in Nat /\ off <= Len(x) /\ Len(Body(x)) = Len(x) - off
         /\ \A i \in 1..(Len(x) - off) : Body(x)[i] = x[i + off]
<1>1. Len(x) \in Nat
  BY LenProperties
<1>2. CASE Sym(x, 0) \in Signs
  <2>1. 0 < Len(x)
    <3>1. Beyond \notin Signs
      BY SymbolsApart
    <3> QED
      BY <1>2, <3>1, AtIs
  <2>2. x # <<>>
    BY <2>1, EmptySeq
  <2>3. Body(x) = Tail(x)
    BY <1>2 DEF Body
  <2>4. /\ Tail(x) \in Seq(S) /\ Len(Tail(x)) = Len(x) - 1
        /\ \A i \in 1..(Len(x) - 1) : Tail(x)[i] = x[i + 1]
    BY <2>2, HeadTailProperties
  <2> QED
    BY <1>1, <1>2, <2>1, <2>3, <2>4
<1>3. CASE ~(Sym(x, 0) \in Signs)
  <2>1. Body(x) = x /\ Len(x) - 0 = Len(x) /\ 0 <= Len(x) /\ \A i \in 1..Len(x) : i + 0 = i
    BY <1>1, <1>3 DEF Body
  <2> QED
    BY <1>1, <1>3, <2>1
<1> QED
  BY <1>2, <1>3

(* r is q with spaces behind it.                                           *)
Padded(q, r) ==
  /\ Len(q) <= Len(r) /\ \A i \in 1..Len(q) : q[i] = r[i]
  /\ \A i \in (Len(q) + 1)..Len(r) : r[i] = Space

(* No symbol but the space is where it was not.                            *)
LEMMA PaddedSym ==
  ASSUME NEW S, NEW q \in Seq(S), NEW r \in Seq(S), Padded(q, r), NEW i \in Nat
  PROVE  /\ i < Len(q) => Sym(q, i) = Sym(r, i)
         /\ ~(i < Len(q)) => Sym(q, i) = Beyond /\ Sym(r, i) \in {Space, Beyond}
         /\ \A c : c \notin {Space, Beyond} => (Sym(q, i) = c <=> Sym(r, i) = c)
<1>1. Len(q) \in Nat /\ Len(r) \in Nat
  BY LenProperties
<1>2. ASSUME i < Len(q)
      PROVE  Sym(q, i) = Sym(r, i)
  <2>1. i < Len(r) /\ i + 1 \in 1..Len(q)
    BY <1>1, <1>2 DEF Padded
  <2> QED
    BY <1>2, <2>1, AtIs DEF Padded
<1>3. ASSUME ~(i < Len(q))
      PROVE  Sym(q, i) = Beyond /\ Sym(r, i) \in {Space, Beyond}
  <2>1. i < Len(r) => i + 1 \in (Len(q) + 1)..Len(r)
    BY <1>1, <1>3
  <2>2. i < Len(r) => Sym(r, i) = Space
    BY <2>1, AtIs DEF Padded
  <2> QED
    BY <1>3, <2>2, AtIs
<1> QED
  BY <1>2, <1>3

(* Nor a part of the string.                                               *)
LEMMA PaddedPart ==
  ASSUME NEW S, NEW q \in Seq(S), NEW r \in Seq(S), Padded(q, r),
         NEW m \in Nat, m >= 1, NEW n \in Nat, n <= Len(q)
  PROVE  SubSeq(q, m, n) = SubSeq(r, m, n)
<1>1. Len(q) \in Nat /\ Len(r) \in Nat /\ Len(q) <= Len(r)
  BY LenProperties DEF Padded
<1>2. PICK a, b : a = SubSeq(q, m, n) /\ b = SubSeq(r, m, n)
  OBVIOUS
<1>3. CASE m > n
  <2>1. a = <<>> /\ b = <<>>
    BY <1>2, <1>3, SubSeqEmpty
  <2> QED
    BY <1>2, <2>1
<1>4. CASE ~(m > n)
  <2>1. m <= n + 1 /\ n <= Len(r)
    BY <1>1, <1>4
  <2>2. a \in Seq(S) /\ Len(a) = n - m + 1 /\ \A i \in 1..(n - m + 1) : a[i] = q[m + i - 1]
    BY <1>2, <2>1, Parted
  <2>3. b \in Seq(S) /\ Len(b) = n - m + 1 /\ \A i \in 1..(n - m + 1) : b[i] = r[m + i - 1]
    BY <1>2, <2>1, Parted
  <2>4. \A i \in 1..(n - m + 1) : m + i - 1 \in 1..Len(q)
    BY <1>1
  <2>5. Len(a) = Len(b) /\ \A i \in 1..Len(a) : a[i] = b[i]
    BY <2>2, <2>3, <2>4 DEF Padded
  <2>6. a = b
    BY <2>2, <2>3, <2>5, SeqEqual
  <2> QED
    BY <1>2, <2>6
<1> QED
  BY <1>3, <1>4

(* A run ends where it ended when what is added does not go on with it.    *)
LEMMA RunStays ==
  ASSUME NEW L \in Nat, NEW M \in Nat, L <= M, NEW A, NEW B, NEW i \in 0..L, NEW n, IsRun(L, i, A, n),
         \A k \in 0..(L - 1) : k \in A <=> k \in B, L \notin B
  PROVE  IsRun(M, i, B, n)
<1>1. n \in 0..(L - i) /\ n \in 0..(M - i) /\ i + n \in 0..L
  BY DEF IsRun
<1>2. \A k \in 0..(n - 1) : i + k \in B
  <2>1. SUFFICES ASSUME NEW k \in 0..(n - 1) PROVE i + k \in B
    OBVIOUS
  <2>2. i + k \in 0..(L - 1)
    BY <1>1
  <2>3. i + k \in A
    BY DEF IsRun
  <2> QED
    BY <2>2, <2>3
<1>3. i + n \notin B
  <2>1. CASE i + n = L
    BY <2>1
  <2>2. CASE i + n # L
    <3>1. i + n \in 0..(L - 1) /\ n # L - i
      BY <1>1, <2>2
    <3>2. i + n \notin A
      BY <3>1 DEF IsRun
    <3> QED
      BY <3>1, <3>2
  <2> QED
    BY <2>1, <2>2
<1> QED
  BY <1>1, <1>2, <1>3 DEF IsRun

(* Runs of digits are what they were, the zeros in front too.              *)
LEMMA PaddedRun ==
  ASSUME NEW S, NEW q \in Seq(S), NEW r \in Seq(S), Padded(q, r)
  PROVE  /\ \A i \in 0..Len(q) : DigitRun(q, i) = DigitRun(r, i) /\ i + DigitRun(q, i) <= Len(q)
         /\ \A i \in Nat : i >= Len(q) /\ i <= Len(r) => DigitRun(r, i) = 0
         /\ RunOf(q, 0, LAMBDA c : c = "0") = RunOf(r, 0, LAMBDA c : c = "0")
<1>1. PICK L \in Nat, M \in Nat : L = Len(q) /\ M = Len(r) /\ L <= M
  BY LenProperties DEF Padded
<1>2. ~IsDigit(Space) /\ ~IsDigit(Beyond) /\ Space # "0" /\ Beyond # "0"
  <2>1. ~IsDigit(Space)
    BY DigitsAreChars, Zenon DEF Space
  <2>2. Space # "0" /\ Beyond # "0"
    BY Zenon DEF Space, Beyond
  <2> QED
    BY <2>1, <2>2, SymbolsApart
<1>3. \A k \in 0..(L - 1) : Sym(q, k) = Sym(r, k) /\ k \in 0..L /\ k \in 0..M
  <2>1. SUFFICES ASSUME NEW k \in 0..(L - 1) PROVE Sym(q, k) = Sym(r, k) /\ k \in 0..L /\ k \in 0..M
    OBVIOUS
  <2>2. k \in Nat /\ k < Len(q) /\ k \in 0..L /\ k \in 0..M
    BY <1>1
  <2> QED
    BY <2>2, PaddedSym
<1>4. \A i \in Nat : i >= L => Sym(r, i) \in {Space, Beyond}
  <2>1. SUFFICES ASSUME NEW i \in Nat, i >= L PROVE Sym(r, i) \in {Space, Beyond}
    OBVIOUS
  <2>2. ~(i < Len(q))
    BY <1>1, <2>1
  <2> QED
    BY <2>2, PaddedSym
<1>5. ASSUME NEW i \in 0..L
      PROVE  DigitRun(q, i) = DigitRun(r, i) /\ i + DigitRun(q, i) <= L
  <2>1. PICK n : n = DigitRun(q, i) /\ IsRun(L, i, DigitsAt(q), n)
    BY <1>1, DigitRunIs
  <2>2. i \in 0..M
    BY <1>1
  <2>3. IsRun(M, i, DigitsAt(r), DigitRun(r, i))
    BY <1>1, <2>2, DigitRunIs
  <2>4. \A k \in 0..(L - 1) : k \in DigitsAt(q) <=> k \in DigitsAt(r)
    BY <1>1, <1>3 DEF DigitsAt
  <2>5. L \notin DigitsAt(r)
    <3>1. L >= L
      OBVIOUS
    <3> QED
      BY <1>2, <1>4, <3>1 DEF DigitsAt
  <2>6. IsRun(M, i, DigitsAt(r), n)
    BY <1>1, <2>1, <2>4, <2>5, RunStays
  <2>7. n \in 0..(L - i)
    BY <2>1 DEF IsRun
  <2>8. n = DigitRun(r, i)
    BY <2>2, <2>3, <2>6, RunUnique
  <2>9. i + n <= L
    BY <2>7
  <2> QED
    BY <2>1, <2>8, <2>9
<1>6. ASSUME NEW i \in Nat, i >= L, i <= M
      PROVE  DigitRun(r, i) = 0
  <2>1. i \in 0..M
    BY <1>6
  <2>2. IsRun(M, i, DigitsAt(r), DigitRun(r, i))
    BY <1>1, <2>1, DigitRunIs
  <2>3. i \notin DigitsAt(r)
    BY <1>2, <1>4, <1>6 DEF DigitsAt
  <2>4. DigitRun(r, i) \in 0..(M - i) /\ \A k \in 0..(DigitRun(r, i) - 1) : i + k \in DigitsAt(r)
    BY <2>2 DEF IsRun
  <2>5. DigitRun(r, i) # 0 => 0 \in 0..(DigitRun(r, i) - 1) /\ i + 0 = i
    BY <2>1, <2>4
  <2> QED
    BY <2>3, <2>4, <2>5
<1>7. RunOf(q, 0, LAMBDA c : c = "0") = RunOf(r, 0, LAMBDA c : c = "0")
  <2>1. PICK y, z : y = RunOf(q, 0, LAMBDA c : c = "0") /\ z = RunOf(r, 0, LAMBDA c : c = "0")
    OBVIOUS
  <2>2. IsRun(L, 0, ZerosAt(q), y) /\ IsRun(M, 0, ZerosAt(r), z)
    BY <1>1, <2>1, LeadingZeros
  <2>3. \A k \in 0..(L - 1) : k \in ZerosAt(q) <=> k \in ZerosAt(r)
    BY <1>1, <1>3 DEF ZerosAt
  <2>4. L \notin ZerosAt(r)
    <3>1. L >= L
      OBVIOUS
    <3> QED
      BY <1>2, <1>4, <3>1 DEF ZerosAt
  <2>5. 0 \in 0..L /\ 0 \in 0..M
    OBVIOUS
  <2>6. IsRun(M, 0, ZerosAt(r), y)
    BY <1>1, <2>2, <2>3, <2>4, <2>5, RunStays
  <2>7. y = z
    BY <2>2, <2>5, <2>6, RunUnique
  <2> QED
    BY <2>1, <2>7
<1> QED
  BY <1>1, <1>5, <1>6, <1>7

(* Spaces at the end change the sign in no way, and what is behind it only *)
(* by themselves.                                                          *)
LEMMA TrimmedReads ==
  ASSUME NEW S, NEW x \in Seq(S)
  PROVE  LET y == Trimmed(x) IN
         /\ (Sym(y, 0) = "-") = (Sym(x, 0) = "-")
         /\ Body(y) \in Seq(S) /\ Body(x) \in Seq(S) /\ Padded(Body(y), Body(x))
         /\ Whole(Body(y)) = Whole(Body(x))
         /\ SubSeq(Body(y), 1, Whole(Body(y))) = SubSeq(Body(x), 1, Whole(Body(x)))
<1>1. PICK L \in Nat : L = Len(x)
  BY LenProperties
<1>2. PICK b \in 0..L : Trailed(x, b)
  BY <1>1, TrailingSpaces
<1>3. PICK y : y = Trimmed(x)
  OBVIOUS
<1>4. y \in Seq(S) /\ Len(y) = L - b /\ \A i \in 1..(L - b) : y[i] = x[i]
  <2>1. L - b \in Nat /\ 1 \in Nat /\ 1 >= 1 /\ L - b <= L /\ 1 <= L - b + 1
    BY <1>2
  <2>2. /\ SubSeq(x, 1, L - b) \in Seq(S) /\ Len(SubSeq(x, 1, L - b)) = L - b - 1 + 1
        /\ \A i \in 1..(L - b - 1 + 1) : SubSeq(x, 1, L - b)[i] = x[1 + i - 1]
    BY <1>1, <2>1, Parted
  <2>3. L - b - 1 + 1 = L - b /\ \A i \in 1..(L - b) : 1 + i - 1 = i
    BY <2>1
  <2>4. y = SubSeq(x, 1, L - b)
    BY <1>1, <1>2, <1>3, TrimmedIs
  <2> QED
    BY <2>2, <2>3, <2>4
<1>5. /\ Beyond \notin Signs /\ Space \notin Signs /\ ~IsDigit(Beyond) /\ ~IsDigit(Space)
      /\ Beyond # "-" /\ Space # "-"
  <2>1. ~IsDigit(Space)
    BY DigitsAreChars, Zenon DEF Space
  <2>2. Space \notin Signs /\ Beyond # "-" /\ Space # "-"
    BY Zenon DEF Space, Signs, Beyond
  <2> QED
    BY <2>1, <2>2, SymbolsApart
<1>6. \A i \in (L - b + 1)..L : x[i] = Space
  <2>1. SUFFICES ASSUME NEW i \in (L - b + 1)..L PROVE x[i] = Space
    OBVIOUS
  <2>2. L + 1 - i \in 1..b /\ L + 1 - (L + 1 - i) = i
    BY <1>2
  <2> QED
    BY <1>1, <1>2, <2>2 DEF Trailed
<1>7. \/ Sym(y, 0) = Sym(x, 0)
      \/ Sym(y, 0) = Beyond /\ Sym(x, 0) = Space
  <2>1. CASE b = L
    <3>1. Sym(y, 0) = Beyond
      <4>1. ~(0 < Len(y))
        BY <1>1, <1>4, <2>1
      <4> QED
        BY <4>1, AtIs
    <3>2. CASE L = 0
      <4>1. ~(0 < Len(x))
        BY <1>1, <3>2
      <4>2. Sym(x, 0) = Beyond
        BY <4>1, AtIs
      <4> QED
        BY <3>1, <4>2
    <3>3. CASE L # 0
      <4>1. 0 < Len(x) /\ 1 \in (L - b + 1)..L /\ 0 + 1 = 1
        BY <1>1, <2>1, <3>3
      <4>2. Sym(x, 0) = x[0 + 1]
        BY <4>1, AtIs
      <4> QED
        BY <1>6, <3>1, <4>1, <4>2
    <3> QED
      BY <3>2, <3>3
  <2>2. CASE b # L
    <3>1. 0 < Len(x) /\ 0 < Len(y) /\ 0 + 1 = 1 /\ 1 \in 1..(L - b)
      BY <1>1, <1>2, <1>4, <2>2
    <3>2. Sym(x, 0) = x[0 + 1] /\ Sym(y, 0) = y[0 + 1]
      BY <3>1, AtIs
    <3> QED
      BY <1>4, <3>1, <3>2
  <2> QED
    BY <2>1, <2>2
<1>8. PICK off \in {0, 1} : /\ off = (IF Sym(x, 0) \in Signs THEN 1 ELSE 0)
                          /\ off = (IF Sym(y, 0) \in Signs THEN 1 ELSE 0)
  BY <1>5, <1>7
<1>9. PICK q, r : q = Body(y) /\ r = Body(x)
  OBVIOUS
<1>10. /\ r \in Seq(S) /\ Len(r) = L - off /\ \A i \in 1..(L - off) : r[i] = x[i + off]
  BY <1>1, <1>8, <1>9, BodyIs
<1>11. /\ q \in Seq(S) /\ off <= L - b /\ Len(q) = (L - b) - off
       /\ \A i \in 1..((L - b) - off) : q[i] = y[i + off]
  BY <1>4, <1>8, <1>9, BodyIs
<1>12. Len(q) <= Len(r) /\ \A i \in 1..Len(q) : q[i] = r[i]
  <2>1. Len(q) <= Len(r)
    BY <1>1, <1>2, <1>10, <1>11
  <2>2. \A i \in 1..Len(q) : i \in 1..((L - b) - off) /\ i \in 1..(L - off) /\ i + off \in 1..(L - b)
    BY <1>1, <1>2, <1>8, <1>11
  <2> QED
    BY <1>4, <1>10, <1>11, <2>1, <2>2
<1>13. \A i \in (Len(q) + 1)..Len(r) : r[i] = Space
  <2>1. SUFFICES ASSUME NEW i \in (Len(q) + 1)..Len(r) PROVE r[i] = Space
    OBVIOUS
  <2>2. PICK m \in Int, n \in Int : m = L - off /\ n = (L - b) - off /\ m = Len(r) /\ n = Len(q)
    BY <1>10, <1>11
  <2>3. i \in (n + 1)..m /\ n >= 0
    BY <1>11, <2>1, <2>2
  <2>4. i \in 1..(L - off) /\ i + off \in (L - b + 1)..L
    BY <1>2, <2>2, <2>3
  <2> QED
    BY <1>6, <1>10, <2>4
<1>14. /\ Padded(q, r) /\ Whole(q) = Whole(r)
       /\ SubSeq(q, 1, Whole(q)) = SubSeq(r, 1, Whole(r))
  <2>1. Padded(q, r)
    BY <1>12, <1>13 DEF Padded
  <2>2. Len(q) \in Nat /\ 0 \in 0..Len(q)
    BY <1>11, LenProperties
  <2>3. Whole(q) = Whole(r) /\ 0 + Whole(q) <= Len(q)
    BY <1>10, <1>11, <2>1, <2>2, PaddedRun DEF Whole
  <2>4. Whole(q) \in Nat /\ Whole(q) <= Len(q) /\ 1 \in Nat /\ 1 >= 1
    BY <2>2, <2>3, PartsInPlace
  <2>5. PICK w \in Nat : w = Whole(q) /\ w <= Len(q)
    BY <2>4
  <2>6. SubSeq(q, 1, w) = SubSeq(r, 1, w)
    <3>1. q \in Seq(S) /\ r \in Seq(S)
      BY <1>10, <1>11
    <3>2. PICK m \in Nat : m = 1 /\ m >= 1
      OBVIOUS
    <3>3. SubSeq(q, m, w) = SubSeq(r, m, w)
      <4>1. q \in Seq(S)
        BY <3>1
      <4>2. r \in Seq(S)
        BY <3>1
      <4>3. Padded(q, r)
        BY <2>1
      <4>4. m \in Nat /\ m >= 1
        BY <3>2
      <4>5. w \in Nat /\ w <= Len(q)
        BY <2>5
      <4>6. \A n \in Nat : n <= Len(q) => SubSeq(q, m, n) = SubSeq(r, m, n)
        BY <4>1, <4>2, <4>3, <4>4, PaddedPart
      <4> QED
        BY <4>5, <4>6
    <3> QED
      BY <3>2, <3>3
  <2> QED
    BY <2>1, <2>3, <2>5, <2>6
<1>15. (Sym(y, 0) = "-") = (Sym(x, 0) = "-")
  BY <1>5, <1>7
<1> QED
  BY <1>3, <1>9, <1>10, <1>11, <1>14, <1>15

(* The integer parse reads its digits and their sign.                      *)
LEMMA ParseIntIs ==
  ASSUME WidthAssumption, NEW S, NEW s \in Seq(S)
  PROVE  LET x == Unspaced(s) IN
         /\ x \in Seq(S) /\ ParseInt(s) = Clamped(Sym(x, 0) = "-", Number(SubSeq(Body(x), 1, Whole(Body(x)))))
         /\ Whole(Body(x)) = 0 => ParseInt(s) = 0
<1>0. Len(s) \in Nat
  BY LenProperties
<1>1. PICK a \in 0..Len(s) : Led(s, a)
  BY <1>0, LeadingSpaces
<1>2. PICK x : x = Unspaced(s)
  OBVIOUS
<1>3. x \in Seq(S)
  <2>1. 1 + a \in Nat /\ 1 + a >= 1 /\ Len(s) <= Len(s) /\ 1 + a <= Len(s) + 1
    BY <1>0
  <2>2. x = SubSeq(s, 1 + a, Len(s))
    BY <1>1, <1>2, UnspacedIs
  <2> QED
    BY <1>0, <2>1, <2>2, Parted
<1>4. PICK t : t = SplitSign(s)
  OBVIOUS
<1>5. t.rest = Body(x) /\ t.negative = (Sym(x, 0) = "-")
  BY <1>2, <1>4 DEF SplitSign, Body
<1>6. PICK n, value : n = Whole(Body(x)) /\ value = Number(SubSeq(Body(x), 1, n))
  OBVIOUS
<1>7. ParseInt(s) = IF n = 0 THEN 0 ELSE Clamped(t.negative, value)
  <2>1. n = DigitRun(t.rest, 0) /\ value = Number(SubSeq(t.rest, 1, n))
    BY <1>5, <1>6 DEF Whole
  <2> QED
    BY <1>4, <2>1 DEF ParseInt, Clamped
<1>8. n = 0 => Clamped(t.negative, value) = 0
  <2>1. SUFFICES ASSUME n = 0 PROVE Clamped(t.negative, value) = 0
    OBVIOUS
  <2>2. value = 0
    <3>1. SubSeq(Body(x), 1, 0) = <<>>
      BY SubSeqEmpty
    <3> QED
      BY <1>6, <2>1, <3>1, NumberOfNone
  <2>3. 0 <= IMax /\ 0 <= UMax
    BY WidthsAre
  <2> QED
    BY <2>2, <2>3, MinusZero DEF Clamped, Wrapped
<1> QED
  BY <1>2, <1>3, <1>5, <1>6, <1>7, <1>8

(* What is behind the nothing of that string.                              *)
Excused == " but true"

(* The one string that is no number and silent is nothing to either.       *)
LEMMA ButTrueReads ==
  ASSUME WidthAssumption
  PROVE  /\ ParseInt(ButTrue) = 0 /\ ButTrue \in Seq({"0", Excused})
         /\ Unspaced(ButTrue) = ButTrue /\ Body(ButTrue) = ButTrue
         /\ Sym(ButTrue, 0) = "0" /\ Sym(ButTrue, 1) = Excused
         /\ Whole(ButTrue) = 1 /\ Number(SubSeq(ButTrue, 1, 1)) = 0
<1> DEFINE S == {"0", Excused}
<1>1. PICK s \in Seq(S) : s = ButTrue /\ s = <<"0", Excused>>
  <2>1. ButTrue = <<"0", Excused>>
    BY Zenon DEF ButTrue, Excused
  <2>2. <<"0", Excused>> \in Seq(S)
    OBVIOUS
  <2> QED
    BY <2>1, <2>2
<1>2. Len(s) = 2 /\ s[1] = "0" /\ s[2] = Excused
  BY <1>1
<1>3. "0" # Space /\ "0" \notin Signs /\ ~IsDigit(Excused) /\ "0" # "-"
  <2>1. ~IsDigit(Excused)
    BY DigitsAreChars, Zenon DEF Excused
  <2>2. "0" # Space /\ "0" \notin Signs /\ "0" # "-"
    BY Zenon DEF Space, Signs
  <2> QED
    BY <2>1, <2>2
<1> HIDE DEF S
<1>4. Unspaced(s) = s
  <2>1. Led(s, 0)
    <3>1. 0 \in 0..Len(s) /\ 0 # Len(s) /\ 0 + 1 = 1 /\ \A k \in 1..0 : FALSE
      BY <1>2
    <3> QED
      BY <1>2, <1>3, <3>1 DEF Led
  <2>2. Unspaced(s) = SubSeq(s, 1 + 0, Len(s)) /\ 1 + 0 = 1
    BY <2>1, UnspacedIs
  <2>3. 1 \in Nat /\ 1 >= 1 /\ Len(s) \in Nat /\ Len(s) <= Len(s) /\ 1 <= Len(s) + 1
    BY <1>2
  <2>4. PICK t : t = SubSeq(s, 1, Len(s))
    OBVIOUS
  <2>5. t \in Seq(S) /\ Len(t) = Len(s) - 1 + 1 /\ \A i \in 1..(Len(s) - 1 + 1) : t[i] = s[1 + i - 1]
    BY <2>3, <2>4, Parted
  <2>6. Len(t) = Len(s) /\ \A i \in 1..Len(t) : t[i] = s[i]
    <3>1. Len(s) - 1 + 1 = Len(s) /\ \A i \in 1..Len(s) : 1 + i - 1 = i
      BY <1>2
    <3> QED
      BY <2>5, <3>1
  <2>7. t = s
    BY <2>5, <2>6, SeqEqual
  <2> QED
    BY <2>2, <2>4, <2>7
<1>5. Sym(s, 0) = "0" /\ Sym(s, 1) = Excused
  <2>1. 0 < Len(s) /\ 1 < Len(s) /\ 0 + 1 = 1 /\ 1 + 1 = 2
    BY <1>2
  <2>2. Sym(s, 0) = s[0 + 1]
    BY <2>1, AtIs
  <2>3. Sym(s, 1) = s[1 + 1]
    BY <2>1, AtIs
  <2> QED
    BY <1>2, <2>1, <2>2, <2>3
<1>6. Body(s) = s
  BY <1>3, <1>5 DEF Body
<1>7. PICK n \in Nat : n = Whole(s) /\ n = 1
  <2>1. IsRun(Len(s), 0, DigitsAt(s), Whole(s))
    <3>1. Len(s) \in Nat /\ 0 \in 0..Len(s)
      BY <1>2
    <3> QED
      BY <3>1, DigitRunIs DEF Whole
  <2>2. Whole(s) \in Nat /\ \A k \in 0..(Whole(s) - 1) : 0 + k \in DigitsAt(s)
    BY <1>2, <2>1 DEF IsRun
  <2>3. 1 \notin DigitsAt(s)
    BY <1>3, <1>5 DEF DigitsAt
  <2>4. Whole(s) > 1 => 1 \in 0..(Whole(s) - 1) /\ 0 + 1 = 1
    BY <2>2
  <2>5. ~(Whole(s) > 1)
    BY <2>2, <2>3, <2>4
  <2>6. 0 \in DigitsAt(s)
    <3>1. IsDigit("0") /\ 0 \in 0..Len(s)
      BY <1>2, DigitsAreChars
    <3> QED
      BY <1>5, <3>1 DEF DigitsAt
  <2>7. Whole(s) # 0
    <3>1. Whole(s) = Len(s) - 0 \/ 0 + Whole(s) \notin DigitsAt(s)
      BY <2>1 DEF IsRun
    <3>2. Whole(s) = 0 => Whole(s) # Len(s) - 0 /\ 0 + Whole(s) = 0
      BY <1>2
    <3> QED
      BY <2>6, <3>1, <3>2
  <2> QED
    BY <2>2, <2>5, <2>7
<1>8. Number(SubSeq(s, 1, 1)) = 0
  <2>1. n = 1
    BY <1>7
  <2>2. PICK d : d = SubSeq(s, 1, 1)
    OBVIOUS
  <2>3. Figures(d) /\ Len(d) = 1 /\ d[1] = "0"
    <3>1. Figures(d) /\ Len(d) = Whole(s) /\ \A k \in 1..Whole(s) : d[k] = s[k]
      BY <1>7, <2>1, <2>2, MantissaFigures
    <3>2. Whole(s) = 1 /\ 1 \in 1..1
      BY <1>7, <2>1
    <3>3. Len(d) = 1 /\ d[1] = s[1]
      BY <3>1, <3>2
    <3> QED
      BY <1>2, <3>1, <3>3
  <2>4. Digit("0") = 0
    <3>1. DigitChars[0 + 1] = "0" /\ \A i \in 1..9 : DigitChars[i + 1] # "0"
      <4>1. \A i \in 1..9 : i = 1 \/ i = 2 \/ i = 3 \/ i = 4 \/ i = 5 \/ i = 6 \/ i = 7 \/ i = 8 \/ i = 9
        OBVIOUS
      <4>2. /\ DigitChars[2] # "0" /\ DigitChars[3] # "0" /\ DigitChars[4] # "0"
            /\ DigitChars[5] # "0" /\ DigitChars[6] # "0" /\ DigitChars[7] # "0"
            /\ DigitChars[8] # "0" /\ DigitChars[9] # "0" /\ DigitChars[10] # "0" /\ DigitChars[1] = "0"
        BY DEF DigitChars
      <4> HIDE DEF DigitChars
      <4> QED
        BY <4>1, <4>2
    <3>2. Digit("0") \in 0..9 /\ DigitChars[Digit("0") + 1] = "0"
      <4> HIDE DEF DigitChars
      <4>1. 0 \in 0..9
        OBVIOUS
      <4>2. \E e \in 0..9 : DigitChars[e + 1] = "0"
        BY <3>1, <4>1
      <4> QED
        BY <4>2 DEF Digit
    <3>3. PICK e \in 0..9 : e = Digit("0") /\ DigitChars[e + 1] = "0"
      BY <3>2
    <3>4. e \notin 1..9
      BY <3>1, <3>3
    <3>5. e = 0
      BY <3>4
    <3> QED
      BY <3>3, <3>5
  <2>5. Number(d) = 0
    <3>1. PICK p : p = Partials(d)
      OBVIOUS
    <3>2. Number(d) = p[1] /\ p[0] = 0 /\ \A k \in 1..1 : p[k] = (p[k - 1] * 10) + Digit(d[k])
      BY <2>3, <3>1, PartialsAre
    <3>3. 1 \in 1..1 /\ 1 - 1 = 0
      OBVIOUS
    <3>4. p[1] = (p[0] * 10) + Digit("0")
      BY <2>3, <3>2, <3>3
    <3>5. (0 * 10) + 0 = 0
      OBVIOUS
    <3> QED
      BY <2>4, <3>2, <3>4, <3>5
  <2> QED
    BY <2>2, <2>5
<1>9. ParseInt(s) = 0
  <2>1. ParseInt(s) = Clamped(Sym(s, 0) = "-", Number(SubSeq(s, 1, n)))
    <3>1. Unspaced(s) = s /\ Body(s) = s /\ Whole(s) = n
      BY <1>4, <1>6, <1>7
    <3>2. LET x == Unspaced(s) IN
          ParseInt(s) = Clamped(Sym(x, 0) = "-", Number(SubSeq(Body(x), 1, Whole(Body(x)))))
      BY <1>4, ParseIntIs
    <3> QED
      BY <3>1, <3>2, Zenon
  <2>2. ParseInt(s) = Clamped(Sym(s, 0) = "-", 0)
    BY <1>7, <1>8, <2>1
  <2>3. Clamped(FALSE, 0) = 0
    <3>1. 0 <= UMax /\ 0 <= IMax
      BY WidthsAre
    <3> QED
      BY <3>1 DEF Clamped, Wrapped
  <2> QED
    BY <1>3, <1>5, <2>2, <2>3
<1> QED
  BY <1>1, <1>4, <1>5, <1>6, <1>7, <1>8, <1>9 DEF S

(* The integer of a string's number is the integer of the string, wherever *)
(* no exponent and no word come between (value.rs, parse_int and           *)
(* classify_numeric_noting_warning).                                       *)
LEMMA OneInteger ==
  ASSUME WidthAssumption, NEW S, S \cap {"e", "inf", "nan"} = {}, NEW s \in Seq(S)
  PROVE  NumberToInt(ClassifyNumeric(s)[1]) = ParseInt(s)
<1>1. PICK x : x = Unspaced(s)
  OBVIOUS
<1>2. x \in Seq(S) /\ ParseInt(s) = Clamped(Sym(x, 0) = "-", Number(SubSeq(Body(x), 1, Whole(Body(x)))))
  BY <1>1, ParseIntIs
<1>3. PICK y : y = Trimmed(x) /\ y = Unspaced(Trimmed(s)) /\ y \in Seq(S)
  BY <1>1, TrimsCommute
<1>4. /\ (Sym(y, 0) = "-") = (Sym(x, 0) = "-") /\ Whole(Body(y)) = Whole(Body(x))
      /\ SubSeq(Body(y), 1, Whole(Body(y))) = SubSeq(Body(x), 1, Whole(Body(x)))
  <2>1. LET z == Trimmed(x) IN
        /\ (Sym(z, 0) = "-") = (Sym(x, 0) = "-") /\ Whole(Body(z)) = Whole(Body(x))
        /\ SubSeq(Body(z), 1, Whole(Body(z))) = SubSeq(Body(x), 1, Whole(Body(x)))
    BY <1>2, TrimmedReads
  <2>2. y = Trimmed(x)
    BY <1>3
  <2> QED
    BY <2>1, <2>2, Zenon
<1>5. PICK t : t = SplitSign(Trimmed(s))
  OBVIOUS
<1>6. t.rest = Body(y) /\ t.negative = (Sym(y, 0) = "-") /\ t.negative \in BOOLEAN
  BY <1>3, <1>5 DEF SplitSign, Body
<1>7. t.rest \in Seq(S)
  BY <1>3, <1>6, BodyIs
<1>8. PICK value : value = Number(SubSeq(t.rest, 1, Whole(t.rest)))
  OBVIOUS
<1>9. value \in Nat
  <2>1. \E m \in Nat : value = Shortened(m, Part(t.rest))
    BY <1>7, <1>8, MantissaFigures
  <2>2. Part(t.rest) \in Nat
    BY <1>7, LenProperties, PartsInPlace
  <2> QED
    BY <2>1, <2>2, ShortenedIs
<1>10. ParseInt(s) = Clamped(t.negative, value)
  BY <1>2, <1>4, <1>6, <1>8
<1>11. PICK parsed : parsed = ParseFloatSpanned(Trimmed(s))
  OBVIOUS
<1>12. parsed = Spanned(t.negative, t.rest, Mantissa(t.rest), Exponent(t.rest, Mantissa(t.rest).len))
  BY <1>5, <1>11, Zenon DEF ParseFloatSpanned
<1>13. FloatToInt(parsed[1]) = Clamped(t.negative, value)
  BY <1>6, <1>7, <1>8, <1>12, SpannedReads
<1>14. ClassifyNumeric(s) = IF s = ButTrue THEN <<Integer(0), FALSE>>
                            ELSE NumberIn(t, Whole(t.rest), value, parsed)
  BY <1>5, <1>8, <1>11, Zenon DEF ClassifyNumeric, Whole
<1>15. CASE s = ButTrue
  <2>1. ClassifyNumeric(s)[1] = Integer(0)
    BY <1>14, <1>15
  <2>2. NumberToInt(Integer(0)) = 0
    BY DEF NumberToInt, Integer
  <2> QED
    BY <1>15, <2>1, <2>2, ButTrueReads
<1>16. CASE s # ButTrue
  <2>1. ClassifyNumeric(s) = NumberIn(t, Whole(t.rest), value, parsed)
    BY <1>14, <1>16
  <2>2. NumberToInt(NumberIn(t, Whole(t.rest), value, parsed)[1]) = Clamped(t.negative, value)
    <3>1. t.negative \in BOOLEAN /\ value \in Nat /\ FloatToInt(parsed[1]) = Clamped(t.negative, value)
      BY <1>6, <1>9, <1>13
    <3> QED
      BY <3>1, NumberReads
  <2> QED
    BY <1>10, <2>1, <2>2
<1> QED
  BY <1>15, <1>16

(* What is exact has neither an exponent nor a word.                       *)
LEMMA ExactIs == \A s : Exact(s) => ToSet(s) \cap {"e", "inf", "nan"} = {}
  BY Zenon DEF Exact

(* Whatever string grows, of any length and at any widths, the integer     *)
(* asked of it is its number's (value.rs, parse_int).                      *)
THEOREM ReadsAsOneInteger ==
  ASSUME WidthAssumption
  PROVE  WordSpec => []ReadsOneInteger
<1> DEFINE Typed == word \in Seq(Alphabet)
<1>1. WordInit => Typed
  BY DEF WordInit
<1>2. Typed /\ [WordNext]_word => Typed'
  BY DEF WordNext, Push
<1>3. Typed => ReadsOneInteger
  <2>1. SUFFICES ASSUME Typed, ToSet(word) \cap {"e", "inf", "nan"} = {}
                 PROVE  NumberToInt(Read[1]) = ParseInt(word)
    BY ExactIs, Zenon DEF ReadsOneInteger
  <2>2. PICK S : S = ToSet(word)
    OBVIOUS
  <2>3. word \in Seq(S)
    <3>1. Len(word) \in Nat /\ word \in [1..Len(word) -> Alphabet] /\ DOMAIN word = 1..Len(word)
      BY <2>1
    <3>2. \A i \in 1..Len(word) : word[i] \in S
      BY <2>2, <3>1 DEF ToSet
    <3> QED
      BY <3>1, <3>2
  <2> QED
    BY <2>1, <2>2, <2>3, OneInteger DEF Read
<1> QED
  BY <1>1, <1>2, <1>3, PTL DEF WordSpec
-----------------------------------------------------------------------------
(* One float.                                                              *)

(* Spaces behind a token change nothing of what is read of it.             *)
LEMMA PaddedSpan ==
  ASSUME NEW S, NEW q \in Seq(S), NEW r \in Seq(S), Padded(q, r), NEW negative
  PROVE  Spanned(negative, q, Mantissa(q), Exponent(q, Mantissa(q).len))
           = Spanned(negative, r, Mantissa(r), Exponent(r, Mantissa(r).len))
<1>1. PICK L \in Nat, M \in Nat : L = Len(q) /\ M = Len(r) /\ L <= M
  BY LenProperties DEF Padded
<1>2. /\ \A c \in {".", "e", "-", "+", "inf", "inity", "nan"} : c \notin {Space, Beyond}
  BY Zenon DEF Space, Beyond
<1>3. /\ \A i \in Nat : \A c \in {".", "e", "-", "+", "inf", "inity", "nan"} : Sym(q, i) = c <=> Sym(r, i) = c
      /\ \A i \in Nat : Sym(q, i) \in Signs <=> Sym(r, i) \in Signs
  <2>1. \A i \in Nat : \A c \in {".", "e", "-", "+", "inf", "inity", "nan"} : Sym(q, i) = c <=> Sym(r, i) = c
    BY <1>2, PaddedSym
  <2> QED
    BY <2>1 DEF Signs
<1>4. /\ \A i \in 0..L : DigitRun(q, i) = DigitRun(r, i) /\ i + DigitRun(q, i) <= L
      /\ \A i \in Nat : i >= L /\ i <= M => DigitRun(r, i) = 0
      /\ RunOf(q, 0, LAMBDA c : c = "0") = RunOf(r, 0, LAMBDA c : c = "0")
  BY <1>1, PaddedRun
<1>5. PICK w \in Nat, p \in Nat, at \in Nat :
        /\ w = Whole(q) /\ p = Part(q) /\ at = Mantissa(q).len /\ w <= L /\ at <= L
        /\ Pointed(q) => w + 1 + p <= L
        /\ ~Pointed(q) => p = 0
        /\ Pointed(q) => w + 1 <= L
  <2>1. /\ Whole(q) \in 0..L /\ Part(q) \in Nat /\ Length(q) \in 0..L
        /\ Pointed(q) => Whole(q) < L
        /\ ~Pointed(q) => Part(q) = 0
        /\ Length(q) = Whole(q) + (IF Pointed(q) THEN 1 ELSE 0) + Part(q)
    BY <1>1, PartsInPlace
  <2>2. Mantissa(q).len = IF Whole(q) + Part(q) > 0 THEN Length(q) ELSE 0
    BY <1>1, MantissaIs
  <2>3. Mantissa(q).len \in Nat /\ Mantissa(q).len <= L
    BY <2>1, <2>2
  <2> QED
    BY <2>1, <2>3
<1>6. /\ Whole(r) = w /\ (Pointed(q) <=> Pointed(r)) /\ Part(r) = p
  <2>1. Whole(r) = w
    <3>1. 0 \in 0..L
      BY <1>1
    <3> QED
      BY <1>4, <1>5, <3>1 DEF Whole
  <2>2. Pointed(q) <=> Pointed(r)
    BY <1>3, <1>5, <2>1 DEF Pointed, Dot
  <2>3. Pointed(q) => w + 1 \in 0..L
    BY <1>5
  <2> QED
    BY <1>4, <1>5, <2>1, <2>2, <2>3 DEF Part
<1>7. Mantissa(r) = Mantissa(q)
  <2>1. \A t : Mantissa(t) = [whole |-> Whole(t), part |-> Part(t),
                             len |-> IF Pointed(t) /\ Whole(t) + Part(t) > 0 THEN Whole(t) + 1 + Part(t)
                                     ELSE Whole(t)]
    BY DEF Mantissa, Whole, Part, Pointed, Dot
  <2> QED
    BY <1>5, <1>6, <2>1
<1>8. Exponent(r, at) = Exponent(q, at)
  <2>1. PICK mark \in Nat : mark = Mark(q, at) /\ mark = Mark(r, at) /\ mark >= at + 1
    BY <1>3, <1>5 DEF Mark
  <2> DEFINE Power(t) == IF at > 0 /\ Sym(t, at) = "e" /\ mark <= Len(t) THEN DigitRun(t, mark) ELSE 0
             Value(t, power) == Number(SubSeq(t, mark + 1, mark + power))
             Exp10(t, power) == [power |-> power, end |-> IF power > 0 THEN mark + power ELSE at,
                                 value |-> IF Sym(t, mark - 1) = "-" THEN -Value(t, power) ELSE Value(t, power)]
  <2>2. Exponent(q, at) = Exp10(q, Power(q)) /\ Exponent(r, at) = Exp10(r, Power(r))
    BY <2>1 DEF Exponent, Mark
  <2>3. Power(q) = Power(r) /\ Power(q) \in Nat /\ (Power(q) > 0 => mark + Power(q) <= L)
    <3>1. Sym(q, at) = "e" <=> Sym(r, at) = "e"
      BY <1>3
    <3>2. CASE mark <= L
      <4>1. mark \in 0..L /\ mark <= M
        BY <1>1, <3>2
      <4>2. DigitRun(q, mark) = DigitRun(r, mark) /\ mark + DigitRun(q, mark) <= L
        BY <1>4, <4>1
      <4>3. DigitRun(q, mark) \in Nat
        BY <1>1, <4>1, DigitRunIs DEF IsRun
      <4> QED
        BY <1>1, <3>1, <3>2, <4>1, <4>2, <4>3
    <3>3. CASE ~(mark <= L)
      <4>1. Power(q) = 0
        BY <1>1, <3>3
      <4>2. mark >= L
        BY <3>3
      <4>3. Power(r) = 0
        BY <1>1, <1>4, <4>2
      <4> QED
        BY <4>1, <4>3
    <3> QED
      BY <3>2, <3>3
  <2>4. PICK power \in Nat : power = Power(q) /\ power = Power(r) /\ (power > 0 => mark + power <= L)
    BY <2>3
  <2>5. SubSeq(q, mark + 1, mark + power) = SubSeq(r, mark + 1, mark + power)
    <3>1. CASE power > 0
      <4>1. PICK m \in Nat, n \in Nat : m = mark + 1 /\ n = mark + power /\ m >= 1 /\ n <= Len(q)
        BY <1>1, <2>4, <3>1
      <4>2. SubSeq(q, m, n) = SubSeq(r, m, n)
        BY <4>1, PaddedPart
      <4> QED
        BY <4>1, <4>2
    <3>2. CASE ~(power > 0)
      <4>1. mark + 1 > mark + power
        BY <3>2
      <4> QED
        BY <4>1, SubSeqEmpty
    <3> QED
      BY <3>1, <3>2
  <2>6. Sym(q, mark - 1) = "-" <=> Sym(r, mark - 1) = "-"
    <3>1. mark - 1 \in Nat
      BY <2>1
    <3> QED
      BY <1>3, <3>1
  <2> HIDE DEF Power
  <2>7. Exp10(q, power) = Exp10(r, power)
    BY <2>5, <2>6
  <2> HIDE DEF Exp10
  <2> QED
    BY <2>2, <2>4, <2>7
<1>9. SubSeq(q, 1, w) = SubSeq(r, 1, w)
  <2>1. 1 \in Nat /\ 1 >= 1 /\ w <= Len(q)
    BY <1>1, <1>5
  <2> QED
    BY <2>1, PaddedPart
<1>10. SubSeq(q, w + 2, w + 1 + p) = SubSeq(r, w + 2, w + 1 + p)
  <2>1. CASE Pointed(q)
    <3>1. PICK m \in Nat, n \in Nat : m = w + 2 /\ n = w + 1 + p /\ m >= 1 /\ n <= Len(q)
      BY <1>1, <1>5, <2>1
    <3>2. SubSeq(q, m, n) = SubSeq(r, m, n)
      BY <3>1, PaddedPart
    <3> QED
      BY <3>1, <3>2
  <2>2. CASE ~Pointed(q)
    <3>1. w + 2 > w + 1 + p
      BY <1>5, <2>2
    <3> QED
      BY <3>1, SubSeqEmpty
  <2> QED
    BY <2>1, <2>2
<1>11. PICK m, e : m = Mantissa(q) /\ m = Mantissa(r) /\ e = Exponent(q, at) /\ e = Exponent(r, at)
  BY <1>7, <1>8
<1>12. m.whole = w /\ m.part = p /\ m.len = at
  BY <1>1, <1>5, <1>11, MantissaIs
<1>13. Spanned(negative, q, m, e) = Spanned(negative, r, m, e)
  <2>1. /\ Sym(q, 0) = "inf" <=> Sym(r, 0) = "inf"
        /\ Sym(q, 0) = "nan" <=> Sym(r, 0) = "nan"
        /\ Sym(q, 1) = "inity" <=> Sym(r, 1) = "inity"
    BY <1>3
  <2> QED
    BY <1>4, <1>9, <1>10, <1>12, <2>1 DEF Spanned
<1> QED
  BY <1>5, <1>11, <1>13

(* A float read of digits and nothing else that counts is what they stand  *)
(* for, when an integer holds it.                                          *)
LEMMA FloatReads ==
  ASSUME WidthAssumption, NEW S, NEW r \in Seq(S), NEW negative, NEW n \in Nat, n = Whole(r), n > 0,
         Sym(r, n) \notin Marks, Number(SubSeq(r, 1, n)) <= UMax
  PROVE  Spanned(negative, r, Mantissa(r), Exponent(r, Mantissa(r).len))[1]
           = Decimal(negative, Number(SubSeq(r, 1, n)), 0)
<1>0. Len(r) \in Nat
  BY LenProperties
<1>1. PICK d : d = SubSeq(r, 1, n)
  OBVIOUS
<1>2. Marks = {".", "e"} /\ Dot = "."
  BY DEF Marks, Dot
<1>3. ~Pointed(r) /\ Part(r) = 0 /\ IsDigit(Sym(r, 0)) /\ n <= Len(r)
  <2>1. ~Pointed(r)
    BY <1>2 DEF Pointed
  <2> QED
    BY <1>0, <2>1, PartsInPlace
<1>4. Mantissa(r).whole = n /\ Mantissa(r).part = 0 /\ Mantissa(r).len = n
  <2>1. Length(r) = n
    BY <1>3 DEF Length
  <2> QED
    BY <1>0, <1>3, <2>1, MantissaIs
<1>5. Exponent(r, n).power = 0 /\ Exponent(r, n).value = 0
  BY <1>2, ExponentNone
<1>6. Sym(r, 0) # "inf" /\ Sym(r, 0) # "nan"
  BY <1>3, SymbolsApart DEF Words
<1>7. PICK z : z = RunOf(r, 0, LAMBDA c : c = "0")
  OBVIOUS
<1>8. ~(n - z > MaxFinite)
  <2>1. SUFFICES ASSUME n - z > MaxFinite PROVE FALSE
    OBVIOUS
  <2>2. Number(d) \in Nat /\ Number(d) > UMax
    BY <1>1, <1>7, <2>1, TooLong
  <2>3. UMax \in Nat
    BY WidthsAre
  <2> QED
    BY <1>1, <2>2, <2>3
<1>9. d \o SubSeq(r, n + 2, n + 1 + 0) = d
  <2>1. n + 2 > n + 1 + 0
    OBVIOUS
  <2>2. SubSeq(r, n + 2, n + 1 + 0) = <<>>
    BY <2>1, SubSeqEmpty
  <2>3. d \in Seq(S)
    <3>1. 1 \in Nat /\ 1 >= 1 /\ 1 <= n + 1
      OBVIOUS
    <3> QED
      BY <1>1, <1>3, <3>1, Parted
  <2> QED
    BY <2>2, <2>3, ConcatEmptySeq
<1>10. Spanned(negative, r, Mantissa(r), Exponent(r, n))[1]
         = Decimal(negative, Number(d \o SubSeq(r, n + 2, n + 1 + 0)), 0 - 0)
  <2>1. PICK p : p = 0
    OBVIOUS
  <2>2. PICK m : m = Number(SubSeq(r, 1, n) \o SubSeq(r, n + 2, n + 1 + p))
    OBVIOUS
  <2>3. Mantissa(r).part = p /\ Exponent(r, n).power = 0 /\ Exponent(r, n).value = p
    BY <1>4, <1>5, <2>1
  <2>4. n # 0
    OBVIOUS
  <2>5. Spanned(negative, r, Mantissa(r), Exponent(r, n))[1] = Decimal(negative, m, p - p)
    <3> HIDE <2>1
    <3> QED
      BY <1>4, <1>6, <1>7, <1>8, <2>2, <2>3, <2>4 DEF Spanned
  <2> QED
    BY <1>1, <2>1, <2>2, <2>5
<1>11. 0 - 0 = 0
  OBVIOUS
<1> QED
  BY <1>1, <1>4, <1>9, <1>10, <1>11

(* A number is the float that was read, but for a zero read under a minus. *)
LEMMA NumberFloats ==
  ASSUME WidthAssumption, NEW t, t.negative \in BOOLEAN, NEW n, NEW value \in Nat, NEW parsed,
         n > 0 /\ Sym(t.rest, n) \notin Marks /\ value <= UMax => parsed[1] = Decimal(t.negative, value, 0),
         ~(t.negative /\ NumberIn(t, n, value, parsed)[1] = Integer(0))
  PROVE  parsed[1] = NumberToFloat(NumberIn(t, n, value, parsed)[1])
<1> DEFINE digits == n > 0 /\ Sym(t.rest, n) \notin {".", "e"}
           small == value <= IMax + (IF t.negative THEN 1 ELSE 0)
           large == ~t.negative /\ value \in (IMax + 1)..UMax
           number == NumberIn(t, n, value, parsed)
<1>1. IMax \in Nat /\ UMax \in Nat /\ UMax = (2 * IMax) + 1
  BY WidthsAre
<1>2. ~(small /\ large)
  BY <1>1
<1>3. number = CASE digits /\ small -> <<Integer(IF t.negative THEN -value ELSE value), n # Len(t.rest)>>
                 [] digits /\ large -> <<Unsigned(value), n # Len(t.rest)>>
                 [] OTHER -> <<Float(parsed[1]), parsed[2] # Len(t.rest) \/ t.rest = <<>> >>
  BY Zenon DEF NumberIn
<1>4. digits /\ value <= UMax => parsed[1] = Decimal(t.negative, value, 0)
  BY DEF Marks
<1>5. ~(t.negative /\ number[1] = Integer(0))
  OBVIOUS
<1> HIDE DEF number, digits
<1>6. \A x : x.kind # "Float" => NumberToFloat(x) = IF x.n < 0 THEN Decimal(TRUE, -x.n, 0) ELSE Decimal(FALSE, x.n, 0)
  BY DEF NumberToFloat
<1>7. \A i : /\ Integer(i).kind # "Float" /\ Integer(i).n = i
             /\ Unsigned(i).kind # "Float" /\ Unsigned(i).n = i
  BY DEF Integer, Unsigned
<1>8. CASE digits /\ small
  <2>1. number[1] = Integer(IF t.negative THEN -value ELSE value)
    <3> HIDE DEF small, large
    <3> QED
      BY <1>2, <1>3, <1>8
  <2>2. value <= UMax
    BY <1>1, <1>8
  <2>3. parsed[1] = Decimal(t.negative, value, 0)
    BY <1>4, <1>8, <2>2
  <2>4. CASE t.negative
    <3>1. value # 0
      BY <1>5, <2>1, <2>4, MinusZero
    <3>2. PICK i \in Int : i = -value /\ i < 0 /\ -i = value
      BY <3>1
    <3>3. Integer(i).kind # "Float" /\ Integer(i).n = i
      BY <1>7
    <3>4. NumberToFloat(Integer(i)) = IF i < 0 THEN Decimal(TRUE, -i, 0) ELSE Decimal(FALSE, i, 0)
      BY <1>6, <3>3
    <3>5. NumberToFloat(Integer(i)) = Decimal(TRUE, value, 0)
      BY <3>2, <3>4
    <3> QED
      BY <2>1, <2>3, <2>4, <3>2, <3>5 DEF number
  <2>5. CASE ~t.negative
    <3>1. ~(value < 0) /\ t.negative = FALSE
      BY <2>5
    <3>2. NumberToFloat(Integer(value)) = Decimal(FALSE, value, 0)
      BY <1>6, <1>7, <3>1
    <3> QED
      BY <2>1, <2>3, <3>1, <3>2 DEF number
  <2> QED
    BY <2>4, <2>5
<1>9. CASE digits /\ large
  <2>1. number[1] = Unsigned(value)
    <3> HIDE DEF small, large
    <3> QED
      BY <1>2, <1>3, <1>9
  <2>2. value <= UMax /\ ~(value < 0) /\ t.negative = FALSE
    BY <1>1, <1>9
  <2>3. parsed[1] = Decimal(t.negative, value, 0)
    BY <1>4, <1>9, <2>2
  <2>4. NumberToFloat(Unsigned(value)) = Decimal(FALSE, value, 0)
    BY <1>6, <1>7, <2>2
  <2> QED
    BY <2>1, <2>2, <2>3, <2>4 DEF number
<1>10. CASE ~(digits /\ small) /\ ~(digits /\ large)
  <2>1. number[1] = Float(parsed[1])
    <3> HIDE DEF small, large
    <3> QED
      BY <1>3, <1>10
  <2>2. NumberToFloat(Float(parsed[1])) = parsed[1]
    BY DEF NumberToFloat, Float
  <2> QED
    BY <2>1, <2>2 DEF number
<1> QED
  BY <1>8, <1>9, <1>10

(* A string's float is its number's, but for a negative zero's (value.rs,  *)
(* parse_float and classify_numeric_noting_warning).                       *)
LEMMA OneFloat ==
  ASSUME WidthAssumption, NEW S, NEW s \in Seq(S), ~NegativeZero(s)
  PROVE  ParseFloatSpanned(s)[1] = NumberToFloat(ClassifyNumeric(s)[1])
<1>1. PICK x : x = Unspaced(s) /\ x \in Seq(S)
  BY ParseIntIs
<1>2. PICK y : y = Trimmed(x) /\ y = Unspaced(Trimmed(s)) /\ y \in Seq(S)
  BY <1>1, TrimsCommute
<1>3. PICK t, u : t = SplitSign(Trimmed(s)) /\ u = SplitSign(s)
  OBVIOUS
<1>4. /\ t.rest = Body(y) /\ t.negative = (Sym(y, 0) = "-") /\ t.negative \in BOOLEAN
      /\ u.rest = Body(x) /\ u.negative = (Sym(x, 0) = "-")
  BY <1>1, <1>2, <1>3 DEF SplitSign, Body
<1>5. LET z == Trimmed(x) IN
      /\ (Sym(z, 0) = "-") = (Sym(x, 0) = "-")
      /\ Body(z) \in Seq(S) /\ Body(x) \in Seq(S) /\ Padded(Body(z), Body(x))
  BY <1>1, TrimmedReads
<1>6. /\ t.negative = u.negative /\ t.rest \in Seq(S) /\ u.rest \in Seq(S) /\ Padded(t.rest, u.rest)
  BY <1>2, <1>4, <1>5, Zenon
<1> DEFINE SpanOf(v) == Spanned(v.negative, v.rest, Mantissa(v.rest), Exponent(v.rest, Mantissa(v.rest).len))
<1>7. PICK parsed : parsed = ParseFloatSpanned(Trimmed(s))
  OBVIOUS
<1>8. parsed = SpanOf(t) /\ ParseFloatSpanned(s) = SpanOf(u)
  BY <1>3, <1>7, Zenon DEF ParseFloatSpanned
<1>9. SpanOf(u) = SpanOf(t)
  <2>1. Spanned(t.negative, t.rest, Mantissa(t.rest), Exponent(t.rest, Mantissa(t.rest).len))
          = Spanned(t.negative, u.rest, Mantissa(u.rest), Exponent(u.rest, Mantissa(u.rest).len))
    <3>1. t.rest \in Seq(S)
      BY <1>6
    <3>2. u.rest \in Seq(S)
      BY <1>6
    <3>3. Padded(t.rest, u.rest)
      BY <1>6
    <3>4. \A negative :
            Spanned(negative, t.rest, Mantissa(t.rest), Exponent(t.rest, Mantissa(t.rest).len))
              = Spanned(negative, u.rest, Mantissa(u.rest), Exponent(u.rest, Mantissa(u.rest).len))
      BY <3>1, <3>2, <3>3, PaddedSpan
    <3> QED
      BY <3>4
  <2> QED
    BY <1>6, <2>1
<1>10. PICK n, value : n = Whole(t.rest) /\ value = Number(SubSeq(t.rest, 1, n))
  OBVIOUS
<1>11. n \in Nat /\ value \in Nat
  <2>1. Whole(t.rest) \in Nat /\ Part(t.rest) \in Nat
    BY <1>6, LenProperties, PartsInPlace
  <2>2. \E m \in Nat : value = Shortened(m, Part(t.rest))
    BY <1>6, <1>10, MantissaFigures
  <2> QED
    BY <1>10, <2>1, <2>2, ShortenedIs
<1>12. n > 0 /\ Sym(t.rest, n) \notin Marks /\ value <= UMax => parsed[1] = Decimal(t.negative, value, 0)
  BY <1>6, <1>8, <1>10, <1>11, FloatReads
<1>13. ClassifyNumeric(s) = IF s = ButTrue THEN <<Integer(0), FALSE>> ELSE NumberIn(t, n, value, parsed)
  BY <1>3, <1>7, <1>10, Zenon DEF ClassifyNumeric, Whole
<1> HIDE DEF SpanOf
<1>14. CASE s = ButTrue
  <2>1. ClassifyNumeric(s)[1] = Integer(0)
    BY <1>13, <1>14
  <2>2. NumberToFloat(Integer(0)) = Decimal(FALSE, 0, 0)
    BY DEF NumberToFloat, Integer
  <2>3. ParseFloatSpanned(s)[1] = Decimal(FALSE, 0, 0)
    <3>1. /\ s \in Seq({"0", Excused}) /\ x = s /\ Body(s) = s /\ Sym(s, 0) = "0" /\ Sym(s, 1) = Excused
          /\ Whole(s) = 1 /\ Number(SubSeq(s, 1, 1)) = 0
      BY <1>1, <1>14, ButTrueReads
    <3>2. Excused \notin Marks /\ "0" # "-"
      BY Zenon DEF Marks, Excused
    <3>3. 0 <= UMax
      BY WidthsAre
    <3>4. Spanned(FALSE, s, Mantissa(s), Exponent(s, Mantissa(s).len))[1]
            = Decimal(FALSE, Number(SubSeq(s, 1, 1)), 0)
      <4>1. PICK one \in Nat : one = 1 /\ one > 0
        OBVIOUS
      <4>2. PICK T : T = {"0", Excused} /\ s \in Seq(T)
        BY <3>1
      <4>3. one = Whole(s) /\ Sym(s, one) \notin Marks /\ Number(SubSeq(s, 1, one)) <= UMax
        BY <3>1, <3>2, <3>3, <4>1
      <4>4. Spanned(FALSE, s, Mantissa(s), Exponent(s, Mantissa(s).len))[1]
              = Decimal(FALSE, Number(SubSeq(s, 1, one)), 0)
        BY <4>1, <4>2, <4>3, FloatReads
      <4> QED
        BY <4>1, <4>4
    <3>5. u.rest = s /\ u.negative = FALSE
      BY <1>4, <3>1, <3>2
    <3> QED
      BY <1>8, <3>1, <3>4, <3>5 DEF SpanOf
  <2> QED
    BY <2>1, <2>2, <2>3
<1>15. CASE s # ButTrue
  <2>1. ClassifyNumeric(s) = NumberIn(t, n, value, parsed)
    BY <1>13, <1>15
  <2>2. ~(t.negative /\ NumberIn(t, n, value, parsed)[1] = Integer(0))
    BY <1>3, <1>6, <2>1 DEF NegativeZero
  <2>3. parsed[1] = NumberToFloat(NumberIn(t, n, value, parsed)[1])
    <3>1. t.negative \in BOOLEAN /\ value \in Nat
      BY <1>4, <1>11
    <3> QED
      BY <1>12, <2>2, <3>1, NumberFloats
  <2> QED
    BY <1>8, <1>9, <2>1, <2>3
<1> QED
  BY <1>14, <1>15
-----------------------------------------------------------------------------
(* The faces of one value.                                                 *)

Agrees(v) ==
  /\ ToBool(v) = Truth(Stringify(v))
  /\ ToFloat(v) = NumberToFloat(Numify(v))
  /\ \/ v.kind = "String" /\ ~Exact(Stringify(v))
     \/ ToInt(v) = NumberToInt(Numify(v))

(* The faces of one well-built value agree.                                *)
LEMMA ValueAgrees ==
  ASSUME WidthAssumption, ValuesAssumption, StringsAssumption,
         NEW v, WellBuilt(v), Names(v), v.kind \notin Aliases
  PROVE  Agrees(v)
<1>1. CASE v.kind = "String"
  <2>1. v.s \in Seq(ToSet(v.s)) /\ ~NegativeZero(v.s)
    BY <1>1 DEF WellBuilt, StringsAssumption
  <2>2. ToBool(v) = Truth(v.s) /\ Stringify(v) = v.s
    BY <1>1 DEF ToBool, Stringify
  <2>3. /\ ToFloat(v) = ParseFloatSpanned(v.s)[1] /\ ToInt(v) = ParseInt(v.s)
        /\ Numify(v) = ClassifyNumeric(v.s)[1]
    BY <1>1 DEF ToFloat, ToInt, Numify
  <2>4. ParseFloatSpanned(v.s)[1] = NumberToFloat(ClassifyNumeric(v.s)[1])
    BY <2>1, OneFloat
  <2>5. Exact(v.s) => NumberToInt(ClassifyNumeric(v.s)[1]) = ParseInt(v.s)
    BY <2>1, ExactIs, OneInteger
  <2> QED
    BY <1>1, <2>2, <2>3, <2>4, <2>5 DEF Agrees
<1>2. ASSUME v.kind # "String"
      PROVE  ToFloat(v) = NumberToFloat(Numify(v)) /\ ToInt(v) = NumberToInt(Numify(v))
  BY <1>2 DEF ToFloat, ToInt
<1>3. CASE v.kind = "Dual"
  <2>1. ToBool(v) = Truth(v.s) /\ Stringify(v) = v.s
    BY <1>3 DEF ToBool, Stringify
  <2> QED
    BY <1>2, <1>3, <2>1 DEF Agrees
<1>4. CASE v.kind = "Number"
  <2>1. PICK x, d : x = v.x /\ d = v.digits
    OBVIOUS
  <2>2. IsNumber(x) /\ d \in {Empty, Filled(x)}
    BY <1>4, <2>1 DEF WellBuilt
  <2>3. ToBool(v) = ~IsZero(x)
    BY <1>4, <2>1 DEF ToBool
  <2>4. Stringify(v) = Render(x, d)
    BY <1>4, <2>1 DEF Stringify
  <2>5. ToBool(v) = Truth(Stringify(v))
    BY <2>2, <2>3, <2>4, NumberTruth
  <2> QED
    BY <1>2, <1>4, <2>5 DEF Agrees
<1>5. CASE v.kind \in {"Undef", "False"}
  <2>1. ToBool(v) = FALSE /\ Stringify(v) = <<>>
    BY <1>5 DEF ToBool, Stringify
  <2>2. Truth(<<>>) = FALSE
    BY DEF Truth
  <2> QED
    BY <1>2, <1>5, <2>1, <2>2 DEF Agrees
<1>6. CASE v.kind = "True"
  <2>1. ToBool(v) = TRUE /\ Stringify(v) = <<"1">>
    BY <1>6 DEF ToBool, Stringify
  <2>2. "1" \in Written /\ "1" # "0"
    BY DEF Written
  <2>3. Showy(<<"1">>)
    BY <2>2, OneWritten DEF Showy
  <2>4. Truth(<<"1">>) = TRUE
    BY <2>3, ShowyIsTrue DEF Truth
  <2> QED
    BY <1>2, <1>6, <2>1, <2>4 DEF Agrees
<1>7. CASE v.kind \in References
  <2>1. v.cell \in Int
    <3>1. v.cell \in Cells
      BY <1>7 DEF Names, References
    <3>2. \A c \in Cells : c \in Int
      BY DEF ValuesAssumption
    <3> QED
      BY <3>1, <3>2, Zenon
  <2>2. ToBool(v) = TRUE /\ Stringify(v) = <<"SCALAR(0x", ")">> \o FormatInt(v.cell)
    BY <1>7 DEF ToBool, Stringify, References
  <2>3. "SCALAR(0x" \in Written /\ ")" \in Written
    BY DEF Written
  <2>4. PICK name : name = <<"SCALAR(0x", ")">>
    OBVIOUS
  <2>5. Chain(name) /\ Len(name) = 2
    BY <2>3, <2>4, TwoWritten
  <2>6. PICK address : address = FormatInt(v.cell)
    OBVIOUS
  <2>7. Chain(address)
    BY <2>1, <2>6, IntegerShows
  <2>8. Len(name) + Len(address) >= 2
    <3>1. Len(address) \in Nat
      BY <2>7, LenProperties DEF Chain
    <3> QED
      BY <2>5, <3>1
  <2>9. Showy(name \o address)
    BY <2>5, <2>7, <2>8, Joined
  <2>10. Truth(Stringify(v)) = TRUE
    BY <2>2, <2>4, <2>6, <2>9, ShowyIsTrue DEF Truth
  <2> QED
    BY <1>2, <1>7, <2>2, <2>10 DEF Agrees, References
<1>8. v.kind \in {"Undef", "True", "False", "String", "Dual", "Number"} \cup References
  BY DEF WellBuilt, Kinds
<1> QED
  BY <1>1, <1>3, <1>4, <1>5, <1>6, <1>7, <1>8

(* What every slot answers agrees.                                         *)
LEMMA SlotsAgree ==
  ASSUME WidthAssumption, ValuesAssumption, StringsAssumption, IInv
  PROVE  FacesAgree
<1>1. SUFFICES ASSUME NEW i \in Slots PROVE Agrees(Resolved(slot[i]))
  BY DEF FacesAgree, Agrees
<1>2. CASE slot[i].kind \in Aliases
  <2>1. slot[i].cell \in Cells
    BY <1>2 DEF IInv, SlotsRight, Names, Aliases
  <2>2. Resolved(slot[i]) = cell[slot[i].cell].payload
    BY <1>2 DEF Resolved
  <2> QED
    BY <2>1, <2>2, ValueAgrees DEF IInv, CellsRight
<1>3. CASE slot[i].kind \notin Aliases
  <2>1. Resolved(slot[i]) = slot[i]
    BY <1>3 DEF Resolved
  <2> QED
    BY <1>3, <2>1, ValueAgrees DEF IInv, SlotsRight
<1> QED
  BY <1>2, <1>3

(* The faces of a value agree, however it is held, for every width of the  *)
(* integers and every limit of the floats: the truth of a number is that   *)
(* of the string it renders as, from its cached digits or without, and a   *)
(* slot of it answers as the value does.  A string's float and integer are *)
(* those of the number it is classified as, exponents and words apart;     *)
(* only the sign of a zero is lost, so negative zeros are not put in       *)
(* (value.rs, the contracts of the module's header).                       *)
THEOREM FacesAlwaysAgree ==
  ASSUME WidthAssumption, ValuesAssumption, StringsAssumption
  PROVE  Spec => []FacesAgree
<1>1. IInv => FacesAgree
  BY SlotsAgree
<1> QED
  BY <1>1, Invariance, PTL

KeepsFaces ==
  \A i \in Slots : \A was \in {Resolved(slot[i])} : \A v \in {Resolved(slot[i])'} :
    op'[1] \in {"take_ref", "freeze", "note", "cache"} /\ op'[2] # i /\ v # was
      => \/ Faces(v) = Faces(was)
         \/ /\ op'[1] = "note" /\ ~Exact(Stringify(was))
            /\ Faces(v) = IntegerOfNumber(was)

(* The operations that change how a value is held change no answer, but    *)
(* for the integer of a string with an exponent or a word that is noted.   *)
LEMMA StepKeepsFaces ==
  ASSUME ValuesAssumption, IInv, FacesAgree, Next
  PROVE  KeepsFaces
<1>1. SUFFICES ASSUME NEW k \in Slots, op'[1] \in {"take_ref", "freeze", "note", "cache"}, op'[2] # k
               PROVE  \/ Resolved(slot[k])' = Resolved(slot[k])
                      \/ Faces(Resolved(slot[k])') = Faces(Resolved(slot[k]))
                      \/ /\ op'[1] = "note" /\ ~Exact(Stringify(Resolved(slot[k])))
                         /\ Faces(Resolved(slot[k])') = IntegerOfNumber(Resolved(slot[k]))
  BY DEF KeepsFaces
<1>2. PICK i \in Slots :
        \/ \E v \in Births : Put(i, v) \/ Assign(i, v)
        \/ \E j \in Slots : Copy(i, j) \/ TakeRef(i, j)
        \/ Freeze(i) \/ Note(i) \/ WithCachedDigits(i)
  BY DEF Next
<1>3. CASE \E v \in Births : Put(i, v) \/ Assign(i, v)
  BY <1>1, <1>3 DEF Put, Assign, Did
<1>4. CASE \E j \in Slots : Copy(i, j)
  BY <1>1, <1>4 DEF Copy, Did
<1>5. CASE \E j \in Slots : TakeRef(i, j)
  <2>1. PICK j \in Slots : TakeRef(i, j)
    BY <1>5
  <2>2. k # j
    BY <1>1, <2>1 DEF TakeRef, Did
  <2> QED
    BY <2>1, <2>2, TakeRefAnswers
<1>6. CASE Freeze(i)
  BY <1>6, FreezeAnswers
<1>7. CASE Note(i)
  <2> DEFINE c == slot[i].cell
             p == cell[c].payload
             v == DualValue(p.s, ClassifyNumeric(p.s)[1], p.tainted)
  <2>1. slot[i].kind = "AliasMut" /\ p = Resolved(slot[i])
    BY <1>7 DEF Note, Noting, Resolved, Aliases
  <2>2. /\ p.kind = "String" /\ cell' = [cell EXCEPT ![c].payload = v]
        /\ UNCHANGED <<slot, taken>> /\ op'[1] = "note"
    BY <1>7, <2>1 DEF Note, Noting, Did
  <2>3. ToFloat(p) = NumberToFloat(Numify(p))
    BY <2>1 DEF FacesAgree
  <2>4. c \in Cells
    BY <2>1 DEF IInv, SlotsRight, Names
  <2>5. v.kind = "Dual"
    BY DEF DualValue
  <2>6. v.kind \notin Aliases /\ Names(v) /\ WellBuilt(v)
    BY <2>5 DEF Aliases, Names, WellBuilt, Kinds, References
  <2> HIDE DEF v
  <2>7. \A d \in Cells : cell'[d] = IF d = c THEN CellAt(cell[c].form, v) ELSE cell[d]
    BY <2>2, <2>4, <2>6, PayloadKeeps
  <2>8. cell'[c].payload = v
    BY <2>4, <2>7 DEF CellAt
  <2>9. CASE slot[k].kind \in Aliases /\ slot[k].cell = c
    <3>1. Resolved(slot[k])' = v /\ Resolved(slot[k]) = p
      BY <2>2, <2>8, <2>9 DEF Resolved
    <3>2. Faces(v) = IntegerOfNumber(p)
      BY <2>2, <2>3, NotedFaces DEF v
    <3>3. Exact(Stringify(p)) => IntegerOfNumber(p) = Faces(p)
      <4>1. (p.kind = "String" /\ ~Exact(Stringify(p))) \/ ToInt(p) = NumberToInt(Numify(p))
        BY <2>1 DEF FacesAgree
      <4> QED
        BY <4>1, SameInteger
    <3> QED
      BY <2>2, <3>1, <3>2, <3>3
  <2>10. CASE ~(slot[k].kind \in Aliases /\ slot[k].cell = c)
    <3>1. slot[k].kind \in Aliases => slot[k].cell \in Cells
      BY DEF IInv, SlotsRight, Names, Aliases
    <3>2. Resolved(slot[k])' = Resolved(slot[k])
      BY <2>2, <2>7, <2>10, <3>1, SameAnswer
    <3> QED
      BY <3>2
  <2> QED
    BY <2>9, <2>10
<1>8. CASE WithCachedDigits(i)
  <2>1. /\ UNCHANGED <<cell, taken>> /\ slot[i].kind = "Number"
        /\ slot'[i] = NumberOf(slot[i].tainted, slot[i].x, Filled(slot[i].x))
        /\ \A j \in Slots : j # i => slot'[j] = slot[j]
    BY <1>8, CacheIs
  <2>2. CASE k # i
    BY <2>1, <2>2, SameAnswer
  <2>3. CASE k = i
    <3>1. PICK t, x, d : t = slot[i].tainted /\ x = slot[i].x /\ d = slot[i].digits
      OBVIOUS
    <3>2. IsNumber(x) /\ d \in {Empty, Filled(x)} /\ slot[i] = NumberOf(t, x, d)
      BY <2>1, <3>1 DEF IInv, SlotsRight, WellBuilt
    <3>3. Resolved(slot[i]) = NumberOf(t, x, d)
      BY <2>1, <3>2 DEF Resolved, Aliases
    <3>4. Resolved(slot[i])' = NumberOf(t, x, Filled(x))
      <4>1. slot'[i].kind = "Number"
        BY <2>1 DEF NumberOf
      <4> QED
        BY <2>1, <3>1, <4>1 DEF Resolved, Aliases
    <3>5. Faces(NumberOf(t, x, d)) = Faces(NumberOf(t, x, Filled(x)))
      BY <3>2, NumberFaces
    <3> QED
      BY <2>3, <3>3, <3>4, <3>5
  <2> QED
    BY <2>2, <2>3
<1> QED
  BY <1>2, <1>3, <1>4, <1>5, <1>6, <1>7, <1>8

(* Promoting a slot, freezing it and caching its digits change no answer   *)
(* of any slot.  Noting a warning keeps the number the string was          *)
(* classified as and parses no more: every answer stays but the integer of *)
(* a string with an exponent or a word, "1e3x", which is the number's from *)
(* then on; and no negative zero is put in, whose float would lose the     *)
(* sign (scalar.rs, numify_noting_warning; value.rs,                       *)
(* parse_int_i64_visible).                                                 *)
THEOREM AnswersAreKept ==
  ASSUME WidthAssumption, ValuesAssumption, StringsAssumption
  PROVE  Spec => FacesKept
<1>1. IInv /\ FacesAgree /\ [Next]_vars => [KeepsFaces]_vars
  BY StepKeepsFaces
<1>2. Spec => [][KeepsFaces]_vars
  BY <1>1, Invariance, FacesAlwaysAgree, PTL DEF Spec
<1> QED
  BY <1>2 DEF FacesKept, KeepsFaces
=============================================================================
