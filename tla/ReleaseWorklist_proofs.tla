------------------------ MODULE ReleaseWorklist_proofs ------------------------
(***************************************************************************)
(* Proofs about ReleaseWorklist, for any threads, nodes and references:    *)
(* native frames do not nest, every value is in one place until it is      *)
(* dropped, and the strong counts are exact.                               *)
(***************************************************************************)
EXTENDS ReleaseWorklist, FiniteSetTheorems, SequenceTheorems, TLAPS

-----------------------------------------------------------------------------
(* The inductive invariant.                                                *)

(* What may stand in a thread's native frames, and on which frame.  A      *)
(* frame that drops is the innermost; a drain loop runs in the outermost   *)
(* frame that releases, and nothing it calls starts another.               *)
FrameShape(s, i) ==
  /\ s[i].op = "drop" => i = Len(s) /\ \E r \in Refs : s[i].rest = {r}
  /\ s[i].op = "tear" <=> s[i].node # None
  /\ s[i].op \in {"drop", "tear"} => i = 1 \/ s[i - 1].op \in {"clear", "drain"}
  /\ s[i].op \in {"clear", "release"} => i = 1
  /\ s[i].op = "drain" => /\ s[i].rest = {} /\ i > 1 /\ Len(s) <= i + 1
                          /\ s[i - 1].op \in {"tear", "release"}
                          /\ i = 2 \/ (i = 3 /\ s[1].op = "clear" /\ s[2].op = "tear")

Shape(s, d, p) ==
  /\ Len(s) <= 4
  /\ \A i \in 1..Len(s) : FrameShape(s, i)
  /\ d <=> \E i \in 1..Len(s) : s[i].op = "drain"
  /\ p # <<>> => d

StackShape == \A t \in Owners : Shape(stack[t], draining[t], pending[t])

(* The places values are in, and the values in each.                       *)
Slot(n) == <<"slot", n, 0>>
Hand(t) == <<"hand", t, 0>>
Listed(t, i) == <<"pending", t, i>>
Framed(t, i) == <<"frame", t, i>>
Spots == ({"slot"} \X Nodes \X {0}) \cup ({"hand"} \X Owners \X {0})
           \cup ({"pending", "frame"} \X Owners \X (Nat \ {0}))

ListedAt(p, i) == IF i \in 1..Len(p) THEN {p[i]} ELSE {}
RestAt(s, i) == IF i \in 1..Len(s) THEN s[i].rest ELSE {}
Held == [p \in Spots |-> IF p[1] = "slot" THEN slots[p[2]]
                         ELSE IF p[1] = "hand" THEN hands[p[2]]
                         ELSE IF p[1] = "pending" THEN ListedAt(pending[p[2]], p[3])
                         ELSE RestAt(stack[p[2]], p[3])]

Split(S, H) == \A p, q \in S : p # q => H[p] \cap H[q] = {}

(* A value is in one place at most, and in one exactly if it is there.     *)
Apart ==
  /\ Split(Spots, Held)
  /\ \A r \in Refs : target[r] # None <=> \E p \in Spots : r \in Held[p]

(* Whether frame i of s tears n down.                                      *)
TearsAt(s, i, n) == i \in 1..Len(s) /\ s[i].op = "tear" /\ s[i].node = n

(* A node that is being torn down is allocated, has no reference left, and *)
(* is torn down once.                                                      *)
TornApart ==
  \A n \in Nodes, t \in Owners, i \in Nat : TearsAt(stack[t], i, n) =>
    /\ n \in live /\ strong[n] = 0
    /\ \A u \in Owners, j \in Nat : TearsAt(stack[u], j, n) => u = t /\ j = i

(* The first two are about the constants only.                             *)
IInv ==
  /\ NoneAssumption /\ FiniteAssumption
  /\ GraphTypeOK
  /\ StackShape
  /\ Apart
  /\ TornApart
  /\ CountsExact

-----------------------------------------------------------------------------
(* Sequences used as stacks.                                               *)

(* What is left when the last element goes.                                *)
LEMMA PopFacts ==
  ASSUME NEW S, NEW s \in Seq(S), s # <<>>
  PROVE  /\ Len(s) \in Nat \ {0} /\ s[Len(s)] \in S
         /\ SubSeq(s, 1, Len(s) - 1) \in Seq(S)
         /\ Len(SubSeq(s, 1, Len(s) - 1)) = Len(s) - 1
         /\ \A i \in 1..(Len(s) - 1) : SubSeq(s, 1, Len(s) - 1)[i] = s[i]
<1>1. Len(s) \in Nat \ {0}
  BY EmptySeq
<1>2. \A i \in 1..Len(s) : s[i] \in S
  BY ElementOfSeq
<1> DEFINE b == SubSeq(s, 1, Len(s) - 1)
<1>3. /\ b \in Seq(S)
      /\ Len(b) = IF 1 <= Len(s) - 1 THEN (Len(s) - 1) - 1 + 1 ELSE 0
      /\ \A i \in 1..((Len(s) - 1) - 1 + 1) : b[i] = s[1 + i - 1]
  <2> HIDE DEF b
  <2>1. \A i \in 1..(Len(s) - 1) : s[i] \in S
    BY <1>1, <1>2
  <2> QED
    BY <1>1, <2>1, SubSeqProperties DEF b
<1>4. Len(b) = Len(s) - 1
  <2>1. \A k \in Nat \ {0} : (IF 1 <= k - 1 THEN (k - 1) - 1 + 1 ELSE 0) = k - 1
    OBVIOUS
  <2> HIDE DEF b
  <2> QED
    BY <1>1, <1>3, <2>1
<1>5. ASSUME NEW i \in 1..(Len(s) - 1) PROVE b[i] = s[i]
  <2>1. i \in 1..((Len(s) - 1) - 1 + 1) /\ 1 + i - 1 = i
    BY <1>1
  <2> QED
    BY <1>3, <2>1
<1> QED
  BY <1>1, <1>2, <1>3, <1>4, <1>5

(* What is there when an element comes.                                    *)
LEMMA PushFacts ==
  ASSUME NEW S, NEW s \in Seq(S), NEW e \in S
  PROVE  /\ Len(s) \in Nat
         /\ Append(s, e) \in Seq(S) /\ Append(s, e) # <<>>
         /\ Len(Append(s, e)) = Len(s) + 1
         /\ Append(s, e)[Len(s) + 1] = e
         /\ \A i \in 1..Len(s) : Append(s, e)[i] = s[i]
BY AppendProperties, LenProperties

-----------------------------------------------------------------------------
(* How each step leaves the frames of its thread.                          *)

(* The frames of t below the innermost are as they were, n of them.        *)
Kept(t, n) == \A i \in 1..n : stack'[t][i] = stack[t][i]
(* The frames of every other thread are.                                   *)
Elsewhere(t) == \A u \in Owners : u # t => stack'[u] = stack[u]

LEMMA StackTypes ==
  ASSUME GraphTypeOK, NEW t \in Owners
  PROVE  /\ Len(stack[t]) \in Nat
         /\ stack[t] = <<>> <=> Len(stack[t]) = 0
         /\ \A i \in 1..Len(stack[t]) : stack[t][i] \in Frames
         /\ Len(pending[t]) \in Nat
         /\ pending[t] = <<>> <=> Len(pending[t]) = 0
         /\ \A i \in 1..Len(pending[t]) : pending[t][i] \in Refs
<1>1. stack[t] \in Seq(Frames) /\ pending[t] \in Seq(Refs)
  BY DEF GraphTypeOK
<1> QED
  BY <1>1, EmptySeq, ElementOfSeq, LenProperties

LEMMA LetGoStack ==
  ASSUME GraphTypeOK, NEW t \in Owners, NEW r \in Refs, LetGo(t, r), target[r] \in Nodes
  PROVE  LET n == Len(stack[t]) IN
         /\ n \in Nat \ {0} /\ stack[t][n] \in Frames /\ Elsewhere(t)
         /\ stack'[t] \in Seq(Frames) /\ Kept(t, n - 1)
         /\ IF strong[target[r]] = 1
            THEN Len(stack'[t]) = n /\ stack'[t][n] = Frame("tear", target[r], slots[target[r]])
            ELSE Len(stack'[t]) = n - 1
<1> DEFINE n == Len(stack[t])
           f == Frame("tear", target[r], slots[target[r]])
<1>1. stack \in [Owners -> Seq(Frames)] /\ stack[t] # <<>> /\ f \in Frames
  BY DEF GraphTypeOK, LetGo, In, Frame, Frames
<1>2. /\ n \in Nat \ {0} /\ stack[t][n] \in Frames /\ Below(t) \in Seq(Frames)
      /\ Len(Below(t)) = n - 1 /\ \A i \in 1..(n - 1) : Below(t)[i] = stack[t][i]
  BY <1>1, PopFacts DEF Below
<1>3. /\ Append(Below(t), f) \in Seq(Frames) /\ Len(Append(Below(t), f)) = n
      /\ Append(Below(t), f)[n] = f
      /\ \A i \in 1..(n - 1) : Append(Below(t), f)[i] = stack[t][i]
  BY <1>1, <1>2, PushFacts
<1>4. /\ stack'[t] = IF strong[target[r]] = 1 THEN Append(Below(t), f) ELSE Below(t)
      /\ Elsewhere(t)
  BY <1>1 DEF LetGo, Elsewhere
<1> QED
  BY <1>2, <1>3, <1>4 DEF Kept

LEMMA ReleaseStack ==
  ASSUME GraphTypeOK, NEW t \in Owners, NEW r \in Refs, Release(t, r)
  PROVE  LET n == Len(stack[t]) IN
         /\ n \in Nat \ {0} /\ stack[t][n] \in Frames /\ Elsewhere(t)
         /\ stack'[t] \in Seq(Frames) /\ Kept(t, n - 1)
         /\ stack'[t][n] = [stack[t][n] EXCEPT !.rest = @ \ {r}]
         /\ IF draining[t] THEN Len(stack'[t]) = n
            ELSE Len(stack'[t]) = n + 1 /\ stack'[t][n + 1] = Frame("drain", None, {})
<1> DEFINE n == Len(stack[t])
           e == [stack[t][n] EXCEPT !.rest = @ \ {r}]
           f == Frame("drain", None, {})
<1>1. stack \in [Owners -> Seq(Frames)] /\ stack[t] # <<>> /\ f \in Frames
  BY DEF GraphTypeOK, Release, In, Frame, Frames
<1>2. /\ n \in Nat \ {0} /\ stack[t][n] \in Frames /\ Below(t) \in Seq(Frames)
      /\ Len(Below(t)) = n - 1 /\ \A i \in 1..(n - 1) : Below(t)[i] = stack[t][i]
  BY <1>1, PopFacts DEF Below
<1>3. e \in Frames
  BY <1>2 DEF Frames
<1>4. /\ Append(Below(t), e) \in Seq(Frames) /\ Len(Append(Below(t), e)) = n
      /\ Append(Below(t), e)[n] = e
      /\ \A i \in 1..(n - 1) : Append(Below(t), e)[i] = stack[t][i]
  BY <1>2, <1>3, PushFacts
<1> DEFINE g == Append(Below(t), e)
<1>5. /\ Append(g, f) \in Seq(Frames) /\ Len(Append(g, f)) = n + 1
      /\ Append(g, f)[n + 1] = f
      /\ \A i \in 1..n : Append(g, f)[i] = g[i]
  BY <1>1, <1>4, PushFacts
<1>6. /\ stack'[t] = IF draining[t] THEN g ELSE Append(g, f)
      /\ Elsewhere(t)
  BY <1>1 DEF Release, Elsewhere, Top
<1> QED
  BY <1>2, <1>4, <1>5, <1>6 DEF Kept

LEMMA ClearNextStack ==
  ASSUME GraphTypeOK, NEW t \in Owners, NEW r \in Refs, ClearNext(t, r)
  PROVE  LET n == Len(stack[t]) IN
         /\ n \in Nat \ {0} /\ stack[t][n] \in Frames /\ Elsewhere(t)
         /\ stack'[t] \in Seq(Frames) /\ Kept(t, n - 1) /\ Len(stack'[t]) = n + 1
         /\ stack'[t][n] = [stack[t][n] EXCEPT !.rest = @ \ {r}]
         /\ stack'[t][n + 1] = Frame("drop", None, {r})
<1> DEFINE n == Len(stack[t])
           e == [stack[t][n] EXCEPT !.rest = @ \ {r}]
           f == Frame("drop", None, {r})
<1>1. stack \in [Owners -> Seq(Frames)] /\ stack[t] # <<>> /\ f \in Frames
  BY DEF GraphTypeOK, ClearNext, In, Frame, Frames
<1>2. /\ n \in Nat \ {0} /\ stack[t][n] \in Frames /\ Below(t) \in Seq(Frames)
      /\ Len(Below(t)) = n - 1 /\ \A i \in 1..(n - 1) : Below(t)[i] = stack[t][i]
  BY <1>1, PopFacts DEF Below
<1>3. e \in Frames
  BY <1>2 DEF Frames
<1>4. /\ Append(Below(t), e) \in Seq(Frames) /\ Len(Append(Below(t), e)) = n
      /\ Append(Below(t), e)[n] = e
      /\ \A i \in 1..(n - 1) : Append(Below(t), e)[i] = stack[t][i]
  BY <1>2, <1>3, PushFacts
<1> DEFINE g == Append(Below(t), e)
<1>5. /\ Append(g, f) \in Seq(Frames) /\ Len(Append(g, f)) = n + 1
      /\ Append(g, f)[n + 1] = f
      /\ \A i \in 1..n : Append(g, f)[i] = g[i]
  BY <1>1, <1>4, PushFacts
<1>6. stack'[t] = Append(g, f) /\ Elsewhere(t)
  BY <1>1 DEF ClearNext, Elsewhere, Top
<1> QED
  BY <1>2, <1>4, <1>5, <1>6 DEF Kept

(* A frame that returns.                                                   *)
LEMMA ReturnStack ==
  ASSUME GraphTypeOK, NEW t \in Owners, stack[t] # <<>>, stack' = [stack EXCEPT ![t] = Below(t)]
  PROVE  LET n == Len(stack[t]) IN
         /\ n \in Nat \ {0} /\ stack[t][n] \in Frames /\ Elsewhere(t)
         /\ stack'[t] \in Seq(Frames) /\ Kept(t, n - 1) /\ Len(stack'[t]) = n - 1
<1>1. stack \in [Owners -> Seq(Frames)]
  BY DEF GraphTypeOK
<1>2. stack'[t] = Below(t) /\ Elsewhere(t)
  BY <1>1 DEF Elsewhere
<1> QED
  BY <1>1, <1>2, PopFacts DEF Below, Kept

LEMMA PopStack ==
  ASSUME GraphTypeOK, NEW t \in Owners, Pop(t)
  PROVE  LET n == Len(stack[t])
             m == Len(pending[t])
         IN
         /\ n \in Nat \ {0} /\ stack[t][n] \in Frames /\ Elsewhere(t)
         /\ stack'[t] \in Seq(Frames) /\ Kept(t, n) /\ Len(stack'[t]) = n + 1
         /\ stack'[t][n + 1] = Frame("drop", None, {pending[t][m]})
         /\ m \in Nat \ {0} /\ pending[t][m] \in Refs
         /\ pending'[t] \in Seq(Refs) /\ Len(pending'[t]) = m - 1
         /\ \A i \in 1..(m - 1) : pending'[t][i] = pending[t][i]
         /\ \A u \in Owners : u # t => pending'[u] = pending[u]
<1> DEFINE n == Len(stack[t])
           m == Len(pending[t])
           f == Frame("drop", None, {pending[t][m]})
<1>1. /\ stack \in [Owners -> Seq(Frames)] /\ stack[t] # <<>>
      /\ pending \in [Owners -> Seq(Refs)] /\ pending[t] # <<>>
  BY DEF GraphTypeOK, Pop, In
<1>2. /\ m \in Nat \ {0} /\ pending[t][m] \in Refs /\ SubSeq(pending[t], 1, m - 1) \in Seq(Refs)
      /\ Len(SubSeq(pending[t], 1, m - 1)) = m - 1
      /\ \A i \in 1..(m - 1) : SubSeq(pending[t], 1, m - 1)[i] = pending[t][i]
  BY <1>1, PopFacts
<1>3. f \in Frames
  BY <1>2 DEF Frames, Frame
<1>4. n \in Nat \ {0} /\ stack[t][n] \in Frames
  BY <1>1, PopFacts
<1>5. /\ Append(stack[t], f) \in Seq(Frames) /\ Len(Append(stack[t], f)) = n + 1
      /\ Append(stack[t], f)[n + 1] = f
      /\ \A i \in 1..n : Append(stack[t], f)[i] = stack[t][i]
  BY <1>1, <1>3, PushFacts
<1>6. stack'[t] = Append(stack[t], f) /\ Elsewhere(t)
  BY <1>1 DEF Pop, Elsewhere
<1>7. /\ pending'[t] = SubSeq(pending[t], 1, m - 1)
      /\ \A u \in Owners : u # t => pending'[u] = pending[u]
  BY <1>1 DEF Pop
<1> QED
  BY <1>2, <1>4, <1>5, <1>6, <1>7 DEF Kept

(* A call that starts a teardown.                                          *)
LEMMA EnterStack ==
  ASSUME GraphTypeOK, NEW t \in Owners, Calls(t), NEW f \in Frames,
         stack' = [stack EXCEPT ![t] = <<f>>]
  PROVE  /\ Len(stack[t]) = 0 /\ stack'[t] \in Seq(Frames) /\ Len(stack'[t]) = 1 /\ stack'[t][1] = f
         /\ Elsewhere(t)
<1>1. stack \in [Owners -> Seq(Frames)] /\ stack[t] = <<>>
  BY DEF GraphTypeOK, Calls
<1> QED
  BY <1>1 DEF Elsewhere

-----------------------------------------------------------------------------
(* Types.                                                                  *)

(* What each place holds.                                                  *)
HeldAt ==
  /\ \A n \in Nodes : Slot(n) \in Spots /\ Held[Slot(n)] = slots[n]
  /\ \A t \in Owners : Hand(t) \in Spots /\ Held[Hand(t)] = hands[t]
  /\ \A t \in Owners, i \in Nat \ {0} :
       /\ Listed(t, i) \in Spots /\ Held[Listed(t, i)] = ListedAt(pending[t], i)
       /\ Framed(t, i) \in Spots /\ Held[Framed(t, i)] = RestAt(stack[t], i)

LEMMA HeldValues == HeldAt
<1>1. ASSUME NEW n \in Nodes PROVE Slot(n) \in Spots /\ Held[Slot(n)] = slots[n]
  <2>1. Slot(n) \in Spots /\ Slot(n)[1] = "slot" /\ Slot(n)[2] = n
    BY DEF Slot, Spots
  <2> QED
    BY <2>1 DEF Held
<1>2. ASSUME NEW t \in Owners PROVE Hand(t) \in Spots /\ Held[Hand(t)] = hands[t]
  <2>1. Hand(t) \in Spots /\ Hand(t)[1] = "hand" /\ Hand(t)[2] = t
    BY DEF Hand, Spots
  <2> QED
    BY <2>1 DEF Held
<1>3. ASSUME NEW t \in Owners, NEW i \in Nat \ {0}
      PROVE  /\ Listed(t, i) \in Spots /\ Held[Listed(t, i)] = ListedAt(pending[t], i)
             /\ Framed(t, i) \in Spots /\ Held[Framed(t, i)] = RestAt(stack[t], i)
  <2>1. Listed(t, i) \in Spots /\ Listed(t, i)[1] = "pending" /\ Listed(t, i)[2] = t /\ Listed(t, i)[3] = i
    BY DEF Listed, Spots
  <2>2. Framed(t, i) \in Spots /\ Framed(t, i)[1] = "frame" /\ Framed(t, i)[2] = t /\ Framed(t, i)[3] = i
    BY DEF Framed, Spots
  <2> QED
    BY <2>1, <2>2 DEF Held
<1> QED
  BY <1>1, <1>2, <1>3 DEF HeldAt

LEMMA HeldNext == HeldAt'
BY HeldValues, PTL

(* There are no other places.                                              *)
LEMMA SpotKinds ==
  ASSUME NEW p \in Spots
  PROVE  \/ \E n \in Nodes : p = Slot(n)
         \/ \E t \in Owners : p = Hand(t)
         \/ \E t \in Owners, i \in Nat \ {0} : p = Listed(t, i)
         \/ \E t \in Owners, i \in Nat \ {0} : p = Framed(t, i)
<1>1. CASE p \in {"slot"} \X Nodes \X {0}
  BY <1>1 DEF Slot
<1>2. CASE p \in {"hand"} \X Owners \X {0}
  BY <1>2 DEF Hand
<1>3. CASE p \in {"pending", "frame"} \X Owners \X (Nat \ {0})
  BY <1>3 DEF Listed, Framed
<1> QED
  BY <1>1, <1>2, <1>3 DEF Spots

(* What a frame is about to drop refers to a node that counts it.          *)
LEMMA LetGoTarget ==
  ASSUME IInv, NEW t \in Owners, NEW r \in Refs, LetGo(t, r)
  PROVE  target[r] \in Nodes /\ strong[target[r]] \in Nat \ {0} /\ r \in Referrers(target[r])
<1>1. /\ Len(stack[t]) \in Nat \ {0} /\ Len(stack[t]) \in 1..Len(stack[t])
      /\ r \in stack[t][Len(stack[t])].rest
  BY StackTypes DEF IInv, LetGo, In, Top
<1>2. Framed(t, Len(stack[t])) \in Spots /\ r \in Held[Framed(t, Len(stack[t]))]
  BY <1>1, HeldValues DEF HeldAt, RestAt
<1>3. target[r] \in Nodes
  BY <1>2 DEF IInv, Apart, GraphTypeOK
<1>4. IsFiniteSet(Referrers(target[r])) /\ r \in Referrers(target[r])
  BY <1>3, FS_Subset DEF Referrers, IInv, FiniteAssumption
<1>5. Cardinality(Referrers(target[r])) # 0
  BY <1>4, FS_EmptySet
<1> QED
  BY <1>3, <1>4, <1>5 DEF IInv, CountsExact, GraphTypeOK

(* What a program reaches is there.                                        *)
LEMMA CloneTarget ==
  ASSUME IInv, NEW t \in Owners, NEW s \in Refs, NEW r \in Refs, Clone(t, s, r)
  PROVE  target[s] \in Nodes /\ s \in Referrers(target[s]) /\ strong[target[s]] > 0
<1>1. \E p \in Spots : s \in Held[p]
  BY HeldValues DEF HeldAt, Clone
<1>2. target[s] \in Nodes /\ s \in Referrers(target[s])
  BY <1>1 DEF IInv, Apart, GraphTypeOK, Referrers
<1>3. IsFiniteSet(Referrers(target[s]))
  BY <1>2, FS_Subset DEF Referrers, IInv, FiniteAssumption
<1>4. Cardinality(Referrers(target[s])) # 0 /\ Cardinality(Referrers(target[s])) \in Nat
  BY <1>2, <1>3, FS_EmptySet, FS_CardinalityType
<1> QED
  BY <1>2, <1>4 DEF IInv, CountsExact

LEMMA TypeStep ==
  ASSUME IInv, [GraphNext]_graphVars
  PROVE  GraphTypeOK'
<1>0. GraphTypeOK
  BY DEF IInv
<1>1. CASE UNCHANGED graphVars
  BY <1>0, <1>1 DEF GraphTypeOK, graphVars
<1>2. ASSUME NEW t \in Owners, NEW n \in Nodes, NEW r \in Refs, New(t, n, r) PROVE GraphTypeOK'
  BY <1>0, <1>2 DEF GraphTypeOK, New
<1>3. ASSUME NEW t \in Owners, NEW s \in Refs, NEW r \in Refs, Clone(t, s, r) PROVE GraphTypeOK'
  <2>1. target[s] \in Nodes
    BY <1>3, CloneTarget
  <2>2. strong[target[s]] + 1 \in Nat
    BY <1>0, <2>1 DEF GraphTypeOK
  <2> QED
    BY <1>0, <1>3, <2>1, <2>2 DEF GraphTypeOK, Clone
<1>4. ASSUME NEW t \in Owners, NEW n \in Nodes, NEW r \in Refs, StoreIn(t, n, r) PROVE GraphTypeOK'
  BY <1>0, <1>4 DEF GraphTypeOK, StoreIn
<1>5. ASSUME NEW t \in Owners, NEW u \in Owners, NEW r \in Refs, Give(t, u, r) PROVE GraphTypeOK'
  BY <1>0, <1>5 DEF GraphTypeOK, Give
<1>6. ASSUME NEW t \in Owners, NEW r \in Refs, DropHand(t, r) PROVE GraphTypeOK'
  <2>1. Frame("drop", None, {r}) \in Frames
    BY DEF Frame, Frames
  <2>2. stack' \in [Owners -> Seq(Frames)]
    BY <1>0, <1>6, <2>1 DEF DropHand, GraphTypeOK
  <2> QED
    BY <1>0, <1>6, <2>2 DEF GraphTypeOK, DropHand
<1>7. ASSUME NEW t \in Owners, NEW n \in Nodes, NEW r \in Refs, Overwrite(t, n, r) PROVE GraphTypeOK'
  <2>1. Frame("drop", None, {r}) \in Frames
    BY DEF Frame, Frames
  <2>2. stack' \in [Owners -> Seq(Frames)]
    BY <1>0, <1>7, <2>1 DEF Overwrite, GraphTypeOK
  <2> QED
    BY <1>0, <1>7, <2>2 DEF GraphTypeOK, Overwrite
<1>8. ASSUME NEW t \in Owners, NEW n \in Nodes, Clear(t, n) PROVE GraphTypeOK'
  <2>1. \A op \in {"clear", "release"} : Frame(op, None, slots[n]) \in Frames
    BY <1>0 DEF Frame, Frames, GraphTypeOK
  <2>2. stack' \in [Owners -> Seq(Frames)]
    BY <1>0, <1>8, <2>1 DEF Clear, GraphTypeOK
  <2> QED
    BY <1>0, <1>8, <2>2 DEF GraphTypeOK, Clear
<1>9. ASSUME NEW t \in Owners, NEW r \in Refs, LetGo(t, r) PROVE GraphTypeOK'
  <2>1. stack'[t] \in Seq(Frames) /\ Elsewhere(t) /\ target[r] \in Nodes /\ strong[target[r]] \in Nat \ {0}
    BY <1>0, <1>9, LetGoStack, LetGoTarget
  <2>2. stack' \in [Owners -> Seq(Frames)]
    BY <1>0, <1>9, <2>1 DEF LetGo, GraphTypeOK
  <2> QED
    BY <1>0, <1>9, <2>1, <2>2 DEF GraphTypeOK, LetGo
<1>10. ASSUME NEW t \in Owners, NEW r \in Refs, Release(t, r) PROVE GraphTypeOK'
  <2>1. stack'[t] \in Seq(Frames)
    BY <1>0, <1>10, ReleaseStack
  <2>2. stack' \in [Owners -> Seq(Frames)]
    BY <1>0, <1>10, <2>1 DEF Release, GraphTypeOK
  <2>3. Append(pending[t], r) \in Seq(Refs)
    BY <1>0, PushFacts DEF GraphTypeOK
  <2> QED
    BY <1>0, <1>10, <2>2, <2>3 DEF GraphTypeOK, Release, valueVars
<1>11. ASSUME NEW t \in Owners, NEW r \in Refs, ClearNext(t, r) PROVE GraphTypeOK'
  <2>1. stack'[t] \in Seq(Frames)
    BY <1>0, <1>11, ClearNextStack
  <2>2. stack' \in [Owners -> Seq(Frames)]
    BY <1>0, <1>11, <2>1 DEF ClearNext, GraphTypeOK
  <2> QED
    BY <1>0, <1>11, <2>2 DEF GraphTypeOK, ClearNext, valueVars
<1>12. ASSUME NEW t \in Owners, Done(t) PROVE GraphTypeOK'
  <2>1. stack'[t] \in Seq(Frames)
    BY <1>0, <1>12, ReturnStack DEF Done, In
  <2>2. stack' \in [Owners -> Seq(Frames)]
    BY <1>0, <1>12, <2>1 DEF Done, GraphTypeOK
  <2> QED
    BY <1>0, <1>12, <2>2 DEF GraphTypeOK, Done
<1>13. ASSUME NEW t \in Owners, Pop(t) PROVE GraphTypeOK'
  <2>1. stack'[t] \in Seq(Frames) /\ pending'[t] \in Seq(Refs)
    BY <1>0, <1>13, PopStack
  <2>2. stack' \in [Owners -> Seq(Frames)] /\ pending' \in [Owners -> Seq(Refs)]
    BY <1>0, <1>13, <2>1 DEF Pop, GraphTypeOK
  <2> QED
    BY <1>0, <1>13, <2>2 DEF GraphTypeOK, Pop, valueVars
<1>14. ASSUME NEW t \in Owners, Drained(t) PROVE GraphTypeOK'
  <2>1. stack'[t] \in Seq(Frames)
    BY <1>0, <1>14, ReturnStack DEF Drained, In
  <2>2. stack' \in [Owners -> Seq(Frames)]
    BY <1>0, <1>14, <2>1 DEF Drained, GraphTypeOK
  <2> QED
    BY <1>0, <1>14, <2>2 DEF GraphTypeOK, Drained, valueVars
<1> QED
  BY <1>1, <1>2, <1>3, <1>4, <1>5, <1>6, <1>7, <1>8, <1>9, <1>10, <1>11, <1>12, <1>13, <1>14
  DEF GraphNext, Teardown, Call

-----------------------------------------------------------------------------
(* Frames.                                                                 *)

(* A frame that stands on what it stood on keeps its shape, unless it      *)
(* drops, or drains and is buried.                                         *)
LEMMA FrameKept ==
  ASSUME NEW s \in Seq(Frames), NEW v \in Seq(Frames), NEW i \in 1..Len(s), i <= Len(v),
         FrameShape(s, i), \A j \in 1..i : v[j].op = s[j].op,
         v[i].node = s[i].node, v[i].rest \subseteq s[i].rest,
         s[i].op # "drop", s[i].op = "drain" => Len(v) <= i + 1
  PROVE  FrameShape(v, i)
<1> DEFINE o(j) == s[j].op
<1>1. Len(s) \in Nat /\ Len(v) \in Nat /\ i \in Nat \ {0}
  BY LenProperties
<1>2. v[i].op = s[i].op
  BY <1>1
<1>3. i > 1 => i - 1 \in 1..i /\ v[i - 1].op = s[i - 1].op
  BY <1>1
<1>4. v[i].op = "tear" <=> v[i].node # None
  BY <1>2 DEF FrameShape
<1>5. v[i].op \in {"drop", "tear"} => i = 1 \/ v[i - 1].op \in {"clear", "drain"}
  BY <1>1, <1>2, <1>3 DEF FrameShape
<1>6. v[i].op \in {"clear", "release"} => i = 1
  BY <1>2 DEF FrameShape
<1>7. ASSUME v[i].op = "drain"
      PROVE  /\ v[i].rest = {} /\ i > 1 /\ Len(v) <= i + 1
             /\ v[i - 1].op \in {"tear", "release"}
             /\ i = 2 \/ (i = 3 /\ v[1].op = "clear" /\ v[2].op = "tear")
  <2>1. /\ s[i].rest = {} /\ i > 1 /\ s[i - 1].op \in {"tear", "release"}
        /\ i = 2 \/ (i = 3 /\ s[1].op = "clear" /\ s[2].op = "tear")
    BY <1>2, <1>7 DEF FrameShape
  <2>2. i = 3 => v[1].op = s[1].op /\ v[2].op = s[2].op
    OBVIOUS
  <2> QED
    BY <1>2, <1>3, <1>7, <2>1, <2>2
<1> QED
  BY <1>2, <1>4, <1>5, <1>6, <1>7 DEF FrameShape

(* The innermost frame returns.                                            *)
LEMMA PopShape ==
  ASSUME NEW s \in Seq(Frames), NEW d \in BOOLEAN, NEW p, Shape(s, d, p), s # <<>>,
         NEW v \in Seq(Frames), Len(v) = Len(s) - 1, \A j \in 1..(Len(s) - 1) : v[j] = s[j],
         NEW e \in BOOLEAN, NEW q, e <=> (d /\ s[Len(s)].op # "drain"), q # <<>> => e
  PROVE  Shape(v, e, q)
<1> DEFINE n == Len(s)
<1>1. n \in Nat \ {0} /\ n <= 4
  BY PopFacts DEF Shape
<1>2. ASSUME NEW i \in 1..(n - 1) PROVE FrameShape(v, i) /\ s[i].op # "drop"
  <2>1. FrameShape(s, i) /\ i \in 1..n /\ i < n
    BY <1>1 DEF Shape
  <2>2. s[i].op # "drop" /\ (s[i].op = "drain" => n <= i + 1)
    BY <2>1 DEF FrameShape
  <2>3. v[i] = s[i] /\ \A j \in 1..i : v[j] = s[j]
    BY <1>1
  <2> QED
    BY <1>1, <2>1, <2>2, <2>3, FrameKept
<1>3. e <=> \E i \in 1..Len(v) : v[i].op = "drain"
  <2>1. d <=> \E i \in 1..n : s[i].op = "drain"
    BY DEF Shape
  <2>2. ASSUME NEW i \in 1..(n - 1), s[i].op = "drain" PROVE s[n].op # "drain"
    <3>1. FrameShape(s, n) /\ FrameShape(s, i) /\ i \in 1..n /\ i < n
      BY <1>1, <2>2 DEF Shape
    <3>2. n <= i + 1
      BY <2>2, <3>1 DEF FrameShape
    <3>3. n - 1 = i
      BY <1>1, <3>1, <3>2
    <3> QED
      BY <2>2, <3>1, <3>3 DEF FrameShape
  <2>3. ASSUME e PROVE \E i \in 1..Len(v) : v[i].op = "drain"
    <3>1. PICK i \in 1..n : s[i].op = "drain"
      BY <2>1, <2>3
    <3>2. i \in 1..(n - 1)
      BY <1>1, <2>3, <3>1
    <3> QED
      BY <3>1, <3>2
  <2>4. ASSUME NEW i \in 1..Len(v), v[i].op = "drain" PROVE e
    <3>1. i \in 1..(n - 1) /\ i \in 1..n /\ s[i].op = "drain"
      BY <1>1, <2>4
    <3> QED
      BY <2>1, <2>2, <3>1
  <2> QED
    BY <2>3, <2>4
<1> QED
  BY <1>1, <1>2, <1>3 DEF Shape

(* The innermost frame gives way to another of its kind.                   *)
LEMMA TopShape ==
  ASSUME NEW s \in Seq(Frames), NEW d \in BOOLEAN, NEW p, Shape(s, d, p), s # <<>>,
         NEW v \in Seq(Frames), Len(v) = Len(s), \A j \in 1..(Len(s) - 1) : v[j] = s[j],
         FrameShape(v, Len(s)), v[Len(s)].op = "drain" <=> s[Len(s)].op = "drain",
         NEW q, q # <<>> => d
  PROVE  Shape(v, d, q)
<1> DEFINE n == Len(s)
<1>1. n \in Nat \ {0} /\ n <= 4
  BY PopFacts DEF Shape
<1>2. ASSUME NEW i \in 1..(n - 1) PROVE FrameShape(v, i)
  <2>1. FrameShape(s, i) /\ i \in 1..n /\ i < n
    BY <1>1 DEF Shape
  <2>2. s[i].op # "drop" /\ (s[i].op = "drain" => n <= i + 1)
    BY <2>1 DEF FrameShape
  <2>3. v[i] = s[i] /\ \A j \in 1..i : v[j] = s[j]
    BY <1>1
  <2> QED
    BY <1>1, <2>1, <2>2, <2>3, FrameKept
<1>3. ASSUME NEW i \in 1..n PROVE FrameShape(v, i)
  <2>1. i \in 1..(n - 1) \/ i = n
    BY <1>1
  <2> QED
    BY <1>2, <2>1
<1>4. ASSUME NEW i \in 1..n PROVE v[i].op = "drain" <=> s[i].op = "drain"
  <2>1. i \in 1..(n - 1) \/ i = n
    BY <1>1
  <2> QED
    BY <2>1
<1> QED
  BY <1>1, <1>3, <1>4 DEF Shape

(* A frame is called.                                                      *)
LEMMA PushShape ==
  ASSUME NEW s \in Seq(Frames), NEW d \in BOOLEAN, NEW p, Shape(s, d, p), s # <<>>,
         NEW v \in Seq(Frames), Len(v) = Len(s) + 1, Len(s) <= 3,
         \A j \in 1..Len(s) : v[j].op = s[j].op /\ v[j].node = s[j].node /\ v[j].rest \subseteq s[j].rest,
         s[Len(s)].op # "drop",
         \A j \in 1..(Len(s) - 1) : s[j].op # "drain",
         FrameShape(v, Len(s) + 1),
         NEW e \in BOOLEAN, NEW q, e <=> (d \/ v[Len(s) + 1].op = "drain"), q # <<>> => e
  PROVE  Shape(v, e, q)
<1> DEFINE n == Len(s)
<1>1. n \in Nat \ {0}
  BY PopFacts
<1>2. ASSUME NEW i \in 1..n PROVE FrameShape(v, i)
  <2>1. FrameShape(s, i) /\ (i = n \/ i \in 1..(n - 1))
    BY <1>1 DEF Shape
  <2>2. s[i].op # "drop" /\ (s[i].op = "drain" => n + 1 <= i + 1)
    BY <1>1, <2>1 DEF FrameShape
  <2>3. \A j \in 1..i : v[j].op = s[j].op
    BY <1>1
  <2> QED
    BY <1>1, <2>1, <2>2, <2>3, FrameKept
<1>3. ASSUME NEW i \in 1..(n + 1) PROVE FrameShape(v, i)
  <2>1. i \in 1..n \/ i = n + 1
    BY <1>1
  <2> QED
    BY <1>2, <2>1
<1>4. \A i \in 1..(n + 1) : i \in 1..n \/ i = n + 1
  BY <1>1
<1>5. (\E i \in 1..(n + 1) : v[i].op = "drain") <=> (\E i \in 1..n : s[i].op = "drain") \/ v[n + 1].op = "drain"
  BY <1>1, <1>4
<1> QED
  BY <1>1, <1>3, <1>5 DEF Shape

(* The value the innermost frame drops is the last reference to a node.    *)
LEMMA TearShape ==
  ASSUME NoneAssumption, NEW s \in Seq(Frames), NEW d \in BOOLEAN, NEW p, Shape(s, d, p), s # <<>>,
         s[Len(s)].op = "drop", NEW v \in Seq(Frames), Len(v) = Len(s),
         \A j \in 1..(Len(s) - 1) : v[j] = s[j], v[Len(s)].op = "tear", v[Len(s)].node \in Nodes
  PROVE  Shape(v, d, p)
<1>1. PICK n \in Nat \ {0} : n = Len(s)
  BY PopFacts
<1>2. FrameShape(s, n) /\ n \in 1..n
  BY <1>1 DEF Shape
<1>3. n = 1 \/ s[n - 1].op \in {"clear", "drain"}
  BY <1>1, <1>2 DEF FrameShape
<1>4. n = 1 \/ n - 1 \in 1..(n - 1)
  BY <1>1
<1>5. n = 1 \/ v[n - 1].op \in {"clear", "drain"}
  BY <1>1, <1>3, <1>4
<1>6. FrameShape(v, n)
  BY <1>1, <1>5 DEF FrameShape, NoneAssumption
<1>7. p # <<>> => d
  BY DEF Shape
<1> QED
  BY <1>1, <1>6, <1>7, TopShape

(* A frame that releases a value, with the drain loop running.             *)
LEMMA ListShape ==
  ASSUME NEW s \in Seq(Frames), NEW p, Shape(s, TRUE, p), s # <<>>,
         s[Len(s)].op \in {"tear", "release"}, NEW v \in Seq(Frames), Len(v) = Len(s),
         \A j \in 1..(Len(s) - 1) : v[j] = s[j], v[Len(s)].op = s[Len(s)].op,
         v[Len(s)].node = s[Len(s)].node, v[Len(s)].rest \subseteq s[Len(s)].rest, NEW q
  PROVE  Shape(v, TRUE, q)
<1>1. PICK n \in Nat \ {0} : n = Len(s)
  BY PopFacts
<1>2. FrameShape(s, n) /\ n \in 1..n
  BY <1>1 DEF Shape
<1>3. \A j \in 1..n : j \in 1..(n - 1) \/ j = n
  OBVIOUS
<1>4. \A j \in 1..n : v[j].op = s[j].op
  BY <1>1, <1>3
<1>5. FrameShape(v, n)
  BY <1>1, <1>2, <1>4, FrameKept
<1> QED
  BY <1>1, <1>5, TopShape

(* The outermost frame that releases a value starts the drain loop.        *)
LEMMA DrainShape ==
  ASSUME NEW s \in Seq(Frames), NEW p, Shape(s, FALSE, p), s # <<>>,
         s[Len(s)].op \in {"tear", "release"}, NEW v \in Seq(Frames), Len(v) = Len(s) + 1,
         \A j \in 1..(Len(s) - 1) : v[j] = s[j], v[Len(s)].op = s[Len(s)].op,
         v[Len(s)].node = s[Len(s)].node, v[Len(s)].rest \subseteq s[Len(s)].rest,
         v[Len(s) + 1] = Frame("drain", None, {}), NEW q
  PROVE  Shape(v, TRUE, q)
<1>1. PICK n \in Nat \ {0} : n = Len(s)
  BY PopFacts
<1>2. \A j \in 1..n : FrameShape(s, j) /\ s[j].op # "drain"
  BY <1>1 DEF Shape
<1>3. \A j \in 1..n : j \in 1..(n - 1) \/ j = n
  OBVIOUS
<1>4. n \in 1..n /\ (n = 1 \/ n - 1 \in 1..n)
  OBVIOUS
<1>5. n = 1 \/ (s[n].op = "tear" /\ s[n - 1].op = "clear")
  <2>1. s[n].op \in {"tear", "release"}
    BY <1>1
  <2> QED
    BY <1>2, <1>4, <2>1 DEF FrameShape
<1>6. n = 1 \/ n - 1 = 1
  BY <1>2, <1>4, <1>5 DEF FrameShape
<1>7. n = 1 \/ (n = 2 /\ s[1].op = "clear" /\ s[2].op = "tear")
  BY <1>5, <1>6
<1>8. \A j \in 1..n : v[j].op = s[j].op /\ v[j].node = s[j].node /\ v[j].rest \subseteq s[j].rest
  BY <1>1, <1>3
<1>9. v[n + 1].op = "drain" /\ v[n + 1].rest = {} /\ v[n + 1].node = None
  BY <1>1 DEF Frame
<1>10. FrameShape(v, n + 1)
  <2>1. v[n].op \in {"tear", "release"} /\ n + 1 - 1 = n
    BY <1>1
  <2>2. n + 1 = 2 \/ (n + 1 = 3 /\ v[1].op = "clear" /\ v[2].op = "tear")
    BY <1>7, <1>8
  <2> QED
    BY <1>1, <1>9, <2>1, <2>2 DEF FrameShape
<1>11. n <= 3 /\ s[n].op # "drop"
  BY <1>1, <1>7
<1>12. \A j \in 1..(n - 1) : s[j].op # "drain"
  BY <1>2
<1> QED
  BY <1>1, <1>8, <1>9, <1>10, <1>11, <1>12, PushShape

(* A frame drops a value: the drain loop its newest, clear an element.     *)
LEMMA DropShape ==
  ASSUME NEW s \in Seq(Frames), NEW d \in BOOLEAN, NEW p, Shape(s, d, p), s # <<>>,
         s[Len(s)].op \in {"clear", "drain"}, NEW v \in Seq(Frames), Len(v) = Len(s) + 1,
         \A j \in 1..(Len(s) - 1) : v[j] = s[j], v[Len(s)].op = s[Len(s)].op,
         v[Len(s)].node = s[Len(s)].node, v[Len(s)].rest \subseteq s[Len(s)].rest,
         NEW r \in Refs, v[Len(s) + 1] = Frame("drop", None, {r}), NEW q, q # <<>> => p # <<>>
  PROVE  Shape(v, d, q)
<1>1. PICK n \in Nat \ {0} : n = Len(s)
  BY PopFacts
<1>2. \A j \in 1..n : FrameShape(s, j)
  BY <1>1 DEF Shape
<1>3. \A j \in 1..n : j \in 1..(n - 1) \/ j = n
  OBVIOUS
<1>4. n \in 1..n /\ s[n].op \in {"clear", "drain"}
  BY <1>1
<1>5. \/ n = 1
      \/ n = 2 /\ s[2].op = "drain"
      \/ n = 3 /\ s[1].op = "clear" /\ s[2].op = "tear"
  <2>1. CASE s[n].op = "clear"
    BY <1>2, <1>4, <2>1 DEF FrameShape
  <2>2. CASE s[n].op = "drain"
    BY <1>2, <1>4, <2>2 DEF FrameShape
  <2> QED
    BY <1>4, <2>1, <2>2
<1>6. ASSUME NEW j \in 1..(n - 1) PROVE s[j].op # "drain"
  <2>1. j = 1 \/ (n = 3 /\ j = 2)
    BY <1>5
  <2>2. FrameShape(s, 1)
    BY <1>2
  <2> QED
    BY <1>5, <2>1, <2>2 DEF FrameShape
<1>7. \A j \in 1..n : v[j].op = s[j].op /\ v[j].node = s[j].node /\ v[j].rest \subseteq s[j].rest
  BY <1>1, <1>3
<1>8. v[n + 1].op = "drop" /\ v[n + 1].rest = {r} /\ v[n + 1].node = None
  BY <1>1 DEF Frame
<1>9. FrameShape(v, n + 1)
  <2>1. v[n].op \in {"clear", "drain"} /\ n + 1 - 1 = n
    BY <1>4, <1>7
  <2> QED
    BY <1>1, <1>8, <2>1 DEF FrameShape
<1>10. n <= 3 /\ s[n].op # "drop" /\ (q # <<>> => d)
  BY <1>4, <1>5 DEF Shape
<1> QED
  BY <1>1, <1>6, <1>7, <1>8, <1>9, <1>10, PushShape

(* The other threads' frames are as they were.                             *)
LEMMA OtherShapes ==
  ASSUME StackShape, NEW t \in Owners, Shape(stack'[t], draining'[t], pending'[t]),
         \A u \in Owners : u # t => /\ stack'[u] = stack[u] /\ draining'[u] = draining[u]
                                     /\ pending'[u] = pending[u]
  PROVE  StackShape'
BY DEF StackShape

LEMMA ShapeStep ==
  ASSUME IInv, [GraphNext]_graphVars
  PROVE  StackShape'
<1>0. GraphTypeOK /\ StackShape /\ None \notin Nodes
  BY DEF IInv, NoneAssumption
<1>1. CASE UNCHANGED <<stack, draining, pending>>
  BY <1>0, <1>1 DEF StackShape
<1>s. \A t \in Owners : /\ stack[t] \in Seq(Frames) /\ draining[t] \in BOOLEAN
                         /\ Shape(stack[t], draining[t], pending[t])
  BY <1>0 DEF GraphTypeOK, StackShape
<1>2. ASSUME NEW t \in Owners, NEW op \in {"drop", "clear", "release"}, NEW rest \in SUBSET Refs,
             op = "drop" => \E r \in Refs : rest = {r}, Calls(t),
             stack' = [stack EXCEPT ![t] = <<Frame(op, None, rest)>>], UNCHANGED <<pending, draining>>
      PROVE  StackShape'
  <2>1. Frame(op, None, rest) \in Frames
    BY <1>2 DEF Frame, Frames
  <2>2. /\ Len(stack[t]) = 0 /\ Len(stack'[t]) = 1 /\ stack'[t][1] = Frame(op, None, rest)
        /\ Elsewhere(t)
    BY <1>0, <1>2, <2>1, EnterStack
  <2>3. ~draining[t] /\ pending[t] = <<>>
    BY <1>s, <2>2 DEF Shape
  <2>4. stack'[t][1].op = op /\ stack'[t][1].node = None /\ stack'[t][1].rest = rest
    BY <2>2 DEF Frame
  <2>5. FrameShape(stack'[t], 1)
    BY <1>2, <2>2, <2>4 DEF FrameShape
  <2>6. Shape(stack'[t], draining'[t], pending'[t])
    BY <1>2, <2>2, <2>3, <2>4, <2>5 DEF Shape
  <2> QED
    BY <1>0, <1>2, <2>2, <2>6, OtherShapes DEF Elsewhere
<1>3. ASSUME NEW t \in Owners, NEW r \in Refs, LetGo(t, r) PROVE StackShape'
  <2> DEFINE n == Len(stack[t])
  <2>1. target[r] \in Nodes
    BY <1>3, LetGoTarget
  <2>2. /\ n \in Nat \ {0} /\ stack[t][n] \in Frames /\ Elsewhere(t)
        /\ stack'[t] \in Seq(Frames) /\ Kept(t, n - 1)
        /\ \/ Len(stack'[t]) = n /\ stack'[t][n] = Frame("tear", target[r], slots[target[r]])
           \/ Len(stack'[t]) = n - 1
    BY <1>0, <1>3, <2>1, LetGoStack
  <2>3. stack[t] # <<>> /\ stack[t][n].op = "drop" /\ UNCHANGED <<pending, draining>>
    BY <1>3 DEF LetGo, In, Top
  <2>4. pending[t] # <<>> => draining[t]
    BY <1>s DEF Shape
  <2>5. CASE Len(stack'[t]) = n - 1
    <3>1. Shape(stack'[t], draining'[t], pending'[t])
      BY <1>s, <2>2, <2>3, <2>4, <2>5, PopShape DEF Kept
    <3> QED
      BY <1>0, <2>2, <2>3, <3>1, OtherShapes DEF Elsewhere
  <2>6. CASE Len(stack'[t]) = n /\ stack'[t][n] = Frame("tear", target[r], slots[target[r]])
    <3>1. stack'[t][n].op = "tear" /\ stack'[t][n].node = target[r]
      BY <2>6 DEF Frame
    <3>2. Shape(stack'[t], draining'[t], pending'[t])
      BY <1>0, <1>s, <2>1, <2>2, <2>3, <2>6, <3>1, TearShape DEF Kept, NoneAssumption
    <3> QED
      BY <1>0, <2>2, <2>3, <3>2, OtherShapes DEF Elsewhere
  <2> QED
    BY <2>2, <2>5, <2>6
<1>4. ASSUME NEW t \in Owners, NEW r \in Refs, Release(t, r) PROVE StackShape'
  <2> DEFINE n == Len(stack[t])
  <2>1. /\ n \in Nat \ {0} /\ stack[t][n] \in Frames /\ Elsewhere(t) /\ stack'[t] \in Seq(Frames)
        /\ Kept(t, n - 1) /\ stack'[t][n] = [stack[t][n] EXCEPT !.rest = @ \ {r}]
        /\ IF draining[t] THEN Len(stack'[t]) = n
           ELSE Len(stack'[t]) = n + 1 /\ stack'[t][n + 1] = Frame("drain", None, {})
    BY <1>0, <1>4, ReleaseStack
  <2>2. /\ stack'[t][n].op = stack[t][n].op /\ stack'[t][n].node = stack[t][n].node
        /\ stack'[t][n].rest \subseteq stack[t][n].rest
        /\ stack[t] # <<>> /\ stack[t][n].op \in {"tear", "release"}
    BY <1>4, <2>1 DEF Release, In, Top, Frames
  <2>4. draining'[t] = TRUE /\ \A u \in Owners : u # t => draining'[u] = draining[u] /\ pending'[u] = pending[u]
    BY <1>0, <1>4 DEF Release, GraphTypeOK
  <2>6. CASE draining[t]
    <3>1. Shape(stack'[t], draining'[t], pending'[t])
      BY <1>s, <2>1, <2>2, <2>4, <2>6, ListShape DEF Kept
    <3> QED
      BY <1>0, <2>1, <2>4, <2>6, <3>1, OtherShapes DEF Elsewhere
  <2>7. CASE ~draining[t]
    <3>1. Shape(stack'[t], draining'[t], pending'[t])
      BY <1>s, <2>1, <2>2, <2>4, <2>7, DrainShape DEF Kept
    <3> QED
      BY <1>0, <2>1, <2>4, <3>1, OtherShapes DEF Elsewhere
  <2> QED
    BY <2>6, <2>7
<1>5. ASSUME NEW t \in Owners, NEW r \in Refs, ClearNext(t, r) PROVE StackShape'
  <2> DEFINE n == Len(stack[t])
  <2>1. /\ n \in Nat \ {0} /\ stack[t][n] \in Frames /\ Elsewhere(t) /\ stack'[t] \in Seq(Frames)
        /\ Kept(t, n - 1) /\ Len(stack'[t]) = n + 1
        /\ stack'[t][n] = [stack[t][n] EXCEPT !.rest = @ \ {r}]
        /\ stack'[t][n + 1] = Frame("drop", None, {r})
    BY <1>0, <1>5, ClearNextStack
  <2>2. /\ stack'[t][n].op = "clear" /\ stack'[t][n].node = stack[t][n].node
        /\ stack'[t][n].rest \subseteq stack[t][n].rest
        /\ stack[t] # <<>> /\ stack[t][n].op = "clear" /\ UNCHANGED <<pending, draining>>
    BY <1>5, <2>1 DEF ClearNext, In, Top, Frames
  <2>3. Shape(stack'[t], draining[t], pending[t])
    <3> DEFINE s == stack[t]
               v == stack'[t]
               d == draining[t]
               p == pending[t]
    <3>1. /\ s \in Seq(Frames) /\ s # <<>> /\ d \in BOOLEAN /\ Shape(s, d, p)
          /\ s[Len(s)].op \in {"clear", "drain"}
      BY <1>s, <2>2
    <3>2. /\ v \in Seq(Frames) /\ Len(v) = Len(s) + 1 /\ v[Len(s) + 1] = Frame("drop", None, {r})
          /\ \A j \in 1..(Len(s) - 1) : v[j] = s[j]
      BY <2>1 DEF Kept
    <3>3. v[Len(s)].op = s[Len(s)].op /\ v[Len(s)].node = s[Len(s)].node /\ v[Len(s)].rest \subseteq s[Len(s)].rest
      BY <2>2
    <3> HIDE DEF s, v, d, p
    <3>4. Shape(v, d, p)
      BY <3>1, <3>2, <3>3, DropShape
    <3> QED
      BY <3>4 DEF v, d, p
  <2> QED
    BY <1>0, <2>1, <2>2, <2>3, OtherShapes DEF Elsewhere
<1>6. ASSUME NEW t \in Owners, Done(t) PROVE StackShape'
  <2> DEFINE n == Len(stack[t])
  <2>1. /\ n \in Nat \ {0} /\ Elsewhere(t) /\ Kept(t, n - 1) /\ Len(stack'[t]) = n - 1
        /\ stack'[t] \in Seq(Frames)
    BY <1>0, <1>6, ReturnStack DEF Done, In
  <2>2. /\ stack[t] # <<>> /\ stack[t][n].op \in {"tear", "release", "clear"}
        /\ UNCHANGED <<pending, draining>>
    BY <1>6 DEF Done, In, Top
  <2>3. pending[t] # <<>> => draining[t]
    BY <1>s DEF Shape
  <2>4. Shape(stack'[t], draining'[t], pending'[t])
    BY <1>s, <2>1, <2>2, <2>3, PopShape DEF Kept
  <2> QED
    BY <1>0, <2>1, <2>2, <2>4, OtherShapes DEF Elsewhere
<1>7. ASSUME NEW t \in Owners, Pop(t) PROVE StackShape'
  <2> DEFINE n == Len(stack[t])
             x == pending[t][Len(pending[t])]
  <2>1. /\ n \in Nat \ {0} /\ Elsewhere(t) /\ Kept(t, n) /\ Len(stack'[t]) = n + 1
        /\ stack'[t] \in Seq(Frames)
        /\ stack'[t][n + 1] = Frame("drop", None, {x}) /\ x \in Refs
        /\ \A u \in Owners : u # t => pending'[u] = pending[u]
    BY <1>0, <1>7, PopStack
  <2>2. stack[t] # <<>> /\ stack[t][n].op = "drain" /\ UNCHANGED draining /\ pending[t] # <<>>
    BY <1>7 DEF Pop, In, Top
  <2>3. stack'[t][n] = stack[t][n]
    BY <2>1 DEF Kept
  <2>4. Shape(stack'[t], draining'[t], pending'[t])
    BY <1>s, <2>1, <2>2, <2>3, DropShape DEF Kept
  <2> QED
    BY <1>0, <2>1, <2>2, <2>4, OtherShapes DEF Elsewhere
<1>8. ASSUME NEW t \in Owners, Drained(t) PROVE StackShape'
  <2> DEFINE n == Len(stack[t])
  <2>1. /\ n \in Nat \ {0} /\ Elsewhere(t) /\ Kept(t, n - 1) /\ Len(stack'[t]) = n - 1
        /\ stack'[t] \in Seq(Frames)
    BY <1>0, <1>8, ReturnStack DEF Drained, In
  <2>2. /\ stack[t] # <<>> /\ stack[t][n].op = "drain" /\ UNCHANGED pending /\ pending[t] = <<>>
        /\ draining'[t] = FALSE /\ \A u \in Owners : u # t => draining'[u] = draining[u]
    BY <1>0, <1>8 DEF Drained, In, Top, GraphTypeOK
  <2>3. Shape(stack'[t], FALSE, pending'[t])
    BY <1>s, <2>1, <2>2, PopShape DEF Kept
  <2> QED
    BY <1>0, <2>1, <2>2, <2>3, OtherShapes DEF Elsewhere
<1>9. ASSUME NEW t \in Owners, Call(t) PROVE StackShape'
  <2>1. ASSUME NEW r \in Refs, DropHand(t, r) PROVE StackShape'
    <3>1. {r} \in SUBSET Refs /\ \E x \in Refs : {r} = {x}
      OBVIOUS
    <3> QED
      BY <1>2, <2>1, <3>1 DEF DropHand
  <2>2. ASSUME NEW n \in Nodes, NEW r \in Refs, Overwrite(t, n, r) PROVE StackShape'
    <3>1. {r} \in SUBSET Refs /\ \E x \in Refs : {r} = {x}
      OBVIOUS
    <3> QED
      BY <1>2, <2>2, <3>1 DEF Overwrite
  <2>3. ASSUME NEW n \in Nodes, Clear(t, n) PROVE StackShape'
    <3>1. PICK op \in {"clear", "release"} : stack' = [stack EXCEPT ![t] = <<Frame(op, None, slots[n])>>]
      BY <2>3 DEF Clear
    <3>2. slots[n] \in SUBSET Refs /\ op # "drop" /\ op \in {"drop", "clear", "release"}
      BY <1>0 DEF GraphTypeOK
    <3> QED
      BY <1>2, <2>3, <3>1, <3>2 DEF Clear
  <2>4. CASE \E n \in Nodes, r \in Refs : New(t, n, r) \/ StoreIn(t, n, r)
    BY <1>1, <2>4 DEF New, StoreIn
  <2>5. CASE \E s, r \in Refs : Clone(t, s, r)
    BY <1>1, <2>5 DEF Clone
  <2>6. CASE \E r \in Refs, u \in Owners : Give(t, u, r)
    BY <1>1, <2>6 DEF Give
  <2> QED
    BY <1>9, <2>1, <2>2, <2>3, <2>4, <2>5, <2>6 DEF Call
<1> QED
  BY <1>1, <1>3, <1>4, <1>5, <1>6, <1>7, <1>8, <1>9 DEF GraphNext, Teardown, graphVars

-----------------------------------------------------------------------------
(* Places.                                                                 *)

(* Values X go from one place to another.                                  *)
Moves(S, H, G, a, b, X) ==
  /\ a # b /\ X \subseteq H[a]
  /\ G[a] = H[a] \ X /\ G[b] = H[b] \cup X
  /\ \A p \in S : p \notin {a, b} => G[p] = H[p]

LEMMA MoveKeeps ==
  ASSUME NEW S, NEW H, NEW G, NEW a \in S, NEW b \in S, NEW X,
         Split(S, H), Moves(S, H, G, a, b, X)
  PROVE  Split(S, G) /\ \A x : (\E p \in S : x \in G[p]) <=> (\E p \in S : x \in H[p])
<1>1. \A p \in S : p = a \/ p = b \/ G[p] = H[p]
  BY DEF Moves
<1>2. ASSUME NEW p \in S, NEW q \in S, p # q, NEW x, x \in G[p], x \in G[q] PROVE FALSE
  <2>1. ASSUME NEW y \in S, x \in G[y] PROVE (x \in H[y] /\ ~(y = a /\ x \in X)) \/ (y = b /\ x \in X)
    BY <1>1, <2>1 DEF Moves
  <2>2. ~(x \in H[p] /\ x \in H[q])
    BY <1>2 DEF Split
  <2>3. x \in X => x \in H[a]
    BY DEF Moves
  <2>4. x \in X => (x \in H[p] => p = a) /\ (x \in H[q] => q = a)
    BY <2>3 DEF Split
  <2>5. (x \in H[p] /\ ~(p = a /\ x \in X)) \/ (p = b /\ x \in X)
    BY <1>2, <2>1
  <2>6. (x \in H[q] /\ ~(q = a /\ x \in X)) \/ (q = b /\ x \in X)
    BY <1>2, <2>1
  <2> QED
    BY <1>2, <2>2, <2>4, <2>5, <2>6 DEF Moves
<1>3. ASSUME NEW x, NEW p \in S, x \in H[p] PROVE \E q \in S : x \in G[q]
  BY <1>1, <1>3 DEF Moves
<1>4. ASSUME NEW x, NEW p \in S, x \in G[p] PROVE \E q \in S : x \in H[q]
  BY <1>1, <1>4 DEF Moves
<1>5. Split(S, G)
  BY <1>2 DEF Split
<1> QED
  BY <1>3, <1>4, <1>5

(* Value x goes from its place.                                            *)
LEMMA RemoveKeeps ==
  ASSUME NEW S, NEW H, NEW G, NEW a \in S, NEW x \in H[a],
         Split(S, H), G[a] = H[a] \ {x}, \A p \in S : p # a => G[p] = H[p]
  PROVE  /\ Split(S, G)
         /\ \A y : (\E p \in S : y \in G[p]) <=> y # x /\ (\E p \in S : y \in H[p])
<1>1. \A p \in S : p = a \/ G[p] = H[p]
  OBVIOUS
<1>2. \A p \in S : x \notin G[p]
  BY <1>1 DEF Split
<1>3. \A p \in S : \A y : y # x => (y \in G[p] <=> y \in H[p])
  BY <1>1
<1>4. \A p \in S : G[p] \subseteq H[p]
  BY <1>1
<1>5. Split(S, G)
  BY <1>4 DEF Split
<1> QED
  BY <1>2, <1>3, <1>5

(* Value x, which is nowhere, comes to a place.                            *)
LEMMA AddKeeps ==
  ASSUME NEW S, NEW H, NEW G, NEW a \in S, NEW x, \A p \in S : x \notin H[p],
         Split(S, H), G[a] = H[a] \cup {x}, \A p \in S : p # a => G[p] = H[p]
  PROVE  /\ Split(S, G)
         /\ \A y : (\E p \in S : y \in G[p]) <=> y = x \/ (\E p \in S : y \in H[p])
<1>1. \A p \in S : p = a \/ G[p] = H[p]
  OBVIOUS
<1>2. ASSUME NEW p \in S, NEW q \in S, p # q, NEW y, y \in G[p], y \in G[q] PROVE FALSE
  <2>1. (y \in H[p] \/ (p = a /\ y = x)) /\ (y \in H[q] \/ (q = a /\ y = x))
    BY <1>1, <1>2
  <2> QED
    BY <1>2, <2>1 DEF Split
<1>3. Split(S, G)
  BY <1>2 DEF Split
<1> QED
  BY <1>1, <1>3

-----------------------------------------------------------------------------
(* What each frame still has to let go of, as the frames change.           *)

LEMMA PopRest ==
  ASSUME NEW s \in Seq(Frames), NEW v \in Seq(Frames), s # <<>>, Len(v) = Len(s) - 1,
         \A j \in 1..(Len(s) - 1) : v[j] = s[j], NEW i \in Nat \ {0}
  PROVE  RestAt(v, i) = IF i = Len(s) THEN {} ELSE RestAt(s, i)
<1>1. PICK n \in Nat \ {0} : n = Len(s)
  BY PopFacts
<1>2. i \in 1..n <=> i \in 1..(n - 1) \/ i = n
  OBVIOUS
<1>3. i = n => i \notin 1..(n - 1)
  OBVIOUS
<1> QED
  BY <1>1, <1>2, <1>3 DEF RestAt

LEMMA TopRest ==
  ASSUME NEW s \in Seq(Frames), NEW v \in Seq(Frames), s # <<>>, Len(v) = Len(s),
         \A j \in 1..(Len(s) - 1) : v[j] = s[j], NEW i \in Nat \ {0}
  PROVE  RestAt(v, i) = IF i = Len(s) THEN v[Len(s)].rest ELSE RestAt(s, i)
<1>1. PICK n \in Nat \ {0} : n = Len(s)
  BY PopFacts
<1>2. i \in 1..n <=> i \in 1..(n - 1) \/ i = n
  OBVIOUS
<1> QED
  BY <1>1, <1>2 DEF RestAt

LEMMA PushRest ==
  ASSUME NEW s \in Seq(Frames), NEW v \in Seq(Frames), s # <<>>, Len(v) = Len(s) + 1,
         \A j \in 1..(Len(s) - 1) : v[j] = s[j], NEW i \in Nat \ {0}
  PROVE  RestAt(v, i) = IF i = Len(s) + 1 THEN v[Len(s) + 1].rest
                        ELSE IF i = Len(s) THEN v[Len(s)].rest ELSE RestAt(s, i)
<1>1. PICK n \in Nat \ {0} : n = Len(s)
  BY PopFacts
<1>2. i \in 1..(n + 1) <=> i \in 1..(n - 1) \/ i = n \/ i = n + 1
  OBVIOUS
<1>3. i \in 1..n <=> i \in 1..(n - 1) \/ i = n
  OBVIOUS
<1> QED
  BY <1>1, <1>2, <1>3 DEF RestAt

LEMMA EnterRest ==
  ASSUME NEW s, NEW v, Len(s) = 0, Len(v) = 1, NEW i \in Nat \ {0}
  PROVE  RestAt(v, i) = IF i = 1 THEN v[1].rest ELSE RestAt(s, i)
BY DEF RestAt

LEMMA PopListed ==
  ASSUME NEW s \in Seq(Refs), NEW v \in Seq(Refs), s # <<>>, Len(v) = Len(s) - 1,
         \A j \in 1..(Len(s) - 1) : v[j] = s[j], NEW i \in Nat \ {0}
  PROVE  ListedAt(v, i) = IF i = Len(s) THEN {} ELSE ListedAt(s, i)
<1>1. PICK n \in Nat \ {0} : n = Len(s)
  BY PopFacts
<1>2. i \in 1..n <=> i \in 1..(n - 1) \/ i = n
  OBVIOUS
<1>3. i = n => i \notin 1..(n - 1)
  OBVIOUS
<1> QED
  BY <1>1, <1>2, <1>3 DEF ListedAt

LEMMA PushListed ==
  ASSUME NEW s \in Seq(Refs), NEW r \in Refs, NEW i \in Nat \ {0}
  PROVE  ListedAt(Append(s, r), i) = IF i = Len(s) + 1 THEN {r} ELSE ListedAt(s, i)
<1> DEFINE v == Append(s, r)
<1>1. /\ Len(s) \in Nat /\ Len(v) = Len(s) + 1 /\ v[Len(s) + 1] = r
      /\ \A j \in 1..Len(s) : v[j] = s[j]
  BY PushFacts
<1> HIDE DEF v
<1>2. PICK n \in Nat : n = Len(s)
  BY <1>1
<1>3. i \in 1..(n + 1) <=> i \in 1..n \/ i = n + 1
  OBVIOUS
<1>4. i = n + 1 => i \notin 1..n
  OBVIOUS
<1>5. ListedAt(v, i) = IF i = n + 1 THEN {r} ELSE ListedAt(s, i)
  BY <1>1, <1>2, <1>3, <1>4 DEF ListedAt
<1> QED
  BY <1>2, <1>5 DEF v

-----------------------------------------------------------------------------
(* A step moves values from place to place.                                *)

LEMMA SpotsDiffer ==
  /\ \A m, n : Slot(m) = Slot(n) => m = n
  /\ \A t, u : Hand(t) = Hand(u) => t = u
  /\ \A t, u, i, j : Listed(t, i) = Listed(u, j) => t = u /\ i = j
  /\ \A t, u, i, j : Framed(t, i) = Framed(u, j) => t = u /\ i = j
  /\ \A n, t, i : Slot(n) # Hand(t) /\ Slot(n) # Listed(t, i) /\ Slot(n) # Framed(t, i)
  /\ \A u, t, i : Hand(u) # Listed(t, i) /\ Hand(u) # Framed(t, i)
  /\ \A u, t, i, j : Listed(u, j) # Framed(t, i)
BY DEF Slot, Hand, Listed, Framed

(* The places outside A are as they were.                                  *)
LEMMA SpotsKept ==
  ASSUME NEW A,
         \A n \in Nodes : Slot(n) \notin A => slots'[n] = slots[n],
         \A t \in Owners : Hand(t) \notin A => hands'[t] = hands[t],
         \A t \in Owners, i \in Nat \ {0} :
           Listed(t, i) \notin A => ListedAt(pending'[t], i) = ListedAt(pending[t], i),
         \A t \in Owners, i \in Nat \ {0} :
           Framed(t, i) \notin A => RestAt(stack'[t], i) = RestAt(stack[t], i)
  PROVE  \A p \in Spots : p \notin A => Held'[p] = Held[p]
<1> SUFFICES ASSUME NEW p \in Spots, p \notin A PROVE Held'[p] = Held[p]
  OBVIOUS
<1>1. ASSUME NEW n \in Nodes, p = Slot(n) PROVE Held'[p] = Held[p]
  BY <1>1, HeldValues, HeldNext DEF HeldAt
<1>2. ASSUME NEW t \in Owners, p = Hand(t) PROVE Held'[p] = Held[p]
  BY <1>2, HeldValues, HeldNext DEF HeldAt
<1>3. ASSUME NEW t \in Owners, NEW i \in Nat \ {0}, p = Listed(t, i) PROVE Held'[p] = Held[p]
  BY <1>3, HeldValues, HeldNext DEF HeldAt
<1>4. ASSUME NEW t \in Owners, NEW i \in Nat \ {0}, p = Framed(t, i) PROVE Held'[p] = Held[p]
  BY <1>4, HeldValues, HeldNext DEF HeldAt
<1> QED
  BY <1>1, <1>2, <1>3, <1>4, SpotKinds

LEMMA ApartMove ==
  ASSUME Apart, UNCHANGED target, NEW a \in Spots, NEW b \in Spots, NEW X,
         Moves(Spots, Held, Held', a, b, X)
  PROVE  Apart'
<1>1. Split(Spots, Held)
  BY DEF Apart
<1>2. /\ Split(Spots, Held')
      /\ \A x : (\E p \in Spots : x \in Held'[p]) <=> (\E p \in Spots : x \in Held[p])
  BY <1>1, MoveKeeps
<1> QED
  BY <1>2 DEF Apart

LEMMA ApartAdd ==
  ASSUME Apart, NEW x \in Refs, target[x] = None, NEW n, n # None,
         target \in [Refs -> Nodes \cup {None}],
         target' = [target EXCEPT ![x] = n], NEW a \in Spots,
         Held'[a] = Held[a] \cup {x}, \A p \in Spots : p \notin {a} => Held'[p] = Held[p]
  PROVE  Apart'
<1> DEFINE H == Held
           G == Held'
<1>1. Split(Spots, H) /\ \A p \in Spots : x \notin H[p]
  BY DEF Apart
<1>2. G[a] = H[a] \cup {x} /\ \A p \in Spots : p # a => G[p] = H[p]
  OBVIOUS
<1>3. /\ Split(Spots, G)
      /\ \A y : (\E p \in Spots : y \in G[p]) <=> y = x \/ (\E p \in Spots : y \in H[p])
  <2> HIDE DEF H, G
  <2> QED
    BY <1>1, <1>2, AddKeeps
<1>4. \A r \in Refs : target'[r] = IF r = x THEN n ELSE target[r]
  OBVIOUS
<1>5. \A r \in Refs : target'[r] # None <=> \E p \in Spots : r \in G[p]
  BY <1>3, <1>4 DEF Apart
<1> QED
  BY <1>3, <1>5 DEF Apart

LEMMA ApartDrop ==
  ASSUME Apart, target \in [Refs -> Nodes \cup {None}], NEW x \in Refs,
         target' = [target EXCEPT ![x] = None], NEW a \in Spots, x \in Held[a],
         NEW G, G[a] = Held[a] \ {x}, \A p \in Spots : p \notin {a} => G[p] = Held[p]
  PROVE  Split(Spots, G) /\ \A r \in Refs : target'[r] # None <=> \E p \in Spots : r \in G[p]
<1> DEFINE H == Held
<1>1. Split(Spots, H) /\ x \in H[a]
  BY DEF Apart
<1>2. G[a] = H[a] \ {x} /\ \A p \in Spots : p # a => G[p] = H[p]
  OBVIOUS
<1>3. /\ Split(Spots, G)
      /\ \A y : (\E p \in Spots : y \in G[p]) <=> y # x /\ (\E p \in Spots : y \in H[p])
  <2> HIDE DEF H
  <2> QED
    BY <1>1, <1>2, RemoveKeeps
<1>4. \A r \in Refs : target'[r] = IF r = x THEN None ELSE target[r]
  OBVIOUS
<1> QED
  BY <1>3, <1>4 DEF Apart

(* A frame that drops has one value to drop.                               *)
LEMMA DropsOne ==
  ASSUME IInv, NEW t \in Owners, In(t, "drop"), NEW r \in Top(t).rest
  PROVE  stack[t][Len(stack[t])].rest = {r}
<1>1. Len(stack[t]) \in 1..Len(stack[t]) /\ stack[t][Len(stack[t])].op = "drop"
  BY StackTypes DEF IInv, In, Top
<1>2. FrameShape(stack[t], Len(stack[t]))
  BY <1>1 DEF IInv, StackShape, Shape
<1> QED
  BY <1>1, <1>2 DEF FrameShape, Top

LEMMA ApartStep ==
  ASSUME IInv, [GraphNext]_graphVars
  PROVE  Apart'
<1>0. GraphTypeOK /\ Apart /\ None \notin Nodes
  BY DEF IInv, NoneAssumption
<1>h. /\ \A n \in Nodes : Slot(n) \in Spots /\ Held[Slot(n)] = slots[n] /\ Held'[Slot(n)] = slots'[n]
      /\ \A t \in Owners : Hand(t) \in Spots /\ Held[Hand(t)] = hands[t] /\ Held'[Hand(t)] = hands'[t]
  BY HeldValues, HeldNext DEF HeldAt
<1>p. \A t \in Owners, i \in Nat \ {0} :
        /\ Listed(t, i) \in Spots /\ Held[Listed(t, i)] = ListedAt(pending[t], i)
        /\ Held'[Listed(t, i)] = ListedAt(pending'[t], i)
        /\ Framed(t, i) \in Spots /\ Held[Framed(t, i)] = RestAt(stack[t], i)
        /\ Held'[Framed(t, i)] = RestAt(stack'[t], i)
  BY HeldValues, HeldNext DEF HeldAt
<1>1. CASE UNCHANGED graphVars
  <2>1. Held' = Held
    BY <1>1 DEF Held, graphVars
  <2> QED
    BY <1>0, <1>1, <2>1 DEF Apart, graphVars
<1>2. ASSUME NEW t \in Owners, NEW n \in Nodes, NEW r \in Refs, New(t, n, r) PROVE Apart'
  <2>1. \A p \in Spots : p \notin {Hand(t)} => Held'[p] = Held[p]
    <3>1. \A u \in Owners : Hand(u) \notin {Hand(t)} => hands'[u] = hands[u]
      BY <1>0, <1>2 DEF New, GraphTypeOK
    <3> QED
      BY <1>2, <3>1, SpotsKept DEF New
  <2>2. Held'[Hand(t)] = Held[Hand(t)] \cup {r}
    BY <1>0, <1>2, <1>h DEF New, GraphTypeOK
  <2> QED
    BY <1>0, <1>2, <1>h, <2>1, <2>2, ApartAdd DEF New, GraphTypeOK
<1>3. ASSUME NEW t \in Owners, NEW s \in Refs, NEW r \in Refs, Clone(t, s, r) PROVE Apart'
  <2>1. \A p \in Spots : p \notin {Hand(t)} => Held'[p] = Held[p]
    <3>1. \A u \in Owners : Hand(u) \notin {Hand(t)} => hands'[u] = hands[u]
      BY <1>0, <1>3 DEF Clone, GraphTypeOK
    <3> QED
      BY <1>3, <3>1, SpotsKept DEF Clone
  <2>2. Held'[Hand(t)] = Held[Hand(t)] \cup {r}
    BY <1>0, <1>3, <1>h DEF Clone, GraphTypeOK
  <2>3. target[s] # None
    BY <1>0, <1>3, CloneTarget
  <2> QED
    BY <1>0, <1>3, <1>h, <2>1, <2>2, <2>3, ApartAdd DEF Clone, GraphTypeOK
<1>4. ASSUME NEW t \in Owners, NEW n \in Nodes, NEW r \in Refs, StoreIn(t, n, r) PROVE Apart'
  <2>1. \A p \in Spots : p \notin {Hand(t), Slot(n)} => Held'[p] = Held[p]
    <3>1. \A u \in Owners : Hand(u) \notin {Hand(t), Slot(n)} => hands'[u] = hands[u]
      BY <1>0, <1>4 DEF StoreIn, GraphTypeOK
    <3>2. \A m \in Nodes : Slot(m) \notin {Hand(t), Slot(n)} => slots'[m] = slots[m]
      BY <1>0, <1>4 DEF StoreIn, GraphTypeOK
    <3> QED
      BY <1>4, <3>1, <3>2, SpotsKept DEF StoreIn
  <2>2. Moves(Spots, Held, Held', Hand(t), Slot(n), {r})
    BY <1>0, <1>4, <1>h, <2>1, SpotsDiffer DEF StoreIn, GraphTypeOK, Moves
  <2> QED
    BY <1>0, <1>4, <1>h, <2>2, ApartMove DEF StoreIn
<1>5. ASSUME NEW t \in Owners, NEW u \in Owners, NEW r \in Refs, Give(t, u, r) PROVE Apart'
  <2>1. \A p \in Spots : p \notin {Hand(t), Hand(u)} => Held'[p] = Held[p]
    <3>1. \A w \in Owners : Hand(w) \notin {Hand(t), Hand(u)} => hands'[w] = hands[w]
      BY <1>0, <1>5 DEF Give, GraphTypeOK
    <3> QED
      BY <1>5, <3>1, SpotsKept DEF Give
  <2>2. Moves(Spots, Held, Held', Hand(t), Hand(u), {r})
    BY <1>0, <1>5, <1>h, <2>1, SpotsDiffer DEF Give, GraphTypeOK, Moves
  <2> QED
    BY <1>0, <1>5, <1>h, <2>2, ApartMove DEF Give
<1>6. ASSUME NEW t \in Owners, NEW r \in Refs, DropHand(t, r) PROVE Apart'
  <2>1. /\ Elsewhere(t)
        /\ \A i \in Nat \ {0} : RestAt(stack'[t], i) = IF i = 1 THEN {r} ELSE RestAt(stack[t], i)
        /\ RestAt(stack[t], 1) = {}
    <3>1. Frame("drop", None, {r}) \in Frames
      BY DEF Frame, Frames
    <3>2. /\ Len(stack[t]) = 0 /\ Len(stack'[t]) = 1 /\ stack'[t][1] = Frame("drop", None, {r})
          /\ Elsewhere(t)
      BY <1>0, <1>6, <3>1, EnterStack DEF DropHand
    <3>3. stack'[t][1].rest = {r} /\ RestAt(stack[t], 1) = {}
      BY <3>2 DEF Frame, RestAt
    <3> QED
      BY <3>2, <3>3, EnterRest
  <2>2. \A p \in Spots : p \notin {Hand(t), Framed(t, 1)} => Held'[p] = Held[p]
    <3>1. \A u \in Owners : Hand(u) \notin {Hand(t), Framed(t, 1)} => hands'[u] = hands[u]
      BY <1>0, <1>6 DEF DropHand, GraphTypeOK
    <3>2. \A u \in Owners, i \in Nat \ {0} :
            Framed(u, i) \notin {Hand(t), Framed(t, 1)} => RestAt(stack'[u], i) = RestAt(stack[u], i)
      BY <2>1 DEF Elsewhere
    <3> QED
      BY <1>6, <3>1, <3>2, SpotsKept DEF DropHand
  <2>3. Moves(Spots, Held, Held', Hand(t), Framed(t, 1), {r})
    <3>1. /\ Held[Hand(t)] = hands[t] /\ Held'[Hand(t)] = hands[t] \ {r} /\ r \in hands[t]
      BY <1>0, <1>6, <1>h DEF DropHand, GraphTypeOK
    <3>2. Held[Framed(t, 1)] = {} /\ Held'[Framed(t, 1)] = {r}
      BY <1>p, <2>1
    <3> QED
      BY <2>2, <3>1, <3>2, SpotsDiffer DEF Moves
  <2> QED
    BY <1>0, <1>6, <1>h, <1>p, <2>3, ApartMove DEF DropHand
<1>7. ASSUME NEW t \in Owners, NEW n \in Nodes, NEW op \in {"drop", "clear", "release"}, NEW X,
             X \subseteq slots[n], Calls(t), stack' = [stack EXCEPT ![t] = <<Frame(op, None, X)>>],
             slots' = [slots EXCEPT ![n] = @ \ X], UNCHANGED <<live, strong, target, hands, pending, draining>>
      PROVE  Apart'
  <2>1. /\ Elsewhere(t)
        /\ \A i \in Nat \ {0} : RestAt(stack'[t], i) = IF i = 1 THEN X ELSE RestAt(stack[t], i)
        /\ RestAt(stack[t], 1) = {}
    <3>1. Frame(op, None, X) \in Frames
      BY <1>0, <1>7 DEF Frame, Frames, GraphTypeOK
    <3>2. /\ Len(stack[t]) = 0 /\ Len(stack'[t]) = 1 /\ stack'[t][1] = Frame(op, None, X)
          /\ Elsewhere(t)
      BY <1>0, <1>7, <3>1, EnterStack
    <3>3. stack'[t][1].rest = X /\ RestAt(stack[t], 1) = {}
      BY <3>2 DEF Frame, RestAt
    <3> QED
      BY <3>2, <3>3, EnterRest
  <2>2. \A p \in Spots : p \notin {Slot(n), Framed(t, 1)} => Held'[p] = Held[p]
    <3>1. \A m \in Nodes : Slot(m) \notin {Slot(n), Framed(t, 1)} => slots'[m] = slots[m]
      BY <1>0, <1>7 DEF GraphTypeOK
    <3>2. \A u \in Owners, i \in Nat \ {0} :
            Framed(u, i) \notin {Slot(n), Framed(t, 1)} => RestAt(stack'[u], i) = RestAt(stack[u], i)
      BY <2>1 DEF Elsewhere
    <3> QED
      BY <1>7, <3>1, <3>2, SpotsKept
  <2>3. Moves(Spots, Held, Held', Slot(n), Framed(t, 1), X)
    <3>1. Held[Slot(n)] = slots[n] /\ Held'[Slot(n)] = slots[n] \ X
      BY <1>0, <1>7, <1>h DEF GraphTypeOK
    <3>2. Held[Framed(t, 1)] = {} /\ Held'[Framed(t, 1)] = X
      BY <1>p, <2>1
    <3> QED
      BY <1>7, <2>2, <3>1, <3>2, SpotsDiffer DEF Moves
  <2> QED
    BY <1>0, <1>7, <1>h, <1>p, <2>3, ApartMove
<1>8. ASSUME NEW t \in Owners, NEW n \in Nodes, NEW r \in Refs, Overwrite(t, n, r) PROVE Apart'
  <2>1. {r} \subseteq slots[n] /\ "drop" \in {"drop", "clear", "release"}
    BY <1>8 DEF Overwrite
  <2> QED
    BY <1>7, <1>8, <2>1 DEF Overwrite
<1>9. ASSUME NEW t \in Owners, NEW n \in Nodes, Clear(t, n) PROVE Apart'
  <2>1. PICK op \in {"clear", "release"} : stack' = [stack EXCEPT ![t] = <<Frame(op, None, slots[n])>>]
    BY <1>9 DEF Clear
  <2>2. slots[n] \subseteq slots[n] /\ op \in {"drop", "clear", "release"} /\ slots[n] \ slots[n] = {}
    OBVIOUS
  <2>3. slots' = [slots EXCEPT ![n] = @ \ slots[n]]
    BY <1>9, <2>2 DEF Clear
  <2> QED
    BY <1>7, <1>9, <2>1, <2>2, <2>3 DEF Clear
<1>10. ASSUME NEW t \in Owners, NEW r \in Refs, LetGo(t, r) PROVE Apart'
  <2>1. target[r] \in Nodes /\ strong[target[r]] \in Nat \ {0}
    BY <1>10, LetGoTarget
  <2>2. PICK n \in Nat \ {0} : n = Len(stack[t])
    BY <1>0, <1>10, <2>1, LetGoStack
  <2> DEFINE m == target[r]
             a == Framed(t, n)
  <2>3. RestAt(stack[t], n) = {r}
    BY <1>10, <2>2, DropsOne DEF LetGo, RestAt
  <2>4. a \in Spots /\ Held[a] = {r} /\ Held'[a] = RestAt(stack'[t], n)
    BY <1>p, <2>3
  <2>5. Elsewhere(t) /\ target' = [target EXCEPT ![r] = None] /\ UNCHANGED <<hands, pending>>
    BY <1>0, <1>10, <2>1, LetGoStack DEF LetGo
  <2>6. \A k \in Nodes : k # m => slots'[k] = slots[k]
    BY <1>10 DEF LetGo
  <2>7. \A i \in Nat \ {0} : i # n => RestAt(stack'[t], i) = RestAt(stack[t], i)
    <3>1. /\ stack[t] \in Seq(Frames) /\ stack'[t] \in Seq(Frames) /\ stack[t] # <<>>
          /\ \A j \in 1..(Len(stack[t]) - 1) : stack'[t][j] = stack[t][j]
          /\ Len(stack'[t]) = Len(stack[t]) \/ Len(stack'[t]) = Len(stack[t]) - 1
      BY <1>0, <1>10, <2>1, LetGoStack DEF LetGo, In, GraphTypeOK, Kept
    <3> QED
      BY <2>2, <3>1, PopRest, TopRest
  <2>8. \A p \in Spots : p \notin {a, Slot(m)} => Held'[p] = Held[p]
    <3>1. \A k \in Nodes : Slot(k) \notin {a, Slot(m)} => slots'[k] = slots[k]
      BY <2>6
    <3>2. \A u \in Owners, i \in Nat \ {0} :
            Framed(u, i) \notin {a, Slot(m)} => RestAt(stack'[u], i) = RestAt(stack[u], i)
      BY <2>5, <2>7 DEF Elsewhere
    <3> QED
      BY <2>5, <3>1, <3>2, SpotsKept
  <2>9. CASE strong[m] = 1
    <3>1. RestAt(stack'[t], n) = slots[m] /\ slots'[m] = {}
      <4>1. Len(stack'[t]) = n /\ stack'[t][n] = Frame("tear", m, slots[m]) /\ n \in 1..n
        BY <1>0, <1>10, <2>1, <2>2, <2>9, LetGoStack
      <4>2. slots'[m] = {}
        BY <1>10, <2>1, <2>9 DEF LetGo
      <4> QED
        BY <4>1, <4>2 DEF RestAt, Frame
    <3> DEFINE G == [p \in Spots |-> IF p = a THEN {} ELSE Held[p]]
    <3>2. G[a] = Held[a] \ {r} /\ \A p \in Spots : p \notin {a} => G[p] = Held[p]
      BY <2>4
    <3>3. /\ Split(Spots, G)
          /\ \A x \in Refs : target'[x] # None <=> \E p \in Spots : x \in G[p]
      <4> HIDE DEF G, a
      <4> QED
        BY <1>0, <2>4, <2>5, <3>2, ApartDrop DEF GraphTypeOK
    <3>4. Moves(Spots, G, Held', Slot(m), a, slots[m])
      <4>1. Slot(m) # a /\ Slot(m) \in Spots /\ Held[Slot(m)] = slots[m] /\ Held'[Slot(m)] = {}
        BY <1>h, <2>1, <3>1, SpotsDiffer
      <4>2. G[Slot(m)] = slots[m] /\ G[a] = {} /\ Held'[a] = slots[m]
        BY <2>4, <3>1, <4>1
      <4>3. \A p \in Spots : p \notin {Slot(m), a} => Held'[p] = G[p]
        BY <2>8
      <4> HIDE DEF G, a
      <4> QED
        BY <4>1, <4>2, <4>3 DEF Moves
    <3>5. /\ Split(Spots, Held')
          /\ \A x : (\E p \in Spots : x \in Held'[p]) <=> (\E p \in Spots : x \in G[p])
      <4>1. Slot(m) \in Spots
        BY <1>h, <2>1
      <4> HIDE DEF G, a
      <4> QED
        BY <2>4, <3>3, <3>4, <4>1, MoveKeeps
    <3> HIDE DEF G
    <3> QED
      BY <3>3, <3>5 DEF Apart
  <2>10. CASE strong[m] # 1
    <3>1. RestAt(stack'[t], n) = {} /\ slots'[m] = slots[m]
      <4>1. Len(stack'[t]) = n - 1
        BY <1>0, <1>10, <2>1, <2>2, <2>10, LetGoStack
      <4>2. slots'[m] = slots[m]
        BY <1>10, <2>1, <2>10 DEF LetGo
      <4> QED
        BY <4>1, <4>2 DEF RestAt
    <3>2. Held'[a] = Held[a] \ {r} /\ \A p \in Spots : p \notin {a} => Held'[p] = Held[p]
      BY <1>h, <2>1, <2>4, <2>8, <3>1
    <3>3. /\ Split(Spots, Held')
          /\ \A x \in Refs : target'[x] # None <=> \E p \in Spots : x \in Held'[p]
      <4> HIDE DEF a
      <4> QED
        BY <1>0, <2>4, <2>5, <3>2, ApartDrop DEF GraphTypeOK
    <3> QED
      BY <3>3 DEF Apart
  <2> QED
    BY <2>9, <2>10
<1>11. ASSUME NEW t \in Owners, NEW r \in Refs, Release(t, r) PROVE Apart'
  <2> DEFINE s == stack[t]
             v == stack'[t]
  <2>1. /\ Len(s) \in Nat \ {0} /\ s # <<>> /\ s \in Seq(Frames) /\ v \in Seq(Frames) /\ Elsewhere(t)
        /\ \A j \in 1..(Len(s) - 1) : v[j] = s[j]
        /\ \/ Len(v) = Len(s)
           \/ Len(v) = Len(s) + 1 /\ v[Len(s) + 1] = Frame("drain", None, {})
    BY <1>0, <1>11, ReleaseStack DEF GraphTypeOK, Kept, Release, In
  <2>2. v[Len(s)].rest = s[Len(s)].rest \ {r} /\ r \in s[Len(s)].rest
    <3>1. /\ v[Len(s)] = [s[Len(s)] EXCEPT !.rest = @ \ {r}] /\ s[Len(s)] \in Frames
          /\ r \in s[Len(s)].rest
      BY <1>0, <1>11, ReleaseStack DEF Release, Top
    <3> HIDE DEF s, v
    <3> QED
      BY <3>1 DEF Frames
  <2>3. pending[t] \in Seq(Refs) /\ Len(pending[t]) \in Nat
    BY <1>0, StackTypes DEF GraphTypeOK
  <2>4. PICK n \in Nat \ {0} : n = Len(s)
    BY <2>1
  <2>5. PICK k \in Nat \ {0} : k = Len(pending[t]) + 1
    BY <2>3
  <2>6. RestAt(s, n) = s[n].rest /\ RestAt(s, n + 1) = {}
    BY <2>4 DEF RestAt
  <2>7. \A i \in Nat \ {0} : RestAt(v, i) = IF i = n THEN RestAt(s, n) \ {r} ELSE RestAt(s, i)
    <3>1. Frame("drain", None, {}).rest = {} /\ n + 1 \in Nat \ {0}
      BY DEF Frame
    <3> HIDE DEF s, v
    <3>2. CASE Len(v) = Len(s)
      BY <2>1, <2>2, <2>4, <2>6, <3>2, TopRest
    <3>3. CASE Len(v) = Len(s) + 1 /\ v[Len(s) + 1] = Frame("drain", None, {})
      BY <2>1, <2>2, <2>4, <2>6, <3>1, <3>3, PushRest
    <3> QED
      BY <2>1, <3>2, <3>3
  <2>8. \A i \in Nat \ {0} : ListedAt(pending'[t], i) = IF i = k THEN {r} ELSE ListedAt(pending[t], i)
    <3>1. pending'[t] = Append(pending[t], r)
      BY <1>0, <1>11 DEF Release, GraphTypeOK
    <3> QED
      <4> DEFINE q == pending[t]
                 w == pending'[t]
      <4>1. q \in Seq(Refs) /\ w = Append(q, r) /\ k = Len(q) + 1
        BY <2>3, <2>5, <3>1
      <4> HIDE DEF q, w
      <4>2. \A i \in Nat \ {0} : ListedAt(w, i) = IF i = k THEN {r} ELSE ListedAt(q, i)
        BY <4>1, PushListed
      <4> QED
        BY <4>2 DEF q, w
  <2>9. ListedAt(pending[t], k) = {}
    BY <2>3, <2>5 DEF ListedAt
  <2>10. \A u \in Owners : u # t => pending'[u] = pending[u] /\ stack'[u] = stack[u]
    BY <1>0, <1>11, <2>1 DEF Release, Elsewhere, GraphTypeOK
  <2> DEFINE a == Framed(t, n)
             b == Listed(t, k)
  <2>11. \A p \in Spots : p \notin {a, b} => Held'[p] = Held[p]
    <3>1. \A u \in Owners, i \in Nat \ {0} :
            Framed(u, i) \notin {a, b} => RestAt(stack'[u], i) = RestAt(stack[u], i)
      BY <2>7, <2>10
    <3>2. \A u \in Owners, i \in Nat \ {0} :
            Listed(u, i) \notin {a, b} => ListedAt(pending'[u], i) = ListedAt(pending[u], i)
      BY <2>8, <2>10
    <3> HIDE DEF a, b
    <3> QED
      BY <1>11, <3>1, <3>2, SpotsKept DEF Release, valueVars
  <2>12. a \in Spots /\ b \in Spots /\ a # b /\ UNCHANGED target
    BY <1>11, <1>p, SpotsDiffer DEF Release, valueVars
  <2>13. /\ Held[a] = RestAt(s, n) /\ Held'[a] = RestAt(s, n) \ {r}
         /\ Held[b] = {} /\ Held'[b] = {r} /\ r \in RestAt(s, n)
    BY <1>p, <2>2, <2>4, <2>6, <2>7, <2>8, <2>9
  <2> HIDE DEF a, b, s, v
  <2>14. Moves(Spots, Held, Held', a, b, {r})
    BY <2>11, <2>12, <2>13 DEF Moves
  <2> QED
    BY <1>0, <2>12, <2>14, ApartMove
<1>12. ASSUME NEW t \in Owners, NEW r \in Refs, ClearNext(t, r) PROVE Apart'
  <2> DEFINE s == stack[t]
             v == stack'[t]
  <2>1. /\ Len(s) \in Nat \ {0} /\ s # <<>> /\ s \in Seq(Frames) /\ v \in Seq(Frames) /\ Elsewhere(t)
        /\ \A j \in 1..(Len(s) - 1) : v[j] = s[j]
        /\ Len(v) = Len(s) + 1 /\ v[Len(s) + 1] = Frame("drop", None, {r})
    BY <1>0, <1>12, ClearNextStack DEF GraphTypeOK, Kept, ClearNext, In
  <2>2. v[Len(s)].rest = s[Len(s)].rest \ {r} /\ r \in s[Len(s)].rest
    <3>1. /\ v[Len(s)] = [s[Len(s)] EXCEPT !.rest = @ \ {r}] /\ s[Len(s)] \in Frames
          /\ r \in s[Len(s)].rest
      BY <1>0, <1>12, ClearNextStack DEF ClearNext, Top
    <3> HIDE DEF s, v
    <3> QED
      BY <3>1 DEF Frames
  <2>3. PICK n \in Nat \ {0} : n = Len(s)
    BY <2>1
  <2>4. RestAt(s, n) = s[n].rest /\ RestAt(s, n + 1) = {}
    BY <2>3 DEF RestAt
  <2>5. \A i \in Nat \ {0} : RestAt(v, i) = IF i = n + 1 THEN {r}
                                            ELSE IF i = n THEN RestAt(s, n) \ {r} ELSE RestAt(s, i)
    <3>1. Frame("drop", None, {r}).rest = {r}
      BY DEF Frame
    <3> HIDE DEF s, v
    <3> QED
      BY <2>1, <2>2, <2>3, <2>4, <3>1, PushRest
  <2> DEFINE a == Framed(t, n)
             b == Framed(t, n + 1)
  <2>6. \A p \in Spots : p \notin {a, b} => Held'[p] = Held[p]
    <3>1. \A u \in Owners, i \in Nat \ {0} :
            Framed(u, i) \notin {a, b} => RestAt(stack'[u], i) = RestAt(stack[u], i)
      BY <2>1, <2>5 DEF Elsewhere
    <3> HIDE DEF a, b
    <3> QED
      BY <1>12, <3>1, SpotsKept DEF ClearNext, valueVars
  <2>7. a \in Spots /\ b \in Spots /\ a # b /\ UNCHANGED target
    BY <1>12, <1>p, SpotsDiffer DEF ClearNext, valueVars
  <2>8. /\ Held[a] = RestAt(s, n) /\ Held'[a] = RestAt(s, n) \ {r}
        /\ Held[b] = {} /\ Held'[b] = {r} /\ r \in RestAt(s, n)
    BY <1>p, <2>2, <2>3, <2>4, <2>5
  <2> HIDE DEF a, b, s, v
  <2>9. Moves(Spots, Held, Held', a, b, {r})
    BY <2>6, <2>7, <2>8 DEF Moves
  <2> QED
    BY <1>0, <2>7, <2>9, ApartMove
<1>13. ASSUME NEW t \in Owners, In(t, "tear") \/ In(t, "release") \/ In(t, "clear") \/ In(t, "drain"),
              Top(t).rest = {}, stack' = [stack EXCEPT ![t] = Below(t)],
              UNCHANGED <<target, slots, hands, pending>>
       PROVE  Apart'
  <2> DEFINE s == stack[t]
             v == stack'[t]
  <2>1. /\ Len(s) \in Nat \ {0} /\ s # <<>> /\ s \in Seq(Frames) /\ v \in Seq(Frames) /\ Elsewhere(t)
        /\ \A j \in 1..(Len(s) - 1) : v[j] = s[j]
        /\ Len(v) = Len(s) - 1 /\ s[Len(s)].rest = {}
    BY <1>0, <1>13, ReturnStack DEF GraphTypeOK, Kept, In, Top
  <2>2. \A i \in Nat \ {0} : RestAt(v, i) = RestAt(s, i)
    <3> HIDE DEF s, v
    <3>1. Len(s) \in 1..Len(s)
      BY <2>1
    <3>2. RestAt(s, Len(s)) = {}
      BY <2>1, <3>1 DEF RestAt
    <3> QED
      BY <2>1, <3>2, PopRest
  <2>3. \A u \in Owners, i \in Nat \ {0} : RestAt(stack'[u], i) = RestAt(stack[u], i)
    BY <2>1, <2>2 DEF Elsewhere
  <2>4. \A p \in Spots : Held'[p] = Held[p]
    <3>1. \A p \in Spots : p \notin {} => Held'[p] = Held[p]
      BY <1>13, <2>3, SpotsKept
    <3> QED
      BY <3>1
  <2> QED
    BY <1>0, <1>13, <2>4 DEF Apart, Split
<1>14. ASSUME NEW t \in Owners, Pop(t) PROVE Apart'
  <2> DEFINE s == stack[t]
             v == stack'[t]
             q == pending[t]
             x == q[Len(q)]
  <2>1. /\ Len(s) \in Nat \ {0} /\ s # <<>> /\ s \in Seq(Frames) /\ v \in Seq(Frames) /\ Elsewhere(t)
        /\ \A j \in 1..Len(s) : v[j] = s[j]
        /\ Len(v) = Len(s) + 1 /\ v[Len(s) + 1] = Frame("drop", None, {x})
    BY <1>0, <1>14, PopStack DEF GraphTypeOK, Kept, Pop, In
  <2>2. /\ Len(q) \in Nat \ {0} /\ q # <<>> /\ q \in Seq(Refs) /\ pending'[t] \in Seq(Refs)
        /\ Len(pending'[t]) = Len(q) - 1 /\ \A i \in 1..(Len(q) - 1) : pending'[t][i] = q[i]
        /\ \A u \in Owners : u # t => pending'[u] = pending[u]
    BY <1>0, <1>14, PopStack DEF GraphTypeOK, Pop
  <2>3. PICK n \in Nat \ {0} : n = Len(s)
    BY <2>1
  <2>4. PICK k \in Nat \ {0} : k = Len(q)
    BY <2>2
  <2>5. RestAt(s, n) = s[n].rest /\ RestAt(s, n + 1) = {} /\ ListedAt(q, k) = {x}
    BY <2>3, <2>4 DEF RestAt, ListedAt
  <2>6. \A i \in Nat \ {0} : RestAt(v, i) = IF i = n + 1 THEN {x} ELSE RestAt(s, i)
    <3>1. Frame("drop", None, {x}).rest = {x}
      BY DEF Frame
    <3> HIDE DEF s, v, x
    <3>2. \A j \in 1..(Len(s) - 1) : v[j] = s[j]
      BY <2>1
    <3>3. v[n].rest = RestAt(s, n)
      BY <2>1, <2>3, <2>5
    <3> QED
      BY <2>1, <2>3, <2>5, <3>1, <3>2, <3>3, PushRest
  <2>7. \A i \in Nat \ {0} : ListedAt(pending'[t], i) = IF i = k THEN {} ELSE ListedAt(q, i)
    <3> HIDE DEF q
    <3> QED
      BY <2>2, <2>4, PopListed
  <2> DEFINE a == Listed(t, k)
             b == Framed(t, n + 1)
  <2>8. \A p \in Spots : p \notin {a, b} => Held'[p] = Held[p]
    <3>1. \A u \in Owners, i \in Nat \ {0} :
            Framed(u, i) \notin {a, b} => RestAt(stack'[u], i) = RestAt(stack[u], i)
      BY <2>1, <2>6 DEF Elsewhere
    <3>2. \A u \in Owners, i \in Nat \ {0} :
            Listed(u, i) \notin {a, b} => ListedAt(pending'[u], i) = ListedAt(pending[u], i)
      BY <2>2, <2>7
    <3> HIDE DEF a, b
    <3> QED
      BY <1>14, <3>1, <3>2, SpotsKept DEF Pop, valueVars
  <2>9. a \in Spots /\ b \in Spots /\ a # b /\ UNCHANGED target
    BY <1>14, <1>p, SpotsDiffer DEF Pop, valueVars
  <2>10. Held[a] = {x} /\ Held'[a] = {} /\ Held[b] = {} /\ Held'[b] = {x}
    BY <1>p, <2>5, <2>6, <2>7
  <2> HIDE DEF a, b, s, v, q, x
  <2>11. Moves(Spots, Held, Held', a, b, {x})
    BY <2>8, <2>9, <2>10 DEF Moves
  <2> QED
    BY <1>0, <2>9, <2>11, ApartMove
<1>15. ASSUME NEW t \in Owners, Done(t) PROVE Apart'
  BY <1>13, <1>15 DEF Done
<1>16. ASSUME NEW t \in Owners, Drained(t) PROVE Apart'
  <2>1. Len(stack[t]) \in 1..Len(stack[t]) /\ stack[t][Len(stack[t])].op = "drain"
    BY <1>0, <1>16, StackTypes DEF Drained, In, Top
  <2>2. FrameShape(stack[t], Len(stack[t]))
    BY <2>1 DEF IInv, StackShape, Shape
  <2>3. Top(t).rest = {}
    BY <2>1, <2>2 DEF FrameShape, Top
  <2> QED
    BY <1>13, <1>16, <2>3 DEF Drained, valueVars
<1> QED
  BY <1>1, <1>2, <1>3, <1>4, <1>5, <1>6, <1>8, <1>9, <1>10, <1>11, <1>12, <1>14, <1>15, <1>16
  DEF GraphNext, Teardown, Call

-----------------------------------------------------------------------------
(* Which nodes are being torn down, as the frames change.                  *)

LEMMA PopTears ==
  ASSUME NEW s \in Seq(Frames), NEW v \in Seq(Frames), s # <<>>, Len(v) = Len(s) - 1,
         \A j \in 1..(Len(s) - 1) : v[j] = s[j], NEW i \in Nat, NEW m
  PROVE  TearsAt(v, i, m) <=> i # Len(s) /\ TearsAt(s, i, m)
<1>1. PICK n \in Nat \ {0} : n = Len(s)
  BY PopFacts
<1>2. i \in 1..n <=> i \in 1..(n - 1) \/ i = n
  OBVIOUS
<1>3. i = n => i \notin 1..(n - 1)
  OBVIOUS
<1> QED
  BY <1>1, <1>2, <1>3 DEF TearsAt

LEMMA TopTears ==
  ASSUME NEW s \in Seq(Frames), NEW v \in Seq(Frames), s # <<>>, Len(v) = Len(s),
         \A j \in 1..(Len(s) - 1) : v[j] = s[j], NEW i \in Nat, NEW m
  PROVE  TearsAt(v, i, m) <=> IF i = Len(s) THEN v[Len(s)].op = "tear" /\ v[Len(s)].node = m
                              ELSE TearsAt(s, i, m)
<1>1. PICK n \in Nat \ {0} : n = Len(s)
  BY PopFacts
<1>2. i \in 1..n <=> i \in 1..(n - 1) \/ i = n
  OBVIOUS
<1> QED
  BY <1>1, <1>2 DEF TearsAt

LEMMA PushTears ==
  ASSUME NEW s \in Seq(Frames), NEW v \in Seq(Frames), s # <<>>, Len(v) = Len(s) + 1,
         \A j \in 1..(Len(s) - 1) : v[j] = s[j], NEW i \in Nat, NEW m,
         v[Len(s)].op = s[Len(s)].op, v[Len(s)].node = s[Len(s)].node, v[Len(s) + 1].op # "tear"
  PROVE  TearsAt(v, i, m) <=> TearsAt(s, i, m)
<1>1. PICK n \in Nat \ {0} : n = Len(s)
  BY PopFacts
<1>2. i \in 1..(n + 1) <=> i \in 1..(n - 1) \/ i = n \/ i = n + 1
  OBVIOUS
<1>3. i \in 1..n <=> i \in 1..(n - 1) \/ i = n
  OBVIOUS
<1> QED
  BY <1>1, <1>2, <1>3 DEF TearsAt

LEMMA EnterTears ==
  ASSUME NEW s, NEW v, Len(s) = 0, Len(v) = 1, v[1].op # "tear", NEW i \in Nat, NEW m
  PROVE  TearsAt(v, i, m) <=> TearsAt(s, i, m)
BY DEF TearsAt

TearsSame == \A u \in Owners, i \in Nat, m \in Nodes : TearsAt(stack'[u], i, m) <=> TearsAt(stack[u], i, m)

(* The steps that count, allocate, free, or begin or end a teardown; the   *)
(* others do none of that.                                                 *)
TearsNone == TearsSame /\ UNCHANGED <<live, strong, target>>
TearsMore(t, n) ==
  \A u \in Owners, i \in Nat, m \in Nodes :
    TearsAt(stack'[u], i, m) <=> TearsAt(stack[u], i, m) \/ (u = t /\ i = Len(stack[t]) /\ m = n)
TearsLess(t) ==
  \A u \in Owners, i \in Nat, m \in Nodes :
    TearsAt(stack'[u], i, m) <=> TearsAt(stack[u], i, m) /\ ~(u = t /\ i = Len(stack[t]))

LEMMA TearsKinds ==
  ASSUME IInv, [GraphNext]_graphVars
  PROVE  \/ TearsNone
         \/ \E t \in Owners, n \in Nodes, r \in Refs : New(t, n, r) /\ TearsSame
         \/ \E t \in Owners, s, r \in Refs : Clone(t, s, r) /\ TearsSame
         \/ \E t \in Owners, r \in Refs : LetGo(t, r) /\ strong[target[r]] # 1 /\ TearsSame
         \/ \E t \in Owners, r \in Refs : LetGo(t, r) /\ strong[target[r]] = 1 /\ TearsMore(t, target[r])
         \/ \E t \in Owners, n \in Nodes :
              /\ TearsAt(stack[t], Len(stack[t]), n) /\ TearsLess(t)
              /\ live' = live \ {n} /\ UNCHANGED <<strong, target>>
<1>0. GraphTypeOK /\ None \notin Nodes
  BY DEF IInv, NoneAssumption
<1>1. UNCHANGED stack => TearsSame
  BY DEF TearsSame
<1>2. ASSUME NEW t \in Owners, NEW op \in {"drop", "clear", "release"}, NEW X, X \subseteq Refs,
             Calls(t), stack' = [stack EXCEPT ![t] = <<Frame(op, None, X)>>]
      PROVE  TearsSame
  <2>1. Frame(op, None, X) \in Frames
    BY <1>2 DEF Frame, Frames
  <2>2. /\ Len(stack[t]) = 0 /\ Len(stack'[t]) = 1 /\ stack'[t][1] = Frame(op, None, X)
        /\ Elsewhere(t)
    BY <1>0, <1>2, <2>1, EnterStack
  <2>3. stack'[t][1].op # "tear"
    BY <2>2 DEF Frame
  <2>4. \A i \in Nat, m \in Nodes : TearsAt(stack'[t], i, m) <=> TearsAt(stack[t], i, m)
    BY <2>2, <2>3, EnterTears
  <2> QED
    BY <2>2, <2>4 DEF TearsSame, Elsewhere
<1>3. ASSUME NEW t \in Owners, NEW r \in Refs, LetGo(t, r)
      PROVE  IF strong[target[r]] = 1 THEN TearsMore(t, target[r]) ELSE TearsSame
  <2> DEFINE s == stack[t]
             v == stack'[t]
             n == target[r]
  <2>1. target[r] \in Nodes
    BY <1>3, LetGoTarget
  <2>2. /\ s \in Seq(Frames) /\ s # <<>> /\ v \in Seq(Frames) /\ Len(s) \in Nat \ {0} /\ Elsewhere(t)
        /\ \A j \in 1..(Len(s) - 1) : v[j] = s[j]
        /\ s[Len(s)].op = "drop"
    BY <1>0, <1>3, <2>1, LetGoStack DEF LetGo, In, Top, GraphTypeOK, Kept
  <2>3. /\ strong[n] = 1 => /\ Len(v) = Len(s) /\ v[Len(s)] = Frame("tear", n, slots[n])
        /\ strong[n] # 1 => Len(v) = Len(s) - 1
    BY <1>0, <1>3, <2>1, LetGoStack
  <2>4. \A m : ~TearsAt(s, Len(s), m)
    BY <2>2 DEF TearsAt
  <2>5. ASSUME strong[n] = 1, NEW i \in Nat, NEW m \in Nodes
        PROVE TearsAt(v, i, m) <=> TearsAt(s, i, m) \/ (i = Len(s) /\ m = n)
    <3>1. v[Len(s)].op = "tear" /\ v[Len(s)].node = n /\ Len(v) = Len(s)
      BY <2>3, <2>5 DEF Frame
    <3> HIDE DEF s, v, n
    <3> QED
      BY <2>2, <2>4, <3>1, TopTears
  <2>6. ASSUME strong[n] # 1, NEW i \in Nat, NEW m \in Nodes
        PROVE TearsAt(v, i, m) <=> TearsAt(s, i, m)
    <3>1. Len(v) = Len(s) - 1
      BY <2>3, <2>6
    <3> HIDE DEF s, v, n
    <3> QED
      BY <2>2, <2>4, <3>1, PopTears
  <2> QED
    BY <2>2, <2>5, <2>6 DEF Elsewhere, TearsMore, TearsSame
<1>4. ASSUME NEW t \in Owners, NEW r \in Refs, Release(t, r) PROVE TearsNone
  <2> DEFINE s == stack[t]
             v == stack'[t]
  <2>1. /\ Len(s) \in Nat \ {0} /\ s # <<>> /\ s \in Seq(Frames) /\ v \in Seq(Frames) /\ Elsewhere(t)
        /\ \A j \in 1..(Len(s) - 1) : v[j] = s[j]
        /\ \/ Len(v) = Len(s)
           \/ Len(v) = Len(s) + 1 /\ v[Len(s) + 1] = Frame("drain", None, {})
    BY <1>0, <1>4, ReleaseStack DEF GraphTypeOK, Kept, Release, In
  <2>2. v[Len(s)].op = s[Len(s)].op /\ v[Len(s)].node = s[Len(s)].node
    <3>1. v[Len(s)] = [s[Len(s)] EXCEPT !.rest = @ \ {r}] /\ s[Len(s)] \in Frames
      BY <1>0, <1>4, ReleaseStack
    <3> HIDE DEF s, v
    <3> QED
      BY <3>1 DEF Frames
  <2>3. ASSUME NEW i \in Nat, NEW m \in Nodes PROVE TearsAt(v, i, m) <=> TearsAt(s, i, m)
    <3> HIDE DEF s, v
    <3>1. CASE Len(v) = Len(s)
      <4>1. TearsAt(s, Len(s), m) <=> s[Len(s)].op = "tear" /\ s[Len(s)].node = m
        BY <2>1 DEF TearsAt
      <4> QED
        BY <2>1, <2>2, <3>1, <4>1, TopTears
    <3>2. CASE Len(v) = Len(s) + 1 /\ v[Len(s) + 1] = Frame("drain", None, {})
      <4>1. v[Len(s) + 1].op # "tear"
        BY <3>2 DEF Frame
      <4> QED
        BY <2>1, <2>2, <3>2, <4>1, PushTears
    <3> QED
      BY <2>1, <3>1, <3>2
  <2> QED
    BY <1>4, <2>1, <2>3 DEF Release, valueVars, Elsewhere, TearsSame, TearsNone
<1>5. ASSUME NEW t \in Owners, NEW r \in Refs, ClearNext(t, r) PROVE TearsNone
  <2> DEFINE s == stack[t]
             v == stack'[t]
  <2>1. /\ Len(s) \in Nat \ {0} /\ s # <<>> /\ s \in Seq(Frames) /\ v \in Seq(Frames) /\ Elsewhere(t)
        /\ \A j \in 1..(Len(s) - 1) : v[j] = s[j]
        /\ Len(v) = Len(s) + 1 /\ v[Len(s) + 1] = Frame("drop", None, {r})
    BY <1>0, <1>5, ClearNextStack DEF GraphTypeOK, Kept, ClearNext, In
  <2>2. v[Len(s)].op = s[Len(s)].op /\ v[Len(s)].node = s[Len(s)].node
    <3>1. v[Len(s)] = [s[Len(s)] EXCEPT !.rest = @ \ {r}] /\ s[Len(s)] \in Frames
      BY <1>0, <1>5, ClearNextStack
    <3> HIDE DEF s, v
    <3> QED
      BY <3>1 DEF Frames
  <2>3. ASSUME NEW i \in Nat, NEW m \in Nodes PROVE TearsAt(v, i, m) <=> TearsAt(s, i, m)
    <3> HIDE DEF s, v
    <3>1. v[Len(s) + 1].op # "tear"
      BY <2>1 DEF Frame
    <3> QED
      BY <2>1, <2>2, <3>1, PushTears
  <2> QED
    BY <1>5, <2>1, <2>3 DEF ClearNext, valueVars, Elsewhere, TearsSame, TearsNone
<1>6. ASSUME NEW t \in Owners, Pop(t) PROVE TearsNone
  <2> DEFINE s == stack[t]
             v == stack'[t]
             x == pending[t][Len(pending[t])]
  <2>1. /\ Len(s) \in Nat \ {0} /\ s # <<>> /\ s \in Seq(Frames) /\ v \in Seq(Frames) /\ Elsewhere(t)
        /\ \A j \in 1..Len(s) : v[j] = s[j]
        /\ Len(v) = Len(s) + 1 /\ v[Len(s) + 1] = Frame("drop", None, {x})
    BY <1>0, <1>6, PopStack DEF GraphTypeOK, Kept, Pop, In
  <2>2. ASSUME NEW i \in Nat, NEW m \in Nodes PROVE TearsAt(v, i, m) <=> TearsAt(s, i, m)
    <3> HIDE DEF s, v
    <3>1. v[Len(s) + 1].op # "tear"
      BY <2>1 DEF Frame
    <3>2. v[Len(s)] = s[Len(s)] /\ \A j \in 1..(Len(s) - 1) : v[j] = s[j]
      BY <2>1
    <3> QED
      BY <2>1, <3>1, <3>2, PushTears
  <2> QED
    BY <1>6, <2>1, <2>2 DEF Pop, valueVars, Elsewhere, TearsSame, TearsNone
<1>7. ASSUME NEW t \in Owners, stack[t] # <<>>, stack' = [stack EXCEPT ![t] = Below(t)]
      PROVE  TearsLess(t)
  <2> DEFINE s == stack[t]
             v == stack'[t]
  <2>1. /\ s # <<>> /\ s \in Seq(Frames) /\ v \in Seq(Frames) /\ Elsewhere(t)
        /\ \A j \in 1..(Len(s) - 1) : v[j] = s[j]
        /\ Len(v) = Len(s) - 1
    BY <1>0, <1>7, ReturnStack DEF GraphTypeOK, Kept
  <2>2. ASSUME NEW i \in Nat, NEW m \in Nodes PROVE TearsAt(v, i, m) <=> i # Len(s) /\ TearsAt(s, i, m)
    <3> HIDE DEF s, v
    <3> QED
      BY <2>1, PopTears
  <2> QED
    BY <2>1, <2>2 DEF Elsewhere, TearsLess
<1>8. ASSUME NEW t \in Owners, stack[t] # <<>>, Top(t).op # "tear", TearsLess(t) PROVE TearsSame
  BY <1>8 DEF TearsLess, TearsSame, TearsAt, Top
<1>9. ASSUME NEW t \in Owners, Drained(t) PROVE TearsNone
  <2>1. stack[t] # <<>> /\ Top(t).op # "tear"
    BY <1>9 DEF Drained, In
  <2> QED
    BY <1>7, <1>8, <1>9, <2>1 DEF Drained, valueVars, TearsNone
<1>10. ASSUME NEW t \in Owners, Done(t)
       PROVE  \/ TearsNone
              \/ \E n \in Nodes : /\ TearsAt(stack[t], Len(stack[t]), n) /\ TearsLess(t)
                                  /\ live' = live \ {n} /\ UNCHANGED <<strong, target>>
  <2>1. /\ stack[t] # <<>> /\ Len(stack[t]) \in 1..Len(stack[t]) /\ TearsLess(t)
        /\ stack[t][Len(stack[t])] \in Frames
    <3>1. stack[t] # <<>> /\ stack' = [stack EXCEPT ![t] = Below(t)]
      BY <1>10 DEF Done, In
    <3>2. TearsLess(t)
      BY <1>7, <3>1
    <3> QED
      BY <1>0, <3>1, <3>2, StackTypes
  <2>2. Top(t).op = "tear" <=> Top(t).node # None
    BY <2>1 DEF IInv, StackShape, Shape, FrameShape, Top
  <2>3. CASE Top(t).op = "tear"
    <3>1. Top(t).node \in Nodes /\ TearsAt(stack[t], Len(stack[t]), Top(t).node)
      BY <2>1, <2>2, <2>3 DEF Frames, Top, TearsAt
    <3> QED
      BY <1>10, <2>1, <3>1 DEF Done
  <2>4. CASE Top(t).op # "tear"
    <3>1. live' = live
      BY <1>0, <1>10, <2>2, <2>4 DEF Done, GraphTypeOK
    <3> QED
      BY <1>8, <1>10, <2>1, <2>4, <3>1 DEF Done, TearsNone
  <2> QED
    BY <2>3, <2>4
<1>11. ASSUME NEW t \in Owners, NEW r \in Refs, DropHand(t, r) PROVE TearsNone
  <2>1. TearsSame
    BY <1>2, <1>11 DEF DropHand
  <2> QED
    BY <1>11, <2>1 DEF DropHand, TearsNone
<1>12. ASSUME NEW t \in Owners, NEW n \in Nodes, NEW r \in Refs, Overwrite(t, n, r) PROVE TearsNone
  <2>1. TearsSame
    BY <1>2, <1>12 DEF Overwrite
  <2> QED
    BY <1>12, <2>1 DEF Overwrite, TearsNone
<1>13. ASSUME NEW t \in Owners, NEW n \in Nodes, Clear(t, n) PROVE TearsNone
  <2>1. PICK op \in {"clear", "release"} : stack' = [stack EXCEPT ![t] = <<Frame(op, None, slots[n])>>]
    BY <1>13 DEF Clear
  <2>2. slots[n] \subseteq Refs /\ op \in {"drop", "clear", "release"}
    BY <1>0 DEF GraphTypeOK
  <2>3. TearsSame
    BY <1>2, <1>13, <2>1, <2>2 DEF Clear
  <2> QED
    BY <1>13, <2>3 DEF Clear, TearsNone
<1>14. CASE UNCHANGED graphVars
  BY <1>1, <1>14 DEF graphVars, TearsNone
<1>15. ASSUME NEW t \in Owners, NEW n \in Nodes, NEW r \in Refs, StoreIn(t, n, r) PROVE TearsNone
  BY <1>1, <1>15 DEF StoreIn, TearsNone
<1>16. ASSUME NEW t \in Owners, NEW u \in Owners, NEW r \in Refs, Give(t, u, r) PROVE TearsNone
  BY <1>1, <1>16 DEF Give, TearsNone
<1>17. ASSUME NEW t \in Owners, NEW n \in Nodes, NEW r \in Refs, New(t, n, r) PROVE TearsSame
  BY <1>1, <1>17 DEF New
<1>18. ASSUME NEW t \in Owners, NEW s \in Refs, NEW r \in Refs, Clone(t, s, r) PROVE TearsSame
  BY <1>1, <1>18 DEF Clone
<1> QED
  BY <1>3, <1>4, <1>5, <1>6, <1>9, <1>10, <1>11, <1>12, <1>13, <1>14, <1>15, <1>16, <1>17, <1>18
  DEF GraphNext, Teardown, Call

-----------------------------------------------------------------------------
(* The counts.                                                             *)

(* CountsExact, by its parts.                                              *)
Torn(n) == \E t \in Owners, i \in Nat : TearsAt(stack[t], i, n)
Counted == \A n \in Nodes : strong[n] = Cardinality(Referrers(n))
Alive == \A n \in Nodes : /\ strong[n] > 0 => n \in live
                          /\ n \in live => strong[n] > 0 \/ Torn(n)

LEMMA CountsParts ==
  ASSUME GraphTypeOK
  PROVE  CountsExact <=> Counted /\ Alive
<1>1. ASSUME NEW n \in Nodes
      PROVE  (\E t \in Owners : \E i \in DOMAIN stack[t] :
                stack[t][i].op = "tear" /\ stack[t][i].node = n) <=> Torn(n)
  <2>1. \A t \in Owners : DOMAIN stack[t] = 1..Len(stack[t]) /\ DOMAIN stack[t] \subseteq Nat
    <3>1. \A t \in Owners : stack[t] \in Seq(Frames)
      BY DEF GraphTypeOK
    <3> QED
      BY <3>1, LenProperties
  <2> QED
    BY <2>1 DEF Torn, TearsAt
<1>2. live \subseteq Nodes
  BY DEF GraphTypeOK
<1> QED
  BY <1>1, <1>2 DEF CountsExact, Counted, Alive

LEMMA ReferrersFinite ==
  ASSUME FiniteAssumption, NEW n \in Nodes
  PROVE  IsFiniteSet(Referrers(n)) /\ Cardinality(Referrers(n)) \in Nat
BY FS_Subset, FS_CardinalityType DEF Referrers, FiniteAssumption

LEMMA CountedStep ==
  ASSUME IInv, [GraphNext]_graphVars
  PROVE  Counted'
<1>0. GraphTypeOK /\ Counted /\ Alive /\ FiniteAssumption /\ None \notin Nodes
  BY CountsParts DEF IInv, NoneAssumption
<1>1. ASSUME NEW r \in Refs, NEW n \in Nodes, target[r] = None, target' = [target EXCEPT ![r] = n],
             strong'[n] = strong[n] + 1, \A m \in Nodes : m # n => strong'[m] = strong[m]
      PROVE  Counted'
  <2>1. \A x \in Refs : target'[x] = IF x = r THEN n ELSE target[x]
    BY <1>0, <1>1 DEF GraphTypeOK
  <2>2. Referrers(n)' = Referrers(n) \cup {r} /\ r \notin Referrers(n)
    BY <1>0, <1>1, <2>1 DEF Referrers
  <2>3. \A m \in Nodes : m # n => Referrers(m)' = Referrers(m)
    BY <1>0, <1>1, <2>1 DEF Referrers
  <2>4. Cardinality(Referrers(n) \cup {r}) = Cardinality(Referrers(n)) + 1
    BY <1>0, <2>2, ReferrersFinite, FS_AddElement
  <2>5. strong'[n] = Cardinality(Referrers(n)')
    BY <1>0, <1>1, <2>2, <2>4 DEF Counted
  <2>6. \A m \in Nodes : m # n => strong'[m] = Cardinality(Referrers(m)')
    BY <1>0, <1>1, <2>3 DEF Counted
  <2> QED
    BY <2>5, <2>6 DEF Counted
<1>2. ASSUME UNCHANGED <<strong, target>> PROVE Counted'
  <2>1. \A m \in Nodes : Referrers(m)' = Referrers(m)
    BY <1>2 DEF Referrers
  <2> QED
    BY <1>0, <1>2, <2>1 DEF Counted
<1>3. ASSUME NEW t \in Owners, NEW n \in Nodes, NEW r \in Refs, New(t, n, r) PROVE Counted'
  <2>1. strong[n] = 0
    BY <1>0, <1>3 DEF New, Alive, GraphTypeOK
  <2>2. /\ target[r] = None /\ target' = [target EXCEPT ![r] = n]
        /\ strong'[n] = strong[n] + 1 /\ \A m \in Nodes : m # n => strong'[m] = strong[m]
    BY <1>0, <1>3, <2>1 DEF New, GraphTypeOK
  <2> QED
    BY <1>1, <2>2
<1>4. ASSUME NEW t \in Owners, NEW s \in Refs, NEW r \in Refs, Clone(t, s, r) PROVE Counted'
  <2>1. target[s] \in Nodes
    BY <1>4, CloneTarget
  <2> QED
    BY <1>0, <1>1, <1>4, <2>1 DEF Clone, GraphTypeOK
<1>5. ASSUME NEW t \in Owners, NEW r \in Refs, LetGo(t, r) PROVE Counted'
  <2> DEFINE n == target[r]
  <2>1. n \in Nodes /\ r \in Referrers(n)
    BY <1>5, LetGoTarget
  <2>2. \A x \in Refs : target'[x] = IF x = r THEN None ELSE target[x]
    BY <1>0, <1>5 DEF GraphTypeOK, LetGo
  <2>3. \A m \in Nodes : Referrers(m)' = IF m = n THEN Referrers(m) \ {r} ELSE Referrers(m)
    BY <1>0, <2>1, <2>2 DEF Referrers
  <2>4. Cardinality(Referrers(n) \ {r}) = Cardinality(Referrers(n)) - 1
    BY <1>0, <2>1, ReferrersFinite, FS_RemoveElement
  <2>5. strong'[n] = strong[n] - 1 /\ \A m \in Nodes : m # n => strong'[m] = strong[m]
    BY <1>0, <1>5, <2>1 DEF LetGo, GraphTypeOK
  <2>6. strong'[n] = Cardinality(Referrers(n) \ {r})
    BY <1>0, <2>1, <2>4, <2>5 DEF Counted
  <2>7. \A m \in Nodes : strong'[m] = Cardinality(Referrers(m)')
    BY <1>0, <2>3, <2>5, <2>6 DEF Counted
  <2> QED
    BY <2>7 DEF Counted
<1> QED
  BY <1>2, <1>3, <1>4, <1>5, TearsKinds DEF TearsNone

LEMMA TornStep ==
  ASSUME IInv, [GraphNext]_graphVars
  PROVE  TornApart' /\ Alive'
<1>0. GraphTypeOK /\ TornApart /\ Alive
  BY CountsParts DEF IInv
<1>t. \A n \in Nodes : strong[n] \in Nat
  BY <1>0 DEF GraphTypeOK
<1>1. ASSUME TearsSame, live \subseteq live',
             \A n \in Nodes : n \in live => strong'[n] > 0 \/ strong'[n] = strong[n],
             \A n \in Nodes : n \in live /\ strong[n] = 0 => strong'[n] = 0,
             \A n \in Nodes : strong'[n] > 0 => n \in live',
             \A n \in Nodes : n \in live' => n \in live \/ strong'[n] > 0
      PROVE  TornApart' /\ Alive'
  <2>1. TornApart'
    BY <1>0, <1>1 DEF TornApart, TearsSame
  <2>2. \A n \in Nodes : Torn(n) => Torn(n)'
    BY <1>1 DEF Torn, TearsSame
  <2>3. Alive'
    BY <1>0, <1>1, <2>2 DEF Alive
  <2> QED
    BY <2>1, <2>3
<1>2. CASE TearsNone
  BY <1>0, <1>1, <1>2 DEF TearsNone, Alive
<1>3. ASSUME NEW t \in Owners, NEW n \in Nodes, NEW r \in Refs, New(t, n, r), TearsSame
      PROVE  TornApart' /\ Alive'
  <2>1. live' = live \cup {n} /\ n \notin live /\ \A m \in Nodes : strong'[m] = IF m = n THEN 1 ELSE strong[m]
    BY <1>0, <1>3 DEF New, GraphTypeOK
  <2> QED
    BY <1>0, <1>1, <1>3, <2>1 DEF Alive
<1>4. ASSUME NEW t \in Owners, NEW s \in Refs, NEW r \in Refs, Clone(t, s, r), TearsSame
      PROVE  TornApart' /\ Alive'
  <2>1. target[s] \in Nodes /\ strong[target[s]] > 0
    BY <1>4, CloneTarget
  <2>2. /\ live' = live
        /\ \A m \in Nodes : strong'[m] = IF m = target[s] THEN strong[m] + 1 ELSE strong[m]
    BY <1>0, <1>4, <2>1 DEF Clone, GraphTypeOK
  <2> QED
    BY <1>0, <1>1, <1>t, <1>4, <2>1, <2>2 DEF Alive
<1>5. ASSUME NEW t \in Owners, NEW r \in Refs, LetGo(t, r), strong[target[r]] # 1, TearsSame
      PROVE  TornApart' /\ Alive'
  <2>1. target[r] \in Nodes /\ strong[target[r]] \in Nat \ {0}
    BY <1>5, LetGoTarget
  <2>2. /\ live' = live
        /\ \A m \in Nodes : strong'[m] = IF m = target[r] THEN strong[m] - 1 ELSE strong[m]
    BY <1>0, <1>5, <2>1 DEF LetGo, GraphTypeOK
  <2>3. strong'[target[r]] > 0
    BY <1>5, <2>1, <2>2
  <2> QED
    BY <1>0, <1>1, <1>t, <1>5, <2>1, <2>2, <2>3 DEF Alive
<1>6. ASSUME NEW t \in Owners, NEW r \in Refs, LetGo(t, r), strong[target[r]] = 1,
             TearsMore(t, target[r])
      PROVE  TornApart' /\ Alive'
  <2> DEFINE n == target[r]
  <2>1. n \in Nodes /\ Len(stack[t]) \in Nat
    BY <1>0, <1>6, LetGoTarget, StackTypes
  <2>2. live' = live /\ \A m \in Nodes : strong'[m] = IF m = n THEN 0 ELSE strong[m]
    BY <1>0, <1>6, <2>1 DEF LetGo, GraphTypeOK
  <2>3. n \in live /\ \A u \in Owners, i \in Nat : ~TearsAt(stack[u], i, n)
    BY <1>0, <1>6, <2>1 DEF Alive, TornApart
  <2>4. \A u \in Owners, i \in Nat, m \in Nodes :
          TearsAt(stack'[u], i, m) <=> TearsAt(stack[u], i, m) \/ (u = t /\ i = Len(stack[t]) /\ m = n)
    BY <1>6 DEF TearsMore
  <2>5. TornApart'
    <3>1. ASSUME NEW m \in Nodes, NEW u \in Owners, NEW i \in Nat, TearsAt(stack'[u], i, m)
          PROVE  /\ m \in live' /\ strong'[m] = 0
                 /\ \A w \in Owners, j \in Nat : TearsAt(stack'[w], j, m) => w = u /\ j = i
      <4>1. CASE m = n
        BY <2>2, <2>3, <2>4, <3>1, <4>1
      <4>2. CASE m # n
        BY <1>0, <2>2, <2>4, <3>1, <4>2 DEF TornApart
      <4> QED
        BY <4>1, <4>2
    <3> QED
      BY <3>1 DEF TornApart
  <2>6. \A m \in Nodes : Torn(m) \/ m = n => Torn(m)'
    BY <2>1, <2>4 DEF Torn
  <2>7. Alive'
    BY <1>0, <2>2, <2>6 DEF Alive
  <2> QED
    BY <2>5, <2>7
<1>7. ASSUME NEW t \in Owners, NEW n \in Nodes, TearsAt(stack[t], Len(stack[t]), n), TearsLess(t),
             live' = live \ {n}, UNCHANGED <<strong, target>>
      PROVE  TornApart' /\ Alive'
  <2>1. Len(stack[t]) \in Nat
    BY <1>0, StackTypes
  <2>2. strong[n] = 0 /\ \A u \in Owners, i \in Nat : TearsAt(stack[u], i, n) => u = t /\ i = Len(stack[t])
    BY <1>0, <1>7, <2>1 DEF TornApart
  <2>3. \A u \in Owners, i \in Nat, m \in Nodes :
          TearsAt(stack'[u], i, m) <=> TearsAt(stack[u], i, m) /\ m # n
    <3>1. \A m \in Nodes : TearsAt(stack[t], Len(stack[t]), m) => m = n
      BY <1>7 DEF TearsAt
    <3> QED
      BY <1>7, <2>2, <3>1 DEF TearsLess
  <2>4. TornApart'
    BY <1>0, <1>7, <2>3 DEF TornApart
  <2>5. \A m \in Nodes : Torn(m) /\ m # n => Torn(m)'
    BY <2>3 DEF Torn
  <2>6. Alive'
    BY <1>0, <1>7, <2>2, <2>5 DEF Alive
  <2> QED
    BY <2>4, <2>6
<1> QED
  BY <1>2, <1>3, <1>4, <1>5, <1>6, <1>7, TearsKinds

-----------------------------------------------------------------------------
(* The theorems.                                                           *)

LEMMA InitIInv ==
  ASSUME NoneAssumption, FiniteAssumption, GraphInit
  PROVE  IInv
<1>1. GraphTypeOK
  BY DEF GraphInit, GraphTypeOK
<1>2. \A t \in Owners : stack[t] = <<>> /\ Len(stack[t]) = 0 /\ pending[t] = <<>> /\ Len(pending[t]) = 0 /\ ~draining[t]
  BY DEF GraphInit
<1>3. StackShape
  BY <1>2 DEF StackShape, Shape
<1>4. \A t \in Owners, i \in Nat : 
        /\ ListedAt(pending[t], i) = {} /\ RestAt(stack[t], i) = {}
        /\ \A n : ~TearsAt(stack[t], i, n)
  BY <1>2 DEF ListedAt, RestAt, TearsAt
<1>5. \A p \in Spots : Held[p] = {}
  <2> TAKE p \in Spots
  <2>1. ASSUME NEW n \in Nodes, p = Slot(n) PROVE Held[p] = {}
    BY <2>1, HeldValues DEF HeldAt, GraphInit
  <2>2. ASSUME NEW t \in Owners, p = Hand(t) PROVE Held[p] = {}
    BY <2>2, HeldValues DEF HeldAt, GraphInit
  <2>3. ASSUME NEW t \in Owners, NEW i \in Nat \ {0}, p = Listed(t, i) PROVE Held[p] = {}
    BY <1>4, <2>3, HeldValues DEF HeldAt
  <2>4. ASSUME NEW t \in Owners, NEW i \in Nat \ {0}, p = Framed(t, i) PROVE Held[p] = {}
    BY <1>4, <2>4, HeldValues DEF HeldAt
  <2> QED
    BY <2>1, <2>2, <2>3, <2>4, SpotKinds
<1>6. Apart
  BY <1>5 DEF Apart, Split, GraphInit
<1>7. TornApart
  BY <1>4 DEF TornApart
<1>8. \A n \in Nodes : Referrers(n) = {}
  BY DEF Referrers, GraphInit, NoneAssumption
<1>9. Counted /\ Alive
  <2>1. \A n \in Nodes : Cardinality(Referrers(n)) = 0 /\ strong[n] = 0 /\ n \notin live
    BY <1>8, FS_EmptySet DEF GraphInit
  <2> QED
    BY <2>1 DEF Counted, Alive
<1> QED
  BY <1>1, <1>3, <1>6, <1>7, <1>9, CountsParts DEF IInv

LEMMA NextIInv ==
  ASSUME IInv, [GraphNext]_graphVars
  PROVE  IInv'
<1>1. GraphTypeOK' /\ Counted' /\ Alive'
  BY TypeStep, CountedStep, TornStep
<1>2. (GraphTypeOK => (CountsExact <=> Counted /\ Alive))'
  BY CountsParts, PTL
<1>3. NoneAssumption' /\ FiniteAssumption'
  BY DEF IInv, NoneAssumption, FiniteAssumption
<1> QED
  BY <1>1, <1>2, <1>3, ShapeStep, ApartStep, TornStep DEF IInv

(* The invariant.                                                          *)
LEMMA Invariance ==
  ASSUME NoneAssumption, FiniteAssumption
  PROVE  GraphSpec => []IInv
<1>1. GraphInit => IInv
  BY InitIInv
<1>2. IInv /\ [GraphNext]_graphVars => IInv'
  BY NextIInv
<1> QED
  BY <1>1, <1>2, PTL DEF GraphSpec

(* The state is made of what it should be, for any threads, nodes and      *)
(* references (heap.rs, the counts of Arc and the thread's worklist).      *)
THEOREM TypeCorrect ==
  ASSUME NoneAssumption, FiniteAssumption
  PROVE  GraphSpec => []GraphTypeOK
<1>1. IInv => GraphTypeOK
  BY DEF IInv
<1> QED
  BY <1>1, Invariance, PTL

(* However deep the graph that dies and whatever the threads do meanwhile, *)
(* no more than four native frames of its teardown nest in any thread      *)
(* (release_value drains in the outermost frame only, heap.rs).            *)
THEOREM StacksAreBounded ==
  ASSUME NoneAssumption, FiniteAssumption
  PROVE  GraphSpec => []StackBounded
<1>1. IInv => StackBounded
  BY DEF IInv, StackShape, Shape, StackBounded
<1> QED
  BY <1>1, Invariance, PTL

(* The strong counts are exact: none is freed while it is referred to, and *)
(* none that nobody refers to is kept (the counts of Arc, and the Drop     *)
(* impls of scalar.rs and containers.rs).                                  *)
THEOREM CountsAreExact ==
  ASSUME NoneAssumption, FiniteAssumption
  PROVE  GraphSpec => []CountsExact
<1>1. IInv => CountsExact
  BY DEF IInv
<1> QED
  BY <1>1, Invariance, PTL

(* Places, taken apart.                                                    *)
LEMMA PlacesParts ==
  ASSUME NEW r \in Refs, NEW x
  PROVE  x \in Places(r) <=>
           \/ x \in InSlots(r) \/ x \in InHands(r)
           \/ \E t \in Owners : \E i \in DOMAIN pending[t] : pending[t][i] = r /\ x = <<"pending", t, i>>
           \/ \E t \in Owners : \E i \in DOMAIN stack[t] : r \in stack[t][i].rest /\ x = <<"frame", t, i>>
<1>5. x \in Places(r) <=> x \in InSlots(r) \/ x \in InHands(r) \/ x \in OnLists(r) \/ x \in InStacks(r)
  BY DEF Places
<1>6. x \in OnLists(r) <=> \E t \in Owners : x \in OnList(r, t)
  BY DEF OnLists
<1>7. x \in InStacks(r) <=> \E t \in Owners : x \in InFrames(r, t)
  BY DEF InStacks
<1>8. ASSUME NEW t
      PROVE  x \in OnList(r, t) <=> \E i \in DOMAIN pending[t] : pending[t][i] = r /\ x = <<"pending", t, i>>
  <2> DEFINE p == {j \in DOMAIN pending[t] : pending[t][j] = r}
  <2>1. \A i : i \in p <=> i \in DOMAIN pending[t] /\ pending[t][i] = r
    OBVIOUS
  <2> HIDE DEF p
  <2>2. x \in {<<"pending", t, i>> : i \in p} <=> \E i \in p : x = <<"pending", t, i>>
    OBVIOUS
  <2>3. OnList(r, t) = {<<"pending", t, i>> : i \in p}
    BY Zenon DEF p, OnList
  <2> QED
    BY <2>1, <2>2, <2>3
<1>9. ASSUME NEW t
      PROVE  x \in InFrames(r, t) <=> \E i \in DOMAIN stack[t] : r \in stack[t][i].rest /\ x = <<"frame", t, i>>
  <2> DEFINE f == {j \in DOMAIN stack[t] : r \in stack[t][j].rest}
  <2>1. \A i : i \in f <=> i \in DOMAIN stack[t] /\ r \in stack[t][i].rest
    OBVIOUS
  <2> HIDE DEF f
  <2>2. x \in {<<"frame", t, i>> : i \in f} <=> \E i \in f : x = <<"frame", t, i>>
    OBVIOUS
  <2>3. InFrames(r, t) = {<<"frame", t, i>> : i \in f}
    BY Zenon DEF f, InFrames
  <2> QED
    BY <2>1, <2>2, <2>3
<1> QED
  BY <1>5, <1>6, <1>7, <1>8, <1>9

(* What Places lists, place by place.                                      *)
LEMMA PlacesElements ==
  ASSUME GraphTypeOK, NEW r \in Refs, NEW x \in Places(r)
  PROVE  \/ \E n \in Nodes : x = <<"slot", n>> /\ r \in Held[Slot(n)]
         \/ \E t \in Owners : x = <<"hand", t>> /\ r \in Held[Hand(t)]
         \/ \E t \in Owners, i \in Nat \ {0} : x = <<"pending", t, i>> /\ r \in Held[Listed(t, i)]
         \/ \E t \in Owners, i \in Nat \ {0} : x = <<"frame", t, i>> /\ r \in Held[Framed(t, i)]
<1>0. \A t \in Owners : DOMAIN pending[t] = 1..Len(pending[t]) /\ DOMAIN stack[t] = 1..Len(stack[t])
                         /\ Len(pending[t]) \in Nat /\ Len(stack[t]) \in Nat
  BY LenProperties DEF GraphTypeOK
<1>1. CASE x \in InSlots(r)
  BY <1>1, HeldValues DEF HeldAt, InSlots
<1>2. CASE x \in InHands(r)
  BY <1>2, HeldValues DEF HeldAt, InHands
<1>3. ASSUME NEW t \in Owners, NEW i \in DOMAIN pending[t], pending[t][i] = r, x = <<"pending", t, i>>
      PROVE  i \in Nat \ {0} /\ r \in Held[Listed(t, i)]
  <2>1. i \in 1..Len(pending[t]) /\ i \in Nat \ {0}
    BY <1>0
  <2>2. Held[Listed(t, i)] = {r}
    BY <1>3, <2>1, HeldValues DEF HeldAt, ListedAt
  <2> QED
    BY <2>1, <2>2
<1>4. ASSUME NEW t \in Owners, NEW i \in DOMAIN stack[t], r \in stack[t][i].rest, x = <<"frame", t, i>>
      PROVE  i \in Nat \ {0} /\ r \in Held[Framed(t, i)]
  <2>1. i \in 1..Len(stack[t]) /\ i \in Nat \ {0}
    BY <1>0
  <2> QED
    BY <1>4, <2>1, HeldValues DEF HeldAt, RestAt
<1>5. \/ x \in InSlots(r)
      \/ x \in InHands(r)
      \/ \E t \in Owners : \E i \in DOMAIN pending[t] : pending[t][i] = r /\ x = <<"pending", t, i>>
      \/ \E t \in Owners : \E i \in DOMAIN stack[t] : r \in stack[t][i].rest /\ x = <<"frame", t, i>>
  BY PlacesParts
<1> QED
  BY <1>1, <1>2, <1>3, <1>4, <1>5

LEMMA PlacesThere ==
  ASSUME GraphTypeOK, NEW r \in Refs, NEW p \in Spots, r \in Held[p]
  PROVE  Places(r) # {}
<1>0. \A t \in Owners : DOMAIN pending[t] = 1..Len(pending[t]) /\ DOMAIN stack[t] = 1..Len(stack[t])
  BY LenProperties DEF GraphTypeOK
<1>1. ASSUME NEW n \in Nodes, p = Slot(n) PROVE <<"slot", n>> \in Places(r)
  BY <1>1, HeldValues, PlacesParts DEF HeldAt, InSlots
<1>2. ASSUME NEW t \in Owners, p = Hand(t) PROVE <<"hand", t>> \in Places(r)
  BY <1>2, HeldValues, PlacesParts DEF HeldAt, InHands
<1>3. ASSUME NEW t \in Owners, NEW i \in Nat \ {0}, p = Listed(t, i) PROVE <<"pending", t, i>> \in Places(r)
  <2>1. r \in ListedAt(pending[t], i)
    BY <1>3, HeldValues DEF HeldAt
  <2>2. i \in DOMAIN pending[t] /\ pending[t][i] = r
    BY <1>0, <2>1 DEF ListedAt
  <2> QED
    BY <2>2, PlacesParts
<1>4. ASSUME NEW t \in Owners, NEW i \in Nat \ {0}, p = Framed(t, i) PROVE <<"frame", t, i>> \in Places(r)
  <2>1. i \in DOMAIN stack[t] /\ r \in stack[t][i].rest
    BY <1>0, <1>4, HeldValues DEF HeldAt, RestAt
  <2> QED
    BY <2>1, PlacesParts
<1> QED
  BY <1>1, <1>2, <1>3, <1>4, SpotKinds

(* Every value is in one place until it is dropped and in none after, so   *)
(* none is dropped twice and none lost, and a thread that has returned     *)
(* leaves nothing on its worklist (release_value, and take in the Drops).  *)
THEOREM PlacesAreSingle ==
  ASSUME NoneAssumption, FiniteAssumption
  PROVE  GraphSpec => []OnePlace
<1>1. ASSUME IInv, NEW r \in Refs, NEW x \in Places(r), NEW y \in Places(r) PROVE x = y
  <2>0. GraphTypeOK /\ \A p, q \in Spots : r \in Held[p] /\ r \in Held[q] => p = q
    BY <1>1 DEF IInv, Apart, Split
  <2>1. ASSUME NEW n \in Nodes, x = <<"slot", n>>, r \in Held[Slot(n)] PROVE x = y
    <3>1. \A p \in Spots : r \in Held[p] => p = Slot(n)
      BY <2>0, <2>1, HeldValues DEF HeldAt
    <3> QED
      BY <2>0, <2>1, <3>1, PlacesElements, HeldValues, SpotsDiffer DEF HeldAt
  <2>2. ASSUME NEW t \in Owners, x = <<"hand", t>>, r \in Held[Hand(t)] PROVE x = y
    <3>1. \A p \in Spots : r \in Held[p] => p = Hand(t)
      BY <2>0, <2>2, HeldValues DEF HeldAt
    <3> QED
      BY <2>0, <2>2, <3>1, PlacesElements, HeldValues, SpotsDiffer DEF HeldAt
  <2>3. ASSUME NEW t \in Owners, NEW i \in Nat \ {0}, x = <<"pending", t, i>>, r \in Held[Listed(t, i)]
        PROVE x = y
    <3>1. \A p \in Spots : r \in Held[p] => p = Listed(t, i)
      BY <2>0, <2>3, HeldValues DEF HeldAt
    <3> QED
      BY <2>0, <2>3, <3>1, PlacesElements, HeldValues, SpotsDiffer DEF HeldAt
  <2>4. ASSUME NEW t \in Owners, NEW i \in Nat \ {0}, x = <<"frame", t, i>>, r \in Held[Framed(t, i)]
        PROVE x = y
    <3>1. \A p \in Spots : r \in Held[p] => p = Framed(t, i)
      BY <2>0, <2>4, HeldValues DEF HeldAt
    <3> QED
      BY <2>0, <2>4, <3>1, PlacesElements, HeldValues, SpotsDiffer DEF HeldAt
  <2> QED
    BY <2>0, <2>1, <2>2, <2>3, <2>4, PlacesElements
<1>2. ASSUME IInv, NEW r \in Refs
      PROVE  Cardinality(Places(r)) = IF target[r] = None THEN 0 ELSE 1
  <2>1. target[r] # None <=> \E p \in Spots : r \in Held[p]
    BY <1>2 DEF IInv, Apart
  <2>2. target[r] # None <=> Places(r) # {}
    <3>1. ASSUME NEW x \in Places(r) PROVE \E p \in Spots : r \in Held[p]
      BY <1>2, PlacesElements, HeldValues DEF IInv, HeldAt
    <3>2. ASSUME NEW p \in Spots, r \in Held[p] PROVE Places(r) # {}
      BY <1>2, <3>2, PlacesThere DEF IInv
    <3> QED
      BY <2>1, <3>1, <3>2
  <2>3. CASE target[r] = None
    BY <2>2, <2>3, FS_EmptySet
  <2>4. CASE target[r] # None
    <3>1. PICK x : x \in Places(r)
      BY <2>2, <2>4
    <3>2. Places(r) = {x}
      BY <1>1, <1>2, <3>1
    <3> QED
      BY <2>4, <3>2, FS_Singleton
  <2> QED
    BY <2>3, <2>4
<1>3. ASSUME IInv, NEW t \in Owners, Calls(t) PROVE pending[t] = <<>> /\ ~draining[t]
  BY <1>3, StackTypes DEF IInv, StackShape, Shape, Calls
<1>4. IInv => OnePlace
  BY <1>2, <1>3 DEF OnePlace
<1> QED
  BY <1>4, Invariance, PTL
=============================================================================
