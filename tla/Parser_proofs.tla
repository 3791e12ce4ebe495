----------------------------- MODULE Parser_proofs -----------------------------
(***************************************************************************)
(* Proofs about Symbols, Scopes and Prototypes.  The lookup is a loop;     *)
(* what it finds is told by induction on its rounds.  A prototype is read  *)
(* one character after the other; the loop is shown to read its grammar.   *)
(***************************************************************************)
EXTENDS Scopes, Prototypes, FiniteSetTheorems, SequenceTheorems, WellFoundedInduction, TLAPS

(* A non-empty set of natural numbers has a least element.                 *)
LEMMA LeastExists ==
  ASSUME NEW S, S \subseteq Nat, S # {}
  PROVE  \E n \in S : \A m \in S : n <= m
<1> DEFINE R == OpToRel(<, Nat)
<1>1. PICK n \in S : \A m \in S : ~(<<m, n>> \in R)
  <2> HIDE DEF R
  <2>1. IsWellFoundedOn(R, Nat)
    BY NatLessThanWellFounded DEF R
  <2> QED
    BY <2>1, WFMin
<1>2. \A m \in S : ~(m < n)
  BY <1>1 DEF OpToRel
<1> QED
  BY <1>2

(* Induction up to a bound, over a set instead of a predicate: a set that  *)
(* holds 0 and, with every number below the bound, the next one, holds     *)
(* every number up to the bound.                                           *)
LEMMA UpTo ==
  ASSUME NEW N \in Nat, NEW S, 0 \in S, \A i \in 0..(N - 1) : i \in S => i + 1 \in S
  PROVE  \A i \in 0..N : i \in S
<1> DEFINE T == {i \in 0..N : i \notin S}
<1>1. SUFFICES ASSUME T # {} PROVE FALSE
  OBVIOUS
<1>2. PICK n \in T : \A m \in T : n <= m
  <2>1. T \subseteq Nat
    OBVIOUS
  <2> HIDE DEF T
  <2> QED
    BY <1>1, <2>1, LeastExists
<1>3. n \in 0..N /\ n \notin S /\ n # 0
  BY <1>2
<1>4. n - 1 \in 0..(N - 1)
  BY <1>3
<1>5. n - 1 \in S
  BY <1>2, <1>3, <1>4
<1>6. (n - 1) + 1 \in S
  BY <1>4, <1>5
<1> QED
  BY <1>3, <1>6

(* A function that maps a set to itself can be iterated from any element.  *)
Iterable(N, V, a, D) ==
  \E f \in [0..N -> V] : f[0] = a /\ \A i \in 1..N : f[i] = D[f[i - 1]]

(* A function that starts at s and goes on by F exists up to any bound.    *)
LEMMA IterationExists ==
  ASSUME NEW N \in Nat, NEW V, NEW a \in V, NEW D \in [V -> V]
  PROVE  Iterable(N, V, a, D)
<1> DEFINE Is(f, n) == f \in [0..n -> V] /\ f[0] = a /\ \A i \in 1..n : f[i] = D[f[i - 1]]
           S == {n \in 0..N : \E f : Is(f, n)}
<1>1. 0 \in S
  <2>1. Is([i \in 0..0 |-> a], 0)
    OBVIOUS
  <2> HIDE DEF Is
  <2>2. \E f : Is(f, 0)
    BY <2>1
  <2> QED
    BY <2>2
<1>2. ASSUME NEW n \in 0..(N - 1), n \in S
      PROVE  n + 1 \in S
  <2>1. PICK f : Is(f, n)
    BY <1>2
  <2> DEFINE g == [i \in 0..(n + 1) |-> IF i = n + 1 THEN D[f[n]] ELSE f[i]]
  <2>2. f[n] \in V /\ D[f[n]] \in V
    BY <2>1
  <2>3. g \in [0..(n + 1) -> V] /\ g[0] = a
    BY <2>1, <2>2
  <2>4. ASSUME NEW i \in 1..(n + 1) PROVE g[i] = D[g[i - 1]]
    <3>1. CASE i = n + 1
      BY <3>1
    <3>2. CASE i # n + 1
      <4>1. i \in 1..n /\ i - 1 \in 0..n
        BY <3>2
      <4>2. g[i] = f[i] /\ g[i - 1] = f[i - 1]
        BY <4>1
      <4> QED
        BY <2>1, <4>1, <4>2
    <3> QED
      BY <3>1, <3>2
  <2>5. Is(g, n + 1)
    BY <2>3, <2>4
  <2> HIDE DEF g, Is
  <2> QED
    BY <2>5
<1>3. \A n \in 0..N : n \in S
  <2> HIDE DEF S
  <2> QED
    BY <1>1, <1>2, UpTo
<1>4. N \in S
  BY <1>3
<1> QED
  BY <1>4 DEF Iterable

------------------------------------------------------------------------------
(* Symbols                                                                 *)

Answers == {"none", "plain", "proto"}
SymbolsTypeOK == subs \in [Keys -> Answers] /\ imports \in [Keys -> Keys \cup {NotImported}]

(* The way LookupFollowsImports speaks of.                                 *)
Follow(k) == IF subs[k] = "none" /\ imports[k] # NotImported THEN imports[k] ELSE k
Way(key) ==
  LET way[i \in 0..Cardinality(Keys)] == IF i = 0 THEN key ELSE Follow(way[i - 1]) IN way

(* The loop of Resolve.                                                    *)
After(key) ==
  LET after[i \in 0..MaxRounds] == IF i = 0 THEN Start(key) ELSE Round(after[i - 1]) IN after
LoopStates == [at : Keys, visited : SUBSET Keys, found : Answers \cup {"open"}]

(* There are finitely many keys, and a key is never the mark of a missing  *)
(* import.                                                                 *)
LEMMA KeysFinite ==
  ASSUME SymbolsAssumption
  PROVE  IsFiniteSet(Keys) /\ Cardinality(Keys) \in Nat /\ MaxRounds \in Nat
<1>1. IsFiniteSet(Keys)
  BY FS_Product DEF SymbolsAssumption, Keys
<1>2. Cardinality(Keys) \in Nat
  BY <1>1, FS_CardinalityType
<1> QED
  BY <1>1, <1>2 DEF MaxRounds

(* A round maps a state of the loop to a state of the loop.                *)
LEMMA RoundType ==
  ASSUME SymbolsTypeOK, NEW s \in LoopStates
  PROVE  Round(s) \in LoopStates
<1>1. s.at \in Keys /\ s.visited \in SUBSET Keys /\ s.found \in Answers \cup {"open"}
  BY DEF LoopStates
<1>2. subs[s.at] \in Answers /\ (imports[s.at] # NotImported => imports[s.at] \in Keys)
  BY <1>1 DEF SymbolsTypeOK
<1>3. Leave(s, "none") \in LoopStates /\ Leave(s, subs[s.at]) \in LoopStates
  BY <1>1, <1>2 DEF Leave, LoopStates, Answers
<1>4. imports[s.at] # NotImported => GoOn(s) \in LoopStates
  BY <1>1, <1>2 DEF GoOn, LoopStates
<1> QED
  BY <1>3, <1>4 DEF Round, RoundUnless

(* After(key) is the loop: its first state is the start, every other one a *)
(* round from the one before.                                              *)
LEMMA AfterIs ==
  ASSUME SymbolsAssumption, SymbolsTypeOK, NEW key \in Keys
  PROVE  /\ After(key) \in [0..MaxRounds -> LoopStates]
         /\ After(key)[0] = Start(key)
         /\ \A i \in 1..MaxRounds : After(key)[i] = Round(After(key)[i - 1])
<1> DEFINE D == [s \in LoopStates |-> Round(s)]
           E(f) == [i \in 0..MaxRounds |-> IF i = 0 THEN Start(key) ELSE Round(f[i - 1])]
<1>1. MaxRounds \in Nat
  BY KeysFinite
<1>2. Start(key) \in LoopStates
  BY DEF Start, LoopStates
<1>3. D \in [LoopStates -> LoopStates]
  BY RoundType
<1>4. PICK f \in [0..MaxRounds -> LoopStates] :
         f[0] = Start(key) /\ \A i \in 1..MaxRounds : f[i] = D[f[i - 1]]
  <2> HIDE DEF D, E
  <2>1. Iterable(MaxRounds, LoopStates, Start(key), D)
    BY <1>1, <1>2, <1>3, IterationExists
  <2> QED
    BY <2>1 DEF Iterable
<1>5. f = E(f)
  <2>1. \A i \in 0..MaxRounds : f[i] = IF i = 0 THEN Start(key) ELSE Round(f[i - 1])
    <3> TAKE i \in 0..MaxRounds
    <3>1. CASE i = 0
      BY <3>1, <1>4
    <3>2. CASE i # 0
      <4>1. i \in 1..MaxRounds /\ i - 1 \in 0..MaxRounds
        BY <1>1, <3>2
      <4> QED
        BY <1>4, <4>1, <3>2
    <3> QED
      BY <3>1, <3>2
  <2> QED
    BY <2>1
<1>6. After(key) = CHOOSE g : g = E(g)
  BY DEF After
<1>7. After(key) = E(After(key))
  <2> HIDE DEF E
  <2> QED
    BY <1>5, <1>6
<1>8. /\ After(key)[0] = Start(key)
      /\ \A i \in 1..MaxRounds : After(key)[i] = Round(After(key)[i - 1])
  <2> DEFINE a == After(key)
  <2>1. a = E(a)
    BY <1>7
  <2> HIDE DEF a
  <2>2. a[0] = Start(key) /\ \A i \in 1..MaxRounds : a[i] = Round(a[i - 1])
    BY <1>1, <2>1
  <2> QED
    BY <2>2 DEF a
<1>9. DOMAIN After(key) = 0..MaxRounds
  <2> DEFINE a == After(key)
  <2>1. a = E(a)
    BY <1>7
  <2> HIDE DEF a
  <2>2. DOMAIN a = 0..MaxRounds
    BY <2>1
  <2> QED
    BY <2>2 DEF a
<1>10. \A i \in 0..MaxRounds : After(key)[i] \in LoopStates
  <2> DEFINE S == {i \in 0..MaxRounds : After(key)[i] \in LoopStates}
  <2>1. 0 \in S
    BY <1>1, <1>2, <1>8
  <2>2. ASSUME NEW i \in 0..(MaxRounds - 1), i \in S PROVE i + 1 \in S
    <3>1. i + 1 \in 1..MaxRounds /\ (i + 1) - 1 = i
      BY <1>1
    <3> QED
      BY <2>2, <3>1, <1>8, RoundType
  <2>3. \A i \in 0..MaxRounds : i \in S
    <3> HIDE DEF S
    <3> QED
      BY <1>1, <2>1, <2>2, UpTo
  <2> QED
    BY <2>3
<1>11. After(key) = [i \in 0..MaxRounds |-> After(key)[i]]
  <2> DEFINE a == After(key)
  <2>1. a = E(a)
    BY <1>7
  <2> HIDE DEF a
  <2>2. a = [i \in 0..MaxRounds |-> a[i]]
    BY <2>1
  <2> QED
    BY <2>2 DEF a
<1> QED
  BY <1>8, <1>9, <1>10, <1>11

(* Way(key) starts at the key and goes on as Follow says.                  *)
LEMMA WayIs ==
  ASSUME SymbolsAssumption, SymbolsTypeOK, NEW key \in Keys
  PROVE  /\ Way(key) \in [0..Cardinality(Keys) -> Keys]
         /\ Way(key)[0] = key
         /\ \A i \in 1..Cardinality(Keys) : Way(key)[i] = Follow(Way(key)[i - 1])
<1> DEFINE N == Cardinality(Keys)
           D == [k \in Keys |-> Follow(k)]
           E(f) == [i \in 0..N |-> IF i = 0 THEN key ELSE Follow(f[i - 1])]
<1>1. N \in Nat
  BY KeysFinite
<1>2. \A k \in Keys : Follow(k) \in Keys
  BY DEF Follow, SymbolsTypeOK
<1>3. D \in [Keys -> Keys]
  BY <1>2
<1>4. PICK f \in [0..N -> Keys] : f[0] = key /\ \A i \in 1..N : f[i] = D[f[i - 1]]
  <2> HIDE DEF D, E, N
  <2>1. key \in Keys
    OBVIOUS
  <2>2. Iterable(N, Keys, key, D)
    BY <1>1, <1>3, <2>1, IterationExists
  <2> QED
    BY <2>2 DEF Iterable
<1> HIDE DEF N
<1>5. f = E(f)
  <2>1. \A i \in 0..N : f[i] = IF i = 0 THEN key ELSE Follow(f[i - 1])
    <3> TAKE i \in 0..N
    <3>1. CASE i = 0
      BY <3>1, <1>4
    <3>2. CASE i # 0
      <4>1. i \in 1..N /\ i - 1 \in 0..N
        BY <1>1, <3>2
      <4> QED
        BY <1>4, <4>1, <3>2
    <3> QED
      BY <3>1, <3>2
  <2> QED
    BY <2>1
<1> DEFINE a == Way(key)
<1>6. a = E(a)
  <2>1. a = CHOOSE g : g = E(g)
    BY DEF Way, N
  <2> HIDE DEF a, E
  <2> QED
    BY <1>5, <2>1
<1> HIDE DEF a
<1>7. /\ a[0] = key /\ \A i \in 1..N : a[i] = Follow(a[i - 1])
      /\ a = [i \in 0..N |-> a[i]]
  BY <1>1, <1>6
<1>8. \A i \in 0..N : a[i] \in Keys
  <2> DEFINE S == {i \in 0..N : a[i] \in Keys}
  <2>1. 0 \in S
    BY <1>1, <1>7
  <2>2. ASSUME NEW i \in 0..(N - 1), i \in S PROVE i + 1 \in S
    <3>1. i + 1 \in 1..N /\ (i + 1) - 1 = i
      BY <1>1
    <3> QED
      BY <2>2, <3>1, <1>2, <1>7
  <2>3. \A i \in 0..N : i \in S
    <3> HIDE DEF S
    <3> QED
      BY <1>1, <2>1, <2>2, UpTo
  <2> QED
    BY <2>3
<1> QED
  BY <1>7, <1>8 DEF a, N

(* Where a way stays at one key, it ends there.                            *)
LEMMA WayStays ==
  ASSUME SymbolsAssumption, SymbolsTypeOK, NEW key \in Keys,
         NEW i \in 0..Cardinality(Keys), Follow(Way(key)[i]) = Way(key)[i]
  PROVE  Way(key)[Cardinality(Keys)] = Way(key)[i]
<1> DEFINE N == Cardinality(Keys)
           w == Way(key)
           S == {k \in 0..N : k >= i => w[k] = w[i]}
<1>1. N \in Nat /\ N = Cardinality(Keys)
  BY KeysFinite
<1>2. \A k \in 1..N : w[k] = Follow(w[k - 1])
  BY WayIs
<1> HIDE DEF N, w
<1>3. Follow(w[i]) = w[i] /\ i \in 0..N
  BY DEF w, N
<1>4. 0 \in S
  BY <1>1, <1>3
<1>5. ASSUME NEW k \in 0..(N - 1), k \in S PROVE k + 1 \in S
  <2>1. k + 1 \in 1..N /\ (k + 1) - 1 = k /\ k + 1 \in 0..N
    BY <1>1
  <2>2. w[k + 1] = Follow(w[k])
    BY <1>2, <2>1
  <2>3. CASE k + 1 > i
    <3>1. w[k] = w[i]
      BY <1>5, <2>3, <1>3
    <3> QED
      BY <2>1, <2>2, <3>1, <1>3
  <2>4. CASE k + 1 = i
    BY <2>1, <2>4
  <2>5. CASE k + 1 < i
    BY <2>1, <2>5, <1>3
  <2> QED
    BY <2>1, <1>3, <2>3, <2>4, <2>5
<1>6. \A k \in 0..N : k \in S
  <2> HIDE DEF S
  <2> QED
    BY <1>1, <1>4, <1>5, UpTo
<1>7. w[N] = w[i]
  BY <1>1, <1>3, <1>6
<1> QED
  BY <1>1, <1>7 DEF w

(* Where a way comes back to a key it has been at, it never leaves the     *)
(* keys it has been at.                                                    *)
LEMMA WayCircles ==
  ASSUME SymbolsAssumption, SymbolsTypeOK, NEW key \in Keys,
         NEW i \in 0..Cardinality(Keys), NEW been, been = {Way(key)[j] : j \in 0..(i - 1)},
         Way(key)[i] \in been
  PROVE  Way(key)[Cardinality(Keys)] \in been
<1> DEFINE N == Cardinality(Keys)
           w == Way(key)
           S == {k \in 0..N : w[k] \in been}
<1>1. N \in Nat /\ N = Cardinality(Keys)
  BY KeysFinite
<1>2. \A k \in 1..N : w[k] = Follow(w[k - 1])
  BY WayIs
<1> HIDE DEF N, w
<1>3. been = {w[j] : j \in 0..(i - 1)} /\ w[i] \in been /\ i \in 0..N
  BY DEF w, N
<1>4. 0 \in S
  <2>1. 0 \in 0..(i - 1) /\ 0 \in 0..N
    BY <1>1, <1>3
  <2>2. w[0] \in {w[j] : j \in 0..(i - 1)}
    BY <2>1
  <2> QED
    BY <1>3, <2>1, <2>2
<1>5. ASSUME NEW k \in 0..(N - 1), k \in S PROVE k + 1 \in S
  <2>1. k + 1 \in 1..N /\ (k + 1) - 1 = k /\ k + 1 \in 0..N
    BY <1>1
  <2>2. PICK j \in 0..(i - 1) : w[k] = w[j]
    BY <1>3, <1>5
  <2>3. j + 1 \in 1..N /\ (j + 1) - 1 = j /\ j + 1 \in 0..i
    BY <1>1, <1>3, <2>2
  <2>4. w[k + 1] = w[j + 1]
    <3>1. w[k + 1] = Follow(w[k])
      BY <1>2, <2>1
    <3>2. w[j + 1] = Follow(w[j])
      BY <1>2, <2>3
    <3> QED
      BY <2>2, <3>1, <3>2
  <2>5. w[j + 1] \in been
    <3>1. CASE j + 1 = i
      BY <1>3, <3>1
    <3>2. CASE j + 1 # i
      <4>1. j + 1 \in 0..(i - 1)
        BY <1>1, <1>3, <2>3, <3>2
      <4> QED
        BY <1>3, <4>1
    <3> QED
      BY <3>1, <3>2
  <2> QED
    BY <2>1, <2>4, <2>5
<1>6. \A k \in 0..N : k \in S
  <2> HIDE DEF S
  <2> QED
    BY <1>1, <1>4, <1>5, UpTo
<1>7. w[N] \in been
  BY <1>1, <1>6
<1> QED
  BY <1>1, <1>7 DEF w

(* What the loop knows after i rounds: still looking it has been at the    *)
(* first i keys of the way, all different, none of them declared and every *)
(* one imported; with an answer, it is what the end of the way has.        *)
OnTheWay(key, i) ==
  LET s == After(key)[i]  w == Way(key) IN
  /\ i <= Cardinality(Keys) /\ s.at = w[i] /\ s.visited = {w[j] : j \in 0..(i - 1)}
  /\ Cardinality(s.visited) = i
  /\ \A k \in s.visited : subs[k] = "none"
Found(key, i) == After(key)[i].found = subs[Way(key)[Cardinality(Keys)]]
Follows(key, i) == IF After(key)[i].found = "open" THEN OnTheWay(key, i) ELSE Found(key, i)

(* One more round keeps it.                                                *)
LEMMA RoundFollows ==
  ASSUME SymbolsAssumption, SymbolsTypeOK, NEW key \in Keys,
         NEW i \in 0..(MaxRounds - 1), Follows(key, i)
  PROVE  Follows(key, i + 1)
<1> DEFINE N == Cardinality(Keys)
           s == After(key)[i]
           t == After(key)[i + 1]
           w == Way(key)
<1>1. N \in Nat /\ IsFiniteSet(Keys) /\ i \in 0..N
  BY KeysFinite DEF MaxRounds
<1>2. /\ s \in LoopStates /\ t \in LoopStates /\ t = Round(s)
  <2>1. i \in 0..MaxRounds /\ i + 1 \in 1..MaxRounds /\ i + 1 \in 0..MaxRounds /\ (i + 1) - 1 = i
    BY <1>1, KeysFinite
  <2> QED
    BY <2>1, AfterIs
<1>3. CASE s.found # "open"
  <2>1. t = s
    BY <1>2, <1>3 DEF Round, RoundUnless
  <2>2. s.found = subs[w[N]]
    BY <1>3 DEF Follows, Found
  <2> QED
    BY <1>3, <2>1, <2>2 DEF Follows, Found
<1>4. CASE s.found = "open"
  <2>1. /\ s.at = w[i] /\ s.visited = {w[j] : j \in 0..(i - 1)}
        /\ Cardinality(s.visited) = i
        /\ \A k \in s.visited : subs[k] = "none"
    BY <1>4 DEF Follows, OnTheWay
  <2>2. s.at \in Keys /\ s.visited \in SUBSET Keys
    BY <1>2 DEF LoopStates
  <2>3. subs[s.at] \in Answers /\ "open" \notin Answers
    BY <2>2 DEF SymbolsTypeOK, Answers
  <2>4. CASE s.at \in s.visited
    <3>1. t.found = "none"
      BY <1>2, <1>4, <2>4 DEF Round, RoundUnless, Leave, LoopStates
    <3>2. w[N] \in s.visited
      BY <1>1, <2>1, <2>4, WayCircles
    <3> QED
      BY <2>1, <3>1, <3>2 DEF Follows, Found
  <2>5. CASE s.at \notin s.visited /\ (subs[s.at] # "none" \/ imports[s.at] = NotImported)
    <3>1. t.found = subs[s.at]
      BY <1>2, <1>4, <2>5 DEF Round, RoundUnless, Leave, LoopStates
    <3>2. Follow(w[i]) = w[i]
      BY <2>1, <2>5 DEF Follow
    <3>3. w[N] = w[i]
      BY <1>1, <3>2, WayStays
    <3>4. t.found # "open" /\ t.found = subs[w[N]]
      BY <2>1, <2>3, <3>1, <3>3
    <3> QED
      BY <3>4 DEF Follows, Found
  <2>6. CASE s.at \notin s.visited /\ subs[s.at] = "none" /\ imports[s.at] # NotImported
    <3>1. t = GoOn(s)
      BY <1>2, <1>4, <2>6 DEF Round, RoundUnless
    <3>2. t.found = "open" /\ t.at = imports[s.at] /\ t.visited = s.visited \cup {s.at}
      BY <1>2, <1>4, <3>1 DEF GoOn, LoopStates
    <3>3. t.visited \in SUBSET Keys
      BY <1>2 DEF LoopStates
    <3>4. Cardinality(t.visited) = i + 1
      <4>1. IsFiniteSet(s.visited)
        BY <1>1, <2>2, FS_Subset
      <4> QED
        BY <2>1, <2>6, <3>2, <4>1, FS_AddElement
    <3>5. i + 1 <= N
      <4>1. Cardinality(t.visited) <= N
        BY <1>1, <3>3, FS_Subset
      <4> QED
        BY <1>1, <3>4, <4>1
    <3>6. t.at = w[i + 1]
      <4>1. i + 1 \in 1..N /\ (i + 1) - 1 = i
        BY <1>1, <3>5
      <4>2. w[i + 1] = Follow(w[i])
        BY <4>1, WayIs
      <4> QED
        BY <2>1, <2>6, <3>2, <4>2 DEF Follow
    <3>7. t.visited = {w[j] : j \in 0..((i + 1) - 1)}
      <4>1. 0..((i + 1) - 1) = (0..(i - 1)) \cup {i}
        BY <1>1
      <4> HIDE DEF w, s, t
      <4> QED
        BY <2>1, <3>2, <4>1
    <3>8. \A k \in t.visited : subs[k] = "none"
      BY <2>1, <2>6, <3>2
    <3>9. OnTheWay(key, i + 1)
      BY <3>4, <3>5, <3>6, <3>7, <3>8 DEF OnTheWay
    <3> QED
      BY <3>2, <3>9 DEF Follows
  <2> QED
    BY <2>4, <2>5, <2>6
<1> QED
  BY <1>3, <1>4

(* The loop is over after MaxRounds rounds, with what the end of the way   *)
(* has: as many keys as there are can be visited once, and one round more  *)
(* meets one again (symbol.rs:350).                                        *)
LEMMA ResolveFollows ==
  ASSUME SymbolsAssumption, SymbolsTypeOK, NEW key \in Keys
  PROVE  Resolve(key) = subs[Way(key)[Cardinality(Keys)]] /\ Resolve(key) \in Answers
<1>1. Cardinality(Keys) \in Nat /\ MaxRounds \in Nat /\ MaxRounds > Cardinality(Keys)
  BY KeysFinite DEF MaxRounds
<1>2. Follows(key, 0)
  <2>1. After(key)[0] = Start(key) /\ Way(key)[0] = key
    BY AfterIs, WayIs
  <2>2. 0..(0 - 1) = {}
    OBVIOUS
  <2>3. Cardinality({}) = 0
    BY FS_EmptySet
  <2>4. Start(key).at = key /\ Start(key).visited = {} /\ Start(key).found = "open"
    BY DEF Start
  <2>5. {Way(key)[j] : j \in 0..(0 - 1)} = {}
    BY <2>2
  <2>6. OnTheWay(key, 0)
    BY <1>1, <2>1, <2>3, <2>4, <2>5 DEF OnTheWay
  <2> QED
    BY <2>1, <2>4, <2>6 DEF Follows
<1>3. \A i \in 0..MaxRounds : Follows(key, i)
  <2> DEFINE S == {i \in 0..MaxRounds : Follows(key, i)}
  <2>1. 0 \in S
    BY <1>1, <1>2
  <2>2. ASSUME NEW i \in 0..(MaxRounds - 1), i \in S PROVE i + 1 \in S
    <3>1. i + 1 \in 0..MaxRounds
      BY <1>1
    <3>2. Follows(key, i + 1)
      BY <2>2, RoundFollows
    <3> QED
      BY <3>1, <3>2
  <2>3. \A i \in 0..MaxRounds : i \in S
    <3> HIDE DEF S
    <3> QED
      BY <1>1, <2>1, <2>2, UpTo
  <2> QED
    BY <2>3
<1>4. Follows(key, MaxRounds) /\ ~ OnTheWay(key, MaxRounds)
  BY <1>1, <1>3 DEF OnTheWay
<1>5. After(key)[MaxRounds].found = subs[Way(key)[Cardinality(Keys)]]
  BY <1>4 DEF Follows, Found
<1>6. Resolve(key) = After(key)[MaxRounds].found
  BY DEF Resolve, After
<1>7. Way(key)[Cardinality(Keys)] \in Keys
  BY <1>1, WayIs
<1> QED
  BY <1>5, <1>6, <1>7 DEF SymbolsTypeOK

(* A name without a qualifier is looked up in the package it stands in.    *)
LEMMA LookupIs ==
  ASSUME SymbolsAssumption, SymbolsTypeOK
  PROVE  LookupFollowsImports
<1> SUFFICES ASSUME NEW p \in Packages, NEW n \in SubNames
             PROVE  Lookup("", n, p) = subs[Way(<<p, n>>)[Cardinality(Keys)]]
  BY DEF LookupFollowsImports, Way, Follow
<1>1. <<p, n>> \in Keys
  BY DEF Keys
<1> QED
  BY <1>1, ResolveFollows DEF Lookup, Split

(* The table holds declarations and keys only.                             *)
LEMMA SymbolsTypeCorrect ==
  ASSUME SymbolsAssumption
  PROVE  Spec => []SymbolsTypeOK
<1>1. Init => SymbolsTypeOK
  BY DEF Init, SymbolsTypeOK, Answers
<1>2. SymbolsTypeOK /\ [Next]_<<subs, imports>> => SymbolsTypeOK'
  <2> SUFFICES ASSUME SymbolsTypeOK, [Next]_<<subs, imports>>
               PROVE  SymbolsTypeOK'
    OBVIOUS
  <2>1. ASSUME NEW p \in Packages, NEW n \in SubNames, NEW what \in {"plain", "proto"},
               Declare(p, n, what), UNCHANGED imports
        PROVE  SymbolsTypeOK'
    BY <2>1 DEF Declare, SymbolsTypeOK, Keys, Answers
  <2>2. ASSUME NEW p \in Packages, NEW q \in Packages, NEW n \in SubNames, NEW m \in SubNames,
               Import(p, n, q, m)
        PROVE  SymbolsTypeOK'
    BY <2>2 DEF Import, SymbolsTypeOK, Keys
  <2>3. CASE UNCHANGED <<subs, imports>>
    BY <2>3 DEF SymbolsTypeOK
  <2> QED
    BY <2>1, <2>2, <2>3 DEF Next
<1> QED
  BY <1>1, <1>2, PTL DEF Spec

(* A lookup ends, and finds the first declared sub on the way the imports  *)
(* lead, none where they lead in a circle or to a name nobody declared:    *)
(* for any packages and names and any table declarations and imports can   *)
(* make (symbol.rs:350).                                                   *)
THEOREM LookupFollows ==
  ASSUME SymbolsAssumption
  PROVE  Spec => []LookupFollowsImports
<1>1. SymbolsTypeOK => LookupFollowsImports
  BY LookupIs
<1> QED
  BY <1>1, SymbolsTypeCorrect, PTL

------------------------------------------------------------------------------
(* Scopes                                                                  *)

Sequential(s) == s \in Seq(Range(s))
Declared == {"plain", "proto"}

(* What lies on the two stacks.                                            *)
TextShape(t) ==
  t = [pragmas |-> t.pragmas, package |-> t.package, sub |-> t.sub] /\ t.package \in Packages
ScopeShape(s) ==
  /\ s.package \in Packages
  /\ s.then[1] = "package" => s.then[2] \in Packages
  /\ s.then[1] = "declare" => s.then[2] \in SubNames /\ s.then[3] \in Declared

(* A scope takes back what the text around it has, and leaves what the     *)
(* text of the block declares.                                             *)
Saved(s, outer, inner) ==
  /\ s.pragmas = outer.pragmas
  /\ outer.package = IF s.then[1] = "package" THEN s.then[2] ELSE s.package
  /\ inner.sub = IF s.then[1] = "declare" THEN <<s.then[2], s.then[3]>> ELSE <<>>

StacksAgree ==
  /\ Sequential(texts) /\ Sequential(scopes) /\ Len(texts) = Len(scopes) + 1
  /\ \A i \in 1..Len(texts) : TextShape(texts[i])
  /\ \A i \in 1..Len(scopes) :
        ScopeShape(scopes[i]) /\ Saved(scopes[i], texts[i], texts[i + 1])

AheadShape ==
  ahead = [word |-> ahead.word, under |-> ahead.under, afterBrace |-> ahead.afterBrace]

TableAgrees ==
  /\ decls \in Seq(Packages \X SubNames \X Declared)
  /\ subs \in [Keys -> {"none"} \cup Declared] /\ imports = [k \in Keys |-> NotImported]
  /\ \A p \in Packages, n \in SubNames : subs[<<p, n>>] = LastDeclared(p, n)

IInv == StacksAgree /\ AheadShape /\ ScopesNest /\ package \in Packages /\ TableAgrees

(* Pushing, replacing and popping the last element.                        *)
IsPushed(t, s, n, x) ==
  /\ Sequential(t) /\ Len(t) = n + 1
  /\ t[n + 1] = x /\ \A i \in 1..n : t[i] = s[i]

(* A scope pushed: what the longer stack holds.                            *)
LEMMA Pushed ==
  ASSUME NEW s, Sequential(s), NEW n \in Nat, Len(s) = n, NEW x
  PROVE  IsPushed(Append(s, x), s, n, x)
<1> DEFINE S == Range(s) \cup {x}
           t == Append(s, x)
<1>1. s \in Seq(S)
  BY SeqMonotonic DEF Sequential
<1>2. x \in S
  OBVIOUS
<1> HIDE DEF S
<1>3. /\ t \in Seq(S) /\ Len(t) = Len(s) + 1
      /\ t[Len(s) + 1] = x /\ \A i \in 1..Len(s) : t[i] = s[i]
  BY <1>1, <1>2, AppendProperties
<1>4. Sequential(t)
  BY <1>3, SeqOfRange DEF Sequential
<1> HIDE DEF t
<1>5. IsPushed(t, s, n, x)
  BY <1>3, <1>4 DEF IsPushed
<1> QED
  BY <1>5 DEF t

(* A scope popped: what the shorter stack holds.                           *)
LEMMA Popped ==
  ASSUME NEW s, Sequential(s), NEW n \in Nat, Len(s) = n + 1, NEW t, t = Front(s)
  PROVE  Sequential(t) /\ Len(t) = n /\ \A i \in 1..n : t[i] = s[i]
<1> DEFINE S == Range(s)
<1>1. s \in Seq(S)
  BY DEF Sequential
<1> HIDE DEF S
<1>2. \A i \in 1..n : s[i] \in S
  BY <1>1, ElementOfSeq
<1>3. t = SubSeq(s, 1, n)
  BY DEF Front
<1>4. /\ t \in Seq(S) /\ Len(t) = (IF 1 <= n THEN n - 1 + 1 ELSE 0)
      /\ \A i \in 1..(n - 1 + 1) : t[i] = s[1 + i - 1]
  BY <1>2, <1>3, SubSeqProperties
<1>5. Len(t) = n /\ \A i \in 1..n : t[i] = s[i]
  BY <1>4
<1> QED
  BY <1>4, <1>5, SeqOfRange DEF Sequential

IsReplaced(t, s, n, x) ==
  /\ Sequential(t) /\ Len(t) = n + 1
  /\ t[n + 1] = x /\ \A i \in 1..n : t[i] = s[i]

(* The innermost scope replaced: the scopes around it stay.                *)
LEMMA Replaced ==
  ASSUME NEW s, Sequential(s), NEW n \in Nat, Len(s) = n + 1, NEW x
  PROVE  IsReplaced(Front(s) \o <<x>>, s, n, x)
<1> DEFINE t == Front(s) \o <<x>>
<1> DEFINE f == Front(s)
           S == Range(f) \cup {x}
<1>1. Sequential(f) /\ Len(f) = n /\ \A i \in 1..n : f[i] = s[i]
  BY Popped
<1>2. f \in Seq(Range(f))
  BY <1>1 DEF Sequential
<1> HIDE DEF f
<1>3. f \in Seq(S) /\ x \in S
  BY <1>2, SeqMonotonic
<1>4. t = Append(f, x)
  BY <1>3, AppendIsConcat DEF f
<1>5. /\ Append(f, x) \in Seq(S) /\ Len(Append(f, x)) = Len(f) + 1
      /\ Append(f, x)[Len(f) + 1] = x
      /\ \A i \in 1..Len(f) : Append(f, x)[i] = f[i]
  <2> HIDE DEF S
  <2> QED
    BY <1>3, AppendProperties
<1>6. Sequential(t)
  BY <1>4, <1>5, SeqOfRange DEF Sequential
<1> HIDE DEF t
<1>7. IsReplaced(t, s, n, x)
  BY <1>1, <1>4, <1>5, <1>6 DEF IsReplaced
<1> QED
  BY <1>7 DEF t

(* The largest element of a set of positions.                              *)
LEMMA MaxIs ==
  ASSUME NEW n \in Nat, NEW S, S \subseteq 1..n, S # {}
  PROVE  Max(S) \in S /\ \A y \in S : Max(S) >= y
<1> DEFINE T == {n - x : x \in S}
<1>1. PICK m \in T : \A k \in T : m <= k
  <2>1. \A x \in S : n - x \in Nat
    <3> TAKE x \in S
    <3>1. x \in 1..n
      OBVIOUS
    <3> QED
      BY <3>1
  <2>2. T \subseteq Nat /\ T # {}
    BY <2>1
  <2> HIDE DEF T
  <2> QED
    BY <2>2, LeastExists
<1>2. PICK x \in S : m = n - x
  BY <1>1
<1>3. \A y \in S : x >= y
  <2> TAKE y \in S
  <2>1. n - y \in T /\ x \in Nat /\ y \in Nat
    OBVIOUS
  <2>2. n - x <= n - y
    BY <1>1, <1>2, <2>1
  <2> QED
    BY <2>1, <2>2
<1> QED
  BY <1>3 DEF Max

(* What a list of declarations says of a name, as LastDeclared reads it.   *)
Saying(ds, p, n) == {i \in DOMAIN ds : ds[i][1] = p /\ ds[i][2] = n}
LastIn(ds, p, n) == IF Saying(ds, p, n) = {} THEN "none" ELSE ds[Max(Saying(ds, p, n))][3]

(* One declaration more is the last one of its name and of no other.       *)
Added(ds, q, m, what, p, n) ==
  LastIn(Append(ds, <<q, m, what>>), p, n)
    = IF p = q /\ n = m THEN what ELSE LastIn(ds, p, n)

(* One more declaration answers for its own name and for no other.         *)
LEMMA LastInAppended ==
  ASSUME NEW ds \in Seq(Packages \X SubNames \X Declared),
         NEW q \in Packages, NEW m \in SubNames, NEW what \in Declared,
         NEW p \in Packages, NEW n \in SubNames
  PROVE  Added(ds, q, m, what, p, n)
<1> DEFINE D == Packages \X SubNames \X Declared
           d == <<q, m, what>>
           es == Append(ds, d)
           old == Saying(ds, p, n)
           new == Saying(es, p, n)
<1>1. PICK l \in Nat : l = Len(ds)
  BY LenProperties
<1>2. d \in D
  OBVIOUS
<1>3. /\ es \in Seq(D) /\ Len(es) = l + 1 /\ es[l + 1] = d
      /\ \A i \in 1..l : es[i] = ds[i]
  <2> HIDE DEF D, d
  <2>1. ds \in Seq(D)
    BY DEF D
  <2> QED
    BY <1>1, <1>2, <2>1, AppendProperties
<1>4. DOMAIN es = 1..(l + 1) /\ DOMAIN ds = 1..l
  <2> HIDE DEF D, es
  <2>1. ds \in Seq(D)
    BY DEF D
  <2> QED
    BY <1>1, <1>3, <2>1, LenProperties
<1>5. d[1] = q /\ d[2] = m /\ d[3] = what
  OBVIOUS
<1> HIDE DEF d, es
<1>6. CASE p = q /\ n = m
  <2>1. l + 1 \in new /\ new \subseteq 1..(l + 1)
    BY <1>3, <1>4, <1>5, <1>6 DEF Saying
  <2>2. Max(new) \in new /\ Max(new) >= l + 1
    <3> HIDE DEF new
    <3>1. l + 1 \in Nat /\ new # {}
      BY <2>1
    <3> QED
      BY <2>1, <3>1, MaxIs
  <2>3. Max(new) = l + 1
    BY <2>1, <2>2
  <2> QED
    BY <1>3, <1>5, <1>6, <2>1, <2>3 DEF LastIn, Added, es, d
<1>7. CASE ~(p = q /\ n = m)
  <2>1. new = old /\ old \subseteq 1..l
    BY <1>3, <1>4, <1>5, <1>7 DEF Saying
  <2>2. CASE old = {}
    <3>1. LastIn(es, p, n) = "none" /\ LastIn(ds, p, n) = "none"
      BY <2>1, <2>2 DEF LastIn
    <3> QED
      BY <3>1, <1>7 DEF Added, es, d
  <2>3. CASE old # {}
    <3>1. Max(old) \in old
      <4> HIDE DEF old
      <4> QED
        BY <2>1, <2>3, MaxIs
    <3>2. es[Max(old)] = ds[Max(old)]
      BY <1>3, <2>1, <3>1
    <3>3. LastIn(es, p, n) = es[Max(new)][3] /\ LastIn(ds, p, n) = ds[Max(old)][3]
      BY <2>1, <2>3 DEF LastIn
    <3>4. LastIn(es, p, n) = LastIn(ds, p, n)
      BY <2>1, <3>2, <3>3
    <3> QED
      BY <3>4, <1>7 DEF Added, es, d
  <2> QED
    BY <2>2, <2>3
<1> QED
  BY <1>6, <1>7

(* Every version 5.minor in every spelling loads the features perlfeature  *)
(* tells of it.                                                            *)
LEMMA VersionLoads ==
  ASSUME NEW spelling \in Spellings, NEW minor \in 0..999, NEW patch \in 0..1
  PROVE  VersionOf(spelling, minor, patch) = <<5, minor>>
<1>1. CASE spelling = "int"
  <2>1. (5000 + minor) \div 1000 = 5 /\ (5000 + minor) % 1000 = minor
    OBVIOUS
  <2> QED
    BY <1>1, <2>1 DEF VersionOf, IntVersion
<1>2. CASE spelling = "float"
  <2>1. (5000000 + 1000 * minor + patch) \div 1000000 = 5
    OBVIOUS
  <2>2. (5000000 + 1000 * minor + patch) % 1000000 = 1000 * minor + patch
    OBVIOUS
  <2>3. (1000 * minor + patch + 500) \div 1000 = minor
    OBVIOUS
  <2> QED
    BY <1>2, <2>1, <2>2, <2>3 DEF VersionOf, FloatVersion
<1>3. CASE spelling \in {"v", "alias"}
  <2>1. VersionOf(spelling, minor, patch) = PartsVersion(<<5, minor, patch>>)
    BY <1>3 DEF VersionOf
  <2> QED
    BY <2>1 DEF PartsVersion
<1> QED
  BY <1>1, <1>2, <1>3 DEF Spellings

(* The versions that have a feature in their bundle.                       *)
HasFeature(minor, f) ==
  \/ minor < 36 /\ f \in {"indirect", "multidimensional"}
  \/ 10 <= minor /\ minor < 36 /\ f = "switch"
  \/ minor < 38 /\ f = "bareword_filehandles"
  \/ minor < 42 /\ f \in {"apostrophe_as_package_separator", "smartmatch"}
  \/ 10 <= minor /\ f \in {"say", "state"}
  \/ 12 <= minor /\ f = "unicode_strings"
  \/ 16 <= minor /\ f \in {"current_sub", "evalbytes", "fc", "unicode_eval"}
  \/ 24 <= minor /\ f = "postderef_qq"
  \/ 28 <= minor /\ f = "bitwise"
  \/ 36 <= minor /\ f \in {"isa", "signatures"}
  \/ 38 <= minor /\ f = "module_true"
  \/ 40 <= minor /\ f = "try"

(* The features in force, by their bundles.                                *)
LEMMA InForceIs ==
  ASSUME NEW minor \in 0..999, NEW f
  PROVE  f \in InForce(minor) <=> HasFeature(minor, f)
<1>1. f \in InForce(minor)
        <=> \E b \in InBundles : f = b[1] /\ b[2] <= minor /\ minor < b[3]
  BY DEF InForce
<1>2. ASSUME NEW b \in InBundles, f = b[1], b[2] <= minor, minor < b[3]
      PROVE  HasFeature(minor, f)
  BY <1>2 DEF InBundles, HasFeature
<1>3. HasFeature(minor, f)
        => \E b \in InBundles : f = b[1] /\ b[2] <= minor /\ minor < b[3]
  <2>1. \A from, to : <<f, from, to>> \in InBundles /\ from <= minor /\ minor < to
                        => \E b \in InBundles : f = b[1] /\ b[2] <= minor /\ minor < b[3]
    OBVIOUS
  <2> QED
    BY <2>1 DEF InBundles, HasFeature
<1> QED
  BY <1>1, <1>2, <1>3

(* The bundle loaded for 5.minor has the features that version has.        *)
LEMMA BundleHas ==
  ASSUME NEW minor \in 0..999, NEW f
  PROVE  f \in VersionBundle(5, minor) <=> HasFeature(minor, f)
<1> DEFINE even == minor - (minor % 2)
<1>1. even \in {minor - 1, minor} /\ even \in Int /\ \A k \in Nat : even # 2 * k + 1
  OBVIOUS
<1>2. VersionBundle(5, minor) = VersionBundleRounded(5, minor, even)
  BY DEF VersionBundle
<1> HIDE DEF even
<1>3. CASE minor < 10
  <2>1. VersionBundle(5, minor) = Default
    BY <1>2, <1>3 DEF VersionBundleRounded
  <2> QED
    BY <1>3, <2>1 DEF Default, HasFeature
<1>4. CASE minor \in 10..15
  <2>1. even \in 10..14
    BY <1>1, <1>4
  <2>2. VersionBundle(5, minor) = Bundle510(even)
    BY <1>2, <1>4, <2>1 DEF VersionBundleRounded
  <2> QED
    BY <1>1, <1>4, <2>1, <2>2
    DEF Bundle510, HasFeature
<1>5. CASE minor \in 16..23
  <2>1. even \in 16..22
    BY <1>1, <1>5
  <2>2. VersionBundle(5, minor) = Bundle516
    BY <1>2, <1>5, <2>1 DEF VersionBundleRounded
  <2> QED
    BY <1>1, <1>5, <2>1, <2>2
    DEF Bundle510, Bundle516, HasFeature
<1>6. CASE minor \in 24..27
  <2>1. even \in 24..26
    BY <1>1, <1>6
  <2>2. VersionBundle(5, minor) = Bundle524
    BY <1>2, <1>6, <2>1 DEF VersionBundleRounded
  <2> QED
    BY <1>1, <1>6, <2>1, <2>2
    DEF Bundle510, Bundle516, Bundle524, HasFeature
<1>7. CASE minor \in 28..35
  <2>1. even \in 28..34
    BY <1>1, <1>7
  <2>2. VersionBundle(5, minor) = Bundle528
    BY <1>2, <1>7, <2>1 DEF VersionBundleRounded
  <2> QED
    BY <1>1, <1>7, <2>1, <2>2
    DEF Bundle510, Bundle516, Bundle524, Bundle528, HasFeature
<1>8. CASE minor \in 36..37
  <2>1. even = 36
    BY <1>1, <1>8
  <2>2. VersionBundle(5, minor) = Bundle536
    BY <1>2, <1>8, <2>1 DEF VersionBundleRounded
  <2> QED
    BY <1>1, <1>8, <2>1, <2>2
    DEF Bundle510, Bundle516, Bundle524, Bundle528, Bundle536,
          HasFeature
<1>9. CASE minor \in 38..39
  <2>1. even = 38
    BY <1>1, <1>9
  <2>2. VersionBundle(5, minor) = Bundle538
    BY <1>2, <1>9, <2>1 DEF VersionBundleRounded
  <2> QED
    BY <1>1, <1>9, <2>1, <2>2
    DEF Bundle510, Bundle516, Bundle524, Bundle528, Bundle536,
          Bundle538, HasFeature
<1>10. CASE minor \in 40..41
  <2>1. even = 40
    BY <1>1, <1>10
  <2>2. VersionBundle(5, minor) = Bundle540
    BY <1>2, <1>10, <2>1 DEF VersionBundleRounded
  <2> QED
    BY <1>1, <1>10, <2>1, <2>2
    DEF Bundle510, Bundle516, Bundle524, Bundle528, Bundle536,
          Bundle538, Bundle540, HasFeature
<1>11. CASE minor >= 42
  <2>1. even >= 42
    BY <1>1, <1>11
  <2>2. VersionBundle(5, minor) = Bundle542
    BY <1>2, <1>11, <2>1 DEF VersionBundleRounded
  <2> QED
    BY <1>1, <1>11, <2>1, <2>2
    DEF Bundle510, Bundle516, Bundle524, Bundle528, Bundle536,
          Bundle538, Bundle540, Bundle542, HasFeature
<1> QED
  BY <1>3, <1>4, <1>5, <1>6, <1>7, <1>8, <1>9, <1>10, <1>11

(* The bundle loaded for a spelling is what the version brings in force.   *)
LEMMA VersionsAgree ==
  ASSUME NEW spelling \in Spellings, NEW minor \in 0..999, NEW patch \in 0..1
  PROVE  VersionBundle(VersionOf(spelling, minor, patch)[1], VersionOf(spelling, minor, patch)[2])
           = InForce(minor)
<1>1. VersionOf(spelling, minor, patch) = <<5, minor>>
  BY VersionLoads
<1>2. VersionBundle(5, minor) = InForce(minor)
  <2>1. \A f : f \in VersionBundle(5, minor) <=> f \in InForce(minor)
    BY BundleHas, InForceIs
  <2> QED
    BY <2>1
<1> QED
  BY <1>1, <1>2

(* The text of the statement that is read is the top of its stack.         *)
LEMMA TopOfTexts ==
  ASSUME StacksAgree
  PROVE  /\ Len(scopes) \in Nat /\ Len(texts) = Len(scopes) + 1
         /\ Text = texts[Len(scopes) + 1] /\ TextShape(Text)
<1>1. scopes \in Seq(Range(scopes)) /\ Len(texts) = Len(scopes) + 1
  BY DEF StacksAgree, Sequential
<1>2. Len(scopes) \in Nat
  BY <1>1, LenProperties
<1>3. Text = texts[Len(scopes) + 1]
  BY <1>1 DEF Text, Last
<1> QED
  BY <1>1, <1>2, <1>3 DEF StacksAgree

(* A statement is never read after an error.                               *)
StatementWords == {"use", "no", "package", "sub", "{", "}"} \cup SubNames

(* A word that begins a statement is not the error.                        *)
LEMMA StatementWord ==
  /\ {"use", "no"} \subseteq StatementWords /\ "package" \in StatementWords
  /\ "sub" \in StatementWords /\ "{" \in StatementWords /\ "}" \in StatementWords
  /\ SubNames \subseteq StatementWords
BY Zenon DEF StatementWords

(* Where a statement begins, the parser has not failed.                    *)
LEMMA StatementNoError ==
  ASSUME ScopesAssumption, NEW w \in StatementWords, Statement(w)
  PROVE  ahead.word # "error"
BY DEF ScopesAssumption, Statement, StatementWords

(* The next word is lexed under the pragmas the lexer has then.            *)
LEMMA LexedNext ==
  ASSUME LexNext
  PROVE  AheadShape' /\ ahead'.under = lexer' /\ ~ ahead'.afterBrace
BY DEF LexNext, AheadShape

(* The last text of the stack changes, the ones below do not: the stacks   *)
(* go on agreeing when the sub it declares stays.                          *)
LEMMA StacksAfterText ==
  ASSUME StacksAgree, NEW t, TextShape(t), t.sub = Text.sub,
         texts' = Front(texts) \o <<t>>, UNCHANGED scopes
  PROVE  StacksAgree' /\ Text' = t
<1>1. PICK n \in Nat : n = Len(scopes)
  BY TopOfTexts
<1>2. Sequential(texts) /\ Len(texts) = n + 1 /\ Text = texts[n + 1]
  BY <1>1, TopOfTexts DEF StacksAgree
<1>3. /\ Sequential(texts') /\ Len(texts') = n + 1
      /\ texts'[n + 1] = t /\ \A i \in 1..n : texts'[i] = texts[i]
  <2>1. IsReplaced(Front(texts) \o <<t>>, texts, n, t)
    BY <1>2, Replaced
  <2> QED
    BY <2>1 DEF IsReplaced
<1>4. Text' = t
  BY <1>3 DEF Text, Last
<1>5. \A i \in 1..(n + 1) : TextShape(texts'[i])
  <2> TAKE i \in 1..(n + 1)
  <2>1. CASE i = n + 1
    BY <1>3, <2>1
  <2>2. CASE i # n + 1
    <3>1. i \in 1..n
      BY <2>2
    <3> QED
      BY <1>2, <1>3, <3>1 DEF StacksAgree
  <2> QED
    BY <2>1, <2>2
<1>6. \A i \in 1..n :
         ScopeShape(scopes[i]) /\ Saved(scopes[i], texts'[i], texts'[i + 1])
  <2> TAKE i \in 1..n
  <2>1. ScopeShape(scopes[i]) /\ Saved(scopes[i], texts[i], texts[i + 1])
    BY <1>1 DEF StacksAgree
  <2>2. texts'[i] = texts[i] /\ texts'[i + 1].sub = texts[i + 1].sub
    <3>1. CASE i = n
      BY <1>2, <1>3, <3>1
    <3>2. CASE i # n
      <4>1. i + 1 \in 1..n
        BY <3>2
      <4> QED
        BY <1>3, <4>1
    <3> QED
      BY <3>1, <3>2
  <2> QED
    BY <2>1, <2>2 DEF Saved
<1>7. StacksAgree'
  BY <1>1, <1>3, <1>5, <1>6 DEF StacksAgree
<1> QED
  BY <1>4, <1>7

(* A declaration is noted in the table as in the text.                     *)
LEMMA TableAfterDeclare ==
  ASSUME TableAgrees, NEW q \in Packages, NEW m \in SubNames, NEW what \in Declared,
         Declare(q, m, what), decls' = Append(decls, <<q, m, what>>), UNCHANGED imports
  PROVE  TableAgrees'
<1>1. decls \in Seq(Packages \X SubNames \X Declared)
  BY DEF TableAgrees
<1>2. decls' \in Seq(Packages \X SubNames \X Declared)
  <2>1. <<q, m, what>> \in Packages \X SubNames \X Declared
    OBVIOUS
  <2> QED
    BY <1>1, <2>1, AppendProperties
<1>3. subs' \in [Keys -> {"none"} \cup Declared]
  BY DEF TableAgrees, Declare, Keys
<1>4. ASSUME NEW p \in Packages, NEW n \in SubNames
      PROVE  subs'[<<p, n>>] = LastDeclared(p, n)'
  <2>1. LastDeclared(p, n) = LastIn(decls, p, n)
    BY DEF LastDeclared, LastIn, Saying
  <2>2. LastDeclared(p, n)' = LastIn(decls', p, n)
    BY DEF LastDeclared, LastIn, Saying
  <2>3. Added(decls, q, m, what, p, n)
    BY <1>1, LastInAppended
  <2>4. subs'[<<p, n>>] = IF p = q /\ n = m THEN what ELSE subs[<<p, n>>]
    BY DEF Declare, TableAgrees, Keys
  <2>5. subs[<<p, n>>] = LastDeclared(p, n)
    BY DEF TableAgrees
  <2> QED
    BY <2>1, <2>2, <2>3, <2>4, <2>5 DEF Added
<1> QED
  BY <1>2, <1>3, <1>4 DEF TableAgrees

(* What leaves table and declarations alone keeps them agreeing.           *)
LEMMA TableKept ==
  ASSUME TableAgrees, UNCHANGED <<decls, subs, imports>>
  PROVE  TableAgrees'
<1>1. ASSUME NEW p \in Packages, NEW n \in SubNames
      PROVE  LastDeclared(p, n)' = LastDeclared(p, n)
  BY DEF LastDeclared
<1> QED
  BY <1>1 DEF TableAgrees


(* What ScopesNest says once no error has happened.                        *)
LEMMA NestHere ==
  ASSUME ScopesAssumption, ScopesNest, NEW w \in StatementWords, Statement(w)
  PROVE  pragmas = Text.pragmas /\ lexer = Text.pragmas /\ package = Text.package
BY StatementNoError DEF ScopesNest

(* Pragmas and text change alike: the invariant goes on.                   *)
LEMMA UsesKeep ==
  ASSUME ScopesAssumption, IInv, NEW w \in StatementWords, Statement(w),
         NEW p, Used(p), TextUses(p)
  PROVE  IInv'
<1> DEFINE t == [Text EXCEPT !.pragmas = p]
<1>1. TextShape(Text) /\ package = Text.package /\ package \in Packages
  BY TopOfTexts, NestHere DEF IInv
<1>2. TextShape(t) /\ t.sub = Text.sub /\ t.pragmas = p /\ t.package = Text.package
  BY <1>1 DEF TextShape
<1>3. texts' = Front(texts) \o <<t>> /\ UNCHANGED scopes
  BY DEF TextUses, Used
<1> HIDE DEF t
<1>4. StacksAgree' /\ Text' = t
  BY <1>2, <1>3, StacksAfterText DEF IInv
<1>5. AheadShape' /\ ahead'.under = p
  BY LexedNext DEF Used
<1>6. ScopesNest'
  BY <1>1, <1>2, <1>4, <1>5 DEF Used, ScopesNest
<1>7. TableAgrees'
  BY TableKept DEF IInv, Used
<1> QED
  BY <1>1, <1>4, <1>5, <1>6, <1>7 DEF IInv, Used

(* use and no of a version keep the invariant.                             *)
LEMMA UseVersionKeeps ==
  ASSUME ScopesAssumption, IInv, UseVersion
  PROVE  IInv'
<1>1. PICK no \in BOOLEAN, spelling \in Spellings, minor \in Minors, patch \in 0..1 :
    LET pair == VersionOf(spelling, minor, patch)
        to == VersionBundle(pair[1], pair[2])
        features == IF ~ no THEN to
                    ELSE IF spelling = "alias" THEN pragmas.features \ to ELSE pragmas.features
        told == IF ~ no THEN InForce(minor)
                ELSE IF spelling = "alias" THEN Text.pragmas.features \ InForce(minor)
                ELSE Text.pragmas.features
    IN /\ Statement(IF no THEN "no" ELSE "use")
       /\ Used([pragmas EXCEPT !.features = features])
       /\ TextUses([Text.pragmas EXCEPT !.features = told])
  BY DEF UseVersion
<1> DEFINE pair == VersionOf(spelling, minor, patch)
           to == VersionBundle(pair[1], pair[2])
           features == IF ~ no THEN to
                       ELSE IF spelling = "alias" THEN pragmas.features \ to
                       ELSE pragmas.features
           told == IF ~ no THEN InForce(minor)
                   ELSE IF spelling = "alias" THEN Text.pragmas.features \ InForce(minor)
                   ELSE Text.pragmas.features
           w == IF no THEN "no" ELSE "use"
<1>2. to = InForce(minor)
  <2>1. minor \in 0..999
    BY DEF ScopesAssumption
  <2> QED
    BY <2>1, VersionsAgree
<1>3. /\ Statement(w) /\ w \in StatementWords
      /\ Used([pragmas EXCEPT !.features = features])
      /\ TextUses([Text.pragmas EXCEPT !.features = told])
  <2>1. w \in StatementWords
    BY StatementWord
  <2> QED
    BY <1>1, <2>1
<1>4. pragmas = Text.pragmas
  BY <1>3, NestHere DEF IInv
<1>5. features = told
  BY <1>2, <1>4
<1>6. PICK p : p = [pragmas EXCEPT !.features = features]
  OBVIOUS
<1>7. p = [Text.pragmas EXCEPT !.features = told]
  BY <1>4, <1>5, <1>6
<1> HIDE DEF features, told, w
<1>8. Used(p) /\ TextUses(p)
  BY <1>3, <1>6, <1>7
<1> QED
  BY <1>3, <1>8, UsesKeep

(* use and no of features keep the invariant.                              *)
LEMMA UseFeatureKeeps ==
  ASSUME ScopesAssumption, IInv, UseFeature
  PROVE  IInv'
<1>1. PICK no \in BOOLEAN, names \in FeatureArgs :
    /\ Statement(IF no THEN "no" ELSE "use")
    /\ Used([pragmas EXCEPT !.features = ApplyFeature(@, no, names)])
    /\ TextUses([Text.pragmas EXCEPT !.features = ApplyFeature(@, no, names)])
  BY DEF UseFeature
<1> DEFINE w == IF no THEN "no" ELSE "use"
<1>2. Statement(w) /\ w \in StatementWords
  BY <1>1, StatementWord
<1>3. pragmas = Text.pragmas
  BY <1>2, NestHere DEF IInv
<1>4. PICK p : p = [pragmas EXCEPT !.features = ApplyFeature(@, no, names)]
  OBVIOUS
<1> HIDE DEF w
<1>5. Used(p) /\ TextUses(p)
  BY <1>1, <1>3, <1>4
<1> QED
  BY <1>2, <1>5, UsesKeep

(* use and no of utf8 keep the invariant.                                  *)
LEMMA UseUtf8Keeps ==
  ASSUME ScopesAssumption, IInv, UseUtf8
  PROVE  IInv'
<1>1. PICK no \in BOOLEAN :
    /\ Statement(IF no THEN "no" ELSE "use")
    /\ Used([pragmas EXCEPT !.utf8 = ~ no])
    /\ TextUses([Text.pragmas EXCEPT !.utf8 = ~ no])
  BY DEF UseUtf8
<1> DEFINE w == IF no THEN "no" ELSE "use"
<1>2. Statement(w) /\ w \in StatementWords
  BY <1>1, StatementWord
<1>3. pragmas = Text.pragmas
  BY <1>2, NestHere DEF IInv
<1>4. PICK p : p = [pragmas EXCEPT !.utf8 = ~ no]
  OBVIOUS
<1> HIDE DEF w
<1>5. Used(p) /\ TextUses(p)
  BY <1>1, <1>3, <1>4
<1> QED
  BY <1>2, <1>5, UsesKeep

(* A declaration where it stands: no scope, no pragma changes.             *)
LEMMA DeclaredHere ==
  ASSUME ScopesAssumption, IInv, NEW w \in StatementWords, Statement(w),
         NEW n \in SubNames, NEW what \in Declared,
         Declare(package, n, what), decls' = Append(decls, <<Text.package, n, what>>),
         UNCHANGED lexer, LexNext, UNCHANGED <<pragmas, package, scopes, texts, imports>>
  PROVE  IInv'
<1>1. pragmas = Text.pragmas /\ lexer = Text.pragmas /\ package = Text.package
  BY NestHere DEF IInv
<1>2. StacksAgree' /\ Text' = Text
  BY DEF IInv, StacksAgree, Text
<1>3. AheadShape' /\ ahead'.under = lexer'
  BY LexedNext
<1>4. ScopesNest'
  BY <1>1, <1>2, <1>3 DEF ScopesNest
<1>5. TableAgrees'
  <2>1. PICK q \in Packages : q = package
    BY DEF IInv
  <2>2. Declare(q, n, what) /\ decls' = Append(decls, <<q, n, what>>)
    BY <1>1, <2>1
  <2> QED
    BY <2>2, TableAfterDeclare DEF IInv
<1> QED
  BY <1>2, <1>3, <1>4, <1>5 DEF IInv

(* use subs declares in the package the text is in.                        *)
LEMMA UseSubsKeeps ==
  ASSUME ScopesAssumption, IInv, UseSubs
  PROVE  IInv'
<1>1. PICK n \in SubNames :
    /\ Statement("use") /\ UNCHANGED lexer /\ LexNext
    /\ Declare(package, n, "plain")
    /\ decls' = Append(decls, <<Text.package, n, "plain">>)
    /\ UNCHANGED <<pragmas, package, scopes, texts, reading, imports>>
  BY DEF UseSubs
<1>2. "plain" \in Declared
  BY DEF Declared
<1> QED
  BY <1>1, <1>2, StatementWord, DeclaredHere

(* A declaration is of a plain sub or of one with a prototype.             *)
LEMMA WhatIs ==
  ASSUME NEW features, NEW paren, NEW attribute
  PROVE  What(features, paren, attribute) \in Declared
BY DEF What, Declared

(* A forward declaration goes to the table as to the text.                 *)
LEMMA SubForwardKeeps ==
  ASSUME ScopesAssumption, IInv, SubForward
  PROVE  IInv'
<1>1. PICK n \in SubNames, paren \in BOOLEAN, attribute \in BOOLEAN :
    /\ Statement("sub")
    /\ Declare(package, n, What(pragmas.features, paren, attribute))
    /\ decls' = Append(decls, <<Text.package, n, What(Text.pragmas.features, paren, attribute)>>)
    /\ UNCHANGED lexer /\ LexNext
    /\ UNCHANGED <<pragmas, package, scopes, texts, reading, imports>>
  BY DEF SubForward
<1>2. pragmas = Text.pragmas
  BY <1>1, StatementWord, NestHere DEF IInv
<1>3. PICK what \in Declared : what = What(pragmas.features, paren, attribute)
  BY WhatIs
<1>4. Declare(package, n, what) /\ decls' = Append(decls, <<Text.package, n, what>>)
  BY <1>1, <1>2, <1>3
<1> QED
  BY <1>1, <1>4, StatementWord, DeclaredHere

(* What Open is given: the way back to the package, and what the end of    *)
(* the block declares, as the parser and as the text have it.              *)
OpensAs(p, todo, sub) ==
  /\ todo[1] = "package" => todo[2] \in Packages
  /\ todo[1] = "declare" => todo[2] \in SubNames /\ todo[3] \in Declared
  /\ package = IF todo[1] = "package" THEN todo[2] ELSE p
  /\ sub = IF todo[1] = "declare" THEN <<todo[2], todo[3]>> ELSE <<>>

(* A block opens: what is saved is what the text around it has.            *)
LEMMA OpenKeeps ==
  ASSUME ScopesAssumption, IInv, NEW w \in StatementWords, Statement(w),
         NEW p \in Packages, NEW todo, NEW sub, Open(p, todo, sub), OpensAs(p, todo, sub)
  PROVE  IInv'
<1>1. PICK n \in Nat : n = Len(scopes)
  BY TopOfTexts DEF IInv
<1>2. /\ pragmas = Text.pragmas /\ lexer = Text.pragmas /\ package = Text.package
  BY NestHere DEF IInv
<1>3. /\ Sequential(texts) /\ Sequential(scopes) /\ Len(texts) = n + 1
      /\ Text = texts[n + 1] /\ TextShape(Text)
  BY <1>1, TopOfTexts DEF IInv, StacksAgree
<1>4. PICK s : s = [pragmas |-> pragmas, package |-> p, then |-> todo]
  OBVIOUS
<1>5. PICK t : t = [Text EXCEPT !.package = IF todo[1] = "package" THEN p ELSE @, !.sub = sub]
  OBVIOUS
<1>6. /\ TextShape(t) /\ t.sub = sub /\ t.pragmas = Text.pragmas /\ t.package = p
  <2>1. p = Text.package \/ todo[1] = "package"
    BY <1>2 DEF OpensAs
  <2> QED
    BY <1>3, <1>5, <2>1 DEF TextShape
<1>7. ScopeShape(s) /\ Saved(s, Text, t)
  BY <1>2, <1>4, <1>6 DEF ScopeShape, Saved, OpensAs
<1> DEFINE ss == Append(scopes, s)
           ts == Append(texts, t)
<1>8. scopes' = ss /\ texts' = ts
  BY <1>4, <1>5 DEF Open
<1>9. IsPushed(ss, scopes, n, s)
  BY <1>1, <1>3, Pushed
<1>10. IsPushed(ts, texts, n + 1, t)
  <2>1. n + 1 \in Nat
    OBVIOUS
  <2> QED
    BY <1>3, <2>1, Pushed
<1> HIDE DEF ss, ts
<1>11. /\ Sequential(ss) /\ Len(ss) = n + 1
       /\ ss[n + 1] = s /\ \A i \in 1..n : ss[i] = scopes[i]
  BY <1>9 DEF IsPushed
<1>12. /\ Sequential(ts) /\ Len(ts) = (n + 1) + 1
       /\ ts[(n + 1) + 1] = t /\ \A i \in 1..(n + 1) : ts[i] = texts[i]
  BY <1>10 DEF IsPushed
<1>13. \A i \in 1..((n + 1) + 1) : TextShape(ts[i])
  <2> TAKE i \in 1..((n + 1) + 1)
  <2>1. CASE i = (n + 1) + 1
    BY <1>6, <1>12, <2>1
  <2>2. CASE i # (n + 1) + 1
    <3>1. i \in 1..(n + 1)
      BY <2>2
    <3> QED
      BY <1>3, <1>12, <3>1 DEF IInv, StacksAgree
  <2> QED
    BY <2>1, <2>2
<1>14. \A i \in 1..(n + 1) : ScopeShape(ss[i]) /\ Saved(ss[i], ts[i], ts[i + 1])
  <2> TAKE i \in 1..(n + 1)
  <2>1. CASE i = n + 1
    BY <1>3, <1>7, <1>11, <1>12, <2>1
  <2>2. CASE i # n + 1
    <3>1. i \in 1..n /\ i \in 1..(n + 1) /\ i + 1 \in 1..(n + 1)
      BY <2>2
    <3>2. ScopeShape(scopes[i]) /\ Saved(scopes[i], texts[i], texts[i + 1])
      BY <1>1, <3>1 DEF IInv, StacksAgree
    <3> QED
      BY <1>11, <1>12, <3>1, <3>2
  <2> QED
    BY <2>1, <2>2
<1>15. StacksAgree'
  BY <1>8, <1>11, <1>12, <1>13, <1>14 DEF StacksAgree
<1>16. Text' = t
  BY <1>8, <1>12 DEF Text, Last
<1>17. AheadShape' /\ ahead'.under = lexer'
  BY LexedNext DEF Open
<1>18. ScopesNest' /\ package' \in Packages
  BY <1>2, <1>6, <1>16, <1>17 DEF Open, ScopesNest
<1>19. TableAgrees'
  BY TableKept DEF IInv, Open
<1> QED
  BY <1>15, <1>17, <1>18, <1>19 DEF IInv

(* The body of a sub opens.                                                *)
LEMMA SubBodyKeeps ==
  ASSUME ScopesAssumption, IInv, SubBody
  PROVE  IInv'
<1>1. PICK n \in SubNames, paren \in BOOLEAN, attribute \in BOOLEAN :
    /\ Statement("sub")
    /\ Open(package, <<"declare", n, What(pragmas.features, paren, attribute)>>,
            <<n, What(Text.pragmas.features, paren, attribute)>>)
  BY DEF SubBody
<1>2. pragmas = Text.pragmas
  BY <1>1, StatementWord, NestHere DEF IInv
<1>3. PICK what \in Declared : what = What(pragmas.features, paren, attribute)
  BY WhatIs
<1>4. PICK p \in Packages : p = package
  BY DEF IInv
<1>5. PICK todo : todo = <<"declare", n, what>>
  OBVIOUS
<1>6. PICK sub : sub = <<n, what>>
  OBVIOUS
<1>7. Open(p, todo, sub)
  BY <1>1, <1>2, <1>3, <1>4, <1>5, <1>6
<1>8. OpensAs(p, todo, sub)
  BY <1>4, <1>5, <1>6 DEF OpensAs
<1> QED
  BY <1>1, <1>7, <1>8, StatementWord, OpenKeeps

(* A block opens.                                                          *)
LEMMA BlockKeeps ==
  ASSUME ScopesAssumption, IInv, Block
  PROVE  IInv'
<1>1. PICK p \in Packages : p = package
  BY DEF IInv
<1>2. PICK todo : todo = <<"go on">>
  OBVIOUS
<1>3. PICK sub : sub = <<>>
  OBVIOUS
<1>4. Statement("{") /\ Open(p, todo, sub)
  BY <1>1, <1>2, <1>3 DEF Block
<1>5. OpensAs(p, todo, sub)
  BY <1>1, <1>2, <1>3 DEF OpensAs
<1> QED
  BY <1>4, <1>5, StatementWord, OpenKeeps

(* The block of a package opens.                                           *)
LEMMA PackageBlockKeeps ==
  ASSUME ScopesAssumption, IInv, PackageBlock
  PROVE  IInv'
<1>1. PICK p \in Packages : Statement("package") /\ Open(p, <<"package", package>>, <<>>)
  BY DEF PackageBlock
<1>2. PICK todo : todo = <<"package", package>>
  OBVIOUS
<1>3. PICK sub : sub = <<>>
  OBVIOUS
<1>4. OpensAs(p, todo, sub)
  BY <1>2, <1>3 DEF OpensAs, IInv
<1>5. Open(p, todo, sub)
  BY <1>1, <1>2, <1>3
<1> QED
  BY <1>1, <1>4, <1>5, StatementWord, OpenKeeps

(* package without a block.                                                *)
LEMMA PackageStatementKeeps ==
  ASSUME ScopesAssumption, IInv, PackageStatement
  PROVE  IInv'
<1>1. PICK p \in Packages :
    /\ Statement("package")
    /\ package' = p /\ UNCHANGED lexer /\ LexNext
    /\ texts' = Front(texts) \o <<[Text EXCEPT !.package = p]>>
    /\ UNCHANGED <<pragmas, scopes, decls, reading, subs, imports>>
  BY DEF PackageStatement
<1>2. pragmas = Text.pragmas /\ lexer = Text.pragmas
  BY <1>1, StatementWord, NestHere DEF IInv
<1>3. PICK t : t = [Text EXCEPT !.package = p]
  OBVIOUS
<1>4. TextShape(t) /\ t.sub = Text.sub /\ t.pragmas = Text.pragmas /\ t.package = p
  <2>1. TextShape(Text)
    BY TopOfTexts DEF IInv
  <2> QED
    BY <1>3, <2>1 DEF TextShape
<1>5. StacksAgree' /\ Text' = t
  BY <1>1, <1>3, <1>4, StacksAfterText DEF IInv
<1>6. AheadShape' /\ ahead'.under = lexer'
  BY <1>1, LexedNext
<1>7. ScopesNest' /\ package' \in Packages
  BY <1>1, <1>2, <1>4, <1>5, <1>6 DEF ScopesNest
<1>8. TableAgrees'
  BY <1>1, TableKept DEF IInv
<1> QED
  BY <1>5, <1>6, <1>7, <1>8 DEF IInv

(* A block closes: the parser is where the text around the block is.       *)
LEMMA CloseBlockKeeps ==
  ASSUME ScopesAssumption, IInv, CloseBlock
  PROVE  IInv'
<1> DEFINE s == Last(scopes)
<1>1. /\ scopes # <<>>
      /\ \E w \in Words : ahead' = [word |-> w, under |-> lexer, afterBrace |-> TRUE]
      /\ pragmas' = s.pragmas /\ lexer' = s.pragmas
      /\ package' = IF s.then[1] = "package" THEN s.then[2] ELSE s.package
      /\ scopes' = Front(scopes)
      /\ IF s.then[1] = "declare" THEN Declare(s.package, s.then[2], s.then[3])
         ELSE UNCHANGED subs
      /\ texts' = Front(texts)
      /\ decls' = IF Text.sub = <<>> THEN decls
                  ELSE Append(decls, <<texts[Len(texts) - 1].package, Text.sub[1], Text.sub[2]>>)
      /\ UNCHANGED <<reading, imports>>
  BY Zenon DEF CloseBlock, CloseThen
<1>2. PICK n \in Nat : Len(scopes) = n + 1
  <2>1. scopes \in Seq(Range(scopes))
    BY DEF IInv, StacksAgree, Sequential
  <2>2. Len(scopes) \in Nat \ {0}
    BY <1>1, <2>1, EmptySeq
  <2>3. Len(scopes) - 1 \in Nat /\ Len(scopes) = (Len(scopes) - 1) + 1
    BY <2>2
  <2> QED
    BY <2>3
<1>3. /\ Sequential(texts) /\ Sequential(scopes) /\ Len(texts) = (n + 1) + 1
      /\ Text = texts[(n + 1) + 1] /\ s = scopes[n + 1]
  BY <1>2, TopOfTexts DEF IInv, StacksAgree, Last
<1>4. ScopeShape(s) /\ Saved(s, texts[n + 1], Text) /\ TextShape(texts[n + 1])
  <2>1. n + 1 \in 1..Len(scopes) /\ n + 1 \in 1..Len(texts)
    BY <1>2, <1>3
  <2> QED
    BY <1>3, <2>1 DEF IInv, StacksAgree
<1> HIDE DEF s
<1>5. /\ Sequential(scopes') /\ Len(scopes') = n /\ \A i \in 1..n : scopes'[i] = scopes[i]
  BY <1>1, <1>2, <1>3, Popped
<1>6. /\ Sequential(texts') /\ Len(texts') = n + 1
      /\ \A i \in 1..(n + 1) : texts'[i] = texts[i]
  <2>1. PICK m \in Nat : m = n + 1
    OBVIOUS
  <2>2. Sequential(texts) /\ Len(texts) = m + 1
    BY <1>3, <2>1
  <2>3. Sequential(texts') /\ Len(texts') = m /\ \A i \in 1..m : texts'[i] = texts[i]
    BY <1>1, <2>2, Popped
  <2> QED
    BY <2>1, <2>3
<1>7. StacksAgree'
  <2>1. \A i \in 1..(n + 1) : TextShape(texts'[i])
    <3> TAKE i \in 1..(n + 1)
    <3>1. i \in 1..Len(texts)
      BY <1>3
    <3> QED
      BY <1>6, <3>1 DEF IInv, StacksAgree
  <2>2. \A i \in 1..n : ScopeShape(scopes'[i]) /\ Saved(scopes'[i], texts'[i], texts'[i + 1])
    <3> TAKE i \in 1..n
    <3>1. i \in 1..Len(scopes) /\ i \in 1..(n + 1) /\ i + 1 \in 1..(n + 1)
      BY <1>2
    <3>2. ScopeShape(scopes[i]) /\ Saved(scopes[i], texts[i], texts[i + 1])
      BY <3>1 DEF IInv, StacksAgree
    <3> QED
      BY <1>5, <1>6, <3>1, <3>2
  <2> QED
    BY <1>5, <1>6, <2>1, <2>2 DEF StacksAgree
<1>8. Text' = texts[n + 1]
  <2>1. n + 1 \in 1..(n + 1)
    OBVIOUS
  <2> QED
    BY <1>6, <2>1 DEF Text, Last
<1>9. AheadShape' /\ ahead'.afterBrace
  <2>1. PICK w \in Words : ahead' = [word |-> w, under |-> lexer, afterBrace |-> TRUE]
    BY <1>1
  <2> QED
    BY <2>1 DEF AheadShape
<1>10. ScopesNest' /\ package' \in Packages
  BY <1>1, <1>4, <1>8, <1>9 DEF ScopesNest, Saved, ScopeShape
<1>11. TableAgrees'
  <2>1. CASE s.then[1] = "declare"
    <3>1. /\ s.package = texts[n + 1].package /\ s.package \in Packages
          /\ s.then[2] \in SubNames /\ s.then[3] \in Declared
          /\ Text.sub = <<s.then[2], s.then[3]>>
      BY <1>4, <2>1 DEF ScopeShape, Saved
    <3>2. Len(texts) - 1 = n + 1
      BY <1>3
    <3>3. PICK q \in Packages, m \in SubNames, what \in Declared :
             q = s.package /\ m = s.then[2] /\ what = s.then[3]
      BY <3>1
    <3>4. Text.sub # <<>> /\ Text.sub[1] = m /\ Text.sub[2] = what
      BY <3>1, <3>3
    <3>5. Declare(q, m, what) /\ decls' = Append(decls, <<q, m, what>>)
      BY <1>1, <2>1, <3>1, <3>2, <3>3, <3>4
    <3> QED
      BY <1>1, <3>5, TableAfterDeclare DEF IInv
  <2>2. CASE s.then[1] # "declare"
    <3>1. Text.sub = <<>>
      BY <1>4, <2>2 DEF Saved
    <3> QED
      BY <1>1, <2>2, <3>1, TableKept DEF IInv
  <2> QED
    BY <2>1, <2>2
<1> QED
  BY <1>7, <1>9, <1>10, <1>11 DEF IInv

(* Reading a name changes no scope and no declaration.                     *)
LEMMA ReadNameKeeps ==
  ASSUME ScopesAssumption, IInv, ReadName
  PROVE  IInv'
<1>1. PICK n \in SubNames : Statement(n)
  BY DEF ReadName
<1>2. /\ UNCHANGED lexer /\ LexNext
      /\ UNCHANGED <<pragmas, package, scopes, texts, decls, subs, imports>>
  BY DEF ReadName
<1>3. pragmas = Text.pragmas /\ lexer = Text.pragmas /\ package = Text.package
  BY <1>1, StatementWord, NestHere DEF IInv
<1>4. StacksAgree' /\ Text' = Text
  BY <1>2 DEF IInv, StacksAgree, Text
<1>5. AheadShape' /\ ahead'.under = lexer'
  BY <1>2, LexedNext
<1>6. ScopesNest'
  BY <1>2, <1>3, <1>4, <1>5 DEF ScopesNest
<1>7. TableAgrees'
  BY <1>2, TableKept DEF IInv
<1> QED
  BY <1>2, <1>4, <1>5, <1>6, <1>7 DEF IInv

(* The end of the source inside blocks leaves through all of them.         *)
LEMMA EndOfSourceKeeps ==
  ASSUME ScopesAssumption, IInv, EndOfSource
  PROVE  IInv'
<1>1. PICK n \in Nat : Len(scopes) = n + 1
  <2>1. scopes \in Seq(Range(scopes)) /\ scopes # <<>>
    BY DEF IInv, StacksAgree, Sequential, EndOfSource
  <2>2. Len(scopes) \in Nat \ {0}
    BY <2>1, EmptySeq
  <2>3. Len(scopes) - 1 \in Nat /\ Len(scopes) = (Len(scopes) - 1) + 1
    BY <2>2
  <2> QED
    BY <2>3
<1>2. Sequential(texts) /\ Len(texts) = (n + 1) + 1
  BY <1>1 DEF IInv, StacksAgree
<1>3. ScopeShape(scopes[1]) /\ scopes[1].pragmas = texts[1].pragmas /\ TextShape(texts[1])
  <2>1. 1 \in 1..Len(scopes) /\ 1 \in 1..Len(texts)
    BY <1>1, <1>2
  <2> QED
    BY <2>1 DEF IInv, StacksAgree, Saved
<1>4. Sequential(texts') /\ Len(texts') = 1 /\ texts'[1] = texts[1]
  <2> DEFINE u == SubSeq(texts, 1, 1)
  <2>1. texts \in Seq(Range(texts)) /\ 1 \in 1..Len(texts)
    BY <1>2 DEF Sequential
  <2>2. \A i \in 1..1 : texts[i] \in Range(texts)
    <3>1. texts[1] \in Range(texts)
      BY <2>1, ElementOfSeq
    <3> QED
      BY <3>1
  <2>3. u \in Seq(Range(texts)) /\ Len(u) = 1 /\ u[1] = texts[1]
    <3>1. /\ u \in Seq(Range(texts))
          /\ Len(u) = (IF 1 <= 1 THEN 1 - 1 + 1 ELSE 0)
          /\ \A i \in 1..(1 - 1 + 1) : u[i] = texts[1 + i - 1]
      BY <2>2, SubSeqProperties
    <3> HIDE DEF u
    <3> QED
      BY <3>1
  <2>4. texts' = u
    BY DEF EndOfSource
  <2> HIDE DEF u
  <2>5. Sequential(u)
    BY <2>3, SeqOfRange DEF Sequential
  <2> QED
    BY <2>3, <2>4, <2>5
<1>5. Sequential(scopes') /\ Len(scopes') = 0
  <2>1. <<>> \in Seq(Range(<<>>)) /\ Len(<<>>) = 0
    BY EmptySeq
  <2>2. scopes' = <<>>
    BY DEF EndOfSource
  <2> QED
    BY <2>1, <2>2 DEF Sequential
<1>6. StacksAgree'
  <2>1. \A i \in 1..1 : TextShape(texts'[i])
    BY <1>3, <1>4
  <2>2. 1..0 = {}
    OBVIOUS
  <2> QED
    BY <1>4, <1>5, <2>1, <2>2 DEF StacksAgree
<1>7. Text' = texts[1]
  BY <1>4 DEF Text, Last
<1>8. AheadShape' /\ ahead'.word = "error"
  BY DEF IInv, AheadShape, EndOfSource
<1>9. ScopesNest' /\ package' \in Packages
  BY <1>3, <1>7, <1>8 DEF ScopesNest, ScopeShape, EndOfSource
<1>10. TableAgrees'
  BY TableKept DEF IInv, EndOfSource
<1> QED
  BY <1>6, <1>8, <1>9, <1>10 DEF IInv

(* Where the source begins, nothing is open and nothing is declared.       *)
LEMMA InitHolds ==
  ASSUME ScopesAssumption, ScopesInit
  PROVE  IInv /\ NamesAsDeclared
<1>1. PICK w \in Words : ahead = [word |-> w, under |-> pragmas, afterBrace |-> FALSE]
  BY DEF ScopesInit
<1>2. PICK t : t = [pragmas |-> pragmas, package |-> "main", sub |-> <<>>]
  OBVIOUS
<1>3. texts = <<t>> /\ scopes = <<>> /\ decls = <<>> /\ reading = <<>>
  BY <1>2 DEF ScopesInit
<1>4. "main" \in Packages
  BY DEF ScopesAssumption, SymbolsAssumption
<1>5. /\ Sequential(texts) /\ Len(texts) = 1 /\ texts[1] = t
      /\ Sequential(scopes) /\ Len(scopes) = 0
  <2>1. <<t>> \in Seq({t}) /\ Len(<<t>>) = 1 /\ <<t>>[1] = t
    OBVIOUS
  <2>2. <<>> \in Seq({}) /\ Len(<<>>) = 0
    BY EmptySeq
  <2> QED
    BY <1>3, <2>1, <2>2, SeqOfRange DEF Sequential
<1>6. TextShape(t) /\ t.pragmas = pragmas /\ t.package = "main"
  BY <1>2, <1>4 DEF TextShape
<1>7. StacksAgree
  <2>1. \A i \in 1..1 : TextShape(texts[i])
    BY <1>5, <1>6
  <2>2. 1..0 = {}
    OBVIOUS
  <2> QED
    BY <1>5, <2>1, <2>2 DEF StacksAgree
<1>8. Text = t
  BY <1>5 DEF Text, Last
<1>9. AheadShape /\ ahead.under = pragmas
  BY <1>1 DEF AheadShape
<1>10. ScopesNest /\ package \in Packages
  BY <1>4, <1>6, <1>8, <1>9 DEF ScopesNest, ScopesInit
<1>11. TableAgrees
  <2>1. decls \in Seq(Packages \X SubNames \X Declared)
    BY <1>3, EmptySeq
  <2>2. subs = [k \in Keys |-> "none"] /\ imports = [k \in Keys |-> NotImported]
    BY DEF ScopesInit, Init
  <2>3. ASSUME NEW p \in Packages, NEW n \in SubNames
        PROVE  subs[<<p, n>>] = LastDeclared(p, n)
    <3>1. <<p, n>> \in Keys
      BY DEF Keys
    <3>2. DOMAIN decls = {}
      <4>1. DOMAIN decls = 1..Len(decls) /\ Len(decls) = 0
        BY <1>3, <2>1, LenProperties, EmptySeq
      <4> QED
        BY <4>1
    <3>3. LastDeclared(p, n) = "none"
      BY <3>2 DEF LastDeclared
    <3> QED
      BY <2>2, <3>1, <3>3
  <2> QED
    BY <2>1, <2>2, <2>3 DEF TableAgrees
<1> QED
  BY <1>3, <1>7, <1>9, <1>10, <1>11 DEF IInv, NamesAsDeclared

(* A lookup in a table without imports finds the last declaration.         *)
LEMMA LookupFindsLast ==
  ASSUME ScopesAssumption, TableAgrees, NEW p \in Packages, NEW n \in SubNames
  PROVE  Resolve(<<p, n>>) = LastDeclared(p, n)
<1>1. SymbolsAssumption /\ <<p, n>> \in Keys
  BY DEF ScopesAssumption, Keys
<1>2. SymbolsTypeOK
  BY DEF TableAgrees, SymbolsTypeOK, Answers, Declared
<1>3. \A k \in Keys : Follow(k) = k
  BY DEF TableAgrees, Follow
<1>4. PICK key \in Keys : key = <<p, n>>
  BY <1>1
<1>5. Way(key)[0] = key /\ 0 \in 0..Cardinality(Keys)
  BY <1>1, <1>2, WayIs, KeysFinite
<1>6. Follow(Way(key)[0]) = Way(key)[0]
  BY <1>3, <1>5
<1>7. Way(key)[Cardinality(Keys)] = key
  <2>1. Way(key)[Cardinality(Keys)] = Way(key)[0]
    BY <1>1, <1>2, <1>5, <1>6, WayStays
  <2> QED
    BY <1>5, <2>1
<1>8. Resolve(key) = subs[key]
  BY <1>1, <1>2, <1>7, ResolveFollows
<1> QED
  BY <1>4, <1>8 DEF TableAgrees

(* A name is read as its last declaration makes it.                        *)
LEMMA ReadNameRight ==
  ASSUME ScopesAssumption, IInv, ReadName
  PROVE  NamesAsDeclared'
<1> DEFINE builtin(n, qualifier, ps) == n = "fc" /\ qualifier = "" /\ "fc" \in ps.features
<1>1. PICK n \in SubNames, qualifier \in {""} \cup Packages :
    /\ Statement(n)
    /\ reading' = [as |-> ReadAs(Lookup(qualifier, n, package),
                                 builtin(n, qualifier, ahead.under)),
                   told |-> ReadAs(LastDeclared(IF qualifier = "" THEN Text.package
                                                ELSE qualifier, n),
                                   builtin(n, qualifier, ahead.under))]
  BY DEF ReadName
<1>2. package = Text.package /\ package \in Packages
  BY <1>1, StatementWord, NestHere DEF IInv
<1>3. PICK p \in Packages : p = IF qualifier = "" THEN package ELSE qualifier
  BY <1>2
<1>4. Lookup(qualifier, n, package) = Resolve(<<p, n>>)
  BY <1>3 DEF Lookup, Split
<1>5. LastDeclared(IF qualifier = "" THEN Text.package ELSE qualifier, n) = LastDeclared(p, n)
  BY <1>2, <1>3
<1>6. Resolve(<<p, n>>) = LastDeclared(p, n)
  BY LookupFindsLast DEF IInv
<1> HIDE DEF builtin
<1>7. reading'.as = reading'.told
  BY <1>1, <1>4, <1>5, <1>6
<1> QED
  BY <1>7 DEF NamesAsDeclared

(* Every step keeps the stacks, the table and the names agreeing.          *)
LEMMA StepKeeps ==
  ASSUME ScopesAssumption, IInv, NamesAsDeclared, [ScopesNext]_vars
  PROVE  IInv' /\ NamesAsDeclared'
<1>1. CASE ReadName
  BY <1>1, ReadNameKeeps, ReadNameRight
<1>2. ASSUME UNCHANGED reading PROVE NamesAsDeclared'
  BY <1>2 DEF NamesAsDeclared
<1>3. CASE UseVersion
  <2>1. \E p : Used(p)
    BY <1>3, Zenon DEF UseVersion
  <2>2. UNCHANGED reading
    BY <2>1 DEF Used
  <2> QED
    BY <1>2, <1>3, <2>2, UseVersionKeeps
<1>4. CASE UseFeature
  BY <1>2, <1>4, UseFeatureKeeps DEF UseFeature, Used
<1>5. CASE UseUtf8
  BY <1>2, <1>5, UseUtf8Keeps DEF UseUtf8, Used
<1>6. CASE UseSubs
  BY <1>2, <1>6, UseSubsKeeps DEF UseSubs
<1>7. CASE SubForward
  BY <1>2, <1>7, SubForwardKeeps DEF SubForward
<1>8. CASE SubBody
  BY <1>2, <1>8, SubBodyKeeps DEF SubBody, Open
<1>9. CASE Block
  BY <1>2, <1>9, BlockKeeps DEF Block, Open
<1>10. CASE PackageBlock
  BY <1>2, <1>10, PackageBlockKeeps DEF PackageBlock, Open
<1>11. CASE PackageStatement
  BY <1>2, <1>11, PackageStatementKeeps DEF PackageStatement
<1>12. CASE CloseBlock
  BY <1>2, <1>12, CloseBlockKeeps DEF CloseBlock, CloseThen
<1>13. CASE EndOfSource
  BY <1>2, <1>13, EndOfSourceKeeps DEF EndOfSource
<1>14. CASE UNCHANGED vars
  <2>1. /\ UNCHANGED <<pragmas, lexer, package, scopes, ahead>>
        /\ UNCHANGED <<texts, decls, reading, count, subs, imports>>
    BY <1>14 DEF vars, parserVars, textVars
  <2>2. StacksAgree' /\ Text' = Text /\ AheadShape'
    BY <2>1 DEF IInv, StacksAgree, Text, AheadShape
  <2>3. ScopesNest' /\ package' \in Packages
    BY <2>1, <2>2 DEF IInv, ScopesNest
  <2>4. TableAgrees'
    BY <2>1, TableKept DEF IInv
  <2> QED
    BY <1>2, <2>1, <2>2, <2>3, <2>4 DEF IInv
<1> QED
  BY <1>1, <1>3, <1>4, <1>5, <1>6, <1>7, <1>8, <1>9, <1>10, <1>11, <1>12, <1>13, <1>14
  DEF ScopesNext

(* The invariant holds in every state.                                     *)
LEMMA Invariance ==
  ASSUME ScopesAssumption
  PROVE  ScopesSpec => [](IInv /\ NamesAsDeclared)
<1>1. ScopesInit => IInv /\ NamesAsDeclared
  BY InitHolds
<1>2. (IInv /\ NamesAsDeclared) /\ [ScopesNext]_vars => (IInv /\ NamesAsDeclared)'
  BY StepKeeps
<1> QED
  BY <1>1, <1>2, PTL DEF ScopesSpec

(* However use, no, package and blocks nest, and whatever versions and     *)
(* features they name, the next statement is read under the pragmas and in *)
(* the package the text gives it, and the parser's, the lexer's and the    *)
(* saved copies agree (parser.rs:1778).                                    *)
THEOREM ScopesRestored ==
  ASSUME ScopesAssumption
  PROVE  ScopesSpec => []ScopesNest
<1>1. IInv => ScopesNest
  BY DEF IInv
<1> QED
  BY <1>1, Invariance, PTL

(* A name is read as the last declaration of it before it makes it, from   *)
(* whatever packages and blocks the declarations and the name stand in     *)
(* (symbol.rs:291, parser.rs:2552).                                        *)
THEOREM NamesRead ==
  ASSUME ScopesAssumption
  PROVE  ScopesSpec => []NamesAsDeclared
BY Invariance, PTL

-----------------------------------------------------------------------------
(* Spans and parts of the first n characters.                              *)

Gap(c) == c \in Whitespace \cup {";"}
Semi(c) == c = ";"
Inner(c) == c \in RefKinds \cup {" "}

(* Characters told apart.                                                  *)
LEMMA CharsApart ==
  /\ \A c : Gap(c) => c \notin {"$", "_", "@", "\\", "[", "]", "x"}
  /\ \A c : Inner(c) => ~Semi(c) /\ c \notin {"\\", "]", "["}
  /\ \A c : Semi(c) => Gap(c)
  /\ \A c : c \in {"$", "@"} => Inner(c)
  /\ \A c : c \in {"$", "_", "@"} => ~Semi(c) /\ c # "\\"
BY Zenon DEF Gap, Semi, Inner, RefKinds, Whitespace

SpansTo(r, n) == {a \in (1..n) \X (1..n) : a[1] <= a[2] /\ SlotAt(r, a[1], a[2])}
PartsTo(r, n) ==
  {a \in SpansTo(r, n) : ~ \E b \in SpansTo(r, n) : a # b /\ b[1] <= a[1] /\ a[2] <= b[2]}
WellTo(r, n) ==
  /\ \A k \in 1..n : Gap(r[k]) \/ \E a \in PartsTo(r, n) : k \in a[1]..a[2]
  /\ \A a, b \in PartsTo(r, n) : a[2] < b[1] => r[a[1]] # "@"

(* Spans and parts, member by member.                                      *)
LEMMA SpansAre ==
  ASSUME NEW r, NEW n
  PROVE  \A a : a \in SpansTo(r, n) <=>
           /\ a = <<a[1], a[2]>> /\ a[1] \in 1..n /\ a[2] \in 1..n /\ a[1] <= a[2]
           /\ SlotAt(r, a[1], a[2])
BY DEF SpansTo

(* A part is a span no other contains.                                     *)
LEMMA PartsAre ==
  ASSUME NEW r, NEW n
  PROVE  \A a : a \in PartsTo(r, n) <=>
           /\ a \in SpansTo(r, n)
           /\ \A b \in SpansTo(r, n) : b[1] <= a[1] /\ a[2] <= b[2] => a = b
BY DEF PartsTo

One(r, i, j) == j = i /\ r[i] \in {"$", "_", "@"}
Two(r, i, j) == j = i + 1 /\ r[i] = "\\" /\ r[j] \in {"$", "@"}
Group(r, i, j) ==
  /\ j > i + 2 /\ r[i] = "\\" /\ r[i + 1] = "[" /\ r[j] = "]"
  /\ \A k \in (i + 2)..(j - 1) : Inner(r[k])
  /\ \E k \in (i + 2)..(j - 1) : r[k] \in RefKinds

(* The three ways to write a slot.                                         *)
LEMMA ThreeWays ==
  ASSUME NEW r, NEW i, NEW j, SlotAt(r, i, j)
  PROVE  One(r, i, j) \/ Two(r, i, j) \/ Group(r, i, j)
<1>1. RefKinds = {"$", "@"}
  BY DEF RefKinds
<1> QED
  BY <1>1, Zenon DEF SlotAt, One, Two, Group, Inner

Spanned(r, i, j) ==
  /\ r[i] \in {"$", "_", "@", "\\"} /\ r[j] \in {"$", "_", "@", "]"}
  /\ \A k \in i..j : ~Semi(r[k]) /\ (k # i => r[k] # "\\")
  /\ r[i] = "@" => j = i

(* How a span is written.                                                  *)
LEMMA SpanIs ==
  ASSUME NEW r, NEW i \in Int, NEW j \in Int, i <= j, SlotAt(r, i, j)
  PROVE  Spanned(r, i, j)
<1>1. CASE One(r, i, j)
  <2>1. j = i /\ r[i] \in {"$", "_", "@"} /\ r[j] = r[i]
    BY <1>1, Zenon DEF One
  <2>2. ~Semi(r[i])
    BY <2>1, CharsApart
  <2>3. i = j
    BY <2>1
  <2>4. \A k \in i..j : k = i
    BY <2>3
  <2>5. \A k \in i..j : ~Semi(r[k]) /\ ~(k # i)
    BY <2>2, <2>4
  <2> QED
    BY <2>1, <2>5 DEF Spanned
<1>2. CASE Two(r, i, j)
  <2>1. \A k \in i..j : k = i \/ k = j
    BY <1>2 DEF Two
  <2> QED
    BY <1>2, <2>1, CharsApart DEF Two, Spanned
<1>3. CASE Group(r, i, j)
  <2>1. \A k \in i..j : k = i \/ k = i + 1 \/ k = j \/ k \in (i + 2)..(j - 1)
    OBVIOUS
  <2> QED
    BY <1>3, <2>1, CharsApart DEF Group, Spanned
<1> QED
  BY <1>1, <1>2, <1>3, ThreeWays

(* Strings that agree have the same parts.                                 *)
LEMMA SameSpans ==
  ASSUME NEW n \in Nat, NEW r, NEW q, \A k \in 1..n : r[k] = q[k]
  PROVE  SpansTo(r, n) = SpansTo(q, n) /\ PartsTo(r, n) = PartsTo(q, n)
<1>1. \A i, j \in 1..n : SlotAt(r, i, j) <=> SlotAt(q, i, j)
  <2>1. SUFFICES ASSUME NEW i \in 1..n, NEW j \in 1..n
                 PROVE  SlotAt(r, i, j) <=> SlotAt(q, i, j)
    OBVIOUS
  <2>2. r[i] = q[i] /\ r[j] = q[j]
    OBVIOUS
  <2>3. j > i + 2 => r[i + 1] = q[i + 1]
    OBVIOUS
  <2>4. \A k \in (i + 2)..(j - 1) : r[k] = q[k]
    OBVIOUS
  <2> QED
    BY <2>2, <2>3, <2>4 DEF SlotAt
<1>2. SpansTo(r, n) = SpansTo(q, n)
  BY <1>1 DEF SpansTo
<1> QED
  BY <1>2 DEF PartsTo

(* Where every character is blank or in a part, no span goes on.           *)
LEMMA NoneGoesOn ==
  ASSUME NEW n \in Nat, NEW r, WellTo(r, n), NEW i \in 1..n, NEW j \in Nat, j > n
  PROVE  ~SlotAt(r, i, j)
<1>1. SUFFICES ASSUME SlotAt(r, i, j) PROVE FALSE
  OBVIOUS
<1>2. r[i] = "\\" /\ (Two(r, i, j) \/ Group(r, i, j))
  <2>1. j # i
    OBVIOUS
  <2> QED
    BY <1>1, <2>1, ThreeWays DEF One, Two, Group
<1>3. PICK a \in PartsTo(r, n) : i \in a[1]..a[2]
  BY <1>2, CharsApart DEF WellTo
<1>4. PICK b \in 1..n, c \in 1..n : b = a[1] /\ c = a[2] /\ b <= c /\ SlotAt(r, b, c)
  BY <1>3, PartsAre, SpansAre
<1>5. b \in Int /\ c \in Int
  OBVIOUS
<1>6. i = b
  <2>1. Spanned(r, b, c)
    BY <1>5, <1>4, SpanIs
  <2>2. \A k \in b..c : k # b => r[k] # "\\"
    BY <2>1 DEF Spanned
  <2> QED
    BY <1>2, <1>3, <1>4, <2>2
<1>7. Two(r, b, c) \/ Group(r, b, c)
  BY <1>2, <1>4, <1>6, ThreeWays DEF One
<1>8. c > b
  <2>1. Two(r, b, c) => c > b
    BY DEF Two
  <2>2. Group(r, b, c) => c > b + 2
    BY Zenon DEF Group
  <2>3. c > b + 2 => c > b
    BY <1>5
  <2> QED
    BY <1>7, <2>1, <2>2, <2>3
<1>9. CASE Two(r, i, j)
  <2>1. i = n
    BY <1>9 DEF Two
  <2> QED
    BY <1>6, <1>8, <2>1
<1>10. CASE Group(r, i, j)
  <2>1. r[i + 1] = "[" /\ \A k \in (i + 2)..(j - 1) : Inner(r[k])
    BY <1>10 DEF Group
  <2>2. ~Two(r, b, c)
    BY <1>6, <2>1 DEF Two
  <2>3. c \in (i + 2)..(j - 1) /\ r[c] = "]"
    <3>1. Group(r, b, c)
      BY <1>7, <2>2
    <3>2. c > b + 2 /\ r[c] = "]"
      BY <3>1 DEF Group
    <3> QED
      BY <1>6, <3>2
  <2> QED
    BY <2>1, <2>3, CharsApart
<1> QED
  BY <1>2, <1>9, <1>10

(* A slot written behind such characters is the one part more.             *)
LEMMA PartAdded ==
  ASSUME NEW m \in Nat, NEW r, WellTo(r, m), NEW n \in Nat, n > m, SlotAt(r, m + 1, n)
  PROVE  /\ PartsTo(r, n) = PartsTo(r, m) \cup {<<m + 1, n>>}
         /\ \A a \in PartsTo(r, m) : a[1] \in 1..m /\ a[2] \in 1..m
<1> DEFINE x == <<m + 1, n>>
<1>1. \A i \in 1..m : \A j \in (m + 1)..n : ~SlotAt(r, i, j)
  BY NoneGoesOn
<1>2. \A a \in SpansTo(r, m) : a[1] \in 1..m /\ a[2] \in 1..m /\ a \in SpansTo(r, n)
  <2>1. 1..m \subseteq 1..n
    OBVIOUS
  <2> QED
    BY <2>1, SpansAre
<1>3. ASSUME NEW a \in SpansTo(r, n)
      PROVE  a \in SpansTo(r, m) \/ a[1] \in (m + 1)..n
  <2>1. /\ a = <<a[1], a[2]>> /\ a[1] \in 1..n /\ a[2] \in 1..n /\ a[1] <= a[2]
        /\ SlotAt(r, a[1], a[2])
    BY SpansAre
  <2>2. PICK i \in 1..n, j \in 1..n : i = a[1] /\ j = a[2]
    BY <2>1
  <2>3. CASE i \in 1..m
    <3>1. j \notin (m + 1)..n
      BY <1>1, <2>1, <2>2, <2>3
    <3>2. j \in 1..m
      BY <3>1
    <3> QED
      BY <2>1, <2>2, <2>3, <3>2, SpansAre
  <2> QED
    BY <2>2, <2>3
<1>4. x \in SpansTo(r, n) /\ x[1] = m + 1 /\ x[2] = n
  <2>1. x[1] = m + 1 /\ x[2] = n /\ m + 1 \in 1..n /\ n \in 1..n /\ m + 1 <= n
    OBVIOUS
  <2> QED
    BY <2>1, SpansAre
<1> HIDE DEF x
<1>5. ASSUME NEW a \in PartsTo(r, n)
      PROVE  a \in PartsTo(r, m) \cup {x}
  <2>1. a \in SpansTo(r, n) /\ \A b \in SpansTo(r, n) : b[1] <= a[1] /\ a[2] <= b[2] => a = b
    BY PartsAre
  <2>2. CASE a \in SpansTo(r, m)
    BY <1>2, <2>1, <2>2, PartsAre
  <2>3. CASE a[1] \in (m + 1)..n
    <3>1. a[2] \in 1..n
      BY <2>1, SpansAre
    <3>2. x[1] <= a[1] /\ a[2] <= x[2]
      BY <1>4, <2>3, <3>1
    <3> QED
      BY <1>4, <2>1, <3>2
  <2> QED
    BY <1>3, <2>1, <2>2, <2>3
<1>6. ASSUME NEW a \in PartsTo(r, m)
      PROVE  a \in PartsTo(r, n)
  <2>1. a \in SpansTo(r, m) /\ \A b \in SpansTo(r, m) : b[1] <= a[1] /\ a[2] <= b[2] => a = b
    BY PartsAre
  <2>2. ASSUME NEW b \in SpansTo(r, n), b[1] <= a[1], a[2] <= b[2]
        PROVE  a = b
    <3>1. b[1] \notin (m + 1)..n
      BY <1>2, <2>1, <2>2
    <3> QED
      BY <1>3, <2>1, <2>2, <3>1
  <2> QED
    BY <1>2, <2>1, <2>2, PartsAre
<1>7. x \in PartsTo(r, n)
  <2>1. ASSUME NEW b \in SpansTo(r, n), b[1] <= x[1], x[2] <= b[2]
        PROVE  x = b
    <3>1. b[1] \in 1..n /\ b[2] \in 1..n /\ b = <<b[1], b[2]>>
      BY SpansAre
    <3>2. b[2] = n
      BY <1>4, <2>1, <3>1
    <3>3. b \notin SpansTo(r, m)
      BY <1>2, <3>2
    <3>4. b[1] = m + 1
      BY <1>3, <1>4, <2>1, <3>1, <3>3
    <3> QED
      BY <3>1, <3>2, <3>4 DEF x
  <2> QED
    BY <1>4, <2>1, PartsAre
<1>8. PartsTo(r, n) = PartsTo(r, m) \cup {x}
  BY <1>5, <1>6, <1>7
<1> QED
  BY <1>2, <1>8, PartsAre DEF x

(* A blank or ";" is in no part.                                           *)
LEMMA SkipAdded ==
  ASSUME NEW m \in Nat, NEW r, WellTo(r, m), Gap(r[m + 1])
  PROVE  PartsTo(r, m + 1) = PartsTo(r, m) /\ WellTo(r, m + 1)
<1>1. ASSUME NEW a \in SpansTo(r, m + 1)
      PROVE  a \in SpansTo(r, m)
  <2>1. /\ a = <<a[1], a[2]>> /\ a[1] \in 1..m + 1 /\ a[2] \in 1..m + 1 /\ a[1] <= a[2]
        /\ SlotAt(r, a[1], a[2])
    BY SpansAre
  <2>2. PICK i \in 1..m + 1, j \in 1..m + 1 : i = a[1] /\ j = a[2]
    BY <2>1
  <2>3. i \in Int /\ j \in Int
    OBVIOUS
  <2>4. Spanned(r, i, j)
    BY <2>1, <2>2, <2>3, SpanIs
  <2>5. j # m + 1
    BY <2>4, CharsApart DEF Spanned
  <2>6. i \in 1..m /\ j \in 1..m
    BY <2>1, <2>2, <2>5
  <2> QED
    BY <2>1, <2>2, <2>6, SpansAre
<1>2. ASSUME NEW a \in SpansTo(r, m)
      PROVE  a \in SpansTo(r, m + 1)
  <2>1. 1..m \subseteq 1..m + 1
    OBVIOUS
  <2> QED
    BY <2>1, SpansAre
<1>3. SpansTo(r, m + 1) = SpansTo(r, m)
  BY <1>1, <1>2
<1>4. PartsTo(r, m + 1) = PartsTo(r, m)
  BY <1>3 DEF PartsTo
<1>5. \A k \in 1..m + 1 : k \in 1..m \/ k = m + 1
  OBVIOUS
<1> QED
  BY <1>4, <1>5 DEF WellTo

(* Behind such characters one that is no blank and begins no slot spoils   *)
(* the string.                                                             *)
LEMMA Uncovered ==
  ASSUME NEW m \in Nat, NEW r, WellTo(r, m), NEW n \in Nat, n > m, ~Gap(r[m + 1]),
         \A j \in (m + 1)..n : ~SlotAt(r, m + 1, j)
  PROVE  ~WellTo(r, n)
<1>1. SUFFICES ASSUME WellTo(r, n) PROVE FALSE
  OBVIOUS
<1>2. m + 1 \in 1..n
  OBVIOUS
<1>3. PICK a \in PartsTo(r, n) : m + 1 \in a[1]..a[2]
  BY <1>1, <1>2 DEF WellTo
<1>4. PICK i \in 1..n, j \in 1..n : i = a[1] /\ j = a[2] /\ i <= j /\ SlotAt(r, i, j)
  BY <1>3, PartsAre, SpansAre
<1>5. i <= m + 1 /\ j \in (m + 1)..n
  BY <1>3, <1>4
<1>6. CASE i = m + 1
  BY <1>4, <1>5, <1>6
<1>7. CASE i \in 1..m
  <2>1. j > m /\ j \in Nat
    BY <1>5
  <2> QED
    BY <1>4, <1>7, <2>1, NoneGoesOn
<1> QED
  BY <1>5, <1>6, <1>7

(* A slot behind them does so only after a slurpy.                         *)
LEMMA WellAdded ==
  ASSUME NEW m \in Nat, NEW r, WellTo(r, m), NEW n \in Nat, n > m, SlotAt(r, m + 1, n)
  PROVE  WellTo(r, n) <=> \A a \in PartsTo(r, m) : r[a[1]] # "@"
<1> DEFINE x == <<m + 1, n>>
<1>1. PartsTo(r, n) = PartsTo(r, m) \cup {x}
  BY PartAdded
<1>2. \A a \in PartsTo(r, m) : a[1] \in 1..m /\ a[2] \in 1..m
  BY PartAdded
<1>3. x[1] = m + 1 /\ x[2] = n
  OBVIOUS
<1> HIDE DEF x
<1>4. ASSUME WellTo(r, n), NEW a \in PartsTo(r, m)
      PROVE  r[a[1]] # "@"
  <2>1. a[2] < x[1]
    BY <1>2, <1>3
  <2> QED
    BY <1>1, <1>4, <2>1 DEF WellTo
<1>5. ASSUME \A a \in PartsTo(r, m) : r[a[1]] # "@"
      PROVE  WellTo(r, n)
  <2>1. ASSUME NEW k \in 1..n
        PROVE  Gap(r[k]) \/ \E a \in PartsTo(r, n) : k \in a[1]..a[2]
    <3>1. CASE k \in 1..m
      BY <1>1, <3>1 DEF WellTo
    <3>2. CASE k \notin 1..m
      <4>1. k \in x[1]..x[2]
        BY <1>3, <3>2
      <4> QED
        BY <1>1, <4>1
    <3> QED
      BY <3>1, <3>2
  <2>2. ASSUME NEW a \in PartsTo(r, n), NEW b \in PartsTo(r, n), a[2] < b[1]
        PROVE  r[a[1]] # "@"
    <3>1. CASE a = x
      <4>1. b[1] \in 1..n
        BY <1>1, <1>2, <1>3
      <4>2. ~(n < b[1])
        BY <4>1
      <4> QED
        BY <1>3, <2>2, <3>1, <4>2
    <3>2. CASE a # x
      BY <1>1, <1>5, <3>2
    <3> QED
      BY <3>1, <3>2
  <2> QED
    BY <2>1, <2>2 DEF WellTo
<1> QED
  BY <1>4, <1>5

-----------------------------------------------------------------------------
(* What the loop has when every part of the first n characters is a slot.  *)

Names == {"$", "_", "@", "ref", "refs"}
Slurps(q) == q # <<>> /\ Last(q) = "@"
SlotsTo(r, n, q) ==
  /\ q \in Seq(Names) /\ Len(q) = Cardinality(PartsTo(r, n))
  /\ \A a \in PartsTo(r, n) : q[Rank(a, PartsTo(r, n))] = SlotNamed(r, a[1], a[2])
SlurpyTo(r, n, q) == Slurps(q) <=> \E a \in PartsTo(r, n) : r[a[1]] = "@"
Unstopped(r, n) == \A k \in 1..n : ~Semi(r[k])
DemandedTo(r, n) == {a \in PartsTo(r, n) : Unstopped(r, a[1])}
RequiredTo(r, n, d) == d = IF Unstopped(r, n) THEN -1 ELSE Cardinality(DemandedTo(r, n))
Settled(r, n, q, d) == WellTo(r, n) /\ SlotsTo(r, n, q) /\ SlurpyTo(r, n, q) /\ RequiredTo(r, n, d)

(* A string has finitely many parts.                                       *)
LEMMA PartsFinite ==
  ASSUME NEW r, NEW n \in Nat
  PROVE  /\ IsFiniteSet(PartsTo(r, n)) /\ Cardinality(PartsTo(r, n)) \in Nat
         /\ IsFiniteSet(DemandedTo(r, n)) /\ Cardinality(DemandedTo(r, n)) \in Nat
<1>1. IsFiniteSet(1..n)
  BY FS_Interval
<1>2. IsFiniteSet((1..n) \X (1..n))
  BY <1>1, FS_Product
<1>3. PartsTo(r, n) \in SUBSET ((1..n) \X (1..n))
  BY DEF PartsTo, SpansTo
<1>4. DemandedTo(r, n) \in SUBSET PartsTo(r, n)
  BY DEF DemandedTo
<1>5. IsFiniteSet(PartsTo(r, n))
  BY <1>2, <1>3, FS_Subset
<1>6. IsFiniteSet(DemandedTo(r, n))
  BY <1>4, <1>5, FS_Subset
<1> QED
  BY <1>5, <1>6, FS_CardinalityType

(* Strings that agree are settled alike.                                   *)
LEMMA SettledSame ==
  ASSUME NEW n \in Nat, NEW r, NEW t, \A k \in 1..n : r[k] = t[k], NEW q, NEW d, Settled(r, n, q, d)
  PROVE  Settled(t, n, q, d)
<1> DEFINE P == PartsTo(r, n)
<1>1. P = PartsTo(t, n)
  BY SameSpans
<1>2. \A a \in P : a[1] \in 1..n /\ a[2] \in 1..n
  BY PartsAre, SpansAre
<1>3. \A a \in P : r[a[1]] = t[a[1]]
  BY <1>2
<1>4. \A a \in P : SlotNamed(r, a[1], a[2]) = SlotNamed(t, a[1], a[2])
  BY <1>3 DEF SlotNamed
<1>5. \A m \in 0..n : Unstopped(r, m) <=> Unstopped(t, m)
  BY DEF Unstopped
<1>6. DemandedTo(r, n) = DemandedTo(t, n)
  BY <1>1, <1>2, <1>5 DEF DemandedTo
<1>7. Unstopped(r, n) <=> Unstopped(t, n)
  BY <1>5
<1> HIDE DEF P
<1>8. PartsTo(r, n) = P
  BY DEF P
<1>9. WellTo(t, n)
  BY <1>1, <1>3, <1>8 DEF WellTo, Settled
<1>10. SlotsTo(t, n, q)
  BY <1>1, <1>4, <1>8 DEF SlotsTo, Settled
<1>11. SlurpyTo(t, n, q)
  BY <1>1, <1>3, <1>8 DEF SlurpyTo, Settled
<1>12. RequiredTo(t, n, d)
  BY <1>6, <1>7 DEF RequiredTo, Settled
<1> QED
  BY <1>9, <1>10, <1>11, <1>12 DEF Settled

(* The ranks of parts when one that begins behind them is added.           *)
LEMMA Ranks ==
  ASSUME NEW P, IsFiniteSet(P), NEW x, x[1] \in Int, \A a \in P : a[1] \in Int /\ a[1] < x[1]
  PROVE  /\ Cardinality(P \cup {x}) = Cardinality(P) + 1
         /\ Rank(x, P \cup {x}) = Cardinality(P) + 1
         /\ \A a \in P : Rank(a, P \cup {x}) = Rank(a, P) /\ Rank(a, P) \in 1..Cardinality(P)
<1>1. x \notin P
  OBVIOUS
<1>2. Cardinality(P \cup {x}) = Cardinality(P) + 1
  BY <1>1, FS_AddElement
<1>3. {b \in P \cup {x} : b[1] <= x[1]} = P \cup {x}
  OBVIOUS
<1>4. ASSUME NEW a \in P
      PROVE  Rank(a, P \cup {x}) = Rank(a, P) /\ Rank(a, P) \in 1..Cardinality(P)
  <2> DEFINE B == {b \in P : b[1] <= a[1]}
  <2>1. {b \in P \cup {x} : b[1] <= a[1]} = B
    OBVIOUS
  <2>2. B \in SUBSET P /\ a \in B
    OBVIOUS
  <2> HIDE DEF B
  <2>3. IsFiniteSet(B) /\ Cardinality(B) <= Cardinality(P)
    BY <2>2, FS_Subset
  <2>4. Cardinality(B) \in Nat /\ Cardinality(P) \in Nat /\ Cardinality(B) # 0
    BY <2>2, <2>3, FS_CardinalityType, FS_EmptySet
  <2>5. Rank(a, P) = Cardinality(B) /\ Rank(a, P \cup {x}) = Cardinality(B)
    BY <2>1 DEF Rank, B
  <2> QED
    BY <2>3, <2>4, <2>5
<1> QED
  BY <1>2, <1>3, <1>4 DEF Rank

(* A slot is read behind them.                                             *)
LEMMA SettledPart ==
  ASSUME NEW m \in Nat, NEW r, NEW q, NEW d, Settled(r, m, q, d), ~Slurps(q),
         NEW n \in Nat, n > m, SlotAt(r, m + 1, n), NEW w \in Names, w = SlotNamed(r, m + 1, n)
  PROVE  Settled(r, n, Append(q, w), d)
<1> DEFINE x == <<m + 1, n>>
           P == PartsTo(r, m)
           t == Append(q, w)
<1>1. PartsTo(r, n) = P \cup {x} /\ \A a \in P : a[1] \in 1..m /\ a[2] \in 1..m
  BY PartAdded DEF Settled
<1>2. IsFiniteSet(P) /\ Cardinality(P) \in Nat
  BY PartsFinite
<1>3. x[1] = m + 1 /\ x[2] = n
  OBVIOUS
<1> HIDE DEF x
<1>4. Spanned(r, m + 1, n)
  BY SpanIs
<1>5. \A a \in P : r[a[1]] # "@"
  BY DEF Settled, SlurpyTo
<1>6. WellTo(r, n)
  BY <1>5, WellAdded DEF Settled
<1>7. q \in Seq(Names) /\ Len(q) = Cardinality(P)
  BY DEF Settled, SlotsTo
<1>8. \A a \in P : q[Rank(a, P)] = SlotNamed(r, a[1], a[2])
  BY DEF Settled, SlotsTo
<1> HIDE DEF P
<1>9. /\ Cardinality(P \cup {x}) = Cardinality(P) + 1
      /\ Rank(x, P \cup {x}) = Cardinality(P) + 1
      /\ \A a \in P : Rank(a, P \cup {x}) = Rank(a, P) /\ Rank(a, P) \in 1..Cardinality(P)
  <2>1. x[1] \in Int /\ \A a \in P : a[1] \in Int /\ a[1] < x[1]
    BY <1>1, <1>3
  <2> QED
    BY <1>2, <2>1, Ranks
<1>10. /\ t \in Seq(Names) /\ Len(t) = Cardinality(P) + 1 /\ t[Cardinality(P) + 1] = w
       /\ \A k \in 1..Cardinality(P) : t[k] = q[k]
  BY <1>2, <1>7
<1> HIDE DEF t
<1>11. SlotsTo(r, n, t)
  <2>1. ASSUME NEW a \in P \cup {x}
        PROVE  t[Rank(a, P \cup {x})] = SlotNamed(r, a[1], a[2])
    <3>1. CASE a = x
      BY <1>3, <1>9, <1>10, <3>1
    <3>2. CASE a \in P
      BY <1>8, <1>9, <1>10, <3>2
    <3> QED
      BY <3>1, <3>2
  <2> QED
    BY <1>1, <1>9, <1>10, <2>1 DEF SlotsTo
<1>12. SlurpyTo(r, n, t)
  <2>1. t # <<>> /\ Last(t) = w
    BY <1>2, <1>10 DEF Last
  <2>2. w = "@" <=> r[m + 1] = "@"
    BY <1>4 DEF SlotNamed, Spanned
  <2>3. (\E a \in P \cup {x} : r[a[1]] = "@") <=> r[m + 1] = "@"
    BY <1>3, <1>5
  <2> QED
    BY <1>1, <2>1, <2>2, <2>3 DEF SlurpyTo, Slurps
<1>13. RequiredTo(r, n, d)
  <2>1. \A k \in (m + 1)..n : ~Semi(r[k])
    BY <1>4 DEF Spanned
  <2>2. Unstopped(r, n) <=> Unstopped(r, m)
    <3>1. \A k \in 1..n : k \in 1..m \/ k \in (m + 1)..n
      OBVIOUS
    <3>2. 1..m \subseteq 1..n
      OBVIOUS
    <3> QED
      BY <2>1, <3>1, <3>2 DEF Unstopped
  <2>3. ASSUME ~Unstopped(r, m)
        PROVE  DemandedTo(r, n) = DemandedTo(r, m)
    <3>1. ~Unstopped(r, x[1])
      <4>1. 1..m \subseteq 1..m + 1
        OBVIOUS
      <4> QED
        BY <1>3, <2>3, <4>1 DEF Unstopped
    <3> QED
      BY <1>1, <3>1 DEF DemandedTo, P
  <2> QED
    BY <2>2, <2>3 DEF Settled, RequiredTo
<1> QED
  BY <1>6, <1>11, <1>12, <1>13 DEF Settled, t

(* A blank, or the first ";", is read behind them.                         *)
LEMMA SettledGap ==
  ASSUME NEW m \in Nat, NEW r, NEW q, NEW d, Settled(r, m, q, d), Gap(r[m + 1]),
         NEW e, e = IF Semi(r[m + 1]) /\ d < 0 THEN Len(q) ELSE d
  PROVE  Settled(r, m + 1, q, e)
<1> DEFINE P == PartsTo(r, m)
<1>1. PartsTo(r, m + 1) = P /\ WellTo(r, m + 1)
  BY SkipAdded DEF Settled
<1>2. \A a \in P : a[1] \in 1..m
  BY PartsAre, SpansAre
<1>3. SlotsTo(r, m + 1, q) /\ SlurpyTo(r, m + 1, q)
  BY <1>1 DEF Settled, SlotsTo, SlurpyTo
<1>4. DemandedTo(r, m + 1) = DemandedTo(r, m)
  BY <1>1 DEF DemandedTo
<1>5. Unstopped(r, m + 1) <=> Unstopped(r, m) /\ ~Semi(r[m + 1])
  <2>1. \A k \in 1..m + 1 : k \in 1..m \/ k = m + 1
    OBVIOUS
  <2>2. m + 1 \in 1..m + 1 /\ 1..m \subseteq 1..m + 1
    OBVIOUS
  <2> QED
    BY <2>1, <2>2 DEF Unstopped
<1>6. Cardinality(DemandedTo(r, m)) \in Nat
  BY PartsFinite
<1>7. d = IF Unstopped(r, m) THEN -1 ELSE Cardinality(DemandedTo(r, m))
  BY DEF Settled, RequiredTo
<1>8. RequiredTo(r, m + 1, e)
  <2>1. CASE Unstopped(r, m) /\ Semi(r[m + 1])
    <3>1. \A k, l \in Nat : k <= l => 1..k \subseteq 1..l
      OBVIOUS
    <3>2. \A a \in P : Unstopped(r, a[1])
      BY <1>2, <2>1, <3>1 DEF Unstopped
    <3>3. DemandedTo(r, m) = P
      BY <3>2 DEF DemandedTo
    <3>4. Len(q) = Cardinality(P)
      BY DEF Settled, SlotsTo
    <3> QED
      BY <1>4, <1>5, <1>7, <2>1, <3>3, <3>4 DEF RequiredTo
  <2>2. CASE ~(Unstopped(r, m) /\ Semi(r[m + 1]))
    <3>1. e = d
      BY <1>6, <1>7, <2>2
    <3> QED
      BY <1>4, <1>5, <1>7, <2>2, <3>1 DEF RequiredTo
  <2> QED
    BY <2>1, <2>2
<1> QED
  BY <1>1, <1>3, <1>8 DEF Settled

-----------------------------------------------------------------------------
(* The loop: the characters read are settled up to a point, behind which   *)
(* there is nothing, a backslash, or a group with nothing in it or         *)
(* something; in an error they are no prototype.                           *)

Grouped(r, m, n) ==
  /\ n >= m + 2 /\ r[m + 1] = "\\" /\ r[m + 2] = "["
  /\ \A k \in (m + 3)..n : Inner(r[k])
Between(w) == w = ""
Begun(r, m, n, w) ==
  \/ Between(w) /\ m = n
  \/ w = "\\" /\ n = m + 1 /\ r[m + 1] = "\\"
  \/ w = "[" /\ Grouped(r, m, n) /\ \A k \in (m + 3)..n : r[k] \notin RefKinds
  \/ w = "[k" /\ Grouped(r, m, n) /\ \E k \in (m + 3)..n : r[k] \in RefKinds

ProtoIInv ==
  /\ raw \in Seq(Chars)
  /\ \/ within = "error" /\ ~WellTo(raw, Len(raw))
     \/ /\ Between(within) \/ ~Slurps(slots)
        /\ \E m \in 0..Len(raw) : Settled(raw, m, slots, required) /\ Begun(raw, m, Len(raw), within)

(* What one character does.                                                *)
LEMMA TopCases ==
  ASSUME NEW c, TopChar(c)
  PROVE  \/ Gap(c) /\ ~Semi(c) /\ Skip
         \/ Gap(c) /\ Semi(c) /\ Semicolon
         \/ c \in {"$", "_", "@"} /\ ~Slurped /\ Slot(c)
         \/ c = "\\" /\ ~Slurped /\ within' = "\\" /\ UNCHANGED <<slots, required>>
         \/ ~Gap(c) /\ Slurped /\ Fail
         \/ ~Gap(c) /\ c \notin {"$", "_", "@", "\\"} /\ Fail
<1>1. CASE c \in Whitespace
  <2>1. c # ";" /\ c \notin {"$", "_", "@"} /\ c # "\\"
    BY <1>1, Zenon DEF Whitespace
  <2> QED
    BY <1>1, <2>1, Zenon DEF TopChar, Gap, Semi
<1>2. CASE c = ";"
  <2>1. c \notin Whitespace
    BY <1>2, Zenon DEF Whitespace
  <2> QED
    BY <1>2, <2>1, Zenon DEF TopChar, Gap, Semi
<1>3. CASE c \notin Whitespace \cup {";"} /\ Slurped
  BY <1>3, Zenon DEF TopChar, Gap, Semi
<1>4. CASE c \in {"$", "_", "@"} /\ ~Slurped
  <2>1. c \notin Whitespace
    BY <1>4, Zenon DEF Whitespace
  <2> QED
    BY <1>4, <2>1, Zenon DEF TopChar, Gap, Semi
<1>5. CASE c = "\\" /\ ~Slurped
  <2>1. c \notin Whitespace
    BY <1>5, Zenon DEF Whitespace
  <2> QED
    BY <1>5, <2>1, Zenon DEF TopChar, Gap, Semi
<1>6. CASE c \notin Whitespace \cup {";", "$", "_", "@", "\\"} /\ ~Slurped
  BY <1>6, Zenon DEF TopChar, Gap, Semi
<1> QED
  BY <1>1, <1>2, <1>3, <1>4, <1>5, <1>6, Zenon

(* What the character after a backslash does.                              *)
LEMMA RefCases ==
  ASSUME NEW c, RefChar(c)
  PROVE  \/ c \in RefKinds /\ Slot("ref")
         \/ c = "[" /\ within' = "[" /\ UNCHANGED <<slots, required>>
         \/ c \notin RefKinds /\ c # "[" /\ Fail
<1>1. "[" \notin RefKinds
  BY DEF RefKinds
<1> QED
  BY <1>1, Zenon DEF RefChar

(* What a character in a group does.                                       *)
LEMMA GroupCases ==
  ASSUME NEW c, GroupChar(c)
  PROVE  \/ Inner(c) /\ c \notin RefKinds /\ Skip
         \/ Inner(c) /\ c \in RefKinds /\ within' = "[k" /\ UNCHANGED <<slots, required>>
         \/ c = "]" /\ within = "[k" /\ Slot("refs")
         \/ c = "]" /\ within # "[k" /\ Fail
         \/ ~Inner(c) /\ c # "]" /\ Fail
<1>1. "]" \notin RefKinds \cup {" "} /\ " " \notin RefKinds
  BY Zenon DEF RefKinds
<1>2. CASE c = " "
  BY <1>1, <1>2, Zenon DEF GroupChar, Inner
<1>3. CASE c \in RefKinds
  BY <1>1, <1>3, Zenon DEF GroupChar, Inner
<1>4. CASE c = "]"
  BY <1>1, <1>4, Zenon DEF GroupChar, Inner
<1>5. CASE c # " " /\ c # "]" /\ c \notin RefKinds
  BY <1>5, Zenon DEF GroupChar, Inner
<1> QED
  BY <1>2, <1>3, <1>4, <1>5

(* A slot that is not finished is none yet.                                *)
LEMMA Unfinished ==
  ASSUME NEW r, NEW m \in Nat, NEW n \in Nat, n > m, r[m + 1] = "\\",
         \A j \in (m + 1)..n : ~Two(r, m + 1, j) /\ ~Group(r, m + 1, j),
         WellTo(r, m)
  PROVE  ~WellTo(r, n)
<1>1. \A j \in (m + 1)..n : ~One(r, m + 1, j)
  BY DEF One
<1>2. \A j \in (m + 1)..n : ~SlotAt(r, m + 1, j)
  BY <1>1, ThreeWays
<1>3. ~Gap(r[m + 1])
  BY CharsApart
<1> QED
  BY <1>2, <1>3, Uncovered

(* Between two slots, or the string is no prototype.                       *)
LEMMA BegunIsUnfinished ==
  ASSUME NEW r, NEW m \in Nat, NEW n \in Nat, NEW w, Begun(r, m, n, w), ~Between(w), WellTo(r, m)
  PROVE  ~WellTo(r, n)
<1>1. CASE n = m + 1 /\ r[m + 1] = "\\"
  <2>1. ASSUME NEW j \in (m + 1)..n
        PROVE  ~Two(r, m + 1, j) /\ ~Group(r, m + 1, j)
    <3>1. ~(j = m + 1 + 1) /\ ~(j > m + 1 + 2)
      BY <1>1
    <3> QED
      BY <3>1, Zenon DEF Two, Group
  <2>2. n > m
    BY <1>1
  <2> QED
    BY <1>1, <2>1, <2>2, Unfinished
<1>2. CASE Grouped(r, m, n)
  <2>1. r[m + 1] = "\\" /\ n > m /\ r[m + 2] = "["
    <3>1. n >= m + 2 => n > m
      OBVIOUS
    <3> QED
      BY <1>2, <3>1, Zenon DEF Grouped
  <2>2. ASSUME NEW j \in (m + 1)..n
        PROVE  ~Two(r, m + 1, j) /\ ~Group(r, m + 1, j)
    <3>1. ~Two(r, m + 1, j)
      <4>1. j = m + 1 + 1 => j = m + 2
        OBVIOUS
      <4>2. "[" \notin {"$", "@"}
        OBVIOUS
      <4> QED
        BY <2>1, <4>1, <4>2, Zenon DEF Two
    <3>2. ASSUME Group(r, m + 1, j) PROVE FALSE
      <4>1. j > m + 1 + 2 /\ r[j] = "]"
        BY <3>2, Zenon DEF Group
      <4>2. j \in (m + 3)..n
        <5>1. j > m + 1 + 2 => j \in (m + 3)..n
          OBVIOUS
        <5> QED
          BY <4>1, <5>1
      <4>3. Inner(r[j])
        BY <1>2, <4>2 DEF Grouped
      <4> QED
        BY <4>1, <4>3, CharsApart
    <3> QED
      BY <3>1, <3>2
  <2> QED
    BY <2>1, <2>2, Unfinished
<1> QED
  BY <1>1, <1>2 DEF Begun

(* What the loop is at told apart.                                         *)
LEMMA StatesApart ==
  \A w : Between(w) => w \notin {"\\", "[", "[k", "error"}
BY Zenon DEF Between

(* What is returned.                                                       *)
LEMMA ParsedIs ==
  /\ ~Between(within) => ~Parsed.ok
  /\ Between(within) =>
       /\ Parsed.ok /\ Parsed.slots = slots
       /\ Parsed.required = IF required < 0 THEN Len(slots) ELSE required
<1>1. CASE within = ""
  <2>1. Parsed = [ok |-> TRUE, required |-> IF required < 0 THEN Len(slots) ELSE required,
                  slots |-> slots]
    BY <1>1, Zenon DEF Parsed
  <2>2. Between(within)
    BY <1>1, Zenon DEF Between
  <2> QED
    BY <2>1, <2>2, Zenon
<1>2. CASE within # ""
  <2>1. Parsed = [ok |-> FALSE, required |-> 0, slots |-> <<>>]
    BY <1>2, Zenon DEF Parsed
  <2>2. ~Between(within)
    BY <1>2, Zenon DEF Between
  <2> QED
    BY <2>1, <2>2, Zenon
<1> QED
  BY <1>1, <1>2, Zenon

(* What is returned is what is written.                                    *)
LEMMA SettledAsWritten ==
  ASSUME ProtoIInv
  PROVE  PrototypeAsWritten
<1> DEFINE n == Len(raw)
           P == Parts(raw)
<1>1. n \in Nat
  BY DEF ProtoIInv
<1>2. P = PartsTo(raw, n) /\ (WellWritten(raw) <=> WellTo(raw, n))
  BY Zenon DEF Parts, PartsTo, SpansTo, WellWritten, WellTo, Gap
<1>3. {a \in P : \A k \in 1..a[1] : raw[k] # ";"} = DemandedTo(raw, n)
  BY <1>2, Zenon DEF DemandedTo, Unstopped, Semi
<1> DEFINE D == {a \in P : \A k \in 1..a[1] : raw[k] # ";"}
<1>4. D = DemandedTo(raw, n)
  BY <1>3
<1> HIDE DEF n, P, D
<1>5. CASE ~Between(within)
  <2>1. ~WellTo(raw, n)
    <3>1. CASE within = "error"
      BY <1>5, <3>1 DEF ProtoIInv, Begun, n
    <3>2. CASE within # "error"
      <4>1. PICK m \in 0..n : Settled(raw, m, slots, required) /\ Begun(raw, m, n, within)
        BY <3>2 DEF ProtoIInv, n
      <4>2. m \in Nat /\ WellTo(raw, m)
        BY <1>1, <4>1 DEF Settled
      <4> QED
        BY <1>1, <1>5, <4>1, <4>2, BegunIsUnfinished
    <3> QED
      BY <3>1, <3>2
  <2>2. ~Parsed.ok
    BY <1>5, ParsedIs
  <2> QED
    BY <1>2, <2>1, <2>2, Zenon DEF PrototypeAsWritten
<1>6. CASE Between(within)
  <2>1. Settled(raw, n, slots, required)
    BY <1>6, StatesApart DEF ProtoIInv, Begun, n
  <2>2. /\ Parsed.ok /\ Parsed.slots = slots
        /\ Parsed.required = IF required < 0 THEN Len(slots) ELSE required
    BY <1>6, ParsedIs
  <2>3. WellTo(raw, n) /\ Len(slots) = Cardinality(P)
    BY <1>2, <2>1 DEF Settled, SlotsTo
  <2>4. \A a \in P : slots[Rank(a, P)] = SlotNamed(raw, a[1], a[2])
    BY <1>2, <2>1 DEF Settled, SlotsTo
  <2>5. Parsed.required = Cardinality(D)
    <3>1. required = IF Unstopped(raw, n) THEN -1 ELSE Cardinality(D)
      BY <1>4, <2>1 DEF Settled, RequiredTo
    <3>2. Cardinality(D) \in Nat
      BY <1>1, <1>4, PartsFinite
    <3>3. ASSUME Unstopped(raw, n) PROVE D = P
      <4>1. \A a \in P : a[1] \in 1..n
        BY <1>2, PartsAre, SpansAre
      <4>2. \A k \in 1..n : 1..k \subseteq 1..n
        BY <1>1
      <4>3. \A a \in P : Unstopped(raw, a[1])
        BY <3>3, <4>1, <4>2 DEF Unstopped
      <4> QED
        BY <1>2, <1>4, <4>3 DEF DemandedTo
    <3> QED
      BY <2>2, <2>3, <3>1, <3>2, <3>3
  <2> QED
    BY <1>2, <2>2, <2>3, <2>4, <2>5, Zenon DEF PrototypeAsWritten, P, D
<1> QED
  BY <1>5, <1>6

(* Steps of the loop.                                                      *)

(* The string with one character more.                                     *)
LEMMA Grown ==
  ASSUME ProtoIInv, NEW c \in Chars, raw' = Append(raw, c)
  PROVE  /\ raw' \in Seq(Chars) /\ Len(raw) \in Nat /\ Len(raw') = Len(raw) + 1
         /\ raw'[Len(raw) + 1] = c /\ \A k \in 1..Len(raw) : raw[k] = raw'[k]
<1>1. PICK C : C = Chars
  OBVIOUS
<1> QED
  BY <1>1 DEF ProtoIInv

(* A string that is no prototype.                                          *)
LEMMA Refused ==
  ASSUME raw' \in Seq(Chars), within' = "error", ~WellTo(raw', Len(raw'))
  PROVE  ProtoIInv'
BY DEF ProtoIInv

(* A string settled to a point.                                            *)
LEMMA Reached ==
  ASSUME raw' \in Seq(Chars), NEW m \in Nat, m <= Len(raw'), Settled(raw', m, slots', required'),
         Begun(raw', m, Len(raw'), within'), Between(within') \/ ~Slurps(slots')
  PROVE  ProtoIInv'
<1>1. Len(raw') \in Nat
  BY LenProperties
<1>2. m \in 0..Len(raw')
  BY <1>1
<1>3. (Between(within) \/ ~Slurps(slots))' <=> Between(within') \/ ~Slurps(slots')
  BY DEF Between, Slurps
<1> QED
  BY <1>2, <1>3 DEF ProtoIInv

(* A character between two slots keeps the invariant.                      *)
LEMMA TopKeeps ==
  ASSUME ProtoIInv, Between(within), NEW c \in Chars, raw' = Append(raw, c), TopChar(c)
  PROVE  ProtoIInv'
<1> DEFINE n == Len(raw)
           r == raw'
<1>1. /\ r \in Seq(Chars) /\ n \in Nat /\ Len(r) = n + 1 /\ r[n + 1] = c
      /\ \A k \in 1..n : raw[k] = r[k]
  BY Grown
<1>2. Settled(raw, n, slots, required)
  BY StatesApart DEF ProtoIInv, Begun
<1> HIDE DEF n, r
<1>3. Settled(r, n, slots, required) /\ WellTo(r, n)
  BY <1>1, <1>2, SettledSame DEF Settled
<1>4. Len(r) \in Nat /\ n + 1 \in Nat /\ n + 1 > n /\ n + 1 <= Len(r) /\ n <= Len(r)
  BY <1>1
<1>5. CASE Gap(c) /\ ((~Semi(c) /\ Skip) \/ (Semi(c) /\ Semicolon))
  <2>1. /\ slots' = slots /\ within' = within
        /\ required' = IF Semi(c) /\ required < 0 THEN Len(slots) ELSE required
    BY <1>5 DEF Skip, Semicolon
  <2>2. Settled(r, n + 1, slots', required')
    BY <1>1, <1>3, <1>5, <2>1, SettledGap
  <2>3. Begun(r, n + 1, Len(r), within') /\ Between(within')
    BY <1>1, <2>1 DEF Begun
  <2> QED
    BY <1>1, <1>4, <2>2, <2>3, Reached DEF r
<1>6. CASE c \in {"$", "_", "@"} /\ ~Slurped /\ Slot(c)
  <2>1. slots' = Append(slots, c) /\ Between(within') /\ required' = required
    BY <1>6, Zenon DEF Slot, Between
  <2>2. SlotAt(r, n + 1, n + 1)
    BY <1>1, <1>6 DEF SlotAt
  <2>3. c \in Names /\ c = SlotNamed(r, n + 1, n + 1)
    BY <1>1, <1>6 DEF Names, SlotNamed
  <2>4. ~Slurps(slots)
    BY <1>6 DEF Slurped, Slurps
  <2>5. Settled(r, n + 1, slots', required')
    BY <1>1, <1>3, <1>4, <2>1, <2>2, <2>3, <2>4, SettledPart
  <2>6. Begun(r, n + 1, Len(r), within')
    BY <1>1, <2>1 DEF Begun
  <2> QED
    BY <1>1, <1>4, <2>1, <2>5, <2>6, Reached DEF r
<1>7. CASE c = "\\" /\ ~Slurped /\ within' = "\\" /\ UNCHANGED <<slots, required>>
  <2>1. Begun(r, n, Len(r), within') /\ ~Slurps(slots')
    BY <1>1, <1>7 DEF Begun, Slurped, Slurps
  <2> QED
    BY <1>1, <1>3, <1>4, <1>7, <2>1, Reached DEF r
<1>8. ASSUME ~Gap(c), ~SlotAt(r, n + 1, n + 1), Fail
      PROVE  ProtoIInv'
  <2>1. \A j \in (n + 1)..(n + 1) : ~SlotAt(r, n + 1, j)
    BY <1>1, <1>8
  <2>2. ~WellTo(r, n + 1)
    BY <1>1, <1>3, <1>4, <1>8, <2>1, Uncovered
  <2> QED
    BY <1>1, <1>8, <2>2, Refused DEF Fail, r
<1>9. CASE ~Gap(c) /\ Slurped /\ Fail
  <2>1. CASE SlotAt(r, n + 1, n + 1)
    <3>1. \E a \in PartsTo(r, n) : r[a[1]] = "@"
      BY <1>3, <1>9 DEF Settled, SlurpyTo, Slurps, Slurped
    <3>2. ~WellTo(r, n + 1)
      BY <1>1, <1>3, <1>4, <2>1, <3>1, WellAdded
    <3> QED
      BY <1>1, <1>9, <3>2, Refused DEF Fail, r
  <2> QED
    BY <1>8, <1>9, <2>1
<1>10. CASE ~Gap(c) /\ c \notin {"$", "_", "@", "\\"} /\ Fail
  <2>1. n + 1 \in Int
    BY <1>1
  <2>2. ~SlotAt(r, n + 1, n + 1)
    <3>1. SUFFICES ASSUME SlotAt(r, n + 1, n + 1) PROVE FALSE
      OBVIOUS
    <3>2. n + 1 <= n + 1
      BY <1>1
    <3>3. Spanned(r, n + 1, n + 1)
      BY <2>1, <3>1, <3>2, SpanIs
    <3>4. r[n + 1] \in {"$", "_", "@", "\\"} /\ r[n + 1] \in {"$", "_", "@", "]"}
      BY <3>3, Zenon DEF Spanned
    <3> QED
      BY <1>1, <1>10, <3>4
  <2> QED
    BY <1>8, <1>10, <2>2
<1> QED
  BY <1>5, <1>6, <1>7, <1>9, <1>10, TopCases

(* The point up to which the string is settled when a slot is unfinished.  *)
LEMMA Point ==
  ASSUME ProtoIInv, ~Between(within), within # "error", NEW c \in Chars, raw' = Append(raw, c)
  PROVE  /\ ~Slurps(slots)
         /\ \E m \in Nat :
              /\ m <= Len(raw) /\ Settled(raw', m, slots, required) /\ WellTo(raw', m)
              /\ Begun(raw, m, Len(raw), within)
<1>1. PICK m \in 0..Len(raw) :
        Settled(raw, m, slots, required) /\ Begun(raw, m, Len(raw), within)
  BY DEF ProtoIInv
<1>2. Len(raw) \in Nat /\ \A k \in 1..Len(raw) : raw[k] = raw'[k]
  BY Grown
<1>3. m \in Nat /\ m <= Len(raw) /\ \A k \in 1..m : raw[k] = raw'[k]
  BY <1>2
<1>4. Settled(raw', m, slots, required)
  BY <1>1, <1>3, SettledSame
<1>5. WellTo(raw', m)
  BY <1>4 DEF Settled
<1>6. ~Slurps(slots)
  BY DEF ProtoIInv
<1> QED
  BY <1>1, <1>3, <1>4, <1>5, <1>6

(* A slot of several characters is finished.                               *)
LEMMA Finished ==
  ASSUME raw' \in Seq(Chars), NEW m \in Nat, m < Len(raw'), Settled(raw', m, slots, required),
         ~Slurps(slots), SlotAt(raw', m + 1, Len(raw')), NEW w \in Names,
         w = SlotNamed(raw', m + 1, Len(raw')), Slot(w)
  PROVE  ProtoIInv'
<1>1. slots' = Append(slots, w) /\ Between(within') /\ required' = required
  BY Zenon DEF Slot, Between
<1> DEFINE n == Len(raw')
           r == raw'
<1>2. n \in Nat /\ m < n
  BY LenProperties
<1> HIDE DEF n, r
<1>3. Settled(r, n, slots', required')
  <2>1. n > m
    BY <1>2
  <2> QED
    BY <1>1, <1>2, <2>1, SettledPart DEF n, r
<1>4. Begun(r, n, n, within')
  BY <1>1 DEF Begun
<1>5. n <= n
  BY <1>2
<1> QED
  BY <1>1, <1>2, <1>3, <1>4, <1>5, Reached DEF n, r

(* So does one after a backslash.                                          *)
LEMMA RefKeeps ==
  ASSUME ProtoIInv, within = "\\", NEW c \in Chars, raw' = Append(raw, c), RefChar(c)
  PROVE  ProtoIInv'
<1> DEFINE n == Len(raw)
           r == raw'
<1>1. /\ r \in Seq(Chars) /\ n \in Nat /\ Len(r) = n + 1 /\ r[n + 1] = c
      /\ \A k \in 1..n : raw[k] = r[k]
  BY Grown
<1>2. /\ ~Slurps(slots)
      /\ \E m \in Nat :
           /\ m <= n /\ Settled(r, m, slots, required) /\ WellTo(r, m)
           /\ Begun(raw, m, n, within)
  <2>1. ~Between(within) /\ within # "error"
    BY StatesApart
  <2> QED
    BY <2>1, Point
<1> HIDE DEF n, r
<1>3. PICK m \in Nat :
        /\ m <= n /\ Settled(r, m, slots, required) /\ WellTo(r, m)
        /\ Begun(raw, m, n, within)
  BY <1>2
<1>4. n = m + 1 /\ raw[m + 1] = "\\"
  BY <1>3, StatesApart DEF Begun
<1>5. Len(r) = m + 2 /\ r[m + 1] = "\\" /\ r[m + 2] = c /\ m < Len(r) /\ m <= Len(r)
  BY <1>1, <1>4
<1>6. CASE c \in RefKinds /\ Slot("ref")
  <2>1. SlotAt(r, m + 1, Len(r))
    <3>1. m + 2 = m + 1 + 1
      OBVIOUS
    <3> QED
      BY <1>5, <1>6, <3>1, Zenon DEF SlotAt
  <2>2. "ref" \in Names /\ "ref" = SlotNamed(r, m + 1, Len(r))
    BY <1>5 DEF Names, SlotNamed
  <2> QED
    BY <1>1, <1>2, <1>3, <1>5, <1>6, <2>1, <2>2, Finished DEF r
<1>7. CASE c = "[" /\ within' = "[" /\ UNCHANGED <<slots, required>>
  <2>1. Grouped(r, m, Len(r)) /\ \A k \in (m + 3)..Len(r) : FALSE
    BY <1>5, <1>7 DEF Grouped
  <2>2. Begun(r, m, Len(r), within')
    BY <1>7, <2>1, Zenon DEF Begun
  <2> QED
    BY <1>1, <1>2, <1>3, <1>5, <1>7, <2>2, Reached DEF r
<1>8. CASE c \notin RefKinds /\ c # "[" /\ Fail
  <2>1. ASSUME NEW j \in (m + 1)..Len(r)
        PROVE  ~Two(r, m + 1, j) /\ ~Group(r, m + 1, j)
    <3>1. ~(j > m + 1 + 2) /\ (j = m + 1 + 1 => j = m + 2)
      BY <1>5
    <3>2. RefKinds = {"$", "@"}
      BY DEF RefKinds
    <3> QED
      BY <1>5, <1>8, <3>1, <3>2, Zenon DEF Two, Group
  <2>2. Len(r) > m /\ Len(r) \in Nat
    BY <1>5
  <2>3. ~WellTo(r, Len(r))
    BY <1>3, <1>5, <2>1, <2>2, Unfinished
  <2> QED
    BY <1>1, <1>8, <2>3, Refused DEF Fail, r
<1> QED
  BY <1>6, <1>7, <1>8, RefCases

(* So does one in a group.                                                 *)
LEMMA GroupKeeps ==
  ASSUME ProtoIInv, within \in {"[", "[k"}, NEW c \in Chars, raw' = Append(raw, c), GroupChar(c)
  PROVE  ProtoIInv'
<1> DEFINE n == Len(raw)
           r == raw'
<1>1. /\ r \in Seq(Chars) /\ n \in Nat /\ Len(r) = n + 1 /\ r[n + 1] = c
      /\ \A k \in 1..n : raw[k] = r[k]
  BY Grown
<1>2. /\ ~Slurps(slots)
      /\ \E m \in Nat :
           /\ m <= n /\ Settled(r, m, slots, required) /\ WellTo(r, m)
           /\ Begun(raw, m, n, within)
  <2>1. ~Between(within) /\ within # "error"
    BY StatesApart
  <2> QED
    BY <2>1, Point
<1> HIDE DEF n, r
<1>3. PICK m \in Nat :
        /\ m <= n /\ Settled(r, m, slots, required) /\ WellTo(r, m)
        /\ Begun(raw, m, n, within)
  BY <1>2
<1>4. /\ Grouped(raw, m, n)
      /\ within = "[" => \A k \in (m + 3)..n : raw[k] \notin RefKinds
      /\ within = "[k" => \E k \in (m + 3)..n : raw[k] \in RefKinds
  BY <1>3, StatesApart DEF Begun
<1>5. /\ n >= m + 2 /\ raw[m + 1] = "\\" /\ raw[m + 2] = "["
      /\ \A k \in (m + 3)..n : Inner(raw[k])
  BY <1>4 DEF Grouped
<1>6. /\ m + 1 \in 1..n /\ m + 2 \in 1..n /\ \A k \in (m + 3)..n : k \in 1..n
      /\ Len(r) \in Nat /\ Len(r) > m /\ m < Len(r) /\ m <= Len(r) /\ Len(r) >= m + 2
      /\ Len(r) \in (m + 3)..Len(r)
      /\ \A k \in (m + 3)..Len(r) : k \in (m + 3)..n \/ k = Len(r)
      /\ \A k \in (m + 3)..n : k \in (m + 3)..Len(r)
      /\ \A k \in (m + 1)..Len(r) : k > m + 1 + 2 /\ k # Len(r) => k \in (m + 3)..n
      /\ \A k \in (m + 1 + 2)..(Len(r) - 1) : k \in (m + 3)..n
      /\ \A k \in (m + 3)..n : k \in (m + 1 + 2)..(Len(r) - 1)
  BY <1>1, <1>5
<1>7. /\ r[m + 1] = "\\" /\ r[m + 2] = "[" /\ r[Len(r)] = c
      /\ \A k \in (m + 3)..n : r[k] = raw[k] /\ Inner(r[k])
  BY <1>1, <1>5, <1>6
<1>8. ASSUME Inner(c)
      PROVE  Grouped(r, m, Len(r))
  BY <1>6, <1>7, <1>8 DEF Grouped
<1>9. CASE Inner(c) /\ c \notin RefKinds /\ Skip
  <2>1. within' = within /\ UNCHANGED <<slots, required>>
    BY <1>9 DEF Skip
  <2>2. Begun(r, m, Len(r), within')
    <3>1. CASE within = "["
      <4>1. \A k \in (m + 3)..Len(r) : r[k] \notin RefKinds
        BY <1>4, <1>6, <1>7, <1>9, <3>1
      <4> QED
        BY <1>8, <1>9, <2>1, <3>1, <4>1 DEF Begun
    <3>2. CASE within = "[k"
      <4>1. \E k \in (m + 3)..Len(r) : r[k] \in RefKinds
        BY <1>4, <1>6, <1>7, <3>2
      <4> QED
        BY <1>8, <1>9, <2>1, <3>2, <4>1 DEF Begun
    <3> QED
      BY <3>1, <3>2
  <2> QED
    BY <1>1, <1>2, <1>3, <1>6, <2>1, <2>2, Reached DEF r
<1>10. CASE Inner(c) /\ c \in RefKinds /\ within' = "[k" /\ UNCHANGED <<slots, required>>
  <2>1. \E k \in (m + 3)..Len(r) : r[k] \in RefKinds
    BY <1>6, <1>7, <1>10
  <2>2. Begun(r, m, Len(r), within')
    BY <1>8, <1>10, <2>1 DEF Begun
  <2> QED
    BY <1>1, <1>2, <1>3, <1>6, <1>10, <2>2, Reached DEF r
<1>11. CASE c = "]" /\ within = "[k" /\ Slot("refs")
  <2>1. PICK k \in (m + 3)..n : r[k] \in RefKinds
    BY <1>4, <1>7, <1>11
  <2>2. Len(r) > m + 1 + 2
    BY <1>1, <2>1
  <2>3. \A l \in (m + 1 + 2)..(Len(r) - 1) : r[l] \in RefKinds \cup {" "}
    BY <1>6, <1>7, Zenon DEF Inner
  <2>4. m + 1 + 1 = m + 2
    OBVIOUS
  <2>5. SlotAt(r, m + 1, Len(r))
    BY <1>6, <1>7, <1>11, <2>1, <2>2, <2>3, <2>4, Zenon DEF SlotAt
  <2>6. "refs" \in Names /\ "refs" = SlotNamed(r, m + 1, Len(r))
    BY <1>6, <2>2 DEF Names, SlotNamed
  <2> QED
    BY <1>1, <1>2, <1>3, <1>6, <1>11, <2>5, <2>6, Finished DEF r
<1>12. ASSUME Fail, \A j \in (m + 1)..Len(r) : ~Group(r, m + 1, j)
       PROVE  ProtoIInv'
  <2>1. ASSUME NEW j \in (m + 1)..Len(r)
        PROVE  ~Two(r, m + 1, j) /\ ~Group(r, m + 1, j)
    <3>1. j = m + 1 + 1 => j = m + 2
      OBVIOUS
    <3>2. "[" \notin {"$", "@"}
      OBVIOUS
    <3> QED
      BY <1>7, <1>12, <3>1, <3>2, Zenon DEF Two
  <2>2. ~WellTo(r, Len(r))
    BY <1>3, <1>6, <1>7, <2>1, Unfinished
  <2> QED
    BY <1>1, <1>12, <2>2, Refused DEF Fail, r
<1>13. ASSUME NEW j \in (m + 1)..Len(r), Group(r, m + 1, j)
       PROVE  /\ j = Len(r) /\ c = "]"
              /\ \E k \in (m + 3)..n : r[k] \in RefKinds
  <2>1. /\ j > m + 1 + 2 /\ r[j] = "]"
        /\ \E k \in (m + 1 + 2)..(j - 1) : r[k] \in RefKinds
    BY <1>13, Zenon DEF Group
  <2>2. j = Len(r)
    <3>1. SUFFICES ASSUME j # Len(r) PROVE FALSE
      OBVIOUS
    <3>2. Inner(r[j])
      BY <1>6, <1>7, <2>1, <3>1
    <3> QED
      BY <2>1, <3>2, CharsApart
  <2>3. \E k \in (m + 3)..n : r[k] \in RefKinds
    BY <1>6, <2>1, <2>2
  <2> QED
    BY <1>7, <2>1, <2>2, <2>3
<1>14. CASE c = "]" /\ within # "[k" /\ Fail
  <2>1. within = "["
    BY <1>14
  <2>2. \A k \in (m + 3)..n : r[k] \notin RefKinds
    BY <1>4, <1>7, <2>1
  <2> QED
    BY <1>12, <1>13, <1>14, <2>2
<1>15. CASE ~Inner(c) /\ c # "]" /\ Fail
  BY <1>12, <1>13, <1>15
<1> QED
  BY <1>9, <1>10, <1>11, <1>14, <1>15, GroupCases

(* The loop keeps the invariant.                                           *)
LEMMA ProtoInvariance == ProtoSpec => []ProtoIInv
<1>1. ProtoInit => ProtoIInv
  <2>1. SUFFICES ASSUME ProtoInit PROVE ProtoIInv
    OBVIOUS
  <2>2. raw = <<>> /\ slots = <<>> /\ required = -1 /\ Between(within)
    BY <2>1, Zenon DEF ProtoInit, Between
  <2>3. raw \in Seq(Chars) /\ Len(raw) = 0
    <3>1. PICK C : C = Chars
      OBVIOUS
    <3> QED
      BY <2>2, <3>1
  <2>4. 1..0 = {}
    OBVIOUS
  <2>5. SpansTo(raw, 0) = {} /\ PartsTo(raw, 0) = {}
    BY <2>4, SpansAre, PartsAre
  <2>6. Settled(raw, 0, slots, required)
    <3>1. WellTo(raw, 0)
      BY <2>4, <2>5 DEF WellTo
    <3>2. SlotsTo(raw, 0, slots)
      BY <2>2, <2>5, FS_EmptySet DEF SlotsTo
    <3>3. SlurpyTo(raw, 0, slots)
      BY <2>2, <2>5 DEF SlurpyTo, Slurps
    <3>4. RequiredTo(raw, 0, required)
      BY <2>2, <2>4 DEF RequiredTo, Unstopped
    <3> QED
      BY <3>1, <3>2, <3>3, <3>4 DEF Settled
  <2>7. 0 \in 0..Len(raw) /\ Begun(raw, 0, Len(raw), within)
    BY <2>2, <2>3 DEF Begun
  <2> QED
    BY <2>2, <2>3, <2>6, <2>7 DEF ProtoIInv
<1>2. ProtoIInv /\ [ProtoNext]_protoVars => ProtoIInv'
  <2>1. SUFFICES ASSUME ProtoIInv, [ProtoNext]_protoVars PROVE ProtoIInv'
    OBVIOUS
  <2>2. CASE UNCHANGED protoVars
    <3>1. raw' = raw /\ slots' = slots /\ required' = required /\ within' = within
      BY <2>2 DEF protoVars
    <3> QED
      BY <2>1, <3>1 DEF ProtoIInv
  <2>3. CASE ProtoNext
    <3>1. PICK c \in Chars :
            /\ raw' = Append(raw, c)
            /\ \/ Between(within) /\ TopChar(c)
               \/ within = "\\" /\ RefChar(c)
               \/ within \in {"[", "[k"} /\ GroupChar(c)
      BY <2>3, Zenon DEF ProtoNext, Between
    <3> QED
      BY <2>1, <3>1, TopKeeps, RefKeeps, GroupKeeps
  <2> QED
    BY <2>1, <2>2, <2>3
<1> QED
  BY <1>1, <1>2, PTL DEF ProtoSpec

(* The loop that reads a prototype one character after the other accepts   *)
(* what the grammar allows and nothing else, with the slots it is written  *)
(* with in their order, demanding those before the first ";" - for strings *)
(* of any length.  The grammar has the two whitespaces apart: spaces and   *)
(* tabs may stand between slots and in a group, newlines between slots     *)
(* only; and _ and + make a slot, but no reference (symbol.rs,             *)
(* SubPrototype::parse, ref_kind_from_byte).                               *)
THEOREM PrototypesAreRead == ProtoSpec => []PrototypeAsWritten
<1>1. ProtoIInv => PrototypeAsWritten
  BY SettledAsWritten
<1> QED
  BY <1>1, ProtoInvariance, PTL
================================================================================
