--------------------------- MODULE CowBuffer_proofs ---------------------------
(***************************************************************************)
(* Proofs about CowBuffer, for any number of handles and allocations: the  *)
(* counts are exact, reads are pinned, writers are alone, and sharing is   *)
(* invisible.                                                              *)
(***************************************************************************)
EXTENDS CowBuffer, FiniteSetTheorems, TLAPS

-----------------------------------------------------------------------------
(* The inductive invariant.                                                *)

(* An object somebody owns.                                                *)
Alive == {o \in Objs : rc[o] > 0}

(* What a call has in hand at each of its steps.                           *)
CallShape ==
  \A h \in Handles :
    /\ ref[h] # Nil <=> pc[h] \in {"mint", "dec"}
    /\ pc[h] \in {"write", "torn", "copy"} => env[h].obj # Nil /\ arg[h] \in Contents
    /\ pc[h] \in {"write", "torn"} => env[h].own
    /\ pc[h] = "mint" => /\ env[h].obj = Nil /\ src[h] # Nil
                         /\ env[src[h]].obj = ref[h]
                         /\ \E q \in Cuts : arg[h] = Compose(env[src[h]].cut, q)
    /\ pc[h] \notin {"dec", "free"} => doomed[h] = {}
    /\ pc[h] \notin {"mint", "dec", "free"} => src[h] = Nil
    /\ src[h] # Nil => src[h] # h /\ Shared(src[h])

(* Only a heap buffer's envelope owns, and it shows all of it.             *)
EnvShape ==
  \A h \in Handles : env[h].own => /\ env[h].obj # Nil /\ env[h].cut = Whole
                                   /\ holder[env[h].obj] = Nil

(* A struct that holds nothing is its own base; the others share the base  *)
(* of what they hold, which somebody owns: them.                           *)
Chained ==
  \A o \in Alive : \/ holder[o] = Nil /\ base[o] = o
                   \/ holder[o] \in Alive /\ base[o] = base[holder[o]]

(* No chain goes round or goes on: every set of owned objects has one that *)
(* holds nothing of the set.                                               *)
Grounded ==
  \A S \in SUBSET Alive : S # {} => \E o \in S : holder[o] \notin S

(* What is torn down has no owner, and one call tears it down.             *)
DoomedApart ==
  \A h \in Handles : /\ doomed[h] \cap Alive = {}
                     /\ \A g \in Handles \ {h} : doomed[g] \cap doomed[h] = {}

(* Bytes are whole except in the middle of a write.                        *)
BytesSound ==
  \A o \in Alive : holder[o] = Nil =>
    \/ bytes[o] \in Contents
    \/ \E h \in Handles : pc[h] = "torn" /\ env[h].obj = o

IInv ==
  /\ TypeOK
  /\ RefcountExact
  /\ WritesAlone
  /\ CallShape
  /\ EnvShape
  /\ Chained
  /\ Grounded
  /\ DoomedApart
  /\ BytesSound

-----------------------------------------------------------------------------
(* What follows from the invariant in one state.                           *)

(* Who the owners are.                                                     *)
WhoOwns(o) ==
  /\ \A h \in Handles : <<"envelope", h>> \in Owners(o) <=> env[h].obj = o
  /\ \A h \in Handles : <<"call", h>> \in Owners(o) <=> ref[h] = o
  /\ \A x \in Objs : <<"holder", x>> \in Owners(o) <=> holder[x] = o /\ rc[x] > 0
  /\ \A e \in Owners(o) :
       \/ \E h \in Handles : e = <<"envelope", h>> /\ env[h].obj = o
       \/ \E h \in Handles : e = <<"call", h>> /\ ref[h] = o
       \/ \E x \in Objs : e = <<"holder", x>> /\ holder[x] = o /\ rc[x] > 0

(* The elements of the set of owners.                                      *)
LEMMA OwnersElements == \A o : WhoOwns(o)
<1> SUFFICES ASSUME NEW o PROVE WhoOwns(o)
  OBVIOUS
<1>1. "envelope" # "call" /\ "envelope" # "holder" /\ "call" # "holder"
  OBVIOUS
<1>2. \A h \in Handles : <<"envelope", h>> \in Owners(o) <=> env[h].obj = o
  BY <1>1 DEF Owners
<1>3. \A h \in Handles : <<"call", h>> \in Owners(o) <=> ref[h] = o
  BY <1>1 DEF Owners
<1>4. \A x \in Objs : <<"holder", x>> \in Owners(o) <=> holder[x] = o /\ rc[x] > 0
  BY <1>1 DEF Owners
<1>5. ASSUME NEW e \in Owners(o)
      PROVE  \/ \E h \in Handles : e = <<"envelope", h>> /\ env[h].obj = o
             \/ \E h \in Handles : e = <<"call", h>> /\ ref[h] = o
             \/ \E x \in Objs : e = <<"holder", x>> /\ holder[x] = o /\ rc[x] > 0
  <2>1. CASE e \in {"envelope"} \X {h \in Handles : env[h].obj = o}
    BY <2>1
  <2>2. CASE e \in {"call"} \X {h \in Handles : ref[h] = o}
    BY <2>2
  <2>3. CASE e \in {"holder"} \X {x \in Objs : holder[x] = o /\ rc[x] > 0}
    <3>1. PICK x \in {x \in Objs : holder[x] = o /\ rc[x] > 0} : e = <<"holder", x>>
      BY <2>3
    <3> QED
      BY <3>1
  <2> QED
    BY <2>1, <2>2, <2>3 DEF Owners
<1> QED
  BY <1>2, <1>3, <1>4, <1>5 DEF WhoOwns

(* The same of the next state.                                             *)
LEMMA OwnersElementsNext == \A o : WhoOwns(o)'
<1>1. (\A o : WhoOwns(o))'
  BY OwnersElements, PTL
<1> QED
  BY <1>1

(* The shapes an owner has.                                                *)
Named(e) ==
  \/ \E h \in Handles : e = <<"envelope", h>>
  \/ \E h \in Handles : e = <<"call", h>>
  \/ \E x \in Objs : e = <<"holder", x>>

(* A set that names the owners of o in the next state is that set.         *)
LEMMA OwnersNext ==
  ASSUME NEW o, NEW S,
         \A e \in S : Named(e),
         \A h \in Handles : env'[h].obj = o <=> <<"envelope", h>> \in S,
         \A h \in Handles : ref'[h] = o <=> <<"call", h>> \in S,
         \A x \in Objs : holder'[x] = o /\ rc'[x] > 0 <=> <<"holder", x>> \in S
  PROVE  Owners(o)' = S
<1>1. WhoOwns(o)'
  BY OwnersElementsNext
<1>2. \A e \in S : e \in Owners(o)'
  BY <1>1 DEF WhoOwns, Named
<1>3. \A e \in Owners(o)' : e \in S
  BY <1>1 DEF WhoOwns
<1> QED
  BY <1>2, <1>3

(* Owners that nothing changed.                                            *)
LEMMA OwnersKept ==
  ASSUME NEW o,
         \A h \in Handles : env'[h].obj = o <=> env[h].obj = o,
         \A h \in Handles : ref'[h] = o <=> ref[h] = o,
         \A x \in Objs : holder'[x] = o /\ rc'[x] > 0 <=> holder[x] = o /\ rc[x] > 0
  PROVE  Owners(o)' = Owners(o)
<1> DEFINE S == Owners(o)
<1>0. WhoOwns(o)
  BY OwnersElements
<1>1. \A e \in S : Named(e)
  BY <1>0 DEF WhoOwns, Named
<1>2. /\ \A h \in Handles : env'[h].obj = o <=> <<"envelope", h>> \in S
      /\ \A h \in Handles : ref'[h] = o <=> <<"call", h>> \in S
      /\ \A x \in Objs : holder'[x] = o /\ rc'[x] > 0 <=> <<"holder", x>> \in S
  BY <1>0 DEF WhoOwns
<1> HIDE DEF S
<1>3. Owners(o)' = S
  BY <1>1, <1>2, OwnersNext
<1> QED
  BY <1>3 DEF S

(* Owners of which one is replaced, or added, or removed: D and E hold at  *)
(* most one owner each, by its kind.                                       *)
LEMMA OwnersChanged ==
  ASSUME NEW o, NEW D, NEW E,
         \A e \in E : Named(e),
         \A h \in Handles : env'[h].obj = o <=>
            <<"envelope", h>> \in E \/ (env[h].obj = o /\ <<"envelope", h>> \notin D),
         \A h \in Handles : ref'[h] = o <=>
            <<"call", h>> \in E \/ (ref[h] = o /\ <<"call", h>> \notin D),
         \A x \in Objs : holder'[x] = o /\ rc'[x] > 0 <=>
            <<"holder", x>> \in E \/ (holder[x] = o /\ rc[x] > 0 /\ <<"holder", x>> \notin D)
  PROVE  Owners(o)' = (Owners(o) \ D) \cup E
<1> DEFINE S == (Owners(o) \ D) \cup E
<1>0. WhoOwns(o)
  BY OwnersElements
<1>1. \A e \in S : Named(e)
  BY <1>0 DEF WhoOwns, Named
<1>2. \A h \in Handles : env'[h].obj = o <=> <<"envelope", h>> \in S
  BY <1>0 DEF WhoOwns
<1>3. \A h \in Handles : ref'[h] = o <=> <<"call", h>> \in S
  BY <1>0 DEF WhoOwns
<1>4. \A x \in Objs : holder'[x] = o /\ rc'[x] > 0 <=> <<"holder", x>> \in S
  BY <1>0 DEF WhoOwns
<1> HIDE DEF S
<1>5. Owners(o)' = S
  BY <1>1, <1>2, <1>3, <1>4, OwnersNext
<1> QED
  BY <1>5 DEF S

(* An envelope more.                                                       *)
LEMMA EnvelopeGained ==
  ASSUME NEW o, NEW g \in Handles,
         \A h \in Handles : env'[h].obj = o <=> (h = g \/ (env[h].obj = o)),
         \A h \in Handles : ref'[h] = o <=> (ref[h] = o),
         \A x \in Objs : (holder'[x] = o /\ rc'[x] > 0) <=> (holder[x] = o /\ rc[x] > 0)
  PROVE  Owners(o)' = (Owners(o) \ {}) \cup {<<"envelope", g>>}
<1> DEFINE D == {}
           E == {<<"envelope", g>>}
<1>1. \A e \in E : Named(e)
  BY DEF Named
<1>2. \A h \in Handles : env'[h].obj = o <=> <<"envelope", h>> \in E \/ (env[h].obj = o /\ <<"envelope", h>> \notin D)
  OBVIOUS
<1>3. \A h \in Handles : ref'[h] = o <=> <<"call", h>> \in E \/ (ref[h] = o /\ <<"call", h>> \notin D)
  OBVIOUS
<1>4. \A x \in Objs : holder'[x] = o /\ rc'[x] > 0 <=> <<"holder", x>> \in E \/ (holder[x] = o /\ rc[x] > 0 /\ <<"holder", x>> \notin D)
  OBVIOUS
<1> HIDE DEF D, E
<1>5. Owners(o)' = (Owners(o) \ D) \cup E
  BY <1>1, <1>2, <1>3, <1>4, OwnersChanged
<1> QED
  BY <1>5 DEF D, E

(* A call takes over the reference of its envelope.                        *)
LEMMA EnvelopeToCall ==
  ASSUME NEW o, NEW g \in Handles,
         \A h \in Handles : env'[h].obj = o <=> ((env[h].obj = o /\ h # g)),
         \A h \in Handles : ref'[h] = o <=> (h = g \/ (ref[h] = o)),
         \A x \in Objs : (holder'[x] = o /\ rc'[x] > 0) <=> (holder[x] = o /\ rc[x] > 0)
  PROVE  Owners(o)' = (Owners(o) \ {<<"envelope", g>>}) \cup {<<"call", g>>}
<1> DEFINE D == {<<"envelope", g>>}
           E == {<<"call", g>>}
<1>1. \A e \in E : Named(e)
  BY DEF Named
<1>2. \A h \in Handles : env'[h].obj = o <=> <<"envelope", h>> \in E \/ (env[h].obj = o /\ <<"envelope", h>> \notin D)
  OBVIOUS
<1>3. \A h \in Handles : ref'[h] = o <=> <<"call", h>> \in E \/ (ref[h] = o /\ <<"call", h>> \notin D)
  OBVIOUS
<1>4. \A x \in Objs : holder'[x] = o /\ rc'[x] > 0 <=> <<"holder", x>> \in E \/ (holder[x] = o /\ rc[x] > 0 /\ <<"holder", x>> \notin D)
  OBVIOUS
<1> HIDE DEF D, E
<1>5. Owners(o)' = (Owners(o) \ D) \cup E
  BY <1>1, <1>2, <1>3, <1>4, OwnersChanged
<1> QED
  BY <1>5 DEF D, E

(* A call takes a reference.                                               *)
LEMMA CallGained ==
  ASSUME NEW o, NEW g \in Handles,
         \A h \in Handles : env'[h].obj = o <=> (env[h].obj = o),
         \A h \in Handles : ref'[h] = o <=> (h = g \/ (ref[h] = o)),
         \A x \in Objs : (holder'[x] = o /\ rc'[x] > 0) <=> (holder[x] = o /\ rc[x] > 0)
  PROVE  Owners(o)' = (Owners(o) \ {}) \cup {<<"call", g>>}
<1> DEFINE D == {}
           E == {<<"call", g>>}
<1>1. \A e \in E : Named(e)
  BY DEF Named
<1>2. \A h \in Handles : env'[h].obj = o <=> <<"envelope", h>> \in E \/ (env[h].obj = o /\ <<"envelope", h>> \notin D)
  OBVIOUS
<1>3. \A h \in Handles : ref'[h] = o <=> <<"call", h>> \in E \/ (ref[h] = o /\ <<"call", h>> \notin D)
  OBVIOUS
<1>4. \A x \in Objs : holder'[x] = o /\ rc'[x] > 0 <=> <<"holder", x>> \in E \/ (holder[x] = o /\ rc[x] > 0 /\ <<"holder", x>> \notin D)
  OBVIOUS
<1> HIDE DEF D, E
<1>5. Owners(o)' = (Owners(o) \ D) \cup E
  BY <1>1, <1>2, <1>3, <1>4, OwnersChanged
<1> QED
  BY <1>5 DEF D, E

(* A call surrenders its reference.                                        *)
LEMMA CallLost ==
  ASSUME NEW o, NEW g \in Handles,
         \A h \in Handles : env'[h].obj = o <=> (env[h].obj = o),
         \A h \in Handles : ref'[h] = o <=> ((ref[h] = o /\ h # g)),
         \A x \in Objs : (holder'[x] = o /\ rc'[x] > 0) <=> (holder[x] = o /\ rc[x] > 0)
  PROVE  Owners(o)' = (Owners(o) \ {<<"call", g>>}) \cup {}
<1> DEFINE D == {<<"call", g>>}
           E == {}
<1>1. \A e \in E : Named(e)
  BY DEF Named
<1>2. \A h \in Handles : env'[h].obj = o <=> <<"envelope", h>> \in E \/ (env[h].obj = o /\ <<"envelope", h>> \notin D)
  OBVIOUS
<1>3. \A h \in Handles : ref'[h] = o <=> <<"call", h>> \in E \/ (ref[h] = o /\ <<"call", h>> \notin D)
  OBVIOUS
<1>4. \A x \in Objs : holder'[x] = o /\ rc'[x] > 0 <=> <<"holder", x>> \in E \/ (holder[x] = o /\ rc[x] > 0 /\ <<"holder", x>> \notin D)
  OBVIOUS
<1> HIDE DEF D, E
<1>5. Owners(o)' = (Owners(o) \ D) \cup E
  BY <1>1, <1>2, <1>3, <1>4, OwnersChanged
<1> QED
  BY <1>5 DEF D, E

(* A struct takes over the reference a call took for it.                   *)
LEMMA CallToHolder ==
  ASSUME NEW o, NEW g \in Handles, NEW p \in Objs,
         \A h \in Handles : env'[h].obj = o <=> (env[h].obj = o),
         \A h \in Handles : ref'[h] = o <=> ((ref[h] = o /\ h # g)),
         \A x \in Objs : (holder'[x] = o /\ rc'[x] > 0) <=> (x = p \/ (holder[x] = o /\ rc[x] > 0))
  PROVE  Owners(o)' = (Owners(o) \ {<<"call", g>>}) \cup {<<"holder", p>>}
<1> DEFINE D == {<<"call", g>>}
           E == {<<"holder", p>>}
<1>1. \A e \in E : Named(e)
  BY DEF Named
<1>2. \A h \in Handles : env'[h].obj = o <=> <<"envelope", h>> \in E \/ (env[h].obj = o /\ <<"envelope", h>> \notin D)
  OBVIOUS
<1>3. \A h \in Handles : ref'[h] = o <=> <<"call", h>> \in E \/ (ref[h] = o /\ <<"call", h>> \notin D)
  OBVIOUS
<1>4. \A x \in Objs : holder'[x] = o /\ rc'[x] > 0 <=> <<"holder", x>> \in E \/ (holder[x] = o /\ rc[x] > 0 /\ <<"holder", x>> \notin D)
  OBVIOUS
<1> HIDE DEF D, E
<1>5. Owners(o)' = (Owners(o) \ D) \cup E
  BY <1>1, <1>2, <1>3, <1>4, OwnersChanged
<1> QED
  BY <1>5 DEF D, E

(* The call that tears a struct down takes over what it held.              *)
LEMMA HolderToCall ==
  ASSUME NEW o, NEW p \in Objs, NEW g \in Handles,
         \A h \in Handles : env'[h].obj = o <=> (env[h].obj = o),
         \A h \in Handles : ref'[h] = o <=> (h = g \/ (ref[h] = o)),
         \A x \in Objs : (holder'[x] = o /\ rc'[x] > 0) <=> ((holder[x] = o /\ rc[x] > 0 /\ x # p))
  PROVE  Owners(o)' = (Owners(o) \ {<<"holder", p>>}) \cup {<<"call", g>>}
<1> DEFINE D == {<<"holder", p>>}
           E == {<<"call", g>>}
<1>1. \A e \in E : Named(e)
  BY DEF Named
<1>2. \A h \in Handles : env'[h].obj = o <=> <<"envelope", h>> \in E \/ (env[h].obj = o /\ <<"envelope", h>> \notin D)
  OBVIOUS
<1>3. \A h \in Handles : ref'[h] = o <=> <<"call", h>> \in E \/ (ref[h] = o /\ <<"call", h>> \notin D)
  OBVIOUS
<1>4. \A x \in Objs : holder'[x] = o /\ rc'[x] > 0 <=> <<"holder", x>> \in E \/ (holder[x] = o /\ rc[x] > 0 /\ <<"holder", x>> \notin D)
  OBVIOUS
<1> HIDE DEF D, E
<1>5. Owners(o)' = (Owners(o) \ D) \cup E
  BY <1>1, <1>2, <1>3, <1>4, OwnersChanged
<1> QED
  BY <1>5 DEF D, E

(* The owners of an object are finitely many.                              *)
LEMMA OwnersFinite == \A o : IsFiniteSet(Owners(o))
<1> SUFFICES ASSUME NEW o PROVE IsFiniteSet(Owners(o))
  OBVIOUS
<1> DEFINE E == {h \in Handles : env[h].obj = o}
           C == {h \in Handles : ref[h] = o}
           P == {x \in Objs : holder[x] = o /\ rc[x] > 0}
<1>1. IsFiniteSet(E) /\ IsFiniteSet(C) /\ IsFiniteSet(P)
  BY FiniteAssumption, FS_Subset
<1>2. \A x : IsFiniteSet({x})
  BY FS_Singleton
<1>3. IsFiniteSet({"envelope"} \X E) /\ IsFiniteSet({"call"} \X C) /\ IsFiniteSet({"holder"} \X P)
  <2> HIDE DEF E, C, P
  <2> QED
    BY <1>1, <1>2, FS_Product
<1> QED
  BY <1>3, FS_Union DEF Owners

(* A count that is one has one owner; an owner makes the count positive.   *)
LEMMA OwnedAlive ==
  ASSUME TypeOK, RefcountExact, NEW o \in Objs
  PROVE  /\ o \in Alive <=> Owners(o) # {}
         /\ \A h \in Handles : env[h].obj = o \/ ref[h] = o => o \in Alive
         /\ \A x \in Alive : holder[x] = o => o \in Alive
         /\ Alive \subseteq live
<1>1. rc[o] \in Nat /\ rc[o] = Cardinality(Owners(o))
  BY RefMaxAssumption DEF TypeOK, RefcountExact
<1>2. o \in Alive <=> Owners(o) # {}
  BY <1>1, OwnersFinite, FS_EmptySet DEF Alive
<1>3. ASSUME NEW h \in Handles, env[h].obj = o \/ ref[h] = o
      PROVE  Owners(o) # {}
  BY <1>3, OwnersElements DEF WhoOwns
<1>4. ASSUME NEW x \in Alive, holder[x] = o
      PROVE  Owners(o) # {}
  BY <1>4, OwnersElements DEF Alive, WhoOwns
<1>5. Alive \subseteq live
  BY DEF RefcountExact, Alive
<1> QED
  BY <1>2, <1>3, <1>4, <1>5

(* The base of an owned object is owned and holds nothing.                 *)
LEMMA BaseAlive ==
  ASSUME IInv, NEW o \in Alive
  PROVE  base[o] \in Alive /\ holder[base[o]] = Nil /\ base[base[o]] = base[o]
<1> DEFINE S == {x \in Alive : ~(base[x] \in Alive /\ holder[base[x]] = Nil /\ base[base[x]] = base[x])}
<1> SUFFICES ASSUME S # {} PROVE FALSE
  OBVIOUS
<1>1. PICK x \in S : holder[x] \notin S
  BY DEF IInv, Grounded
<1>2. CASE holder[x] = Nil /\ base[x] = x
  BY <1>1, <1>2
<1>3. CASE holder[x] \in Alive /\ base[x] = base[holder[x]]
  BY <1>1, <1>3
<1> QED
  BY <1>1, <1>2, <1>3 DEF IInv, Chained

(* A base that is not the object itself is held by a struct in its chain.  *)
LEMMA BaseHeld ==
  ASSUME IInv, NEW o \in Alive, base[o] # o
  PROVE  \E x \in Alive : holder[x] = base[o]
<1> DEFINE b == base[o]
           S == {x \in Alive : base[x] = b /\ x # b}
<1>1. o \in S
  OBVIOUS
<1>2. PICK x \in S : holder[x] \notin S
  BY <1>1 DEF IInv, Grounded
<1>3. holder[x] \in Alive /\ base[holder[x]] = b
  BY <1>2 DEF IInv, Chained
<1> QED
  BY <1>2, <1>3

(* Nothing but the writer itself reads what it writes.                     *)
LEMMA SoleReader ==
  ASSUME IInv, NEW h \in Handles, pc[h] \in {"write", "torn"},
         NEW g \in Handles, env[g].obj # Nil, base[env[g].obj] = env[h].obj
  PROVE  g = h
<1>1. env[g].obj \in Objs /\ env[h].obj \in Objs
  BY DEF IInv, TypeOK, CallShape
<1>2. env[g].obj \in Alive
  BY <1>1, OwnedAlive DEF IInv
<1>3. Owners(env[h].obj) = {<<"envelope", h>>}
  BY DEF IInv, WritesAlone
<1>4. CASE base[env[g].obj] = env[g].obj
  <2>1. <<"envelope", g>> \in Owners(env[h].obj)
    BY <1>4, OwnersElements DEF WhoOwns
  <2> QED
    BY <1>3, <2>1
<1>5. CASE base[env[g].obj] # env[g].obj
  <2>1. PICK x \in Alive : holder[x] = env[h].obj
    BY <1>2, <1>5, BaseHeld
  <2>2. <<"holder", x>> \in Owners(env[h].obj)
    BY <2>1, OwnersElements DEF Alive, WhoOwns
  <2> QED
    BY <1>3, <2>2
<1> QED
  BY <1>4, <1>5

(* A handle that is not in the middle of a write shows a content.          *)
LEMMA ValueWhole ==
  ASSUME IInv, NEW h \in Handles, env[h].obj # Nil, pc[h] # "torn"
  PROVE  /\ env[h].obj \in Alive /\ base[env[h].obj] \in Alive
         /\ bytes[base[env[h].obj]] \in Contents /\ env[h].cut \in Cuts
         /\ Value(h) \in Contents
<1>1. env[h].obj \in Alive /\ env[h].cut \in Cuts
  BY OwnedAlive DEF IInv, TypeOK
<1>2. base[env[h].obj] \in Alive /\ holder[base[env[h].obj]] = Nil
  BY <1>1, BaseAlive
<1>3. bytes[base[env[h].obj]] \in Contents
  <2>1. ASSUME NEW g \in Handles, pc[g] = "torn", env[g].obj = base[env[h].obj]
        PROVE  FALSE
    BY <2>1, SoleReader
  <2> QED
    BY <1>2, <2>1 DEF IInv, BytesSound
<1> QED
  BY <1>1, <1>2, <1>3, CutAssumption, WholeAssumption DEF Value

-----------------------------------------------------------------------------
(* Counting a set that gains, loses or swaps one element.                  *)
LEMMA CountGain ==
  ASSUME NEW S, NEW T, NEW e, IsFiniteSet(S), e \notin S, T = S \cup {e}
  PROVE  Cardinality(T) = Cardinality(S) + 1
BY FS_AddElement

(* One element less.                                                       *)
LEMMA CountLoss ==
  ASSUME NEW S, NEW T, NEW e, IsFiniteSet(S), e \in S, T = S \ {e}
  PROVE  Cardinality(T) = Cardinality(S) - 1
BY FS_RemoveElement

(* One element for another.                                                *)
LEMMA CountSwap ==
  ASSUME NEW S, NEW T, NEW d, NEW e, IsFiniteSet(S), d \in S, e \notin S, T = (S \ {d}) \cup {e}
  PROVE  Cardinality(T) = Cardinality(S)
<1>1. IsFiniteSet(S \ {d}) /\ Cardinality(S \ {d}) = Cardinality(S) - 1
  BY FS_RemoveElement
<1>2. Cardinality(T) = Cardinality(S \ {d}) + 1
  BY <1>1, FS_AddElement
<1>3. Cardinality(S) \in Nat
  BY FS_CardinalityType
<1> QED
  BY <1>1, <1>2, <1>3

(* A step that leaves the owned objects as they are leaves their structure *)
(* as it is, and their bytes sound if it touches no writer.                *)
LEMMA StructureFrame ==
  ASSUME IInv, Alive' = Alive, \A o \in Alive : holder'[o] = holder[o] /\ base'[o] = base[o]
  PROVE  Chained' /\ Grounded'
<1>1. Chained'
  BY DEF IInv, Chained
<1>2. Grounded'
  BY DEF IInv, Grounded
<1> QED
  BY <1>1, <1>2

(* The same of the bytes.                                                  *)
LEMMA BytesFrame ==
  ASSUME IInv, Alive' = Alive,
         \A o \in Alive : holder'[o] = holder[o] /\ bytes'[o] = bytes[o],
         \A h \in Handles : pc[h] = "torn" => pc'[h] = "torn" /\ env'[h].obj = env[h].obj
  PROVE  BytesSound'
BY DEF IInv, BytesSound

(* A step that gives no writer's buffer another owner leaves writers alone.*)
LEMMA WritersFrame ==
  ASSUME IInv,
         \A h \in Handles : pc'[h] \in {"write", "torn"} =>
            /\ pc[h] \in {"write", "torn"}
            /\ env'[h] = env[h]
            /\ Owners(env[h].obj)' = Owners(env[h].obj)
  PROVE  WritesAlone'
BY DEF IInv, WritesAlone

(* An object that is not allocated has nothing to do with anything.        *)
LEMMA Unowned ==
  ASSUME IInv, NEW o \in Objs, o \notin live
  PROVE  /\ rc[o] = 0 /\ o \notin Alive /\ Owners(o) = {}
         /\ \A h \in Handles : env[h].obj # o /\ ref[h] # o /\ o \notin doomed[h]
         /\ \A x \in Alive : holder[x] # o /\ base[x] # o
<1>1. o \notin Alive /\ Owners(o) = {} /\ \A h \in Handles : env[h].obj # o /\ ref[h] # o
  BY OwnedAlive DEF IInv
<1>2. rc[o] = 0
  BY <1>1, RefMaxAssumption DEF IInv, TypeOK, Alive
<1>3. \A h \in Handles : o \notin doomed[h]
  BY DEF IInv, RefcountExact
<1>4. \A x \in Alive : holder[x] # o /\ base[x] # o
  BY <1>1, OwnedAlive, BaseAlive DEF IInv
<1> QED
  BY <1>1, <1>2, <1>3, <1>4

(* A fresh object, at the bottom or holding an owned one, is well founded. *)
LEMMA StructureAlloc ==
  ASSUME IInv, NEW o \in Objs, o \notin live, NEW p, NEW b,
         \/ p = Nil /\ b = o
         \/ p \in Alive /\ b = base[p],
         rc' = [rc EXCEPT ![o] = 1],
         holder' = [holder EXCEPT ![o] = p],
         base' = [base EXCEPT ![o] = b]
  PROVE  Alive' = Alive \cup {o} /\ Chained' /\ Grounded'
<1>1. Alive' = Alive \cup {o}
  BY DEF Alive, IInv, TypeOK
<1>2. \A x \in Alive : x # o /\ holder[x] # o /\ base[x] # o
  BY Unowned
<1>3. o \notin Alive /\ Alive \subseteq Objs
  BY Unowned DEF Alive
<1>4. Chained'
  BY <1>1, <1>2, <1>3, NilAssumption DEF IInv, Chained, TypeOK
<1>5. Grounded'
  <2> SUFFICES ASSUME NEW S \in SUBSET (Alive \cup {o}), S # {}
               PROVE  \E x \in S : holder'[x] \notin S
    BY <1>1 DEF Grounded
  <2>1. CASE S \ {o} = {}
    BY <2>1, <1>3, NilAssumption DEF IInv, TypeOK
  <2>2. CASE S \ {o} # {}
    <3>1. PICK x \in S \ {o} : holder[x] \notin S \ {o}
      BY <2>2 DEF IInv, Grounded
    <3>2. holder[x] # o /\ holder'[x] = holder[x]
      BY <3>1, <1>2, <1>3 DEF IInv, TypeOK
    <3> QED
      BY <3>1, <3>2
  <2> QED
    BY <2>1, <2>2
<1> QED
  BY <1>1, <1>4, <1>5

-----------------------------------------------------------------------------
(* Each action keeps the invariant.                                        *)

(* Clone.                                                                  *)
LEMMA CloneInv ==
  ASSUME IInv, NEW h \in Handles, NEW g \in Handles, Clone(h, g)
  PROVE  IInv'
<1> DEFINE x == env[h].obj
<1> USE DEF Clone, Retain, Shared, Vacant
<1>0. x \in Objs /\ x \in Alive /\ g # h /\ rc[x] \in Nat
  BY OwnedAlive, RefMaxAssumption DEF IInv, TypeOK
<1>1. TypeOK'
  BY <1>0, RefMaxAssumption DEF IInv, TypeOK, callVars
<1>2. ASSUME NEW o \in Objs \ {x} PROVE Owners(o)' = Owners(o) /\ rc'[o] = rc[o]
  <2>1. \A f \in Handles : env'[f].obj = o <=> env[f].obj = o
    BY <1>0, NilAssumption DEF IInv, TypeOK
  <2>2. \A y \in Objs : rc'[y] > 0 <=> rc[y] > 0
    BY <1>0 DEF IInv, TypeOK, Alive
  <2> QED
    BY <2>1, <2>2, OwnersKept DEF IInv, TypeOK, callVars
<1>3. Owners(x)' = Owners(x) \cup {<<"envelope", g>>} /\ rc'[x] = rc[x] + 1 /\ <<"envelope", g>> \notin Owners(x)
  <2>1. \A f \in Handles : env'[f].obj = x <=> f = g \/ env[f].obj = x
    BY <1>0 DEF IInv, TypeOK
  <2>2. \A y \in Objs : rc'[y] > 0 <=> rc[y] > 0
    BY <1>0 DEF IInv, TypeOK, Alive
  <2>3. <<"envelope", g>> \notin Owners(x)
    BY <1>0, OwnersElements, NilAssumption DEF WhoOwns
  <2>4. Owners(x)' = Owners(x) \cup {<<"envelope", g>>}
    <3>1. Owners(x)' = (Owners(x) \ {}) \cup {<<"envelope", g>>}
      BY <1>0, <2>1, <2>2, EnvelopeGained DEF callVars
    <3> QED
      BY <3>1
  <2> QED
    BY <1>0, <2>3, <2>4 DEF IInv, TypeOK
<1>4. \A o \in Objs : rc'[o] = Cardinality(Owners(o)')
  BY <1>0, <1>2, <1>3, OwnersFinite, CountGain DEF IInv, RefcountExact
<1>5. Alive' = Alive
  BY <1>0 DEF Alive, IInv, TypeOK
<1>6. RefcountExact'
  BY <1>4, <1>5 DEF IInv, RefcountExact, Alive, callVars
<1>7. WritesAlone'
  <2>1. \A f \in Handles : pc[f] \in {"write", "torn"} => env[f].obj # x /\ f # g /\ env[f].obj \in Objs
    <3>1. <<"envelope", h>> \in Owners(x)
      BY OwnersElements DEF WhoOwns
    <3> QED
      BY <1>0, <3>1 DEF IInv, WritesAlone, CallShape, TypeOK
  <2> QED
    BY <2>1, <1>2, WritersFrame DEF IInv, TypeOK, callVars
<1>8. CallShape'
  BY <1>0 DEF IInv, CallShape, TypeOK, callVars
<1>9. EnvShape'
  BY <1>0 DEF IInv, EnvShape, TypeOK, callVars
<1>10. Chained' /\ Grounded'
  BY <1>5, StructureFrame
<1>11. BytesSound'
  BY <1>0, <1>5, BytesFrame DEF IInv, TypeOK, callVars
<1>12. DoomedApart'
  BY <1>5 DEF IInv, DoomedApart, callVars
<1> QED
  BY <1>1, <1>6, <1>7, <1>8, <1>9, <1>10, <1>11, <1>12 DEF IInv

(* New.                                                                    *)
LEMMA NewInv ==
  ASSUME IInv, NEW h \in Handles, NEW o \in Objs, NEW own \in BOOLEAN, NEW c \in Contents,
         New(h, o, own, c)
  PROVE  IInv'
<1> USE DEF New, Allocate, Vacant, Envelope
<1>0. /\ rc[o] = 0 /\ o \notin Alive /\ Owners(o) = {} /\ o # Nil
      /\ \A f \in Handles : env[f].obj # o /\ ref[f] # o /\ o \notin doomed[f]
      /\ \A x \in Alive : holder[x] # o /\ base[x] # o
  BY Unowned, NilAssumption
<1>1. TypeOK'
  BY RefMaxAssumption, WholeAssumption DEF IInv, TypeOK, callVars
<1>2. ASSUME NEW x \in Objs \ {o} PROVE Owners(x)' = Owners(x) /\ rc'[x] = rc[x]
  <2>1. \A f \in Handles : env'[f].obj = x <=> env[f].obj = x
    BY NilAssumption DEF IInv, TypeOK
  <2>2. \A y \in Objs : holder'[y] = x /\ rc'[y] > 0 <=> holder[y] = x /\ rc[y] > 0
    BY <1>0, NilAssumption DEF IInv, TypeOK
  <2> QED
    BY <2>1, <2>2, OwnersKept DEF IInv, TypeOK, callVars
<1>3. Owners(o)' = (Owners(o) \ {}) \cup {<<"envelope", h>>} /\ rc'[o] = 1
  <2>1. \A f \in Handles : env'[f].obj = o <=> (f = h \/ env[f].obj = o)
    BY DEF IInv, TypeOK
  <2>2. \A y \in Objs : (holder'[y] = o /\ rc'[y] > 0) <=> (holder[y] = o /\ rc[y] > 0)
    BY <1>0 DEF IInv, TypeOK, Alive
  <2> QED
    BY <2>1, <2>2, EnvelopeGained DEF IInv, TypeOK, callVars
<1>4. \A x \in Objs : rc'[x] = Cardinality(Owners(x)')
  <2>1. Owners(o)' = {<<"envelope", h>>}
    BY <1>0, <1>3
  <2>2. Cardinality(Owners(o)') = 1
    BY <2>1, FS_Singleton
  <2> QED
    BY <1>2, <1>3, <2>2 DEF IInv, RefcountExact
<1>5. Alive' = Alive \cup {o} /\ Chained' /\ Grounded'
  BY StructureAlloc
<1>6. RefcountExact'
  BY <1>4, <1>5 DEF IInv, RefcountExact, Alive, callVars
<1>7. WritesAlone'
  BY <1>2, <1>0, WritersFrame DEF IInv, CallShape, TypeOK, callVars
<1>8. CallShape'
  BY DEF IInv, CallShape, Shared, TypeOK, callVars
<1>9. EnvShape'
  BY <1>0 DEF IInv, EnvShape, TypeOK
<1>10. BytesSound'
  BY <1>0, <1>5 DEF IInv, BytesSound, TypeOK, callVars
<1>11. DoomedApart'
  BY <1>0, <1>5 DEF IInv, DoomedApart, callVars
<1> QED
  BY <1>1, <1>5, <1>6, <1>7, <1>8, <1>9, <1>10, <1>11 DEF IInv

(* Mint.                                                                   *)
LEMMA MintInv ==
  ASSUME IInv, NEW g \in Handles, NEW o \in Objs, Mint(g, o)
  PROVE  IInv'
<1> SUFFICES ASSUME NEW p, p = ref[g] PROVE IInv'
  OBVIOUS
<1> USE DEF Mint, Allocate, Envelope
<1>0. /\ rc[o] = 0 /\ o \notin Alive /\ Owners(o) = {} /\ o # Nil
      /\ \A f \in Handles : env[f].obj # o /\ ref[f] # o /\ o \notin doomed[f]
      /\ \A x \in Alive : holder[x] # o /\ base[x] # o
  BY Unowned, NilAssumption
<1>1. p \in Objs /\ p \in Alive /\ p # o /\ p # Nil
  BY <1>0, OwnedAlive, NilAssumption DEF IInv, CallShape, TypeOK
<1>2. arg[g] \in Cuts /\ env[g].obj = Nil /\ doomed[g] = {} /\ base[p] \in Objs
  <2>1. env[src[g]].cut \in Cuts
    BY DEF IInv, CallShape, TypeOK
  <2>2. PICK q \in Cuts : arg[g] = Compose(env[src[g]].cut, q)
    BY DEF IInv, CallShape
  <2>3. src[g] # Nil /\ src[g] \in Handles /\ env[src[g]].obj # Nil /\ pc[src[g]] = "idle"
    BY DEF IInv, CallShape, Shared, TypeOK
  <2>4. Contents # {}
    BY <2>3, ValueWhole
  <2>5. Compose(env[src[g]].cut, q) \in Cuts
    BY <2>1, <2>2, <2>4, CutAssumption
  <2> QED
    BY <1>1, <2>2, <2>5 DEF IInv, CallShape, TypeOK
<1>3. TypeOK'
  BY <1>0, <1>1, <1>2, RefMaxAssumption DEF IInv, TypeOK
<1>4. ASSUME NEW x \in Objs \ {o, p} PROVE Owners(x)' = Owners(x) /\ rc'[x] = rc[x]
  <2>1. \A f \in Handles : env'[f].obj = x <=> env[f].obj = x
    BY <1>2, NilAssumption DEF IInv, TypeOK
  <2>2. \A y \in Objs : holder'[y] = x /\ rc'[y] > 0 <=> holder[y] = x /\ rc[y] > 0
    BY <1>0 DEF IInv, TypeOK
  <2>3. \A f \in Handles : ref'[f] = x <=> ref[f] = x
    BY NilAssumption DEF IInv, TypeOK
  <2> QED
    BY <2>1, <2>2, <2>3, OwnersKept DEF IInv, TypeOK
<1>5. Owners(o)' = (Owners(o) \ {}) \cup {<<"envelope", g>>} /\ rc'[o] = 1
  <2>1. \A f \in Handles : env'[f].obj = o <=> (f = g \/ env[f].obj = o)
    BY DEF IInv, TypeOK
  <2>2. \A y \in Objs : (holder'[y] = o /\ rc'[y] > 0) <=> (holder[y] = o /\ rc[y] > 0)
    BY <1>0, <1>1 DEF IInv, TypeOK, Alive
  <2>3. \A f \in Handles : ref'[f] = o <=> ref[f] = o
    BY <1>0 DEF IInv, TypeOK
  <2> QED
    BY <2>1, <2>2, <2>3, EnvelopeGained DEF IInv, TypeOK
<1>6. Owners(p)' = (Owners(p) \ {<<"call", g>>}) \cup {<<"holder", o>>} /\ rc'[p] = rc[p]
  <2>1. \A f \in Handles : env'[f].obj = p <=> env[f].obj = p
    BY <1>1, <1>2 DEF IInv, TypeOK
  <2>2. \A y \in Objs : (holder'[y] = p /\ rc'[y] > 0) <=> (y = o \/ (holder[y] = p /\ rc[y] > 0))
    BY <1>0, <1>1 DEF IInv, TypeOK
  <2>3. \A f \in Handles : ref'[f] = p <=> (ref[f] = p /\ f # g)
    BY <1>1 DEF IInv, TypeOK
  <2>4. Owners(p)' = (Owners(p) \ {<<"call", g>>}) \cup {<<"holder", o>>}
    BY <2>1, <2>2, <2>3, CallToHolder
  <2> QED
    BY <1>1, <2>4 DEF IInv, TypeOK
<1>7. \A x \in Objs : rc'[x] = Cardinality(Owners(x)')
  <2>1. <<"call", g>> \in Owners(p) /\ <<"holder", o>> \notin Owners(p)
    BY <1>0, OwnersElements DEF WhoOwns
  <2>2. Cardinality(Owners(p)') = Cardinality(Owners(p))
    BY <2>1, <1>6, OwnersFinite, CountSwap
  <2> QED
    <3>1. Owners(o)' = {<<"envelope", g>>}
      BY <1>0, <1>5
    <3>2. Cardinality(Owners(o)') = 1
      BY <3>1, FS_Singleton
    <3> QED
      BY <1>1, <1>4, <1>5, <1>6, <2>2, <3>2 DEF IInv, RefcountExact
<1>8. Alive' = Alive \cup {o} /\ Chained' /\ Grounded'
  BY <1>1, StructureAlloc
<1>9. RefcountExact'
  BY <1>7, <1>8 DEF IInv, RefcountExact, Alive
<1>10. WritesAlone'
  <2>1. <<"call", g>> \in Owners(p)
    BY OwnersElements DEF WhoOwns
  <2>2. \A f \in Handles : pc[f] \in {"write", "torn"} => env[f].obj \in Objs \ {o, p} /\ f # g
    BY <1>0, <2>1 DEF IInv, WritesAlone, CallShape, TypeOK
  <2> QED
    BY <1>4, <2>2, WritersFrame DEF IInv, TypeOK
<1>11. CallShape'
  BY <1>1, NilAssumption DEF IInv, CallShape, Shared, TypeOK
<1>12. EnvShape'
  BY <1>0 DEF IInv, EnvShape, TypeOK
<1>13. BytesSound'
  BY <1>0, <1>1, <1>8 DEF IInv, BytesSound, TypeOK
<1>14. DoomedApart'
  BY <1>0, <1>8 DEF IInv, DoomedApart
<1> QED
  BY <1>3, <1>8, <1>9, <1>10, <1>11, <1>12, <1>13, <1>14 DEF IInv

(* SliceDirect.                                                            *)
LEMMA SliceDirectInv ==
  ASSUME IInv, NEW h \in Handles, NEW g \in Handles, NEW q \in Cuts, SliceDirect(h, g, q)
  PROVE  IInv'
<1> SUFFICES ASSUME NEW x, x = env[h].obj PROVE IInv'
  OBVIOUS
<1> USE DEF SliceDirect, Retain, Shared, Vacant, Envelope
<1>0. x \in Objs /\ x \in Alive /\ g # h /\ rc[x] \in Nat /\ Compose(env[h].cut, q) \in Cuts
  BY OwnedAlive, ValueWhole, CutAssumption, RefMaxAssumption DEF IInv, TypeOK
<1>1. TypeOK'
  BY <1>0, RefMaxAssumption DEF IInv, TypeOK, callVars
<1>2. ASSUME NEW o \in Objs \ {x} PROVE Owners(o)' = Owners(o) /\ rc'[o] = rc[o]
  <2>1. \A f \in Handles : env'[f].obj = o <=> env[f].obj = o
    BY <1>0, NilAssumption DEF IInv, TypeOK
  <2>2. \A y \in Objs : rc'[y] > 0 <=> rc[y] > 0
    BY <1>0 DEF IInv, TypeOK, Alive
  <2> QED
    BY <2>1, <2>2, OwnersKept DEF IInv, TypeOK, callVars
<1>3. Owners(x)' = Owners(x) \cup {<<"envelope", g>>} /\ rc'[x] = rc[x] + 1 /\ <<"envelope", g>> \notin Owners(x)
  <2>1. \A f \in Handles : env'[f].obj = x <=> f = g \/ env[f].obj = x
    BY <1>0 DEF IInv, TypeOK
  <2>2. \A y \in Objs : rc'[y] > 0 <=> rc[y] > 0
    BY <1>0 DEF IInv, TypeOK, Alive
  <2>3. <<"envelope", g>> \notin Owners(x)
    BY <1>0, OwnersElements, NilAssumption DEF WhoOwns
  <2>4. Owners(x)' = (Owners(x) \ {}) \cup {<<"envelope", g>>}
    BY <1>0, <2>1, <2>2, EnvelopeGained DEF callVars
  <2> QED
    BY <1>0, <2>3, <2>4 DEF IInv, TypeOK
<1>4. \A o \in Objs : rc'[o] = Cardinality(Owners(o)')
  BY <1>0, <1>2, <1>3, OwnersFinite, CountGain DEF IInv, RefcountExact
<1>5. Alive' = Alive
  BY <1>0 DEF Alive, IInv, TypeOK
<1>6. RefcountExact'
  BY <1>4, <1>5 DEF IInv, RefcountExact, Alive, callVars
<1>7. WritesAlone'
  <2>1. <<"envelope", h>> \in Owners(x)
    BY OwnersElements DEF WhoOwns
  <2>2. \A f \in Handles : pc[f] \in {"write", "torn"} => env[f].obj \in Objs \ {x} /\ f # g
    BY <1>0, <2>1 DEF IInv, WritesAlone, CallShape, TypeOK
  <2> QED
    BY <2>2, <1>2, WritersFrame DEF IInv, TypeOK, callVars
<1>8. CallShape'
  BY <1>0 DEF IInv, CallShape, TypeOK, callVars
<1>9. EnvShape'
  BY <1>0 DEF IInv, EnvShape, TypeOK, callVars
<1>10. Chained' /\ Grounded'
  BY <1>5, StructureFrame
<1>11. BytesSound'
  BY <1>0, <1>5, BytesFrame DEF IInv, TypeOK, callVars
<1>12. DoomedApart'
  BY <1>5 DEF IInv, DoomedApart, callVars
<1> QED
  BY <1>1, <1>6, <1>7, <1>8, <1>9, <1>10, <1>11, <1>12 DEF IInv

(* SliceRetain.                                                            *)
LEMMA SliceRetainInv ==
  ASSUME IInv, NEW h \in Handles, NEW g \in Handles, NEW q \in Cuts, SliceRetain(h, g, q)
  PROVE  IInv'
<1> SUFFICES ASSUME NEW x, x = env[h].obj PROVE IInv'
  OBVIOUS
<1> USE DEF SliceRetain, Retain, Shared, Vacant
<1>0. /\ x \in Objs /\ x \in Alive /\ g # h /\ rc[x] \in Nat
      /\ Compose(env[h].cut, q) \in Cuts /\ ref[g] = Nil /\ x # Nil
  BY OwnedAlive, ValueWhole, CutAssumption, RefMaxAssumption, NilAssumption DEF IInv, TypeOK, CallShape
<1>1. TypeOK'
  BY <1>0, RefMaxAssumption DEF IInv, TypeOK
<1>2. ASSUME NEW o \in Objs \ {x} PROVE Owners(o)' = Owners(o) /\ rc'[o] = rc[o]
  <2>1. \A f \in Handles : ref'[f] = o <=> ref[f] = o
    BY <1>0, NilAssumption DEF IInv, TypeOK
  <2>2. \A y \in Objs : rc'[y] > 0 <=> rc[y] > 0
    BY <1>0 DEF IInv, TypeOK, Alive
  <2> QED
    BY <2>1, <2>2, OwnersKept DEF IInv, TypeOK
<1>3. Owners(x)' = Owners(x) \cup {<<"call", g>>} /\ rc'[x] = rc[x] + 1 /\ <<"call", g>> \notin Owners(x)
  <2>1. \A f \in Handles : ref'[f] = x <=> f = g \/ ref[f] = x
    BY <1>0 DEF IInv, TypeOK
  <2>2. \A y \in Objs : rc'[y] > 0 <=> rc[y] > 0
    BY <1>0 DEF IInv, TypeOK, Alive
  <2>3. <<"call", g>> \notin Owners(x)
    BY <1>0, OwnersElements, NilAssumption DEF WhoOwns
  <2>4. Owners(x)' = (Owners(x) \ {}) \cup {<<"call", g>>}
    BY <1>0, <2>1, <2>2, CallGained
  <2> QED
    BY <1>0, <2>3, <2>4 DEF IInv, TypeOK
<1>4. \A o \in Objs : rc'[o] = Cardinality(Owners(o)')
  BY <1>0, <1>2, <1>3, OwnersFinite, CountGain DEF IInv, RefcountExact
<1>5. Alive' = Alive
  BY <1>0 DEF Alive, IInv, TypeOK
<1>6. RefcountExact'
  BY <1>4, <1>5 DEF IInv, RefcountExact, Alive
<1>7. WritesAlone'
  <2>1. <<"envelope", h>> \in Owners(x)
    BY OwnersElements DEF WhoOwns
  <2>2. \A f \in Handles : pc[f] \in {"write", "torn"} => env[f].obj \in Objs \ {x} /\ f # g
    BY <1>0, <2>1 DEF IInv, WritesAlone, CallShape, TypeOK
  <2> QED
    BY <2>2, <1>2, WritersFrame DEF IInv, TypeOK
<1>8. CallShape'
  BY <1>0, NilAssumption DEF IInv, CallShape, TypeOK
<1>9. EnvShape'
  BY DEF IInv, EnvShape
<1>10. Chained' /\ Grounded'
  BY <1>5, StructureFrame
<1>11. BytesSound'
  BY <1>0, <1>5, BytesFrame DEF IInv, TypeOK
<1>12. DoomedApart'
  BY <1>5 DEF IInv, DoomedApart
<1> QED
  BY <1>1, <1>6, <1>7, <1>8, <1>9, <1>10, <1>11, <1>12 DEF IInv

(* A step that moves no reference and frees nothing.                       *)
LEMMA QuietFrame ==
  ASSUME IInv, UNCHANGED <<live, rc, holder, base, env, ref, doomed>>
  PROVE  /\ RefcountExact' /\ EnvShape' /\ Chained' /\ Grounded' /\ DoomedApart'
         /\ Alive' = Alive /\ \A o \in Objs : Owners(o)' = Owners(o)
<1>1. Alive' = Alive
  BY DEF Alive
<1>2. \A o \in Objs : Owners(o)' = Owners(o)
  BY OwnersKept
<1>3. RefcountExact'
  BY <1>1, <1>2 DEF IInv, RefcountExact, Alive
<1>4. Chained' /\ Grounded'
  BY <1>1, StructureFrame
<1> QED
  BY <1>1, <1>2, <1>3, <1>4 DEF IInv, EnvShape, DoomedApart

(* MintFails.                                                              *)
LEMMA MintFailsInv ==
  ASSUME IInv, NEW g \in Handles, MintFails(g)
  PROVE  IInv'
<1> USE DEF MintFails, objVars
<1>1. /\ RefcountExact' /\ EnvShape' /\ Chained' /\ Grounded' /\ DoomedApart'
      /\ Alive' = Alive /\ \A o \in Objs : Owners(o)' = Owners(o)
  BY QuietFrame
<1>2. TypeOK'
  BY DEF IInv, TypeOK
<1>3. WritesAlone'
  BY <1>1, WritersFrame DEF IInv, CallShape, TypeOK
<1>4. CallShape'
  BY DEF IInv, CallShape, Shared, TypeOK
<1>5. BytesSound'
  BY <1>1, BytesFrame DEF IInv, TypeOK
<1> QED
  BY <1>1, <1>2, <1>3, <1>4, <1>5 DEF IInv

(* BeginWrite.                                                             *)
LEMMA BeginWriteInv ==
  ASSUME IInv, NEW h \in Handles, NEW c \in Contents, BeginWrite(h, c)
  PROVE  IInv'
<1> USE DEF BeginWrite, objVars
<1>1. /\ RefcountExact' /\ EnvShape' /\ Chained' /\ Grounded' /\ DoomedApart'
      /\ Alive' = Alive /\ \A o \in Objs : Owners(o)' = Owners(o)
  BY QuietFrame
<1>2. env[h].obj \in Objs /\ pc[h] = "idle" /\ env[h].obj # Nil
  BY DEF Exclusive, Shared, IInv, TypeOK
<1>3. PICK stage \in {"write", "copy"} : /\ stage = "write" => Unique(h)
                                        /\ pc' = [pc EXCEPT ![h] = stage]
  OBVIOUS
<1>4. TypeOK'
  BY <1>3 DEF IInv, TypeOK
<1>5. WritesAlone'
  <2>1. ASSUME stage = "write"
        PROVE  env[h].own /\ Owners(env[h].obj) = {<<"envelope", h>>}
    <3>0. env[h].own
      BY <1>3, <2>1 DEF Unique
    <3>1. Cardinality(Owners(env[h].obj)) = 1
      BY <1>2, <1>3, <2>1 DEF Unique, IInv, RefcountExact
    <3>2. PICK e : Owners(env[h].obj) = {e}
      BY <3>1, OwnersFinite, FS_Singleton
    <3>3. <<"envelope", h>> \in Owners(env[h].obj)
      BY OwnersElements DEF WhoOwns
    <3> QED
      BY <3>0, <3>2, <3>3
  <2>2. \A f \in Handles : pc'[f] \in {"write", "torn"} => env[f].obj \in Objs
    BY <1>2, <1>3 DEF IInv, CallShape, TypeOK
  <2>3. ASSUME NEW f \in Handles, pc'[f] \in {"write", "torn"}
        PROVE  env[f].own /\ Owners(env[f].obj) = {<<"envelope", f>>}
    BY <1>3, <2>1, <2>3 DEF IInv, WritesAlone, TypeOK
  <2> QED
    BY <1>1, <2>2, <2>3 DEF WritesAlone
<1>6. CallShape'
  BY <1>2, <1>3 DEF IInv, CallShape, Exclusive, Shared, Unique, TypeOK
<1>7. BytesSound'
  BY <1>1, <1>2, <1>3, BytesFrame DEF IInv, TypeOK
<1> QED
  BY <1>1, <1>4, <1>5, <1>6, <1>7 DEF IInv

(* BeginUnshare.                                                           *)
LEMMA BeginUnshareInv ==
  ASSUME IInv, NEW h \in Handles, BeginUnshare(h)
  PROVE  IInv'
<1> USE DEF BeginUnshare, objVars
<1>1. /\ RefcountExact' /\ EnvShape' /\ Chained' /\ Grounded' /\ DoomedApart'
      /\ Alive' = Alive /\ \A o \in Objs : Owners(o)' = Owners(o)
  BY QuietFrame
<1>2. env[h].obj \in Objs /\ pc[h] = "idle" /\ env[h].obj # Nil /\ Value(h) \in Contents
  BY ValueWhole DEF Exclusive, Shared, IInv, TypeOK
<1>3. TypeOK'
  BY <1>2 DEF IInv, TypeOK
<1>4. WritesAlone'
  BY <1>1, WritersFrame DEF IInv, CallShape, TypeOK
<1>5. CallShape'
  BY <1>2 DEF IInv, CallShape, Exclusive, Shared, TypeOK
<1>6. BytesSound'
  BY <1>1, <1>2, BytesFrame DEF IInv, TypeOK
<1> QED
  BY <1>1, <1>3, <1>4, <1>5, <1>6 DEF IInv

(* Tear.                                                                   *)
LEMMA TearInv ==
  ASSUME IInv, NEW h \in Handles, Tear(h)
  PROVE  IInv'
<1> USE DEF Tear
<1>1. /\ RefcountExact' /\ EnvShape' /\ Chained' /\ Grounded' /\ DoomedApart'
      /\ Alive' = Alive /\ \A o \in Objs : Owners(o)' = Owners(o)
  BY QuietFrame
<1>2. TypeOK'
  BY DEF IInv, TypeOK
<1>3. WritesAlone'
  BY <1>1, WritersFrame DEF IInv, CallShape, TypeOK
<1>4. CallShape'
  BY DEF IInv, CallShape, Shared, TypeOK
<1>5. BytesSound'
  BY <1>1 DEF IInv, BytesSound, TypeOK, Alive
<1> QED
  BY <1>1, <1>2, <1>3, <1>4, <1>5 DEF IInv

(* Settle.                                                                 *)
LEMMA SettleInv ==
  ASSUME IInv, NEW h \in Handles, Settle(h)
  PROVE  IInv'
<1> USE DEF Settle
<1>1. /\ RefcountExact' /\ EnvShape' /\ Chained' /\ Grounded' /\ DoomedApart'
      /\ Alive' = Alive /\ \A o \in Objs : Owners(o)' = Owners(o)
  BY QuietFrame
<1>2. TypeOK' /\ arg[h] \in Contents
  BY DEF IInv, TypeOK, CallShape
<1>3. WritesAlone'
  BY <1>1, WritersFrame DEF IInv, CallShape, TypeOK
<1>4. CallShape'
  BY DEF IInv, CallShape, Shared, TypeOK
<1>5. BytesSound'
  BY <1>1, <1>2 DEF IInv, BytesSound, TypeOK, Alive
<1> QED
  BY <1>1, <1>2, <1>3, <1>4, <1>5 DEF IInv

(* CopyFails.                                                              *)
LEMMA CopyFailsInv ==
  ASSUME IInv, NEW h \in Handles, CopyFails(h)
  PROVE  IInv'
<1> USE DEF CopyFails, objVars
<1>1. /\ RefcountExact' /\ EnvShape' /\ Chained' /\ Grounded' /\ DoomedApart'
      /\ Alive' = Alive /\ \A o \in Objs : Owners(o)' = Owners(o)
  BY QuietFrame
<1>2. TypeOK'
  BY DEF IInv, TypeOK
<1>3. WritesAlone'
  BY <1>1, WritersFrame DEF IInv, CallShape, TypeOK
<1>4. CallShape'
  BY DEF IInv, CallShape, Shared, TypeOK
<1>5. BytesSound'
  BY <1>1, BytesFrame DEF IInv, TypeOK
<1> QED
  BY <1>1, <1>2, <1>3, <1>4, <1>5 DEF IInv

(* CopyOut.                                                                *)
LEMMA CopyOutInv ==
  ASSUME IInv, NEW h \in Handles, NEW o \in Objs, CopyOut(h, o)
  PROVE  IInv'
<1> SUFFICES ASSUME NEW p, p = env[h].obj PROVE IInv'
  OBVIOUS
<1> USE DEF CopyOut, Allocate, Envelope
<1>0. /\ rc[o] = 0 /\ o \notin Alive /\ Owners(o) = {} /\ o # Nil
      /\ \A f \in Handles : env[f].obj # o /\ ref[f] # o /\ o \notin doomed[f]
      /\ \A x \in Alive : holder[x] # o /\ base[x] # o
  BY Unowned, NilAssumption
<1>1. p \in Objs /\ p # o /\ p # Nil /\ arg[h] \in Contents /\ doomed[h] = {} /\ ref[h] = Nil
  BY <1>0 DEF IInv, CallShape, TypeOK
<1>2. TypeOK'
  BY <1>1, RefMaxAssumption, WholeAssumption DEF IInv, TypeOK
<1>3. ASSUME NEW x \in Objs \ {o, p} PROVE Owners(x)' = Owners(x) /\ rc'[x] = rc[x]
  <2>1. \A f \in Handles : env'[f].obj = x <=> env[f].obj = x
    BY <1>1 DEF IInv, TypeOK
  <2>2. \A y \in Objs : holder'[y] = x /\ rc'[y] > 0 <=> holder[y] = x /\ rc[y] > 0
    BY <1>0, NilAssumption DEF IInv, TypeOK
  <2>3. \A f \in Handles : ref'[f] = x <=> ref[f] = x
    BY <1>1, NilAssumption DEF IInv, TypeOK
  <2> QED
    BY <2>1, <2>2, <2>3, OwnersKept DEF IInv, TypeOK
<1>4. Owners(o)' = (Owners(o) \ {}) \cup {<<"envelope", h>>} /\ rc'[o] = 1
  <2>1. \A f \in Handles : env'[f].obj = o <=> (f = h \/ env[f].obj = o)
    BY DEF IInv, TypeOK
  <2>2. \A y \in Objs : (holder'[y] = o /\ rc'[y] > 0) <=> (holder[y] = o /\ rc[y] > 0)
    BY <1>0 DEF IInv, TypeOK, Alive
  <2>3. \A f \in Handles : ref'[f] = o <=> ref[f] = o
    BY <1>0, <1>1 DEF IInv, TypeOK
  <2> QED
    BY <2>1, <2>2, <2>3, EnvelopeGained DEF IInv, TypeOK
<1>5. Owners(p)' = (Owners(p) \ {<<"envelope", h>>}) \cup {<<"call", h>>} /\ rc'[p] = rc[p]
  <2>1. \A f \in Handles : env'[f].obj = p <=> (env[f].obj = p /\ f # h)
    BY <1>1 DEF IInv, TypeOK
  <2>2. \A y \in Objs : (holder'[y] = p /\ rc'[y] > 0) <=> (holder[y] = p /\ rc[y] > 0)
    BY <1>0, <1>1 DEF IInv, TypeOK
  <2>3. \A f \in Handles : ref'[f] = p <=> (f = h \/ ref[f] = p)
    BY <1>1 DEF IInv, TypeOK
  <2>4. Owners(p)' = (Owners(p) \ {<<"envelope", h>>}) \cup {<<"call", h>>}
    BY <2>1, <2>2, <2>3, EnvelopeToCall
  <2> QED
    BY <1>1, <2>4 DEF IInv, TypeOK
<1>6. <<"envelope", h>> \in Owners(p) /\ <<"call", h>> \notin Owners(p)
  BY <1>1, OwnersElements DEF WhoOwns
<1>7. \A x \in Objs : rc'[x] = Cardinality(Owners(x)')
  <2>1. Owners(o)' = {<<"envelope", h>>}
    BY <1>0, <1>4
  <2>2. Cardinality(Owners(o)') = 1
    BY <2>1, FS_Singleton
  <2>3. Cardinality(Owners(p)') = Cardinality(Owners(p))
    BY <1>5, <1>6, OwnersFinite, CountSwap
  <2> QED
    BY <1>1, <1>3, <1>4, <1>5, <2>2, <2>3 DEF IInv, RefcountExact
<1>8. Alive' = Alive \cup {o} /\ Chained' /\ Grounded'
  BY StructureAlloc
<1>9. RefcountExact'
  BY <1>7, <1>8 DEF IInv, RefcountExact, Alive
<1>10. WritesAlone'
  <2>1. \A f \in Handles : pc'[f] \in {"write", "torn"} => env[f].obj \in Objs \ {o, p} /\ f # h
    BY <1>0, <1>6 DEF IInv, WritesAlone, CallShape, TypeOK
  <2> QED
    BY <1>3, <2>1, WritersFrame DEF IInv, TypeOK
<1>11. CallShape'
  BY <1>1 DEF IInv, CallShape, Shared, TypeOK
<1>12. EnvShape'
  BY <1>0, <1>1 DEF IInv, EnvShape, TypeOK
<1>13. BytesSound'
  BY <1>0, <1>1, <1>8 DEF IInv, BytesSound, TypeOK
<1>14. DoomedApart'
  BY <1>0, <1>8 DEF IInv, DoomedApart
<1> QED
  BY <1>2, <1>8, <1>9, <1>10, <1>11, <1>12, <1>13, <1>14 DEF IInv

(* Drop.                                                                   *)
LEMMA DropInv ==
  ASSUME IInv, NEW h \in Handles, Drop(h)
  PROVE  IInv'
<1> SUFFICES ASSUME NEW p, p = env[h].obj PROVE IInv'
  OBVIOUS
<1> USE DEF Drop, objVars, Empty
<1>1. p \in Objs /\ p # Nil /\ ref[h] = Nil /\ pc[h] = "idle" /\ doomed[h] = {}
  BY DEF IInv, CallShape, TypeOK, Exclusive, Shared
<1>2. TypeOK'
  BY <1>1, WholeAssumption DEF IInv, TypeOK
<1>3. ASSUME NEW x \in Objs \ {p} PROVE Owners(x)' = Owners(x)
  <2>1. \A f \in Handles : env'[f].obj = x <=> env[f].obj = x
    BY <1>1, NilAssumption DEF IInv, TypeOK
  <2>2. \A f \in Handles : ref'[f] = x <=> ref[f] = x
    BY <1>1, NilAssumption DEF IInv, TypeOK
  <2> QED
    BY <2>1, <2>2, OwnersKept DEF IInv, TypeOK
<1>4. Owners(p)' = (Owners(p) \ {<<"envelope", h>>}) \cup {<<"call", h>>}
  <2>1. \A f \in Handles : env'[f].obj = p <=> (env[f].obj = p /\ f # h)
    BY <1>1 DEF IInv, TypeOK
  <2>2. \A f \in Handles : ref'[f] = p <=> (f = h \/ ref[f] = p)
    BY <1>1 DEF IInv, TypeOK
  <2> QED
    BY <2>1, <2>2, EnvelopeToCall
<1>5. <<"envelope", h>> \in Owners(p) /\ <<"call", h>> \notin Owners(p)
  BY <1>1, OwnersElements DEF WhoOwns
<1>6. Alive' = Alive
  BY DEF Alive
<1>7. RefcountExact'
  <2>1. Cardinality(Owners(p)') = Cardinality(Owners(p))
    BY <1>4, <1>5, OwnersFinite, CountSwap
  <2> QED
    BY <1>1, <1>3, <1>6, <2>1 DEF IInv, RefcountExact, Alive
<1>8. WritesAlone'
  <2>1. \A f \in Handles : pc'[f] \in {"write", "torn"} => env[f].obj \in Objs \ {p} /\ f # h
    BY <1>5 DEF IInv, WritesAlone, CallShape, TypeOK
  <2> QED
    BY <1>3, <2>1, WritersFrame DEF IInv, TypeOK
<1>9. CallShape'
  BY <1>1 DEF IInv, CallShape, Exclusive, Shared, TypeOK
<1>10. EnvShape'
  BY DEF IInv, EnvShape, TypeOK
<1>11. Chained' /\ Grounded'
  BY <1>6, StructureFrame
<1>12. BytesSound'
  BY <1>1, <1>6, BytesFrame DEF IInv, TypeOK
<1>13. DoomedApart'
  BY <1>6 DEF IInv, DoomedApart
<1> QED
  BY <1>2, <1>7, <1>8, <1>9, <1>10, <1>11, <1>12, <1>13 DEF IInv

(* Release.                                                                *)
LEMMA ReleaseInv ==
  ASSUME IInv, NEW h \in Handles, Release(h)
  PROVE  IInv'
<1> SUFFICES ASSUME NEW p, p = ref[h] PROVE IInv'
  OBVIOUS
<1> USE DEF Release
<1>1. p \in Objs /\ p # Nil /\ p \in Alive /\ rc[p] \in Nat /\ rc[p] > 1
  <2>1. p \in Objs /\ p # Nil
    BY DEF IInv, CallShape, TypeOK
  <2>2. p \in Alive
    BY <2>1, OwnedAlive DEF IInv
  <2> QED
    BY <2>1, <2>2, RefMaxAssumption DEF IInv, TypeOK, Alive
<1>2. TypeOK'
  BY <1>1, RefMaxAssumption DEF IInv, TypeOK
<1>3. \A y \in Objs : rc'[y] > 0 <=> rc[y] > 0
  BY <1>1 DEF IInv, TypeOK
<1>4. ASSUME NEW x \in Objs \ {p} PROVE Owners(x)' = Owners(x) /\ rc'[x] = rc[x]
  <2>1. \A f \in Handles : ref'[f] = x <=> ref[f] = x
    BY <1>1, NilAssumption DEF IInv, TypeOK
  <2> QED
    BY <1>3, <2>1, OwnersKept DEF IInv, TypeOK
<1>5. Owners(p)' = (Owners(p) \ {<<"call", h>>}) \cup {} /\ rc'[p] = rc[p] - 1
  <2>1. \A f \in Handles : ref'[f] = p <=> (ref[f] = p /\ f # h)
    BY <1>1 DEF IInv, TypeOK
  <2>2. Owners(p)' = (Owners(p) \ {<<"call", h>>}) \cup {}
    BY <1>3, <2>1, CallLost
  <2> QED
    BY <1>1, <2>2 DEF IInv, TypeOK
<1>6. <<"call", h>> \in Owners(p)
  BY OwnersElements DEF WhoOwns
<1>7. Alive' = Alive
  BY <1>3 DEF Alive
<1>8. RefcountExact'
  <2>1. Cardinality(Owners(p)') = Cardinality(Owners(p)) - 1
    BY <1>5, <1>6, OwnersFinite, CountLoss
  <2>2. rc[p] = Cardinality(Owners(p))
    BY <1>1 DEF IInv, RefcountExact
  <2>3. \A x \in Objs : rc'[x] = Cardinality(Owners(x)')
    BY <1>4, <1>5, <2>1, <2>2 DEF IInv, RefcountExact
  <2> QED
    BY <1>7, <2>3 DEF IInv, RefcountExact, Alive
<1>9. WritesAlone'
  <2>1. \A f \in Handles : pc'[f] \in {"write", "torn"} =>
           pc[f] \in {"write", "torn"} /\ env[f].obj \in Objs \ {p}
    BY <1>6 DEF IInv, WritesAlone, CallShape, TypeOK
  <2> QED
    BY <1>4, <2>1, WritersFrame DEF IInv, TypeOK
<1>10. CallShape'
  BY <1>1 DEF IInv, CallShape, Shared, TypeOK
<1>11. EnvShape'
  BY DEF IInv, EnvShape
<1>12. Chained' /\ Grounded'
  BY <1>7, StructureFrame
<1>13. BytesSound'
  BY <1>1, <1>7, BytesFrame DEF IInv, TypeOK
<1>14. DoomedApart'
  BY <1>7 DEF IInv, DoomedApart
<1> QED
  BY <1>2, <1>8, <1>9, <1>10, <1>11, <1>12, <1>13, <1>14 DEF IInv

(* ReleaseLast: the struct stops owning, and the call owns what it held.   *)
LEMMA ReleaseLastInv ==
  ASSUME IInv, NEW h \in Handles, ReleaseLast(h)
  PROVE  IInv'
<1> SUFFICES ASSUME NEW o, o = ref[h], NEW p, p = holder[o] PROVE IInv'
  OBVIOUS
<1> USE DEF ReleaseLast
<1>1. o \in Objs /\ o # Nil /\ o \in Alive /\ rc[o] = 1 /\ p \in Objs \cup {Nil}
  <2>1. o \in Objs /\ o # Nil
    BY DEF IInv, CallShape, TypeOK
  <2>2. o \in Alive
    BY <2>1, OwnedAlive DEF IInv
  <2> QED
    BY <2>1, <2>2 DEF IInv, TypeOK
<1>2. Owners(o) = {<<"call", h>>}
  <2>1. PICK e : Owners(o) = {e}
    BY <1>1, OwnersFinite, FS_Singleton DEF IInv, RefcountExact
  <2>2. <<"call", h>> \in Owners(o)
    BY OwnersElements DEF WhoOwns
  <2> QED
    BY <2>1, <2>2
<1>3. /\ \A f \in Handles : env[f].obj # o /\ (ref[f] = o => f = h)
      /\ \A x \in Alive : holder[x] # o
      /\ p # o
  <2>1. ASSUME NEW f \in Handles PROVE env[f].obj # o /\ (ref[f] = o => f = h)
    <3>1. WhoOwns(o)
      BY OwnersElements
    <3>2. <<"envelope", f>> # <<"call", h>> /\ (<<"call", f>> = <<"call", h>> => f = h)
      OBVIOUS
    <3> QED
      BY <1>2, <3>1, <3>2 DEF WhoOwns
  <2>2. ASSUME NEW x \in Alive, holder[x] = o PROVE FALSE
    <3>1. <<"holder", x>> \in Owners(o)
      BY <2>2, OwnersElements DEF WhoOwns, Alive
    <3> QED
      BY <1>2, <3>1
  <2> QED
    BY <1>1, <2>1, <2>2
<1>4. TypeOK'
  BY <1>1, RefMaxAssumption DEF IInv, TypeOK
<1>5. ASSUME NEW x \in Objs \ {o, p} PROVE Owners(x)' = Owners(x) /\ rc'[x] = rc[x]
  <2>1. \A f \in Handles : ref'[f] = x <=> ref[f] = x
    BY DEF IInv, TypeOK
  <2>2. \A y \in Objs : holder'[y] = x /\ rc'[y] > 0 <=> holder[y] = x /\ rc[y] > 0
    BY <1>1 DEF IInv, TypeOK
  <2> QED
    BY <2>1, <2>2, OwnersKept DEF IInv, TypeOK
<1>6. Owners(o)' = (Owners(o) \ {<<"call", h>>}) \cup {} /\ rc'[o] = 0
  <2>1. \A f \in Handles : ref'[f] = o <=> (ref[f] = o /\ f # h)
    BY <1>3 DEF IInv, TypeOK
  <2>2. \A y \in Objs : (holder'[y] = o /\ rc'[y] > 0) <=> (holder[y] = o /\ rc[y] > 0)
    BY <1>1, <1>3 DEF IInv, TypeOK
  <2>3. Owners(o)' = (Owners(o) \ {<<"call", h>>}) \cup {}
    BY <2>1, <2>2, CallLost
  <2> QED
    BY <1>1, <2>3 DEF IInv, TypeOK
<1>7. ASSUME p # Nil
      PROVE  /\ Owners(p)' = (Owners(p) \ {<<"holder", o>>}) \cup {<<"call", h>>}
             /\ rc'[p] = rc[p]
             /\ Cardinality(Owners(p)') = Cardinality(Owners(p))
             /\ <<"holder", o>> \in Owners(p)
  <2>1. \A f \in Handles : ref'[f] = p <=> (f = h \/ ref[f] = p)
    BY <1>3 DEF IInv, TypeOK
  <2>2. \A y \in Objs : (holder'[y] = p /\ rc'[y] > 0) <=> ((holder[y] = p /\ rc[y] > 0) /\ y # o)
    BY <1>1 DEF IInv, TypeOK
  <2>3. Owners(p)' = (Owners(p) \ {<<"holder", o>>}) \cup {<<"call", h>>}
    BY <1>1, <2>1, <2>2, HolderToCall
  <2>4. <<"holder", o>> \in Owners(p) /\ <<"call", h>> \notin Owners(p)
    BY <1>1, <1>3, OwnersElements DEF WhoOwns
  <2> QED
    BY <1>1, <1>3, <1>7, <2>3, <2>4, OwnersFinite, CountSwap DEF IInv, TypeOK
<1>8. \A x \in Objs : rc'[x] = Cardinality(Owners(x)')
  <2>1. Owners(o)' = {}
    BY <1>2, <1>6
  <2>2. Cardinality(Owners(o)') = 0
    BY <2>1, FS_EmptySet
  <2> QED
    BY <1>5, <1>6, <1>7, <2>2, NilAssumption DEF IInv, RefcountExact
<1>9. Alive' = Alive \ {o}
  BY <1>1 DEF Alive, IInv, TypeOK
<1>10. RefcountExact'
  <2>1. UNION {doomed'[f] : f \in Handles} = (UNION {doomed[f] : f \in Handles}) \cup {o}
    BY DEF IInv, TypeOK
  <2>2. live' = {x \in Objs : rc'[x] > 0} \cup UNION {doomed'[f] : f \in Handles}
    BY <1>1, <1>9, <2>1 DEF IInv, RefcountExact, Alive
  <2> QED
    BY <1>8, <2>2 DEF RefcountExact
<1>11. WritesAlone'
  <2>1. \A f \in Handles : pc'[f] \in {"write", "torn"} =>
           pc[f] \in {"write", "torn"} /\ env[f].obj \in Objs \ {o, p}
    BY <1>2, <1>3, <1>7, NilAssumption DEF IInv, WritesAlone, CallShape, TypeOK
  <2> QED
    BY <1>5, <2>1, WritersFrame DEF IInv, TypeOK
<1>12. CallShape'
  BY <1>1 DEF IInv, CallShape, Shared, TypeOK
<1>13. EnvShape'
  BY DEF IInv, EnvShape
<1>14. Chained'
  BY <1>3, <1>9 DEF IInv, Chained
<1>15. Grounded'
  BY <1>9 DEF IInv, Grounded
<1>16. BytesSound'
  BY <1>9 DEF IInv, BytesSound, TypeOK
<1>17. DoomedApart'
  BY <1>1, <1>9 DEF IInv, DoomedApart, TypeOK
<1> QED
  BY <1>4, <1>10, <1>11, <1>12, <1>13, <1>14, <1>15, <1>16, <1>17 DEF IInv

(* Free.                                                                   *)
LEMMA FreeInv ==
  ASSUME IInv, NEW h \in Handles, NEW o \in Objs, Free(h, o)
  PROVE  IInv'
<1> USE DEF Free
<1>1. o \notin Alive /\ rc[o] = 0
  BY RefMaxAssumption DEF IInv, DoomedApart, Alive, TypeOK
<1>2. TypeOK'
  BY DEF IInv, TypeOK
<1>3. Alive' = Alive /\ \A x \in Alive : x # o
  BY <1>1 DEF Alive
<1>4. \A x \in Objs : Owners(x)' = Owners(x)
  BY <1>1, OwnersKept DEF IInv, TypeOK
<1>5. RefcountExact'
  <2>1. UNION {doomed'[f] : f \in Handles} = (UNION {doomed[f] : f \in Handles}) \ {o}
    BY DEF IInv, DoomedApart, TypeOK
  <2>2. live' = {x \in Objs : rc'[x] > 0} \cup UNION {doomed'[f] : f \in Handles}
    BY <1>1, <2>1 DEF IInv, RefcountExact, Alive
  <2> QED
    BY <1>4, <2>2 DEF IInv, RefcountExact
<1>6. WritesAlone'
  BY <1>4, WritersFrame DEF IInv, CallShape, TypeOK
<1>7. CallShape'
  BY DEF IInv, CallShape, Shared, TypeOK
<1>8. EnvShape'
  BY DEF IInv, EnvShape, TypeOK
<1>9. Chained' /\ Grounded'
  BY <1>3, StructureFrame DEF IInv, TypeOK, Alive
<1>10. BytesSound'
  BY <1>3, BytesFrame DEF IInv, TypeOK, Alive
<1>11. DoomedApart'
  BY <1>3 DEF IInv, DoomedApart, TypeOK
<1> QED
  BY <1>2, <1>5, <1>6, <1>7, <1>8, <1>9, <1>10, <1>11 DEF IInv

-----------------------------------------------------------------------------
(* The invariant holds at the start.                                       *)
LEMMA InitInv == Init => IInv
<1> SUFFICES ASSUME Init PROVE IInv
  OBVIOUS
<1> USE DEF Init, Empty
<1>1. TypeOK
  BY RefMaxAssumption, WholeAssumption DEF TypeOK
<1>2. Alive = {}
  BY DEF Alive
<1>3. RefcountExact
  <2>1. ASSUME NEW o \in Objs PROVE Owners(o) = {}
    BY NilAssumption, OwnersElements DEF WhoOwns
  <2>2. \A o \in Objs : rc[o] = 0 /\ Cardinality(Owners(o)) = 0
    BY <2>1, FS_EmptySet
  <2>3. live = {o \in Objs : rc[o] > 0} \cup UNION {doomed[h] : h \in Handles}
    BY <2>2
  <2> QED
    BY <2>2, <2>3 DEF RefcountExact
<1>4. WritesAlone /\ CallShape /\ EnvShape
  BY DEF WritesAlone, CallShape, EnvShape
<1> QED
  BY <1>1, <1>2, <1>3, <1>4 DEF IInv, Chained, Grounded, DoomedApart, BytesSound

(* Every step of every handle keeps it.                                    *)
LEMMA NextInv == IInv /\ [Next]_vars => IInv'
<1> SUFFICES ASSUME IInv, [Next]_vars PROVE IInv'
  OBVIOUS
<1>1. ASSUME NEW h \in Handles, Step(h) PROVE IInv'
  BY <1>1, MintInv, CopyOutInv, FreeInv, MintFailsInv, TearInv, SettleInv, CopyFailsInv,
     ReleaseInv, ReleaseLastInv DEF Step
<1>2. ASSUME NEW h \in Handles, Call(h) PROVE IInv'
  BY <1>2, NewInv, CloneInv, SliceDirectInv, SliceRetainInv, BeginWriteInv, BeginUnshareInv,
     DropInv DEF Call
<1>3. ASSUME UNCHANGED vars PROVE IInv'
  <2>1. Alive' = Alive /\ \A o \in Objs : Owners(o)' = Owners(o)
    BY <1>3, QuietFrame DEF vars, objVars, callVars
  <2> QED
    BY <1>3, <2>1 DEF vars, objVars, callVars, IInv, TypeOK, RefcountExact, WritesAlone, CallShape,
       Shared, EnvShape, Chained, Grounded, DoomedApart, BytesSound, Alive
<1> QED
  BY <1>1, <1>2, <1>3 DEF Next

(* The invariant holds in every reachable state.                           *)
LEMMA Inductive == Spec => []IInv
BY InitInv, NextInv, PTL DEF Spec

(* The variables keep their types.                                         *)
THEOREM TypeCorrect == Spec => []TypeOK
<1>1. IInv => TypeOK
  BY DEF IInv
<1> QED
  BY <1>1, Inductive, PTL

(* Safety invariant 3 of cow_buffer.rs: the counts count the owners, and   *)
(* an object is allocated while it has one or is being torn down.          *)
THEOREM RefcountsAreExact == Spec => []RefcountExact
<1>1. IInv => RefcountExact
  BY DEF IInv
<1> QED
  BY <1>1, Inductive, PTL

(* Safety invariant 4: whoever writes a buffer is its only owner.          *)
THEOREM WritersAreAlone == Spec => []WritesAlone
<1>1. IInv => WritesAlone
  BY DEF IInv
<1> QED
  BY <1>1, Inductive, PTL

(* What an envelope reads, itself and at the bottom of any chain of views, *)
(* is allocated.                                                           *)
THEOREM ReadsArePinned == Spec => []BytesPinned
<1>1. IInv => BytesPinned
  <2> SUFFICES ASSUME IInv, NEW h \in Handles, env[h].obj # Nil
               PROVE  env[h].obj \in live /\ base[env[h].obj] \in live
    BY DEF BytesPinned
  <2>1. env[h].obj \in Objs /\ env[h].obj \in Alive /\ Alive \subseteq live
    BY OwnedAlive DEF IInv, TypeOK
  <2>2. base[env[h].obj] \in Alive
    BY <2>1, BaseAlive
  <2> QED
    BY <2>1, <2>2
<1> QED
  BY <1>1, Inductive, PTL

-----------------------------------------------------------------------------
(* Sharing is invisible: each step is a step of StringValues or changes no *)
(* value.                                                                  *)

Shown == [h \in Handles |-> ValueOf(h)]

(* A handle whose envelope and bytes a step leaves alone shows what it did.*)
LEMMA ValueKept ==
  ASSUME NEW h \in Handles, env'[h] = env[h],
         pc'[h] = "torn" <=> pc[h] = "torn",
         pc[h] = "torn" => arg'[h] = arg[h],
         env[h].obj # Nil /\ pc[h] # "torn" =>
            /\ base'[env[h].obj] = base[env[h].obj]
            /\ bytes'[base[env[h].obj]] = bytes[base[env[h].obj]]
  PROVE  ValueOf(h)' = ValueOf(h)
BY DEF ValueOf, Value

(* The same for all handles but some: the steps of the map.                *)
LEMMA ShownExcept ==
  ASSUME NEW g \in Handles, \A f \in Handles \ {g} : ValueOf(f)' = ValueOf(f), NEW v, ValueOf(g)' = v
  PROVE  Shown' = [Shown EXCEPT ![g] = v]
BY DEF Shown

(* A handle that shows something shows a content.                          *)
LEMMA ShownContent ==
  ASSUME IInv, NEW h \in Handles
  PROVE  /\ ValueOf(h) = Nil <=> env[h].obj = Nil
         /\ env[h].obj # Nil => ValueOf(h) \in Contents
<1>1. env[h].obj # Nil => ValueOf(h) \in Contents
  BY ValueWhole DEF IInv, CallShape, ValueOf
<1> QED
  BY <1>1, NilAssumption DEF ValueOf

(* Nothing a read goes to changes when a free object is allocated.         *)
LEMMA AllocKeeps ==
  ASSUME IInv, NEW o \in Objs, NEW c, NEW p, NEW b, Allocate(o, c, p, b),
         NEW h \in Handles, env[h].obj # Nil
  PROVE  /\ base'[env[h].obj] = base[env[h].obj]
         /\ bytes'[base[env[h].obj]] = bytes[base[env[h].obj]]
<1>1. env[h].obj \in Alive /\ env[h].obj \in Objs
  BY OwnedAlive DEF IInv, TypeOK
<1>2. o \notin Alive /\ base[env[h].obj] \in Alive
  BY <1>1, BaseAlive, Unowned DEF Allocate
<1> QED
  BY <1>1, <1>2 DEF Allocate, IInv, TypeOK

(* Nothing a read goes to changes when another handle writes.              *)
LEMMA WriteKeeps ==
  ASSUME IInv, NEW h \in Handles, pc[h] \in {"write", "torn"}, NEW c,
         bytes' = [bytes EXCEPT ![env[h].obj] = c],
         NEW g \in Handles \ {h}, env[g].obj # Nil
  PROVE  bytes'[base[env[g].obj]] = bytes[base[env[g].obj]]
<1>1. base[env[g].obj] # env[h].obj
  BY SoleReader
<1> QED
  BY <1>1 DEF IInv, TypeOK

(* What the owner of a buffer shows is the buffer.                         *)
LEMMA OwnerShows ==
  ASSUME IInv, NEW h \in Handles, env[h].own
  PROVE  env[h].obj \in Objs /\ base[env[h].obj] = env[h].obj /\ env[h].cut = Whole
<1>1. env[h].obj \in Objs /\ holder[env[h].obj] = Nil /\ env[h].cut = Whole
  BY DEF IInv, EnvShape, TypeOK
<1>2. env[h].obj \in Alive
  BY <1>1, OwnedAlive DEF IInv
<1> QED
  BY <1>1, <1>2, NilAssumption DEF IInv, Chained, Alive

(* Each step of a call under way writes a value, delivers a slice or shows *)
(* nothing.                                                                *)
LEMMA StepMaps ==
  ASSUME IInv, NEW h \in Handles, Step(h)
  PROVE  Values!Next \/ UNCHANGED Shown
<1> DEFINE Goal == Values!Next \/ UNCHANGED Shown
<1>1. ASSUME NEW o \in Objs, Mint(h, o) PROVE Goal
  <2>1. PICK q \in Cuts : arg[h] = Compose(env[src[h]].cut, q)
    BY <1>1 DEF Mint, IInv, CallShape
  <2>2. /\ src[h] \in Handles /\ env[src[h]].obj = ref[h] /\ env[src[h]].obj # Nil
        /\ pc[src[h]] = "idle" /\ env[h].obj = Nil /\ ref[h] \in Objs
    BY <1>1, NilAssumption DEF Mint, IInv, CallShape, TypeOK, Shared
  <2>3. ASSUME NEW f \in Handles \ {h} PROVE ValueOf(f)' = ValueOf(f)
    BY <1>1, AllocKeeps, ValueKept DEF Mint, IInv, TypeOK
  <2>4. ValueOf(h)' = Cut(ValueOf(src[h]), q)
    <3>1. o # ref[h] /\ base[ref[h]] # o /\ ref[h] \in Alive /\ o # Nil
      BY <1>1, <2>2, Unowned, OwnedAlive, NilAssumption DEF Mint, Allocate, IInv
    <3>2. ValueOf(h)' = Cut(bytes[base[ref[h]]], arg[h])
      BY <1>1, <2>2, <3>1 DEF Mint, Allocate, Envelope, ValueOf, Value, IInv, TypeOK
    <3>3. ValueOf(src[h]) = Cut(bytes[base[ref[h]]], env[src[h]].cut)
      BY <2>2 DEF ValueOf, Value
    <3>4. bytes[base[ref[h]]] \in Contents /\ env[src[h]].cut \in Cuts
      BY <2>2, ValueWhole
    <3> QED
      BY <2>1, <3>2, <3>3, <3>4, CutAssumption
  <2>5. Shown[h] = Nil /\ Shown[src[h]] # Nil /\ Shown[src[h]] = ValueOf(src[h])
    BY <2>2, ShownContent DEF Shown
  <2>6. Shown' = [Shown EXCEPT ![h] = Cut(Shown[src[h]], q)]
    BY <2>3, <2>4, <2>5, ShownExcept
  <2>7. Values!Slice(src[h], h, q)
    BY <2>5, <2>6 DEF Values!Slice, Shown
  <2> QED
    BY <2>2, <2>7 DEF Values!Next
<1>2. ASSUME NEW o \in Objs, CopyOut(h, o) PROVE Goal
  <2>1. env[h].obj # Nil /\ arg[h] \in Contents /\ o # Nil
    BY <1>2, NilAssumption DEF CopyOut, IInv, CallShape
  <2>2. ASSUME NEW f \in Handles \ {h} PROVE ValueOf(f)' = ValueOf(f)
    BY <1>2, AllocKeeps, ValueKept DEF CopyOut, IInv, TypeOK
  <2>3. ValueOf(h)' = arg[h]
    BY <1>2, <2>1, WholeAssumption DEF CopyOut, Allocate, Envelope, ValueOf, Value, IInv, TypeOK
  <2>4. Shown[h] # Nil
    BY <2>1, ShownContent DEF Shown
  <2>5. Shown' = [Shown EXCEPT ![h] = arg[h]]
    BY <2>2, <2>3, ShownExcept
  <2>6. Values!Write(h, arg[h])
    BY <2>4, <2>5 DEF Values!Write, Shown
  <2> QED
    BY <2>1, <2>6 DEF Values!Next
<1>3. ASSUME Tear(h) PROVE Goal
  <2>1. env[h].obj # Nil /\ arg[h] \in Contents /\ pc[h] = "write"
    BY <1>3 DEF Tear, IInv, CallShape
  <2>2. ASSUME NEW f \in Handles \ {h} PROVE ValueOf(f)' = ValueOf(f)
    BY <1>3, <2>1, WriteKeeps, ValueKept DEF Tear, IInv, TypeOK
  <2>3. ValueOf(h)' = arg[h]
    BY <1>3, <2>1 DEF Tear, ValueOf, IInv, TypeOK
  <2>4. Shown[h] # Nil
    BY <2>1, ShownContent DEF Shown
  <2>5. Shown' = [Shown EXCEPT ![h] = arg[h]]
    BY <2>2, <2>3, ShownExcept
  <2>6. Values!Write(h, arg[h])
    BY <2>4, <2>5 DEF Values!Write, Shown
  <2> QED
    BY <2>1, <2>6 DEF Values!Next
<1>4. ASSUME \A f \in Handles : ValueOf(f)' = ValueOf(f) PROVE Goal
  BY <1>4 DEF Shown
<1>5. ASSUME Settle(h) PROVE \A f \in Handles : ValueOf(f)' = ValueOf(f)
  <2>1. env[h].own /\ env[h].obj # Nil /\ arg[h] \in Contents /\ pc[h] = "torn"
    BY <1>5 DEF Settle, IInv, CallShape
  <2>2. ASSUME NEW f \in Handles \ {h} PROVE ValueOf(f)' = ValueOf(f)
    BY <1>5, <2>1, WriteKeeps, ValueKept DEF Settle, IInv, TypeOK
  <2>3. ValueOf(h)' = ValueOf(h)
    BY <1>5, <2>1, OwnerShows, WholeAssumption DEF Settle, ValueOf, Value, IInv, TypeOK
  <2> QED
    BY <2>2, <2>3
<1>6. ASSUME NEW o \in Objs, Free(h, o) PROVE \A f \in Handles : ValueOf(f)' = ValueOf(f)
  <2>1. o \notin Alive
    BY <1>6 DEF Free, IInv, DoomedApart
  <2>2. ASSUME NEW f \in Handles, env[f].obj # Nil
        PROVE  base'[env[f].obj] = base[env[f].obj] /\ bytes'[base[env[f].obj]] = bytes[base[env[f].obj]]
    <3>1. env[f].obj \in Objs /\ env[f].obj \in Alive /\ base[env[f].obj] \in Alive
      BY <2>2, OwnedAlive, BaseAlive DEF IInv, TypeOK
    <3> QED
      BY <1>6, <2>1, <3>1 DEF Free, IInv, TypeOK
  <2> QED
    BY <1>6, <2>2, ValueKept DEF Free, IInv, TypeOK
<1>7. ASSUME MintFails(h) \/ CopyFails(h) \/ Release(h) \/ ReleaseLast(h)
      PROVE  \A f \in Handles : ValueOf(f)' = ValueOf(f)
  BY <1>7, ValueKept DEF MintFails, CopyFails, Release, ReleaseLast, objVars, IInv, TypeOK
<1> QED
  BY <1>1, <1>2, <1>3, <1>4, <1>5, <1>6, <1>7 DEF Step

(* Each start of a call creates, clones, slices or drops a value, or shows *)
(* nothing yet.                                                            *)
LEMMA CallMaps ==
  ASSUME IInv, NEW h \in Handles, Call(h)
  PROVE  Values!Next \/ UNCHANGED Shown
<1> DEFINE Goal == Values!Next \/ UNCHANGED Shown
<1>1. ASSUME NEW o \in Objs, NEW own \in BOOLEAN, NEW c \in Contents, New(h, o, own, c) PROVE Goal
  <2>1. env[h].obj = Nil /\ o # Nil /\ pc[h] = "idle"
    BY <1>1, NilAssumption DEF New, Vacant
  <2>2. ASSUME NEW f \in Handles \ {h} PROVE ValueOf(f)' = ValueOf(f)
    BY <1>1, AllocKeeps, ValueKept DEF New, callVars, IInv, TypeOK
  <2>3. ValueOf(h)' = c
    BY <1>1, <2>1, WholeAssumption DEF New, Allocate, Envelope, ValueOf, Value, callVars, IInv, TypeOK
  <2>4. Shown[h] = Nil
    BY <2>1, ShownContent DEF Shown
  <2>5. Shown' = [Shown EXCEPT ![h] = c]
    BY <2>2, <2>3, ShownExcept
  <2>6. Values!New(h, c)
    BY <2>4, <2>5 DEF Values!New, Shown
  <2> QED
    BY <2>6 DEF Values!Next
<1>2. ASSUME NEW g \in Handles, Clone(h, g) PROVE Goal
  <2>1. env[g].obj = Nil /\ env[h].obj # Nil /\ pc[h] = "idle" /\ pc[g] = "idle"
    BY <1>2 DEF Clone, Shared, Vacant
  <2>2. ASSUME NEW f \in Handles \ {g} PROVE ValueOf(f)' = ValueOf(f)
    BY <1>2, ValueKept DEF Clone, callVars, IInv, TypeOK
  <2>3. ValueOf(g)' = ValueOf(h)
    BY <1>2, <2>1 DEF Clone, ValueOf, Value, callVars, IInv, TypeOK
  <2>4. Shown[h] # Nil /\ Shown[g] = Nil /\ Shown[h] = ValueOf(h)
    BY <2>1, ShownContent DEF Shown
  <2>5. Shown' = [Shown EXCEPT ![g] = Shown[h]]
    BY <2>2, <2>3, <2>4, ShownExcept
  <2>6. Values!Clone(h, g)
    BY <2>4, <2>5 DEF Values!Clone, Shown
  <2> QED
    BY <2>6 DEF Values!Next
<1>3. ASSUME NEW g \in Handles, NEW q \in Cuts, SliceDirect(h, g, q) PROVE Goal
  <2>1. env[g].obj = Nil /\ env[h].obj # Nil /\ pc[h] = "idle" /\ pc[g] = "idle"
    BY <1>3 DEF SliceDirect, Shared, Vacant
  <2>2. ASSUME NEW f \in Handles \ {g} PROVE ValueOf(f)' = ValueOf(f)
    BY <1>3, ValueKept DEF SliceDirect, callVars, IInv, TypeOK
  <2>3. ValueOf(g)' = Cut(ValueOf(h), q)
    <3>1. bytes[base[env[h].obj]] \in Contents /\ env[h].cut \in Cuts
      BY <2>1, ValueWhole
    <3>2. ValueOf(g)' = Cut(bytes[base[env[h].obj]], Compose(env[h].cut, q))
      BY <1>3, <2>1 DEF SliceDirect, Envelope, ValueOf, Value, callVars, IInv, TypeOK
    <3>3. ValueOf(h) = Cut(bytes[base[env[h].obj]], env[h].cut)
      BY <2>1 DEF ValueOf, Value
    <3> QED
      BY <3>1, <3>2, <3>3, CutAssumption
  <2>4. Shown[h] # Nil /\ Shown[g] = Nil /\ Shown[h] = ValueOf(h)
    BY <2>1, ShownContent DEF Shown
  <2>5. Shown' = [Shown EXCEPT ![g] = Cut(Shown[h], q)]
    BY <2>2, <2>3, <2>4, ShownExcept
  <2>6. Values!Slice(h, g, q)
    BY <2>4, <2>5 DEF Values!Slice, Shown
  <2> QED
    BY <2>6 DEF Values!Next
<1>4. ASSUME Drop(h) PROVE Goal
  <2>1. env[h].obj # Nil /\ pc[h] = "idle"
    BY <1>4 DEF Drop, Exclusive, Shared
  <2>2. ASSUME NEW f \in Handles \ {h} PROVE ValueOf(f)' = ValueOf(f)
    BY <1>4, ValueKept DEF Drop, objVars, IInv, TypeOK
  <2>3. ValueOf(h)' = Nil
    BY <1>4 DEF Drop, Empty, ValueOf, IInv, TypeOK
  <2>4. Shown[h] # Nil
    BY <2>1, ShownContent DEF Shown
  <2>5. Shown' = [Shown EXCEPT ![h] = Nil]
    BY <2>2, <2>3, ShownExcept
  <2>6. Values!Drop(h)
    BY <2>4, <2>5 DEF Values!Drop, Shown
  <2> QED
    BY <2>6 DEF Values!Next
<1>5. ASSUME NEW g \in Handles, NEW q \in Cuts, SliceRetain(h, g, q)
      PROVE  \A f \in Handles : ValueOf(f)' = ValueOf(f)
  BY <1>5, ValueKept DEF SliceRetain, Vacant, IInv, TypeOK
<1>6. ASSUME NEW c \in Contents, BeginWrite(h, c) PROVE \A f \in Handles : ValueOf(f)' = ValueOf(f)
  BY <1>6, ValueKept DEF BeginWrite, Exclusive, Shared, objVars, IInv, TypeOK
<1>7. ASSUME BeginUnshare(h) PROVE \A f \in Handles : ValueOf(f)' = ValueOf(f)
  BY <1>7, ValueKept DEF BeginUnshare, Exclusive, Shared, objVars, IInv, TypeOK
<1>8. ASSUME \A f \in Handles : ValueOf(f)' = ValueOf(f) PROVE Goal
  BY <1>8 DEF Shown
<1> QED
  BY <1>1, <1>2, <1>3, <1>4, <1>5, <1>6, <1>7, <1>8 DEF Call

(* What perl-core promises: whatever is shared, copied, written in place   *)
(* or freed below, each handle has a value of its own (StringValues).      *)
THEOREM SharingIsInvisible == Spec => SharingInvisible
<1>1. Init => Values!Init
  BY DEF Init, Empty, ValueOf, Values!Init
<1>2. IInv /\ [Next]_vars => [Values!Next]_Shown
  <2> SUFFICES ASSUME IInv, [Next]_vars PROVE Values!Next \/ UNCHANGED Shown
    OBVIOUS
  <2>1. CASE UNCHANGED vars
    BY <2>1 DEF vars, objVars, callVars, Shown, ValueOf, Value
  <2> QED
    BY <2>1, StepMaps, CallMaps DEF Next
<1>3. IInv /\ [Next]_vars => [Values!Next]_([h \in Handles |-> ValueOf(h)])
  BY <1>2 DEF Shown
<1> QED
  BY <1>1, <1>3, Inductive, PTL DEF Spec, SharingInvisible, Values!Spec
=============================================================================
