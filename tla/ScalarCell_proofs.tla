-------------------------- MODULE ScalarCell_proofs --------------------------
(***************************************************************************)
(* What a scalar cell's readers are told, for any number of threads and    *)
(* any payloads: theorems about ScalarCell and the inductive invariant     *)
(* they rest on.                                                           *)
(***************************************************************************)
EXTENDS ScalarCell, TLAPS

(* The lock excludes, and a frozen cell has none to hold.                  *)
LockShape ==
  /\ writer # Nothing => readers = {}
  /\ shape = "Const" => writer = Nothing /\ readers = {}

(* Numifying starts from the value given, and happens to it once.          *)
NumifyShape ==
  /\ payload \in Descendants(given)
  /\ unnoted => shape = "Const"
  /\ noted \in {0, 1}
  /\ noted = 1 => /\ ~unnoted
                  /\ shape # "Const" => ~Warns(payload)

(* A coercion of the cell's value, or of the value numifying replaced.     *)
OfCell(v, x) == \E p \in {payload, given} : x = Coerce(v, p)

(* What a filled cache holds.                                              *)
CachesSound == \A v \in Views : valid[v] => OfCell(v, cache[v])

(* What a thread in the middle of a coercion has in hand.                  *)
CallShape ==
  \A t \in Threads :
    /\ at[t] # "idle" => shape = "Full" /\ Guarded(t)
    /\ at[t] = "load" => valid[view[t]]
    /\ at[t] \in {"set", "store", "publish"} => held[t] = Coerce(view[t], payload)
    /\ at[t] = "set" => view[t] = "string"
    /\ at[t] = "publish" => cache[view[t]] = Coerce(view[t], payload)
    /\ reply[t] # Nothing => Guarded(t) /\ OfCell(view[t], reply[t])

IInv == CellTypeOK /\ LockShape /\ NumifyShape /\ CachesSound /\ CallShape

USE DEF Writing, GoOn, Reply, cellVars, callVars

(* The cell as it is created: nothing cached, nobody asking.               *)
LEMMA InitInv == CellInit => IInv
<1> SUFFICES ASSUME CellInit PROVE IInv
  OBVIOUS
<1>1. CellTypeOK
  BY ViewsAssumption, WarnsAssumption DEF CellInit, CellTypeOK, NoCaches
<1>2. LockShape /\ CachesSound /\ CallShape
  BY DEF CellInit, LockShape, CachesSound, CallShape, NoCaches
<1>3. NumifyShape
  <2>1. payload \in Descendants(given)
    BY DEF CellInit, Descendants
  <2>2. (unnoted => shape = "Const") /\ noted = 0
    BY DEF CellInit
  <2> QED
    BY <2>1, <2>2 DEF NumifyShape
<1> QED
  BY <1>1, <1>2, <1>3 DEF IInv

(* What the guards and the coercions leave alone.                          *)
LEMMA CellFrame ==
  ASSUME IInv, UNCHANGED cellVars
  PROVE  NumifyShape' /\ \A v, x : OfCell(v, x)' <=> OfCell(v, x)
BY DEF IInv, NumifyShape, OfCell, Descendants

(* ReadLock and WriteLock.                                                 *)
LEMMA LockInv ==
  ASSUME IInv, NEW t \in Threads, ReadLock(t) \/ WriteLock(t)
  PROVE  IInv'
<1> USE DEF ReadLock, WriteLock
<1>1. CellTypeOK'
  BY DEF IInv, CellTypeOK
<1>2. LockShape'
  BY DEF IInv, LockShape
<1>3. CachesSound'
  BY CellFrame DEF IInv, CachesSound
<1>4. ASSUME NEW s \in Threads, Guarded(s) PROVE Guarded(s)'
  BY <1>4, ThreadsAssumption DEF IInv, Guarded, CellTypeOK
<1>5. CallShape'
  BY <1>4, CellFrame DEF IInv, CallShape
<1> QED
  BY <1>1, <1>2, <1>3, <1>5, CellFrame DEF IInv

(* Unlock: the answer goes with the guard.                                 *)
LEMMA UnlockInv ==
  ASSUME IInv, NEW t \in Threads, Unlock(t)
  PROVE  IInv'
<1> USE DEF Unlock
<1>1. CellTypeOK'
  BY ViewsAssumption DEF IInv, CellTypeOK
<1>2. LockShape'
  BY DEF IInv, LockShape
<1>3. CachesSound'
  BY CellFrame DEF IInv, CachesSound
<1>4. ASSUME NEW s \in Threads, s # t, Guarded(s) PROVE Guarded(s)'
  BY <1>4 DEF IInv, Guarded, CellTypeOK, LockShape
<1>5. ASSUME NEW s \in Threads
      PROVE  /\ s = t => at'[s] = "idle" /\ reply'[s] = Nothing
             /\ s # t => /\ at'[s] = at[s] /\ view'[s] = view[s]
                         /\ held'[s] = held[s] /\ reply'[s] = reply[s]
  BY DEF IInv, CellTypeOK
<1>6. CallShape'
  BY <1>4, <1>5, CellFrame DEF IInv, CallShape
<1> QED
  BY <1>1, <1>2, <1>3, <1>6, CellFrame DEF IInv

(* Ask: a cell that is not Full answers at once, from its payload.         *)
LEMMA AskInv ==
  ASSUME IInv, NEW t \in Threads, NEW v \in Views, Ask(t, v)
  PROVE  IInv'
<1> USE DEF Ask
<1>1. CellTypeOK'
  BY DEF IInv, CellTypeOK, Coerced
<1>2. LockShape'
  BY DEF IInv, LockShape
<1>3. CachesSound'
  BY CellFrame DEF IInv, CachesSound
<1>4. \A s \in Threads : Guarded(s)' <=> Guarded(s)
  BY DEF Guarded
<1>5. \A s \in Threads \ {t} :
        /\ at'[s] = at[s] /\ view'[s] = view[s] /\ reply'[s] = reply[s]
  BY DEF IInv, CellTypeOK
<1>6. /\ view'[t] = v /\ shape' = shape
      /\ shape # "Full" => at'[t] = "idle" /\ reply'[t] = Coerce(v, payload)
      /\ shape = "Full" => /\ at'[t] = IF valid[v] THEN "load" ELSE "compute"
                           /\ reply'[t] = Nothing
  BY DEF IInv, CellTypeOK
<1>7. OfCell(v, Coerce(v, payload))
  BY DEF OfCell
<1>8. CallShape'
  BY <1>4, <1>5, <1>6, <1>7, CellFrame DEF IInv, CallShape
<1> QED
  BY <1>1, <1>2, <1>3, <1>8, CellFrame DEF IInv

(* LoadCached, Compute and its failure: nothing shared changes.            *)
LEMMA LocalInv ==
  ASSUME IInv, NEW t \in Threads, LoadCached(t) \/ Compute(t) \/ ComputeFails(t)
  PROVE  IInv'
<1> USE DEF LoadCached, Compute, ComputeFails
<1>1. CellTypeOK'
  BY DEF IInv, CellTypeOK, Coerced
<1>2. LockShape'
  BY DEF IInv, LockShape
<1>3. CachesSound'
  BY CellFrame DEF IInv, CachesSound
<1>4. \A s \in Threads : Guarded(s)' <=> Guarded(s)
  BY DEF Guarded
<1>5. \A s \in Threads \ {t} :
        /\ at'[s] = at[s] /\ view'[s] = view[s]
        /\ held'[s] = held[s] /\ reply'[s] = reply[s]
  BY DEF IInv, CellTypeOK
<1>6. /\ view'[t] = view[t] /\ Guarded(t)
      /\ \/ /\ at'[t] = "idle"
            /\ reply'[t] # Nothing => OfCell(view[t], reply'[t])
         \/ /\ at'[t] \in {"set", "store"} /\ reply'[t] = Nothing
            /\ at'[t] = "set" => view[t] = "string"
            /\ held'[t] = Coerce(view[t], payload)
  BY DEF IInv, CellTypeOK, CallShape, CachesSound
<1>7. /\ UNCHANGED <<cache, valid, shape, payload>>
      /\ at[t] # "idle"
  BY DEF IInv, CellTypeOK
<1>8. CallShape'
  BY <1>4, <1>5, <1>6, <1>7, CellFrame DEF IInv, CallShape
<1> QED
  BY <1>1, <1>2, <1>3, <1>8, CellFrame DEF IInv

(* SetOnce, Store and Publish: whoever fills a slot, fills it with the     *)
(* coercion of the payload no writer can touch meanwhile.                  *)
LEMMA FillInv ==
  ASSUME IInv, NEW t \in Threads, SetOnce(t) \/ Store(t) \/ Publish(t)
  PROVE  IInv'
<1> USE DEF SetOnce, Store, Publish
<1>0. /\ view[t] \in Views /\ held[t] = Coerce(view[t], payload)
      /\ shape = "Full" /\ Guarded(t) /\ OfCell(view[t], held[t])
  BY DEF IInv, CallShape, CellTypeOK, OfCell
<1>1. CellTypeOK'
  <2>1. held[t] \in Coerced
    BY <1>0 DEF Coerced, IInv, CellTypeOK
  <2>2. /\ cache' \in [Views -> Coerced \cup {Nothing}]
        /\ valid' \in [Views -> BOOLEAN]
    BY <1>0, <2>1, ViewsAssumption DEF IInv, CellTypeOK
  <2>3. /\ at' \in [Threads -> {"idle", "load", "compute", "set", "store", "publish"}]
        /\ held' \in [Threads -> Coerced \cup {Nothing}]
        /\ reply' \in [Threads -> Coerced \cup {Nothing}]
    BY <1>0, <2>1 DEF IInv, CellTypeOK
  <2> QED
    BY <2>2, <2>3 DEF IInv, CellTypeOK
<1>2. LockShape'
  BY DEF IInv, LockShape
<1>3. \A s \in Threads : Guarded(s)' <=> Guarded(s)
  BY DEF Guarded
<1>4. \A s \in Threads \ {t} :
        /\ at'[s] = at[s] /\ view'[s] = view[s]
        /\ held'[s] = held[s] /\ reply'[s] = reply[s]
  BY DEF IInv, CellTypeOK
<1>5. /\ view'[t] = view[t]
      /\ \/ /\ at'[t] = "idle"
            /\ reply'[t] # Nothing => OfCell(view[t], reply'[t])
         \/ /\ at'[t] = "publish" /\ reply'[t] = Nothing
            /\ held'[t] = Coerce(view[t], payload)
            /\ cache'[view[t]] = Coerce(view[t], payload)
  BY <1>0 DEF IInv, CellTypeOK
<1>6. \A v \in Views : \/ cache'[v] = cache[v] /\ (valid'[v] => valid[v])
                       \/ cache'[v] = Coerce(v, payload)
  BY <1>0 DEF IInv, CellTypeOK, CallShape
<1>7. \A v \in Views : valid[v] => valid'[v]
  BY <1>0 DEF IInv, CellTypeOK
<1>8. CachesSound'
  <2>1. \A v \in Views : OfCell(v, Coerce(v, payload))
    BY DEF OfCell
  <2> QED
    BY <1>6, <2>1, CellFrame DEF IInv, CachesSound
<1>9. CallShape'
  <2>1. \A s \in Threads : view[s] \in Views
    BY DEF IInv, CellTypeOK
  <2>2. UNCHANGED <<shape, payload>>
    OBVIOUS
  <2> QED
    BY <1>0, <1>3, <1>4, <1>5, <1>6, <1>7, <2>1, <2>2, CellFrame DEF IInv, CallShape
<1> QED
  BY <1>1, <1>2, <1>8, <1>9, CellFrame DEF IInv

(* Under the write guard nobody else is asking, and its holder is between  *)
(* two questions.                                                          *)
LEMMA WriterIsAlone ==
  ASSUME IInv, NEW t \in Threads, Writing(t)
  PROVE  /\ shape # "Const" /\ ~unnoted
         /\ \A s \in Threads : at'[s] = "idle" /\ reply'[s] = Nothing
         /\ LockShape' = (shape' = "Const" => FALSE)
<1>1. writer = t /\ t # Nothing /\ readers = {} /\ shape # "Const"
  BY ThreadsAssumption DEF IInv, LockShape
<1>2. \A s \in Threads : s # t => ~Guarded(s)
  BY <1>1 DEF Guarded
<1>3. \A s \in Threads : at[s] = "idle" /\ (s # t => reply[s] = Nothing)
  BY <1>2 DEF IInv, CallShape
<1>4. \A s \in Threads : at'[s] = "idle" /\ reply'[s] = Nothing
  BY <1>3 DEF IInv, CellTypeOK
<1>5. LockShape' = (shape' = "Const" => FALSE)
  BY <1>1 DEF LockShape
<1> QED
  BY <1>1, <1>4, <1>5 DEF IInv, NumifyShape

(* Assign: a new value, with nothing cached.                               *)
LEMMA AssignInv ==
  ASSUME IInv, NEW t \in Threads, NEW p \in Payloads, Assign(t, p)
  PROVE  IInv'
<1> USE DEF Assign
<1>1. CellTypeOK'
  BY ViewsAssumption DEF IInv, CellTypeOK, NoCaches
<1>2. NumifyShape' /\ CachesSound'
  BY WriterIsAlone DEF IInv, NumifyShape, CachesSound, NoCaches, Descendants
<1>3. LockShape' /\ CallShape'
  BY WriterIsAlone DEF CallShape
<1> QED
  BY <1>1, <1>2, <1>3 DEF IInv

(* Upgrade and SetReadonly: the value and its caches stay.                 *)
LEMMA UpgradeInv ==
  ASSUME IInv, NEW t \in Threads, Upgrade(t) \/ \E b \in BOOLEAN : SetReadonly(t, b)
  PROVE  IInv'
<1> USE DEF Upgrade, SetReadonly
<1>1. CellTypeOK'
  BY ViewsAssumption DEF IInv, CellTypeOK
<1>2. NumifyShape' /\ CachesSound'
  BY WriterIsAlone DEF IInv, NumifyShape, CachesSound, Descendants, OfCell
<1>3. LockShape' /\ CallShape'
  BY WriterIsAlone DEF CallShape
<1> QED
  BY <1>1, <1>2, <1>3 DEF IInv

(* Numify and its failure: a payload that warns is the value given, so     *)
(* what is cached is of that value.                                        *)
LEMMA NumifyInv ==
  ASSUME IInv, NEW t \in Threads, Numify(t) \/ NumifyFails(t)
  PROVE  IInv'
<1> USE DEF Numify, NumifyFails
<1>1. payload = given /\ noted = 0
  BY WriterIsAlone, FaceAssumption, UndefAssumption DEF IInv, NumifyShape, Descendants, CellTypeOK
<1>2. /\ payload' \in Payloads /\ ~Warns(payload') /\ payload' \in Descendants(given)
      /\ given' = given
  BY <1>1, FaceAssumption, UndefAssumption DEF Descendants, IInv, CellTypeOK
<1>3. CellTypeOK'
  BY <1>1, <1>2, ViewsAssumption DEF IInv, CellTypeOK
<1>4. NumifyShape'
  BY <1>1, <1>2, WriterIsAlone DEF NumifyShape, Descendants
<1>5. CachesSound'
  BY <1>1, <1>2 DEF IInv, CachesSound, OfCell
<1>6. LockShape' /\ CallShape'
  BY WriterIsAlone DEF CallShape
<1> QED
  BY <1>3, <1>4, <1>5, <1>6 DEF IInv

(* Note: a frozen cell's warning has one taker.                            *)
LEMMA NoteInv ==
  ASSUME IInv, NEW t \in Threads, Note(t)
  PROVE  IInv'
<1> USE DEF Note
<1>1. shape = "Const" /\ noted = 0
  BY DEF IInv, NumifyShape
<1>2. CellTypeOK' /\ LockShape'
  <2>1. unnoted' \in BOOLEAN
    OBVIOUS
  <2>2. noted' \in Nat /\ readonly' \in BOOLEAN
    BY <1>1 DEF IInv, CellTypeOK
  <2>3. valid' \in [Views -> BOOLEAN]
    BY DEF IInv, CellTypeOK
  <2>4. CellTypeOK'
    BY <2>1, <2>2, <2>3 DEF IInv, CellTypeOK
  <2> QED
    BY <2>4 DEF IInv, LockShape
<1>4. NumifyShape'
  <2>1. payload' \in Descendants(given)'
    BY DEF IInv, NumifyShape, Descendants
  <2> QED
    BY <1>1, <2>1 DEF NumifyShape
<1>3. CachesSound' /\ CallShape'
  BY DEF IInv, CachesSound, CallShape, OfCell, Guarded
<1> QED
  BY <1>2, <1>3, <1>4 DEF IInv

LEMMA StepInv == IInv /\ [CellNext]_scalarVars => IInv'
<1> SUFFICES ASSUME IInv, [CellNext]_scalarVars PROVE IInv'
  OBVIOUS
<1>1. CASE UNCHANGED scalarVars
  BY <1>1 DEF scalarVars, IInv, CellTypeOK, LockShape, NumifyShape, CachesSound, CallShape, OfCell,
              Guarded, Descendants
<1>2. CASE CellNext
  <2>1. PICK t \in Threads : \/ ReadLock(t) \/ WriteLock(t) \/ Unlock(t)
                             \/ Coercion(t) \/ Write(t) \/ Note(t)
    BY <1>2 DEF CellNext
  <2>2. CASE Coercion(t)
    BY <2>2, AskInv, LocalInv, FillInv DEF Coercion
  <2>3. CASE Write(t)
    BY <2>3, AssignInv, UpgradeInv, NumifyInv DEF Write
  <2> QED
    BY <2>1, <2>2, <2>3, LockInv, UnlockInv, NoteInv
<1> QED
  BY <1>1, <1>2

LEMMA Invariance == CellSpec => []IInv
<1> QED
  BY InitInv, StepInv, PTL DEF CellSpec

(* Every variable of a cell keeps its type.                                *)
THEOREM TypeCorrect == CellSpec => []CellTypeOK
<1>1. IInv => CellTypeOK
  BY DEF IInv
<1> QED
  BY <1>1, Invariance, PTL

(* However many readers race to fill the caches, and whatever writers do   *)
(* between them, an answer is a coercion of the cell's value or of the     *)
(* value numifying replaced.                                               *)
THEOREM AnswersAreOfTheCell == CellSpec => []AnswersOfCell
<1>1. IInv => AnswersOfCell
  BY DEF IInv, CellTypeOK, AnswersOfCell, NumifyShape, CachesSound, CallShape, OfCell
<1> QED
  BY <1>1, Invariance, PTL

(* However many threads numify a cell, the value it was given warns once.  *)
THEOREM WarnsOnce == CellSpec => []WarnedOnce
<1>1. IInv => WarnedOnce
  BY DEF IInv, WarnedOnce, NumifyShape
<1> QED
  BY <1>1, Invariance, PTL

(* A readonly cell changes only by numifying the string it holds.          *)
THEOREM ReadonlyIsKept == CellSpec => ReadonlyKept
<1>1. ASSUME IInv, [CellNext]_scalarVars, readonly, payload' # payload
      PROVE  Warns(payload) /\ payload' \in Descendants(payload)
  <2>1. PICK t \in Threads : Write(t)
    BY <1>1 DEF CellNext, scalarVars, Coercion, ReadLock, WriteLock, Unlock, Ask, LoadCached, Compute,
                ComputeFails, SetOnce, Store, Publish, Note
  <2>2. Numify(t) \/ NumifyFails(t)
    BY <1>1, <2>1 DEF Write, Assign, Upgrade, SetReadonly
  <2> QED
    BY <2>2 DEF Numify, NumifyFails, Descendants
<1>2. IInv /\ [CellNext]_scalarVars => [readonly /\ payload' # payload
                                => Warns(payload) /\ payload' \in Descendants(payload)]_scalarVars
  BY <1>1
<1> QED
  BY <1>2, Invariance, PTL DEF CellSpec, ReadonlyKept
=============================================================================
