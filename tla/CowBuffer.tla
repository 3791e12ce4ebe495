------------------------------ MODULE CowBuffer ------------------------------
(***************************************************************************)
(* The shared storage below perl-core's strings (cow_buffer.rs and the     *)
(* callers in string.rs), with every handle working concurrently: heap     *)
(* buffers and adopted objects counted by an atomic, envelopes that own or *)
(* only view them, writes in place behind a uniqueness check, copies out   *)
(* of what is shared, slices that mint a side struct which pins its parent *)
(* and teardown down a chain of such structs.                              *)
(*                                                                         *)
(* A handle runs one call at a time and a call takes several steps; what a *)
(* caller may do meanwhile is what &self and &mut self allow.  Reaching    *)
(* the refcount ceiling aborts the process, so it ends the behaviour here. *)
(***************************************************************************)
EXTENDS Naturals, FiniteSets

CONSTANTS
  Handles,        \* the places a PString can live
  Objs,           \* allocations: heap buffers and Adopted structs
  Contents,       \* byte contents
  Cuts,           \* sub-ranges of a content
  Whole,          \* the cut that leaves everything
  Cut(_, _),      \* the content a cut leaves
  Compose(_, _),  \* Compose(p, q): cutting q out of what p leaves
  Torn,           \* bytes in the middle of a write
  Garbage,        \* bytes of a freed allocation
  Nil,            \* no object and no handle
  RefMax          \* REFCOUNT_CEILING

ASSUME FiniteAssumption == IsFiniteSet(Handles) /\ IsFiniteSet(Objs)
ASSUME NilAssumption == Nil \notin Objs \cup Handles \cup Contents \cup Cuts
ASSUME BytesAssumption == {Torn, Garbage} \cap Contents = {}
ASSUME RefMaxAssumption == RefMax \in Nat \ {0}
ASSUME WholeAssumption == Whole \in Cuts /\ \A c \in Contents : Cut(c, Whole) = c
ASSUME CutAssumption ==
  \A c \in Contents : \A p, q \in Cuts :
    /\ Cut(c, p) \in Contents
    /\ Compose(p, q) \in Cuts
    /\ Cut(Cut(c, p), q) = Cut(c, Compose(p, q))

VARIABLES
  live,    \* the objects that are allocated
  rc,      \* their reference counts
  bytes,   \* the data of a buffer, or of an object adopted whole
  holder,  \* what an Adopted struct retains: its parent or heap buffer
  base,    \* the object whose data a read of this one goes to
  env,     \* the envelope in each place
  pc,      \* the step its call is at
  ref,     \* the reference the call has in hand: taken, or to surrender
  doomed,  \* the objects whose teardown the call is in the middle of
  src,     \* the handle the call borrows
  arg      \* the content it is writing, or the cut it is taking

objVars == <<live, rc, bytes, holder, base>>
callVars == <<pc, ref, doomed, src, arg>>
vars == <<objVars, env, callVars>>

Empty == [obj |-> Nil, own |-> FALSE, cut |-> Whole]
Envelope(o, own, cut) == [obj |-> o, own |-> own, cut |-> cut]

Init ==
  /\ live = {}
  /\ rc = [o \in Objs |-> 0]
  /\ bytes = [o \in Objs |-> Garbage]
  /\ holder = [o \in Objs |-> Nil]
  /\ base = [o \in Objs |-> o]
  /\ env = [h \in Handles |-> Empty]
  /\ pc = [h \in Handles |-> "idle"]
  /\ ref = [h \in Handles |-> Nil]
  /\ doomed = [h \in Handles |-> {}]
  /\ src = [h \in Handles |-> Nil]
  /\ arg = [h \in Handles |-> Nil]

(* Borrowing: any number of &self calls share a handle, &mut self has it   *)
(* alone.                                                                  *)
Shared(h) == pc[h] = "idle" /\ env[h].obj # Nil
Vacant(h) == pc[h] = "idle" /\ env[h].obj = Nil
Exclusive(h) == Shared(h) /\ \A g \in Handles : src[g] # h

Value(h) == Cut(bytes[base[env[h].obj]], env[h].cut)

(* A fresh allocation with one reference.                                  *)
Allocate(o, c, p, b) ==
  /\ o \notin live
  /\ live' = live \cup {o}
  /\ bytes' = [bytes EXCEPT ![o] = c]
  /\ holder' = [holder EXCEPT ![o] = p]
  /\ base' = [base EXCEPT ![o] = b]

Retain(o) ==
  /\ rc[o] < RefMax
  /\ rc' = [rc EXCEPT ![o] = @ + 1]

-----------------------------------------------------------------------------
(* A new string in a buffer of its own, or a view of an adopted Vec,       *)
(* String, Arc or Bytes.                                                   *)
New(h, o, own, c) ==
  /\ Vacant(h)
  /\ Allocate(o, c, Nil, o)
  /\ rc' = [rc EXCEPT ![o] = 1]
  /\ env' = [env EXCEPT ![h] = Envelope(o, own, Whole)]
  /\ UNCHANGED callVars

Clone(h, g) ==
  /\ Shared(h) /\ Vacant(g)
  /\ Retain(env[h].obj)
  /\ env' = [env EXCEPT ![g] = env[h]]
  /\ UNCHANGED <<live, bytes, holder, base, callVars>>

(* A slice within the envelope's reach: a view of the same object.         *)
SliceDirect(h, g, q) ==
  /\ Shared(h) /\ Vacant(g)
  /\ Retain(env[h].obj)
  /\ env' = [env EXCEPT ![g] = Envelope(env[h].obj, FALSE, Compose(env[h].cut, q))]
  /\ UNCHANGED <<live, bytes, holder, base, callVars>>

(* A slice past it: retain the parent, then mint an Adopted that holds it, *)
(* or give the reference back when there is no memory for one.             *)
SliceRetain(h, g, q) ==
  /\ Shared(h) /\ Vacant(g)
  /\ Retain(env[h].obj)
  /\ pc' = [pc EXCEPT ![g] = "mint"]
  /\ ref' = [ref EXCEPT ![g] = env[h].obj]
  /\ src' = [src EXCEPT ![g] = h]
  /\ arg' = [arg EXCEPT ![g] = Compose(env[h].cut, q)]
  /\ UNCHANGED <<live, bytes, holder, base, env, doomed>>

Mint(g, o) ==
  /\ pc[g] = "mint"
  /\ Allocate(o, Garbage, ref[g], base[ref[g]])
  /\ rc' = [rc EXCEPT ![o] = 1]
  /\ env' = [env EXCEPT ![g] = Envelope(o, FALSE, arg[g])]
  /\ pc' = [pc EXCEPT ![g] = "idle"]
  /\ ref' = [ref EXCEPT ![g] = Nil]
  /\ src' = [src EXCEPT ![g] = Nil]
  /\ arg' = [arg EXCEPT ![g] = Nil]
  /\ UNCHANGED doomed

\* Variant: the parent's reference is not given back.
MintFailsKeeping(g) ==
  /\ pc[g] = "mint"
  /\ pc' = [pc EXCEPT ![g] = "idle"]
  /\ ref' = [ref EXCEPT ![g] = Nil]
  /\ src' = [src EXCEPT ![g] = Nil]
  /\ arg' = [arg EXCEPT ![g] = Nil]
  /\ UNCHANGED <<objVars, env, doomed>>

MintFails(g) ==
  /\ pc[g] = "mint"
  /\ pc' = [pc EXCEPT ![g] = "dec"]
  /\ arg' = [arg EXCEPT ![g] = Nil]
  /\ UNCHANGED <<objVars, env, ref, doomed, src>>

-----------------------------------------------------------------------------
\* Variants: the count is not asked; a sole view is taken for an owner.
OwnedIsUnique(h) == env[h].own
SoleIsUnique(h) == rc[env[h].obj] = 1

(* An append, upgrade or downgrade: in place only where the envelope owns   *)
(* the buffer, is its only handle and the result fits; a copy otherwise.   *)
Unique(h) == env[h].own /\ rc[env[h].obj] = 1

BeginWrite(h, c) ==
  /\ Exclusive(h)
  /\ \E stage \in {"write", "copy"} :
       /\ stage = "write" => Unique(h)
       /\ pc' = [pc EXCEPT ![h] = stage]
  /\ arg' = [arg EXCEPT ![h] = c]
  /\ UNCHANGED <<objVars, env, ref, doomed, src>>

(* unshare copies the value out unless the handle owns it alone.           *)
BeginUnshare(h) ==
  /\ Exclusive(h)
  /\ ~Unique(h)
  /\ pc' = [pc EXCEPT ![h] = "copy"]
  /\ arg' = [arg EXCEPT ![h] = Value(h)]
  /\ UNCHANGED <<objVars, env, ref, doomed, src>>

Tear(h) ==
  /\ pc[h] = "write"
  /\ bytes' = [bytes EXCEPT ![env[h].obj] = Torn]
  /\ pc' = [pc EXCEPT ![h] = "torn"]
  /\ UNCHANGED <<live, rc, holder, base, env, ref, doomed, src, arg>>

Settle(h) ==
  /\ pc[h] = "torn"
  /\ bytes' = [bytes EXCEPT ![env[h].obj] = arg[h]]
  /\ pc' = [pc EXCEPT ![h] = "idle"]
  /\ arg' = [arg EXCEPT ![h] = Nil]
  /\ UNCHANGED <<live, rc, holder, base, env, ref, doomed, src>>

(* The copy is built while the envelope still holds the old value, which   *)
(* the assignment then drops.                                              *)
CopyOut(h, o) ==
  /\ pc[h] = "copy"
  /\ Allocate(o, arg[h], Nil, o)
  /\ rc' = [rc EXCEPT ![o] = 1]
  /\ env' = [env EXCEPT ![h] = Envelope(o, TRUE, Whole)]
  /\ pc' = [pc EXCEPT ![h] = "dec"]
  /\ ref' = [ref EXCEPT ![h] = env[h].obj]
  /\ arg' = [arg EXCEPT ![h] = Nil]
  /\ UNCHANGED <<doomed, src>>

CopyFails(h) ==
  /\ pc[h] = "copy"
  /\ pc' = [pc EXCEPT ![h] = "idle"]
  /\ arg' = [arg EXCEPT ![h] = Nil]
  /\ UNCHANGED <<objVars, env, ref, doomed, src>>

-----------------------------------------------------------------------------
Drop(h) ==
  /\ Exclusive(h)
  /\ pc' = [pc EXCEPT ![h] = "dec"]
  /\ ref' = [ref EXCEPT ![h] = env[h].obj]
  /\ env' = [env EXCEPT ![h] = Empty]
  /\ UNCHANGED <<objVars, doomed, src, arg>>

\* Variant: what the call was tearing down is forgotten.
ReleaseForgets(h) ==
  /\ pc[h] = "dec"
  /\ rc[ref[h]] # 1
  /\ rc' = [rc EXCEPT ![ref[h]] = @ - 1]
  /\ ref' = [ref EXCEPT ![h] = Nil]
  /\ pc' = [pc EXCEPT ![h] = "idle"]
  /\ src' = [src EXCEPT ![h] = Nil]
  /\ UNCHANGED <<live, bytes, holder, base, env, doomed, arg>>

(* fetch_sub found other references: surrendered, and whatever the call    *)
(* was tearing down can be freed.                                          *)
Release(h) ==
  /\ pc[h] = "dec"
  /\ rc[ref[h]] # 1
  /\ rc' = [rc EXCEPT ![ref[h]] = @ - 1]
  /\ ref' = [ref EXCEPT ![h] = Nil]
  /\ pc' = [pc EXCEPT ![h] = IF doomed[h] = {} THEN "idle" ELSE "free"]
  /\ src' = [src EXCEPT ![h] = IF doomed[h] = {} THEN Nil ELSE @]
  /\ UNCHANGED <<live, bytes, holder, base, env, doomed, arg>>

(* fetch_sub found the last reference: the object is torn down, and its    *)
(* holder's reference is surrendered before its own memory is.             *)
ReleaseLast(h) ==
  /\ pc[h] = "dec"
  /\ rc[ref[h]] = 1
  /\ rc' = [rc EXCEPT ![ref[h]] = 0]
  /\ doomed' = [doomed EXCEPT ![h] = @ \cup {ref[h]}]
  /\ ref' = [ref EXCEPT ![h] = holder[ref[h]]]
  /\ pc' = [pc EXCEPT ![h] = IF holder[ref[h]] = Nil THEN "free" ELSE "dec"]
  /\ UNCHANGED <<live, bytes, holder, base, env, src, arg>>

\* Variant: a struct is freed only once what it held has been.
FreeAfterHolder(h, o) ==
  /\ pc[h] = "free"
  /\ o \in doomed[h] /\ holder[o] \notin live
  /\ live' = live \ {o}
  /\ bytes' = [bytes EXCEPT ![o] = Garbage]
  /\ holder' = [holder EXCEPT ![o] = Nil]
  /\ base' = [base EXCEPT ![o] = o]
  /\ doomed' = [doomed EXCEPT ![h] = @ \ {o}]
  /\ pc' = [pc EXCEPT ![h] = IF doomed[h] = {o} THEN "idle" ELSE "free"]
  /\ src' = [src EXCEPT ![h] = IF doomed[h] = {o} THEN Nil ELSE @]
  /\ UNCHANGED <<rc, env, ref, arg>>

(* Innermost first: an Adopted is freed after what it held.                *)
Free(h, o) ==
  /\ pc[h] = "free"
  /\ o \in doomed[h] /\ holder[o] \notin doomed[h]
  /\ live' = live \ {o}
  /\ bytes' = [bytes EXCEPT ![o] = Garbage]
  /\ holder' = [holder EXCEPT ![o] = Nil]
  /\ base' = [base EXCEPT ![o] = o]
  /\ doomed' = [doomed EXCEPT ![h] = @ \ {o}]
  /\ pc' = [pc EXCEPT ![h] = IF doomed[h] = {o} THEN "idle" ELSE "free"]
  /\ src' = [src EXCEPT ![h] = IF doomed[h] = {o} THEN Nil ELSE @]
  /\ UNCHANGED <<rc, env, ref, arg>>

Step(h) ==
  \/ \E o \in Objs : Mint(h, o) \/ CopyOut(h, o) \/ Free(h, o)
  \/ MintFails(h) \/ Tear(h) \/ Settle(h) \/ CopyFails(h) \/ Release(h) \/ ReleaseLast(h)

Call(h) ==
  \/ \E o \in Objs, own \in BOOLEAN, c \in Contents : New(h, o, own, c)
  \/ \E g \in Handles : Clone(h, g)
  \/ \E g \in Handles, q \in Cuts : SliceDirect(h, g, q) \/ SliceRetain(h, g, q)
  \/ \E c \in Contents : BeginWrite(h, c)
  \/ BeginUnshare(h)
  \/ Drop(h)

Next == \E h \in Handles : Step(h) \/ Call(h)

Spec == Init /\ [][Next]_vars

(* Threads keep running, so a call under way takes its next step.          *)
FairSpec == Spec /\ \A h \in Handles : WF_vars(Step(h))

-----------------------------------------------------------------------------
TypeOK ==
  /\ live \subseteq Objs
  /\ rc \in [Objs -> 0 .. RefMax]
  /\ bytes \in [Objs -> Contents \cup {Torn, Garbage}]
  /\ holder \in [Objs -> Objs \cup {Nil}]
  /\ base \in [Objs -> Objs]
  /\ env \in [Handles -> [obj : Objs \cup {Nil}, own : BOOLEAN, cut : Cuts]]
  /\ pc \in [Handles -> {"idle", "mint", "write", "torn", "copy", "dec", "free"}]
  /\ ref \in [Handles -> Objs \cup {Nil}]
  /\ doomed \in [Handles -> SUBSET Objs]
  /\ src \in [Handles -> Handles \cup {Nil}]
  /\ arg \in [Handles -> Contents \cup Cuts \cup {Nil}]

(* Everything that owns a reference on o: envelopes, calls in flight, and   *)
(* the structs that hold it and are not themselves being torn down.        *)
Owners(o) ==
  ({"envelope"} \X {h \in Handles : env[h].obj = o})
    \cup ({"call"} \X {h \in Handles : ref[h] = o})
    \cup ({"holder"} \X {x \in Objs : holder[x] = o /\ rc[x] > 0})

(* Safety invariant 3 of cow_buffer.rs: the count counts the owners, and   *)
(* an object is allocated exactly while it has some or its last owner is   *)
(* tearing it down.  Nothing leaks, whichever step fails for memory.       *)
RefcountExact ==
  /\ \A o \in Objs : rc[o] = Cardinality(Owners(o))
  /\ live = {o \in Objs : rc[o] > 0} \cup UNION {doomed[h] : h \in Handles}

(* Whatever an envelope can read is allocated, through any chain of views  *)
(* of views: a read goes straight to the base, which only the chain pins.  *)
BytesPinned ==
  \A h \in Handles : env[h].obj # Nil => /\ env[h].obj \in live
                                         /\ base[env[h].obj] \in live

(* Safety invariant 4: bytes are written only by the sole owner, from the  *)
(* check that found it alone to the last byte, and never through a view,   *)
(* which may be of memory that others adopted too.                         *)
WritesAlone ==
  \A h \in Handles :
    pc[h] \in {"write", "torn"} => /\ env[h].own
                                  /\ Owners(env[h].obj) = {<<"envelope", h>>}

-----------------------------------------------------------------------------
(* The value each place shows, a write taking effect when it starts.       *)
ValueOf(h) ==
  IF env[h].obj = Nil THEN Nil
  ELSE IF pc[h] = "torn" THEN arg[h]
  ELSE Value(h)

Values == INSTANCE StringValues WITH value <- [h \in Handles |-> ValueOf(h)], NoValue <- Nil

(* Sharing is invisible: whatever is cloned, sliced, written in place,     *)
(* copied out or freed below, each handle has a value of its own.          *)
SharingInvisible == Values!Spec

(* Every call comes to its end, however long the chain it tears down.      *)
CallsFinish == \A h \in Handles : pc[h] # "idle" ~> pc[h] = "idle"

(* What nobody owns any more is given back.                                *)
Reclaimed == \A o \in Objs : o \in live /\ Owners(o) = {} ~> o \notin live
=============================================================================
