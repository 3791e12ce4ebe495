------------------------------ MODULE ScalarCell ------------------------------
(***************************************************************************)
(* A promoted scalar (scalar.rs): one cell shared by threads through a     *)
(* Referent.  A mutable cell is a Scalar behind an RwLock, Plain or Full;  *)
(* a Full cell keeps what its payload was last coerced to in three lazy    *)
(* caches that readers fill while they hold the lock for reading only.     *)
(* A Const cell has no lock: its coercions are made at birth, and the one  *)
(* thing that changes is whether its numification warning was noted.       *)
(***************************************************************************)
EXTENDS FiniteSets, Naturals

CONSTANTS
  Threads,        \* threads holding a reference to the cell
  Views,          \* what it is asked as: "string", and numbers
  Payloads,       \* the values the cell can hold
  Undef,          \* the payload of an emptied cell
  Coerce(_, _),   \* Coerce(v, p): what payload p gives as view v
  Warns(_),       \* numifying this payload warns: a string, not all of it a number
  Face(_),        \* the Dual numifying installs in its place
  Nothing         \* no value, no thread

ASSUME ViewsAssumption == "string" \in Views
ASSUME ThreadsAssumption == Nothing \notin Threads
ASSUME UndefAssumption == Undef \in Payloads /\ ~Warns(Undef)
ASSUME WarnsAssumption == \A p \in Payloads : Warns(p) \in BOOLEAN
ASSUME CoerceAssumption == \A v \in Views, p \in Payloads : Coerce(v, p) # Nothing
ASSUME FaceAssumption ==
  \A p \in Payloads :
    Warns(p) => /\ Face(p) \in Payloads /\ ~Warns(Face(p))
                /\ Coerce("string", Face(p)) = Coerce("string", p)

VARIABLES
  shape,     \* "Plain" or "Full", or "Const"
  payload,   \* the authoritative value
  given,     \* the value it was last given, before any numifying
  cache,     \* the cached coercions of a Full cell
  valid,     \* which of them are filled
  readonly,  \* the dynamic flag of a Full cell
  unnoted,   \* a Const cell's warning that nobody has noted yet
  readers,   \* the threads holding the lock for reading
  writer,    \* the thread holding it for writing
  at,        \* where each thread's coercion is
  view,      \* the view it asks for
  held,      \* the coercion it has computed
  reply,     \* the answer it got under the guard it still holds
  noted      \* how often the warning of the value given was raised

scalarVars ==
  <<shape, payload, given, cache, valid, readonly, unnoted, readers, writer, at, view, held,
    reply, noted>>
cellVars == <<shape, payload, given, readonly, unnoted, noted>>
callVars == <<at, view, held, reply>>

NoCaches == [v \in Views |-> FALSE]

CellInit ==
  /\ shape \in {"Plain", "Const"}
  /\ payload \in Payloads
  /\ given = payload
  /\ cache = [v \in Views |-> Nothing]
  /\ valid = NoCaches
  /\ readonly = FALSE
  /\ unnoted = (shape = "Const" /\ Warns(payload))
  /\ readers = {}
  /\ writer = Nothing
  /\ at = [t \in Threads |-> "idle"]
  /\ view = [t \in Threads |-> "string"]
  /\ held = [t \in Threads |-> Nothing]
  /\ reply = [t \in Threads |-> Nothing]
  /\ noted = 0

-----------------------------------------------------------------------------
(* The guards.  Reading a Const cell takes no lock; writing one fails.     *)

Guarded(t) == shape = "Const" \/ t \in readers \/ writer = t

ReadLock(t) ==
  /\ shape # "Const"
  /\ ~Guarded(t) /\ writer = Nothing
  /\ readers' = readers \cup {t}
  /\ UNCHANGED <<cellVars, cache, valid, writer, callVars>>

WriteLock(t) ==
  /\ shape # "Const"
  /\ readers = {} /\ writer = Nothing
  /\ writer' = t
  /\ UNCHANGED <<cellVars, cache, valid, readers, callVars>>

Unlock(t) ==
  /\ t \in readers \/ writer = t
  /\ at[t] = "idle"
  /\ readers' = readers \ {t}
  /\ writer' = IF writer = t THEN Nothing ELSE writer
  /\ reply' = [reply EXCEPT ![t] = Nothing]
  /\ view' = [view EXCEPT ![t] = "string"]
  /\ UNCHANGED <<cellVars, cache, valid, at, held>>

-----------------------------------------------------------------------------
(* A coercion under either guard: to_int, to_float, stringify.             *)

Reply(t, x) ==
  /\ reply' = [reply EXCEPT ![t] = x]
  /\ at' = [at EXCEPT ![t] = "idle"]

GoOn(t, stage) ==
  /\ at' = [at EXCEPT ![t] = stage]
  /\ reply' = [reply EXCEPT ![t] = Nothing]

(* A Plain cell coerces its payload; a Full one loads the valid flag first. *)
Ask(t, v) ==
  /\ Guarded(t) /\ at[t] = "idle"
  /\ view' = [view EXCEPT ![t] = v]
  /\ IF shape # "Full" THEN Reply(t, Coerce(v, payload))
     ELSE GoOn(t, IF valid[v] THEN "load" ELSE "compute")
  /\ UNCHANGED <<cellVars, cache, valid, readers, writer, held>>

LoadCached(t) ==
  /\ at[t] = "load"
  /\ Reply(t, cache[view[t]])
  /\ UNCHANGED <<cellVars, cache, valid, readers, writer, view, held>>

Compute(t) ==
  /\ at[t] = "compute"
  /\ held' = [held EXCEPT ![t] = Coerce(view[t], payload)]
  /\ GoOn(t, IF view[t] = "string" THEN "set" ELSE "store")
  /\ UNCHANGED <<cellVars, cache, valid, readers, writer, view>>

(* Rendering the string needed memory there was none of.                   *)
ComputeFails(t) ==
  /\ at[t] = "compute" /\ view[t] = "string"
  /\ GoOn(t, "idle")
  /\ UNCHANGED <<cellVars, cache, valid, readers, writer, view, held>>

(* The string slot is a OnceLock: the first to set it wins, and a loser    *)
(* answers with its own copy.                                              *)
SetOnce(t) ==
  /\ at[t] = "set"
  /\ IF valid["string"] THEN UNCHANGED <<cache, valid>>
     ELSE /\ cache' = [cache EXCEPT !["string"] = held[t]]
          /\ valid' = [valid EXCEPT !["string"] = TRUE]
  /\ held' = [held EXCEPT ![t] = Nothing]
  /\ Reply(t, held[t])
  /\ UNCHANGED <<cellVars, readers, writer, view>>

\* Variant: the flag is raised with the value still to be stored.
StoreRaisesFlag(t) ==
  /\ at[t] = "store"
  /\ valid' = [valid EXCEPT ![view[t]] = TRUE]
  /\ GoOn(t, "publish")
  /\ UNCHANGED <<cellVars, cache, readers, writer, view, held>>

(* A number is an atomic beside an atomic flag, stored in that order.      *)
Store(t) ==
  /\ at[t] = "store"
  /\ cache' = [cache EXCEPT ![view[t]] = held[t]]
  /\ GoOn(t, "publish")
  /\ UNCHANGED <<cellVars, valid, readers, writer, view, held>>

Publish(t) ==
  /\ at[t] = "publish"
  /\ valid' = [valid EXCEPT ![view[t]] = TRUE]
  /\ held' = [held EXCEPT ![t] = Nothing]
  /\ Reply(t, held[t])
  /\ UNCHANGED <<cellVars, cache, readers, writer, view>>

-----------------------------------------------------------------------------
(* What a write guard can do.  An answer it got before is history.         *)


Writing(t) ==
  /\ writer = t /\ at[t] = "idle"
  /\ reply' = [reply EXCEPT ![t] = Nothing]
  /\ view' = [view EXCEPT ![t] = "string"]
  /\ UNCHANGED <<unnoted, readers, writer, at, held>>

\* Variant: the readonly flag is not asked.
AssignAnyway(t, p) ==
  /\ Writing(t)
  /\ payload' = p /\ given' = p
  /\ valid' = NoCaches
  /\ noted' = 0
  /\ UNCHANGED <<shape, cache, readonly>>

(* A readonly cell refuses, and nothing happens.                           *)
Assign(t, p) ==
  /\ Writing(t)
  /\ ~readonly
  /\ payload' = p /\ given' = p
  /\ valid' = NoCaches
  /\ noted' = 0
  /\ UNCHANGED <<shape, cache, readonly>>

(* set_magic, bless, or setting the readonly flag: Plain becomes Full in   *)
(* place, with nothing cached.  Clearing a Plain cell's flag does nothing. *)
Upgrade(t) ==
  /\ Writing(t)
  /\ shape = "Plain"
  /\ shape' = "Full"
  /\ readonly' \in BOOLEAN
  /\ UNCHANGED <<payload, given, cache, valid, noted>>

SetReadonly(t, b) ==
  /\ Writing(t)
  /\ shape = "Full"
  /\ readonly' = b
  /\ UNCHANGED <<shape, payload, given, cache, valid, noted>>

(* numify_noting_warning: a string that warns is replaced by its Dual,     *)
(* which will not warn again.  Neither the readonly flag nor the caches    *)
(* are looked at.                                                          *)
Numify(t) ==
  /\ Writing(t)
  /\ Warns(payload)
  /\ payload' = Face(payload)
  /\ noted' = noted + 1
  /\ UNCHANGED <<shape, given, cache, valid, readonly>>

(* The excerpt for the message is cut after the string was taken out of    *)
(* the cell: without memory for it Undef is left behind.                   *)
NumifyFails(t) ==
  /\ Writing(t)
  /\ Warns(payload)
  /\ payload' = Undef
  /\ UNCHANGED <<shape, given, cache, valid, readonly, noted>>

\* Variant: the once-bit is read and not set.
NoteLoads(t) ==
  /\ unnoted
  /\ noted' = noted + 1
  /\ UNCHANGED <<shape, payload, given, readonly, unnoted, cache, valid, readers, writer, callVars>>

(* note_numify_warning on a Const cell: the swap has one winner.           *)
Note(t) ==
  /\ unnoted
  /\ unnoted' = FALSE
  /\ noted' = noted + 1
  /\ UNCHANGED <<shape, payload, given, readonly, cache, valid, readers, writer, callVars>>

-----------------------------------------------------------------------------
Coercion(t) ==
  \/ \E v \in Views : Ask(t, v)
  \/ LoadCached(t) \/ Compute(t) \/ ComputeFails(t) \/ SetOnce(t) \/ Store(t) \/ Publish(t)

Write(t) ==
  \/ \E p \in Payloads : Assign(t, p)
  \/ \E b \in BOOLEAN : SetReadonly(t, b)
  \/ Upgrade(t) \/ Numify(t) \/ NumifyFails(t)

CellNext ==
  \E t \in Threads :
    \/ ReadLock(t) \/ WriteLock(t) \/ Unlock(t)
    \/ Coercion(t) \/ Write(t) \/ Note(t)

CellSpec == CellInit /\ [][CellNext]_scalarVars

-----------------------------------------------------------------------------
Coerced == {Coerce(v, p) : v \in Views, p \in Payloads}

CellTypeOK ==
  /\ shape \in {"Plain", "Full", "Const"}
  /\ payload \in Payloads /\ given \in Payloads
  /\ cache \in [Views -> Coerced \cup {Nothing}]
  /\ valid \in [Views -> BOOLEAN]
  /\ readonly \in BOOLEAN /\ unnoted \in BOOLEAN
  /\ readers \subseteq Threads
  /\ writer \in Threads \cup {Nothing}
  /\ at \in [Threads -> {"idle", "load", "compute", "set", "store", "publish"}]
  /\ view \in [Threads -> Views]
  /\ held \in [Threads -> Coerced \cup {Nothing}]
  /\ reply \in [Threads -> Coerced \cup {Nothing}]
  /\ noted \in Nat

(* What numifying can have made of a value given to the cell.              *)
Descendants(p) == {p} \cup (IF Warns(p) THEN {Face(p), Undef} ELSE {})

(* Every answer is the coercion of the payload as it stands under the      *)
(* asker's guard, or of the value the cell was last given, whose cached    *)
(* coercions numifying does not drop: of nothing older, and never a slot   *)
(* another thread is half way through filling.                             *)
AnswersOfCell ==
  /\ payload \in Descendants(given)
  /\ \A t \in Threads :
       /\ reply[t] # Nothing => \E p \in {payload, given} : reply[t] = Coerce(view[t], p)
       /\ at[t] = "load" => \E p \in {payload, given} : cache[view[t]] = Coerce(view[t], p)

(* The payload principle of value.rs: what is derived never answers for    *)
(* what the payload answers.  It is violated: see Numify.                  *)
AnswersDerived ==
  \A t \in Threads : reply[t] # Nothing => reply[t] = Coerce(view[t], payload)

(* A value given to a cell raises its numification warning once, however   *)
(* many threads numify the cell, mutable or frozen.                        *)
WarnedOnce == noted <= 1

(* While a cell is readonly its value changes only by numifying, which is  *)
(* out of what the string already was, or loses it for want of memory.     *)
ReadonlyKept ==
  [][readonly /\ payload' # payload
       => Warns(payload) /\ payload' \in Descendants(payload)]_scalarVars
=============================================================================
