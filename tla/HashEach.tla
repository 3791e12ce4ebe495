------------------------------- MODULE HashEach -------------------------------
(***************************************************************************)
(* The three engines behind Hash and the walk of each over them            *)
(* (containers.rs): a table whose cursor is a bucket, an insertion-ordered *)
(* map whose cursor is an entry, a persistent map whose cursor is an       *)
(* iterator over a snapshot.  Every call runs under the hash's lock and is *)
(* one step; values play no part in a walk and are left out.  The ghosts   *)
(* returned, owed and exempt follow the walk that is under way.            *)
(***************************************************************************)
EXTENDS Naturals, Sequences, FiniteSets

CONSTANTS
  HashEngines,
  Keys,
  Free,         \* a bucket without an entry
  Sizes         \* the bucket counts a table goes through

ASSUME TablesAssumption ==
  /\ IsFiniteSet(Keys) /\ Free \notin Keys
  /\ Sizes \subseteq Nat /\ \E n \in Sizes : n > Cardinality(Keys) + 1

VARIABLES
  hashEngine,
  table,        \* PerlHash: the buckets, from 0
  tombs,        \* and how many free ones an erasure has used up
  order,        \* OrderedHash: its keys in order
  map,          \* ImmutableHash: its keys
  iter,         \* and those its parked iterator has yet to yield, or NoIter
  cursor,       \* the bucket or entry each looks at next
  hashReadonly,
  returned,     \* the keys this walk has returned and the hash still holds
  owed,         \* the keys the hash has held since this walk began
  exempt        \* what happened that it does not cover: "rehash", "removal"

hashVars == <<hashEngine, table, tombs, order, map, iter, cursor, hashReadonly, returned, owed, exempt>>

NoIter == [parked |-> FALSE, keys |-> {}]
Buckets == DOMAIN table
Lowest(S) == CHOOSE n \in S : \A m \in S : n <= m

Held ==
  CASE hashEngine = "Perl" -> {table[b] : b \in Buckets} \ {Free}
    [] hashEngine = "Ordered" -> {order[i] : i \in DOMAIN order}
    [] OTHER -> map

(* The keys a walk has before it.                                          *)
Ahead ==
  CASE hashEngine = "Perl" -> {table[b] : b \in {c \in Buckets : c >= cursor}} \ {Free}
    [] hashEngine = "Ordered" -> {order[i] : i \in {j \in DOMAIN order : j > cursor}}
    [] OTHER -> IF iter.parked THEN iter.keys \cap map ELSE map

-----------------------------------------------------------------------------
(* hashbrown's table, as far as a walk can tell: insertion takes a free    *)
(* bucket, and when no room is left every entry is placed anew, in the     *)
(* same table or the next larger one.                                      *)

Room == (IF Buckets = {} THEN 0 ELSE Cardinality(Buckets) - 1) - Cardinality(Held) - tombs

Layouts(keys, n) ==
  {t \in [0..(n - 1) -> keys \cup {Free}] :
     /\ keys \subseteq {t[b] : b \in 0..(n - 1)}
     /\ \A b, c \in 0..(n - 1) : t[b] = t[c] /\ t[b] # Free => b = c}

Rehashed ==
  LET fitting == {n \in Sizes : n >= Cardinality(Buckets) /\ n - 1 > Cardinality(Held)}
  IN  UNION {Layouts(Held, n) : n \in {Lowest(fitting)} \cup {n \in fitting : n = Cardinality(Buckets)}}

(* The table with room for one more, and its tombs.                        *)
Reserved == IF Room > 0 THEN {<<table, tombs>>} ELSE {<<t, 0>> : t \in Rehashed}

Inserted(t, k) == {[t EXCEPT ![b] = k] : b \in {c \in DOMAIN t : t[c] = Free}}

-----------------------------------------------------------------------------
HashInit ==
  /\ hashEngine \in HashEngines
  /\ table = [b \in {} |-> Free] /\ tombs = 0
  /\ order = <<>> /\ map = {} /\ iter = NoIter
  /\ cursor = 0 /\ hashReadonly = FALSE
  /\ returned = {} /\ owed = {} /\ exempt = {}

Writes(e) == hashEngine = e /\ ~hashReadonly /\ UNCHANGED <<hashEngine, hashReadonly>>
InTable == UNCHANGED <<order, map, iter>>
InOrder == UNCHANGED <<table, tombs, map, iter>>
InMap == UNCHANGED <<table, tombs, order, cursor>>

(* A walk that starts over owes every key the hash holds.                  *)
Restart(held) == returned' = {} /\ owed' = held /\ exempt' = {}
Onward == UNCHANGED <<returned, owed, exempt>>

StoreKnown(k) ==
  /\ k \in Held /\ ~hashReadonly
  /\ UNCHANGED hashVars

NewInTable(k) ==
  /\ \E r \in Reserved : table' \in Inserted(r[1], k) /\ tombs' = r[2]
  /\ cursor' = 0
  /\ Restart(Held \cup {k})

TableStore(k) == Writes("Perl") /\ InTable /\ k \notin Held /\ NewInTable(k)

(* The entry call makes room before it looks for the key, so it can move   *)
(* every entry under the cursor of a walk and then find the key.           *)
TableEntry(k) ==
  /\ Writes("Perl") /\ InTable
  /\ IF k \notin Held THEN NewInTable(k)
     ELSE /\ \E r \in Reserved : table' = r[1] /\ tombs' = r[2]
          /\ exempt' = exempt \cup (IF Room = 0 /\ cursor > 0 THEN {"rehash"} ELSE {})
          /\ UNCHANGED <<cursor, returned, owed>>

(* The key leaves the walk with its entry.                                 *)
Leaves(k) == returned' = returned \ {k} /\ owed' = owed \ {k}

TableDelete(k) ==
  /\ Writes("Perl") /\ InTable /\ k \in Held
  /\ table' = [b \in Buckets |-> IF table[b] = k THEN Free ELSE table[b]]
  /\ \E used \in 0..1 : tombs' = tombs + used
  /\ Leaves(k)
  /\ UNCHANGED <<cursor, exempt>>

OrderedStore(k) ==
  /\ Writes("Ordered") /\ InOrder /\ k \notin Held
  /\ order' = Append(order, k)
  /\ Onward /\ UNCHANGED cursor

IndexOf(k) == (CHOOSE i \in DOMAIN order : order[i] = k) - 1

SwapRemoved(i) ==
  SubSeq([order EXCEPT ![i + 1] = order[Len(order)]], 1, Len(order) - 1)

\* Variant: removing the entry under the cursor counts as removing one behind it.
CursorAfterRemovalOffByOne(i) == IF i <= cursor /\ cursor > 0 THEN cursor - 1 ELSE cursor

CursorAfterRemoval(i) == IF i < cursor THEN cursor - 1 ELSE cursor

(* The last entry takes the place of the one that goes.  Only the removal  *)
(* of the key each has just returned, or of one it has not reached, keeps  *)
(* the walk whole.                                                         *)
OrderedDelete(k) ==
  /\ Writes("Ordered") /\ InOrder /\ k \in Held
  /\ order' = SwapRemoved(IndexOf(k))
  /\ cursor' = CursorAfterRemoval(IndexOf(k))
  /\ Leaves(k)
  /\ exempt' = exempt \cup (IF IndexOf(k) + 1 < cursor THEN {"removal"} ELSE {})

MapStore(k) ==
  /\ Writes("Immutable") /\ InMap /\ k \notin Held
  /\ map' = map \cup {k}
  /\ owed' = IF iter.parked THEN owed ELSE map'
  /\ UNCHANGED <<iter, returned, exempt>>

MapDelete(k) ==
  /\ Writes("Immutable") /\ InMap /\ k \in Held
  /\ map' = map \ {k}
  /\ Leaves(k)
  /\ UNCHANGED <<iter, exempt>>

-----------------------------------------------------------------------------
(* each, keys and values, and clear.                                       *)

Returns(k) == returned' = returned \cup {k} /\ UNCHANGED <<owed, exempt>>

TableEach ==
  LET live == {b \in Buckets : b >= cursor /\ table[b] # Free}
  IN  /\ hashEngine = "Perl" /\ InTable /\ UNCHANGED <<hashEngine, hashReadonly, table, tombs>>
      /\ IF live = {} THEN cursor' = 0 /\ Restart(Held)
         ELSE cursor' = Lowest(live) + 1 /\ Returns(table[Lowest(live)])

OrderedEach ==
  /\ hashEngine = "Ordered" /\ InOrder /\ UNCHANGED <<hashEngine, hashReadonly, order>>
  /\ IF cursor >= Len(order) THEN cursor' = 0 /\ Restart(Held)
     ELSE cursor' = cursor + 1 /\ Returns(order[cursor + 1])

(* The iterator yields in an order of its own, past the keys that are no   *)
(* longer there.                                                           *)
MapEach ==
  LET walk == IF iter.parked THEN iter.keys ELSE map
  IN  /\ hashEngine = "Immutable" /\ InMap /\ UNCHANGED <<hashEngine, hashReadonly, map>>
      /\ \/ /\ walk \cap map = {}
            /\ iter' = NoIter /\ Restart(map)
         \/ \E k \in walk \cap map, past \in SUBSET (walk \ map) :
              /\ iter' = [parked |-> TRUE, keys |-> walk \ ({k} \cup past)]
              /\ Returns(k)

KeysOrValues ==
  /\ cursor' = 0 /\ iter' = NoIter
  /\ Restart(Held)
  /\ UNCHANGED <<hashEngine, table, tombs, order, map, hashReadonly>>

(* Draining a table keeps its buckets.                                     *)
Clear ==
  /\ ~hashReadonly
  /\ table' = [b \in Buckets |-> Free] /\ tombs' = 0
  /\ order' = <<>> /\ map' = {} /\ iter' = NoIter /\ cursor' = 0
  /\ Restart({})
  /\ UNCHANGED <<hashEngine, hashReadonly>>

SetHashReadonly ==
  /\ hashReadonly' = ~hashReadonly
  /\ UNCHANGED <<hashEngine, table, tombs, order, map, iter, cursor, returned, owed, exempt>>

HashNext ==
  \/ \E k \in Keys : \/ StoreKnown(k) \/ TableStore(k) \/ TableEntry(k) \/ TableDelete(k)
                     \/ OrderedStore(k) \/ OrderedDelete(k)
                     \/ MapStore(k) \/ MapDelete(k)
  \/ TableEach \/ OrderedEach \/ MapEach
  \/ KeysOrValues \/ Clear \/ SetHashReadonly

HashSpec == HashInit /\ [][HashNext]_hashVars

-----------------------------------------------------------------------------
(* Properties.                                                             *)

(* No key comes a second time while the hash holds it, and no key the hash *)
(* has held since the walk began is passed over.                           *)
WalkWhole == returned \cap Ahead = {} /\ owed \subseteq returned \cup Ahead

(* Whatever is stored and deleted while each walks a hash, the walk is     *)
(* whole, with two exceptions: one of an ordered hash that loses a key     *)
(* behind the one each has just returned, which delete does not answer     *)
(* for; and one of a table that an entry call for a key at hand rehashes,  *)
(* which UpdatesKeepWalk shows to be against what the code says.           *)
EachVisitsAll ==
  \/ WalkWhole
  \/ hashEngine = "Ordered" /\ exempt = {"removal"}
  \/ hashEngine = "Perl" /\ exempt = {"rehash"}

(* What store and entry_or_undef say of the cursor: an existing key leaves *)
(* it alone, updates during iteration are safe, and a rehash is answered   *)
(* with a restart.  It is violated: see TableEntry.                        *)
UpdatesKeepWalk == "removal" \in exempt \/ WalkWhole
=============================================================================
