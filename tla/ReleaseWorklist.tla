--------------------------- MODULE ReleaseWorklist ---------------------------
(***************************************************************************)
(* Teardown of the value graph (heap.rs, with the Drop impls of scalar.rs  *)
(* and containers.rs that use it).  Cells and containers are nodes owned   *)
(* by strong references; a reference is a value that lives in one place: a *)
(* thread's hands, a slot of a node, a thread's release worklist, or the   *)
(* native frame that is about to let go of it.  A node whose last          *)
(* reference goes hands its values to the worklist of the thread at work,  *)
(* and the outermost frame that released one drains it, so that native     *)
(* frames do not nest with the depth of the graph.                         *)
(*                                                                         *)
(* Teardown executes no Perl: a thread is in the middle of one, or calls.  *)
(***************************************************************************)
EXTENDS Naturals, Sequences, FiniteSets

CONSTANTS
  Owners,
  Nodes,    \* scalar cells, arrays and hashes
  Refs,     \* values that hold a strong reference
  None      \* no node

NoneAssumption == None \notin Nodes
FiniteAssumption == IsFiniteSet(Refs)

VARIABLES
  live,      \* the nodes that are allocated
  strong,    \* their strong counts
  target,    \* what each reference refers to, None when there is no such value
  slots,     \* the references each node holds
  hands,     \* the references each thread holds
  pending,   \* each thread's worklist
  draining,  \* whether a frame of the thread is draining it
  stack      \* each thread's native frames, the innermost last

graphVars == <<live, strong, target, slots, hands, pending, draining, stack>>
valueVars == <<live, strong, target, slots, hands>>

(* A frame and the references it has yet to let go of.                     *)
Frame(op, node, rest) == [op |-> op, node |-> node, rest |-> rest]

Top(t) == stack[t][Len(stack[t])]
Below(t) == SubSeq(stack[t], 1, Len(stack[t]) - 1)
In(t, op) == stack[t] # <<>> /\ Top(t).op = op

GraphInit ==
  /\ live = {}
  /\ strong = [n \in Nodes |-> 0]
  /\ target = [r \in Refs |-> None]
  /\ slots = [n \in Nodes |-> {}]
  /\ hands = [t \in Owners |-> {}]
  /\ pending = [t \in Owners |-> <<>>]
  /\ draining = [t \in Owners |-> FALSE]
  /\ stack = [t \in Owners |-> <<>>]

-----------------------------------------------------------------------------
(* What a program does with values.                                        *)

Calls(t) == stack[t] = <<>>
Holds(t, n) == \E r \in hands[t] : target[r] = n

New(t, n, r) ==
  /\ Calls(t) /\ n \notin live /\ target[r] = None
  /\ live' = live \cup {n}
  /\ strong' = [strong EXCEPT ![n] = 1]
  /\ target' = [target EXCEPT ![r] = n]
  /\ hands' = [hands EXCEPT ![t] = @ \cup {r}]
  /\ UNCHANGED <<slots, pending, draining, stack>>

\* Variant: a copy is not counted.
CloneUncounted(t, s, r) ==
  /\ Calls(t) /\ target[r] = None
  /\ s \in hands[t] \/ \E n \in Nodes : Holds(t, n) /\ s \in slots[n]
  /\ target' = [target EXCEPT ![r] = target[s]]
  /\ hands' = [hands EXCEPT ![t] = @ \cup {r}]
  /\ UNCHANGED <<live, strong, slots, pending, draining, stack>>

(* A copy of a reference in hand, or of one in a node within reach.        *)
Clone(t, s, r) ==
  /\ Calls(t) /\ target[r] = None
  /\ s \in hands[t] \/ \E n \in Nodes : Holds(t, n) /\ s \in slots[n]
  /\ strong' = [strong EXCEPT ![target[s]] = @ + 1]
  /\ target' = [target EXCEPT ![r] = target[s]]
  /\ hands' = [hands EXCEPT ![t] = @ \cup {r}]
  /\ UNCHANGED <<live, slots, pending, draining, stack>>

(* A reference is moved into a slot of a node in hand.                     *)
StoreIn(t, n, r) ==
  /\ Calls(t) /\ r \in hands[t]
  /\ \E s \in hands[t] \ {r} : target[s] = n
  /\ hands' = [hands EXCEPT ![t] = @ \ {r}]
  /\ slots' = [slots EXCEPT ![n] = @ \cup {r}]
  /\ UNCHANGED <<live, strong, target, pending, draining, stack>>

(* A reference is moved to another thread, as its values are Send.         *)
Give(t, u, r) ==
  /\ Calls(t) /\ Calls(u) /\ r \in hands[t] /\ u # t
  /\ hands' = [hands EXCEPT ![t] = @ \ {r}, ![u] = @ \cup {r}]
  /\ UNCHANGED <<live, strong, target, slots, pending, draining, stack>>

(* A value in hand goes out of scope.                                      *)
DropHand(t, r) ==
  /\ Calls(t) /\ r \in hands[t]
  /\ hands' = [hands EXCEPT ![t] = @ \ {r}]
  /\ stack' = [stack EXCEPT ![t] = <<Frame("drop", None, {r})>>]
  /\ UNCHANGED <<live, strong, target, slots, pending, draining>>

(* A cell or element is assigned over: its old value drops in place.       *)
Overwrite(t, n, r) ==
  /\ Calls(t) /\ Holds(t, n) /\ r \in slots[n]
  /\ slots' = [slots EXCEPT ![n] = @ \ {r}]
  /\ stack' = [stack EXCEPT ![t] = <<Frame("drop", None, {r})>>]
  /\ UNCHANGED <<live, strong, target, hands, pending, draining>>

(* clear: an array drops its elements where they are, a hash and the       *)
(* immutable engines release them.                                         *)
Clear(t, n) ==
  /\ Calls(t) /\ Holds(t, n)
  /\ slots' = [slots EXCEPT ![n] = {}]
  /\ \E op \in {"clear", "release"} :
       stack' = [stack EXCEPT ![t] = <<Frame(op, None, slots[n])>>]
  /\ UNCHANGED <<live, strong, target, hands, pending, draining>>

-----------------------------------------------------------------------------
(* Teardown.                                                               *)

\* Variant: the teardown of a node forgets what its slots hold.
LetGoForgets(t, r) ==
  /\ In(t, "drop") /\ r \in Top(t).rest
  /\ target' = [target EXCEPT ![r] = None]
  /\ strong' = [strong EXCEPT ![target[r]] = @ - 1]
  /\ stack' = [stack EXCEPT ![t] =
       IF strong[target[r]] = 1 THEN Append(Below(t), Frame("tear", target[r], {})) ELSE Below(t)]
  /\ slots' = [n \in Nodes |-> IF n = target[r] /\ strong[n] = 1 THEN {} ELSE slots[n]]
  /\ UNCHANGED <<live, hands, pending, draining>>

(* A reference is dropped.  The last one to a node starts its Drop, which  *)
(* takes the values out of the node.                                       *)
LetGo(t, r) ==
  /\ In(t, "drop") /\ r \in Top(t).rest
  /\ target' = [target EXCEPT ![r] = None]
  /\ strong' = [strong EXCEPT ![target[r]] = @ - 1]
  /\ stack' = [stack EXCEPT ![t] =
       IF strong[target[r]] = 1
       THEN Append(Below(t), Frame("tear", target[r], slots[target[r]])) ELSE Below(t)]
  /\ slots' = [n \in Nodes |-> IF n = target[r] /\ strong[n] = 1 THEN {} ELSE slots[n]]
  /\ UNCHANGED <<live, hands, pending, draining>>

\* Variant: every release drains.
ReleaseNested(t, r) ==
  /\ In(t, "tear") \/ In(t, "release")
  /\ r \in Top(t).rest
  /\ pending' = [pending EXCEPT ![t] = Append(@, r)]
  /\ draining' = [draining EXCEPT ![t] = TRUE]
  /\ LET frames == Append(Below(t), [Top(t) EXCEPT !.rest = @ \ {r}])
     IN  stack' = [stack EXCEPT ![t] = Append(frames, Frame("drain", None, {}))]
  /\ UNCHANGED valueVars

\* Variant: the worklist stays locked while the drain loop drops a value.
ReleaseLocked(t, r) ==
  /\ In(t, "tear") \/ In(t, "release")
  /\ r \in Top(t).rest /\ ~draining[t]
  /\ pending' = [pending EXCEPT ![t] = Append(@, r)]
  /\ draining' = [draining EXCEPT ![t] = TRUE]
  /\ LET frames == Append(Below(t), [Top(t) EXCEPT !.rest = @ \ {r}])
     IN  stack' = [stack EXCEPT ![t] = Append(frames, Frame("drain", None, {}))]
  /\ UNCHANGED valueVars

(* release_value: append, and drain unless an outer frame is at it.        *)
Release(t, r) ==
  /\ In(t, "tear") \/ In(t, "release")
  /\ r \in Top(t).rest
  /\ pending' = [pending EXCEPT ![t] = Append(@, r)]
  /\ draining' = [draining EXCEPT ![t] = TRUE]
  /\ LET frames == Append(Below(t), [Top(t) EXCEPT !.rest = @ \ {r}])
     IN  stack' = [stack EXCEPT ![t] =
           IF draining[t] THEN frames ELSE Append(frames, Frame("drain", None, {}))]
  /\ UNCHANGED valueVars

ClearNext(t, r) ==
  /\ In(t, "clear") /\ r \in Top(t).rest
  /\ stack' = [stack EXCEPT ![t] =
       Append(Append(Below(t), [Top(t) EXCEPT !.rest = @ \ {r}]), Frame("drop", None, {r}))]
  /\ UNCHANGED <<valueVars, pending, draining>>

(* The node is freed, or the container is empty.                           *)
Done(t) ==
  /\ In(t, "tear") \/ In(t, "release") \/ In(t, "clear")
  /\ Top(t).rest = {}
  /\ live' = live \ {Top(t).node}
  /\ stack' = [stack EXCEPT ![t] = Below(t)]
  /\ UNCHANGED <<strong, target, slots, hands, pending, draining>>

(* The drain loop pops the newest, and drops it with the list unlocked.    *)
Pop(t) ==
  /\ In(t, "drain") /\ pending[t] # <<>>
  /\ pending' = [pending EXCEPT ![t] = SubSeq(@, 1, Len(@) - 1)]
  /\ stack' = [stack EXCEPT ![t] = Append(@, Frame("drop", None, {pending[t][Len(pending[t])]}))]
  /\ UNCHANGED <<valueVars, draining>>

Drained(t) ==
  /\ In(t, "drain") /\ pending[t] = <<>>
  /\ draining' = [draining EXCEPT ![t] = FALSE]
  /\ stack' = [stack EXCEPT ![t] = Below(t)]
  /\ UNCHANGED <<valueVars, pending>>

Teardown(t) ==
  \/ \E r \in Refs : LetGo(t, r) \/ Release(t, r) \/ ClearNext(t, r)
  \/ Done(t) \/ Pop(t) \/ Drained(t)

Call(t) ==
  \/ \E n \in Nodes, r \in Refs : New(t, n, r) \/ StoreIn(t, n, r) \/ Overwrite(t, n, r)
  \/ \E s, r \in Refs : Clone(t, s, r)
  \/ \E r \in Refs : DropHand(t, r) \/ \E u \in Owners : Give(t, u, r)
  \/ \E n \in Nodes : Clear(t, n)

GraphNext == \E t \in Owners : Teardown(t) \/ Call(t)

GraphSpec == GraphInit /\ [][GraphNext]_graphVars

(* A thread in the middle of a teardown goes on with it.                   *)
FairGraphSpec == GraphSpec /\ \A t \in Owners : WF_graphVars(Teardown(t))

-----------------------------------------------------------------------------
Frames == [op : {"drop", "tear", "clear", "release", "drain"},
           node : Nodes \cup {None}, rest : SUBSET Refs]

GraphTypeOK ==
  /\ live \subseteq Nodes
  /\ strong \in [Nodes -> Nat]
  /\ target \in [Refs -> Nodes \cup {None}]
  /\ slots \in [Nodes -> SUBSET Refs]
  /\ hands \in [Owners -> SUBSET Refs]
  /\ pending \in [Owners -> Seq(Refs)]
  /\ draining \in [Owners -> BOOLEAN]
  /\ stack \in [Owners -> Seq(Frames)]

Referrers(n) == {r \in Refs : target[r] = n}

(* The strong count counts the references, a node a reference names is     *)
(* allocated, and one nobody names is freed or being torn down.            *)
CountsExact ==
  /\ \A n \in Nodes : strong[n] = Cardinality(Referrers(n))
  /\ \A n \in Nodes : strong[n] > 0 => n \in live
  /\ \A n \in live : \/ strong[n] > 0
                     \/ \E t \in Owners : \E i \in DOMAIN stack[t] :
                          stack[t][i].op = "tear" /\ stack[t][i].node = n

(* Where a reference is: in nodes, in hand, on worklists, in frames.       *)
OnList(r, t) == {<<"pending", t, i>> : i \in {j \in DOMAIN pending[t] : pending[t][j] = r}}
InFrames(r, t) == {<<"frame", t, i>> : i \in {j \in DOMAIN stack[t] : r \in stack[t][j].rest}}
InSlots(r) == {"slot"} \X {n \in Nodes : r \in slots[n]}
InHands(r) == {"hand"} \X {t \in Owners : r \in hands[t]}
OnLists(r) == UNION {OnList(r, t) : t \in Owners}
InStacks(r) == UNION {InFrames(r, t) : t \in Owners}
Places(r) == InSlots(r) \cup InHands(r) \cup OnLists(r) \cup InStacks(r)

(* A value is in exactly one place until it is dropped, and in none after: *)
(* nothing is dropped twice and nothing is lost on the way, nor left on    *)
(* the worklist of a thread that has returned, whose next release drains.  *)
OnePlace ==
  /\ \A r \in Refs : Cardinality(Places(r)) = IF target[r] = None THEN 0 ELSE 1
  /\ \A t \in Owners : Calls(t) => pending[t] = <<>> /\ ~draining[t]

(* However deep the graph that dies, native frames do not nest: at most a  *)
(* container being cleared, a node that was dropped natively, the drain    *)
(* loop, and the one node the loop is dropping.                            *)
StackBounded == \A t \in Owners : Len(stack[t]) <= 4

(* Every drop returns.                                                     *)
TeardownEnds == \A t \in Owners : stack[t] # <<>> ~> stack[t] = <<>>
=============================================================================
