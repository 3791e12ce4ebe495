----------------------------- MODULE StringValues -----------------------------
(***************************************************************************)
(* What perl-core promises of strings: each handle has a value of its own. *)
(* Cloning or slicing gives a new handle a value, writing through a handle *)
(* changes that handle's value and no other, whatever is shared below.     *)
(***************************************************************************)
CONSTANTS
  Handles,   \* the places a PString can live
  Contents,  \* byte contents
  Cuts,      \* sub-ranges a slice can take
  Cut(_, _), \* the content a cut leaves
  NoValue    \* a place that holds no string

VARIABLE value

Init == value = [h \in Handles |-> NoValue]

New(h, c) ==
  /\ value[h] = NoValue
  /\ value' = [value EXCEPT ![h] = c]

Clone(h, g) ==
  /\ value[h] # NoValue /\ value[g] = NoValue
  /\ value' = [value EXCEPT ![g] = value[h]]

Slice(h, g, q) ==
  /\ value[h] # NoValue /\ value[g] = NoValue
  /\ value' = [value EXCEPT ![g] = Cut(value[h], q)]

Write(h, c) ==
  /\ value[h] # NoValue
  /\ value' = [value EXCEPT ![h] = c]

Drop(h) ==
  /\ value[h] # NoValue
  /\ value' = [value EXCEPT ![h] = NoValue]

Next ==
  \E h \in Handles :
    \/ \E c \in Contents : New(h, c) \/ Write(h, c)
    \/ \E g \in Handles : Clone(h, g)
    \/ \E g \in Handles, q \in Cuts : Slice(h, g, q)
    \/ Drop(h)

Spec == Init /\ [][Next]_value
===============================================================================
