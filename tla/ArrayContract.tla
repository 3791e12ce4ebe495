---------------------------- MODULE ArrayContract ----------------------------
(***************************************************************************)
(* What an array promises (containers.rs, the documentation of PerlArray   *)
(* and Array): a sequence of slots, each a value or a hole, that grows     *)
(* with holes below a store, shrinks past the holes at its end when its    *)
(* last element is deleted, and reads a hole as the undefined value.       *)
(*                                                                         *)
(* One thing is left open, because the engines differ in it: whether holes *)
(* already at the end go when another element is deleted.                  *)
(***************************************************************************)
EXTENDS Naturals, Sequences

CONSTANTS
  Values,    \* what a program stores
  Undef,     \* the undefined value
  Hole,      \* a slot in which nothing was ever stored
  Indices    \* the indices a program uses

VARIABLES
  seq,       \* the slots
  given,     \* the last call and what it returned
  readonly

vars == <<seq, given, readonly>>

Read(slot) == IF slot = Hole THEN Undef ELSE slot

(* The sequence reaching to index i, holes below it.                       *)
Reaching(s, i) ==
  [k \in 1 .. IF i < Len(s) THEN Len(s) ELSE i + 1 |-> IF k <= Len(s) THEN s[k] ELSE Hole]

(* The sequence without the holes at its end.                              *)
Trimmed(s) ==
  SubSeq(s, 1, CHOOSE n \in 0..Len(s) : /\ n = 0 \/ s[n] # Hole
                                        /\ \A k \in (n + 1)..Len(s) : s[k] = Hole)

Init == seq = <<>> /\ given = <<"new", Undef>> /\ readonly = FALSE

Write(call, s, answer) ==
  /\ ~readonly
  /\ given' = <<call, answer>> /\ seq' = s
  /\ UNCHANGED readonly

Set(i, v) == Write("set", [Reaching(seq, i) EXCEPT ![i + 1] = v], Undef)

EnsureElement(i) ==
  LET s == Reaching(seq, i) IN Write("ensure_element", [s EXCEPT ![i + 1] = Read(@)], Read(s[i + 1]))

Delete(i) ==
  LET s == [seq EXCEPT ![i + 1] = Hole]
  IN  IF i >= Len(seq) THEN Write("delete", seq, Undef)
      ELSE \/ Write("delete", Trimmed(s), Read(seq[i + 1]))
           \/ i + 1 < Len(seq) /\ Write("delete", s, Read(seq[i + 1]))

Push(v) == Write("push", Append(seq, v), Undef)
Unshift(v) == Write("unshift", <<v>> \o seq, Undef)

Pop ==
  IF seq = <<>> THEN Write("pop", seq, Undef)
  ELSE Write("pop", SubSeq(seq, 1, Len(seq) - 1), Read(seq[Len(seq)]))

Shift == IF seq = <<>> THEN Write("shift", seq, Undef) ELSE Write("shift", Tail(seq), Read(Head(seq)))

Clear == Write("clear", <<>>, Undef)

SetReadonly == readonly' = ~readonly /\ UNCHANGED <<seq, given>>

Next ==
  \/ \E i \in Indices, v \in Values : Set(i, v)
  \/ \E i \in Indices : EnsureElement(i) \/ Delete(i)
  \/ \E v \in Values : Push(v) \/ Unshift(v)
  \/ Pop \/ Shift \/ Clear \/ SetReadonly

Spec == Init /\ [][Next]_vars
=============================================================================
