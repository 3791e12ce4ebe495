-------------------------------- MODULE Values --------------------------------
(***************************************************************************)
(* Values in slots (value.rs): what a value answers when it is asked for   *)
(* its truth, a number, a string or its taint, and how a slot that has a   *)
(* reference taken to it goes on answering through the cell it now         *)
(* aliases.                                                                *)
(*                                                                         *)
(* A value is a kind, its datum and its taint.  Tainted twins of a variant *)
(* are one kind here.  Cells are allocated in order; their drop is the     *)
(* subject of ReleaseWorklist, their locks of ScalarCell.                  *)
(***************************************************************************)
EXTENDS Numeric

CONSTANTS
  Slots,      \* slots and
  Cells,      \* addresses, numbered from 1
  NoSlot,
  Births      \* values that are put in a slot


VARIABLES
  slot,  \* the value in each slot
  cell,  \* what is at each address: [form, payload], form "None", "Mut" or "Const"
  taken, \* for a slot that holds a reference, the slot it was taken from
  op     \* the operation last made, and the slot it overwrote

vars == <<slot, cell, taken, op>>

Plain(kind, tainted) == [kind |-> kind, tainted |-> tainted]
Undef == Plain("Undef", FALSE)
DualValue(s, x, tainted) == [kind |-> "Dual", tainted |-> tainted, s |-> s, x |-> x]
To(kind, c, tainted) == [kind |-> kind, tainted |-> tainted, cell |-> c]

References == {"ScalarRef", "ConstScalarRef"}
Aliases == {"AliasMut", "AliasConst"}

IsNumber(x) ==
  \/ x.kind \in {"Integer", "Unsigned"} /\ x.n \in Int
  \/ /\ x.kind = "Float" /\ x.f.class \in {"finite", "inf", "nan"}
     /\ x.f.class = "finite" => x.f.m \in Nat /\ x.f.e \in Int

(* What is put in a slot from outside refers to no cell, and a number      *)
(* carries no digits yet.                                                  *)
IsBirth(v) ==
  \/ v.kind \in {"Undef", "True", "False"} /\ v = Plain(v.kind, v.tainted)
  \/ v.kind = "String" /\ v = [kind |-> "String", tainted |-> v.tainted, s |-> v.s]
  \/ v.kind = "Dual" /\ v = DualValue(v.s, v.x, v.tainted)
  \/ /\ v.kind = "Number" /\ IsNumber(v.x)
     /\ v = [kind |-> "Number", tainted |-> v.tainted, x |-> v.x, digits |-> Empty]

ValuesAssumption ==
  /\ NoSlot \notin Slots /\ Cells \subseteq Nat \ {0} /\ \A v \in Births : IsBirth(v)

(* An aliasing slot answers every question through its cell's payload.     *)
Resolved(v) == IF v.kind \in Aliases THEN cell[v.cell].payload ELSE v

-----------------------------------------------------------------------------
(* Coercions, of a resolved value.                                         *)

Truth(s) == s \notin {<<>>, <<"0">>}

\* Variant: truth asks for the integer.
IsZeroInteger(x) == NumberToInt(x) = 0

IsZero(x) == IF x.kind = "Float" THEN x.f.class = "finite" /\ x.f.m = 0 ELSE x.n = 0

ToBool(v) ==
  CASE v.kind \in {"Undef", "False"}  -> FALSE
    [] v.kind = "Number"              -> ~IsZero(v.x)
    [] v.kind \in {"String", "Dual"}  -> Truth(v.s)
    [] OTHER                          -> TRUE

Numify(v) ==
  CASE v.kind \in {"Undef", "False"}  -> Integer(0)
    [] v.kind = "True"                -> Integer(1)
    [] v.kind \in {"Number", "Dual"}  -> v.x
    [] v.kind = "String"              -> ClassifyNumeric(v.s)[1]
    [] OTHER                          -> Integer(v.cell)

ToInt(v) == IF v.kind = "String" THEN ParseInt(v.s) ELSE NumberToInt(Numify(v))

ToFloat(v) ==
  IF v.kind = "String" THEN ParseFloatSpanned(v.s)[1] ELSE NumberToFloat(Numify(v))

Stringify(v) ==
  CASE v.kind \in {"Undef", "False"}  -> <<>>
    [] v.kind = "True"                -> <<"1">>
    [] v.kind = "Number"              -> Render(v.x, v.digits)
    [] v.kind \in {"String", "Dual"}  -> v.s
    [] OTHER                          -> <<"SCALAR(0x", ")">> \o FormatInt(v.cell)

(* deref_scalar: the address behind a reference, 0 for any other value.    *)
DerefScalar(v) == IF v.kind \in References THEN v.cell ELSE 0

Faces(v) ==
  [truth |-> ToBool(v), number |-> Numify(v), integer |-> ToInt(v), float |-> ToFloat(v),
   string |-> Stringify(v), tainted |-> v.tainted, scalar |-> DerefScalar(v)]

(* The answers once the integer is the number's, as a Dual's is.           *)
IntegerOfNumber(v) == [Faces(v) EXCEPT !.integer = NumberToInt(Numify(v))]

(* The strings that are put in a slot are any but a negative zero, the one *)
(* string whose float, -0, is not that of its number, the integer 0.       *)
NegativeZero(s) == SplitSign(s).negative /\ ClassifyNumeric(s)[1] = Integer(0)
StringsAssumption ==
  \A v \in Births : v.kind = "String" => v.s \in Seq(ToSet(v.s)) /\ ~NegativeZero(v.s)

-----------------------------------------------------------------------------
(* Operations.                                                             *)

Init ==
  /\ slot = [i \in Slots |-> Undef]
  /\ cell = [c \in Cells |-> [form |-> "None", payload |-> Undef]]
  /\ taken = [i \in Slots |-> NoSlot]
  /\ op = <<"none", NoSlot>>

FreeCells == {c \in Cells : cell[c].form = "None"}
NewCell == CHOOSE c \in FreeCells : \A d \in FreeCells : c <= d
Birth(form, v) == cell' = [cell EXCEPT ![NewCell] = [form |-> form, payload |-> v]]

Did(name, j) == op' = <<name, j>>

(* A slot that is given something else leaves the references taken to it,  *)
(* and its own, on their own.                                              *)
Place(j, v, from) ==
  /\ slot' = [slot EXCEPT ![j] = v]
  /\ taken' = [k \in Slots |-> IF k = j THEN from ELSE IF taken[k] = j THEN NoSlot ELSE taken[k]]

Put(j, v) == Place(j, v, NoSlot) /\ Did("put", NoSlot) /\ UNCHANGED cell

Copy(i, j) ==
  /\ i # j
  /\ Place(j, Resolved(slot[i]), IF slot[i].kind \in References /\ taken[i] # j THEN taken[i] ELSE NoSlot)
  /\ Did("put", NoSlot) /\ UNCHANGED cell

ReferenceTo(v) ==
  To(IF v.kind = "AliasConst" THEN "ConstScalarRef" ELSE "ScalarRef", v.cell, FALSE)

\* Variant: a slot that is an alias already is promoted once more.
TakeRefAgain(i, j) ==
  LET alias == To("AliasMut", NewCell, FALSE)
  IN  /\ i # j /\ FreeCells # {}
      /\ Birth("Mut", Resolved(slot[i]))
      /\ slot' = [slot EXCEPT ![i] = alias, ![j] = ReferenceTo(alias)]
      /\ taken' = [k \in Slots |-> IF k = j THEN i ELSE IF taken[k] = j THEN NoSlot ELSE taken[k]]
      /\ Did("take_ref", j)

(* take_ref: the value moves to a cell of its own, which the slot aliases  *)
(* from now on; j receives the reference, which is clean.                  *)
TakeRef(i, j) ==
  LET promoted == slot[i].kind \in Aliases
      alias == IF promoted THEN slot[i] ELSE To("AliasMut", NewCell, FALSE)
  IN  /\ i # j /\ (promoted \/ FreeCells # {})
      /\ IF promoted THEN UNCHANGED cell ELSE Birth("Mut", slot[i])
      /\ slot' = [slot EXCEPT ![i] = alias, ![j] = ReferenceTo(alias)]
      /\ taken' = [k \in Slots |-> IF k = j THEN i ELSE IF taken[k] = j THEN NoSlot ELSE taken[k]]
      /\ Did("take_ref", j)

(* A payload is frozen into a cell that materializes its coercions.        *)
Freeze(i) ==
  /\ slot[i].kind \notin Aliases /\ FreeCells # {}
  /\ Birth("Const", slot[i])
  /\ slot' = [slot EXCEPT ![i] = To("AliasConst", NewCell, FALSE)]
  /\ Did("freeze", NoSlot) /\ UNCHANGED taken

(* Writing through a reference: a Const cell has no lock to hand out.      *)
Assign(i, v) ==
  LET c == DerefScalar(Resolved(slot[i])) IN
  /\ c # 0 /\ cell[c].form = "Mut"
  /\ cell' = [cell EXCEPT ![c].payload = v]
  /\ taken' = [j \in Slots |-> IF slot[j].kind \in Aliases /\ slot[j].cell = c THEN NoSlot ELSE taken[j]]
  /\ Did("assign", NoSlot) /\ UNCHANGED slot

Noting(i, v) ==
  LET c == slot[i].cell IN
  /\ slot[i].kind = "AliasMut" /\ cell[c].form = "Mut"
  /\ cell[c].payload.kind = "String" /\ ClassifyNumeric(cell[c].payload.s)[2]
  /\ cell' = [cell EXCEPT ![c].payload = v]
  /\ Did("note", NoSlot) /\ UNCHANGED <<slot, taken>>

\* Variant: the string is parsed as an integer.
NoteInteger(i) ==
  LET p == Resolved(slot[i]) IN
  Noting(i, DualValue(p.s, Integer(ParseInt(p.s)), p.tainted))

(* numify_noting_warning: a string that warns becomes a Dual.              *)
Note(i) ==
  LET p == Resolved(slot[i]) IN
  Noting(i, DualValue(p.s, ClassifyNumeric(p.s)[1], p.tainted))

WithCachedDigits(i) ==
  /\ slot[i].kind = "Number"
  /\ slot' = [slot EXCEPT ![i].digits = Filled(slot[i].x)]
  /\ Did("cache", NoSlot) /\ UNCHANGED <<cell, taken>>

Next ==
  \E i \in Slots :
    \/ \E v \in Births : Put(i, v) \/ Assign(i, v)
    \/ \E j \in Slots : Copy(i, j) \/ TakeRef(i, j)
    \/ Freeze(i) \/ Note(i) \/ WithCachedDigits(i)

Spec == Init /\ [][Next]_vars

-----------------------------------------------------------------------------
(* The faces of a value agree, however it is held: truth is that of the    *)
(* string it renders as, and a number asked of it is the number it         *)
(* numifies as.  Duals have faces of their own, and the integer of a       *)
(* string stops at an exponent or a word (value.rs, the contracts of the   *)
(* module's header).                                                       *)
FacesAgree ==
  \A i \in Slots : \A v \in {Resolved(slot[i])} :
    /\ ToBool(v) = Truth(Stringify(v))
    /\ ToFloat(v) = NumberToFloat(Numify(v))
    /\ \/ v.kind = "String" /\ ~Exact(Stringify(v))
       \/ ToInt(v) = NumberToInt(Numify(v))

(* Promoting a slot, freezing it or caching its digits changes no answer   *)
(* of any slot, but for the one a reference is put in.  Noting a warning   *)
(* changes one: where an exponent or a word ends a string's integer but    *)
(* not its number, "1e3x", the integer is the number's from then on, 1000  *)
(* after 1 (value.rs, parse_int_i64_visible; scalar.rs,                    *)
(* numify_noting_warning); every other answer, and the integer of every    *)
(* other string, stays.                                                    *)
FacesKept ==
  [][\A i \in Slots : \A was \in {Resolved(slot[i])} : \A v \in {Resolved(slot[i])'} :
       op'[1] \in {"take_ref", "freeze", "note", "cache"} /\ op'[2] # i /\ v # was
         => \/ Faces(v) = Faces(was)
            \/ /\ op'[1] = "note" /\ ~Exact(Stringify(was))
               /\ Faces(v) = IntegerOfNumber(was)]_vars

(* A slot and the references taken to it name one cell however often they  *)
(* were taken, copied and written through, until one of them is given      *)
(* something else: taking a reference is idempotent on identity.           *)
OneIdentity ==
  \A j \in Slots :
    LET i == taken[j] IN
    i # NoSlot => slot[i].kind \in Aliases /\ DerefScalar(Resolved(slot[j])) = slot[i].cell
=============================================================================
