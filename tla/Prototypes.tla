------------------------------ MODULE Prototypes ------------------------------
(***************************************************************************)
(* SubPrototype::parse of perl-parser/src/symbol.rs: one character after   *)
(* the other, as the loop reads them.  A character stands for all those    *)
(* the loop takes alike: "$" for $ & *, which a backslash and a group take *)
(* too, "_" for _ +, which they refuse, "@" for both slurpies, " " for     *)
(* space and tab, "\n" for newline and carriage return, "x" for what has   *)
(* no meaning.                                                             *)
(***************************************************************************)
EXTENDS Integers, Sequences, SequencesExt, FiniteSets

CONSTANTS MaxProto

PrototypesAssumption == MaxProto \in Nat

VARIABLES raw,       \* the characters read so far
          slots,     \* the slots they make
          required,  \* required_count once ";" was seen, -1 before
          within     \* "" between slots, "\\" after a backslash, "[" in a group, "error"

protoVars == <<raw, slots, required, within>>

Chars == {"$", "_", "@", ";", "\\", "[", "]", " ", "\n", "x"}
Whitespace == {" ", "\n"}
RefKinds == {"$", "@"}

ProtoInit == raw = <<>> /\ slots = <<>> /\ required = -1 /\ within = ""

Slurped == slots # <<>> /\ Last(slots) = "@"
Slot(s) == slots' = Append(slots, s) /\ within' = "" /\ UNCHANGED required
Fail == within' = "error" /\ UNCHANGED <<slots, required>>
Skip == UNCHANGED <<slots, required, within>>

SemicolonAgain ==                            \* variant: the last ";" counts
  required' = Len(slots) /\ UNCHANGED <<slots, within>>
Semicolon ==
  /\ required' = IF required < 0 THEN Len(slots) ELSE required
  /\ UNCHANGED <<slots, within>>

(* A character between two slots.                                          *)
TopChar(c) ==
  IF Slurped /\ c \notin Whitespace \cup {";"} THEN Fail
  ELSE CASE c \in Whitespace -> Skip
         [] c = ";" -> Semicolon
         [] c \in {"$", "_", "@"} -> Slot(c)
         [] c = "\\" -> within' = "\\" /\ UNCHANGED <<slots, required>>
         [] OTHER -> Fail

(* The character after a backslash, then those of a group, which skips     *)
(* spaces and tabs only.                                                   *)
RefChar(c) ==
  CASE c \in RefKinds -> Slot("ref")
    [] c = "[" -> within' = "[" /\ UNCHANGED <<slots, required>>
    [] OTHER -> Fail
GroupChar(c) ==
  CASE c = " " -> Skip
    [] c \in RefKinds -> within' = "[k" /\ UNCHANGED <<slots, required>>
    [] c = "]" -> IF within = "[k" THEN Slot("refs") ELSE Fail
    [] OTHER -> Fail

ProtoNext ==
  /\ Len(raw) < MaxProto /\ within # "error"
  /\ \E c \in Chars :
       /\ raw' = Append(raw, c)
       /\ \/ within = "" /\ TopChar(c)
          \/ within = "\\" /\ RefChar(c)
          \/ within \in {"[", "[k"} /\ GroupChar(c)

ProtoSpec == ProtoInit /\ [][ProtoNext]_protoVars

(* What the parser returns at the end of the string.                       *)
Parsed == IF within # "" THEN [ok |-> FALSE, required |-> 0, slots |-> <<>>]
          ELSE [ok |-> TRUE, required |-> IF required < 0 THEN Len(slots) ELSE required,
                slots |-> slots]

------------------------------------------------------------------------------
(* The grammar of a prototype, without the loop: slots that follow one     *)
(* another, each $, _, @, a reference or a non-empty group of references,  *)
(* with blanks and newlines between the slots, blanks in a group, neither  *)
(* behind a backslash, and nothing behind a slurpy.                        *)
SlotAt(s, i, j) ==
  \/ j = i /\ s[i] \in {"$", "_", "@"}
  \/ j = i + 1 /\ s[i] = "\\" /\ s[j] \in RefKinds
  \/ /\ j > i + 2 /\ s[i] = "\\" /\ s[i + 1] = "[" /\ s[j] = "]"
     /\ \A k \in (i + 2)..(j - 1) : s[k] \in RefKinds \cup {" "}
     /\ \E k \in (i + 2)..(j - 1) : s[k] \in RefKinds
SlotNamed(s, i, j) == IF j = i THEN s[i] ELSE IF j = i + 1 THEN "ref" ELSE "refs"

(* The slots of a string are its longest parts that are written as one.    *)
Parts(s) ==
  LET spans == {a \in (1..Len(s)) \X (1..Len(s)) : a[1] <= a[2] /\ SlotAt(s, a[1], a[2])}
  IN {a \in spans : ~ \E b \in spans : a # b /\ b[1] <= a[1] /\ a[2] <= b[2]}
WellWritten(s) ==
  /\ \A k \in 1..Len(s) : s[k] \in Whitespace \cup {";"} \/ \E a \in Parts(s) : k \in a[1]..a[2]
  /\ \A a, b \in Parts(s) : a[2] < b[1] => s[a[1]] # "@"

(* The parts that begin no later than one.                                 *)
Rank(a, parts) == Cardinality({b \in parts : b[1] <= a[1]})

(* A prototype is accepted exactly when it is written in the grammar, has  *)
(* the slots it is written with, in their order, and demands those before  *)
(* its first ";" (symbol.rs:109).                                          *)
PrototypeAsWritten ==
  LET Demanded(a) == \A k \in 1..a[1] : raw[k] # ";"
  IN /\ Parsed.ok <=> WellWritten(raw)
     /\ Parsed.ok =>
          /\ Len(Parsed.slots) = Cardinality(Parts(raw))
          /\ \A a \in Parts(raw) : Parsed.slots[Rank(a, Parts(raw))] = SlotNamed(raw, a[1], a[2])
          /\ Parsed.required = Cardinality({a \in Parts(raw) : Demanded(a)})

(* A blank or a newline between slots or in a group changes nothing:       *)
(* "Whitespace in prototypes is ignored" (symbol.rs:108).                  *)
BlanksIgnored ==
  [][Last(raw') \in Whitespace /\ within # "\\" => UNCHANGED <<slots, required, within>>]_protoVars
==============================================================================
