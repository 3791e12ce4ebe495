-------------------------------- MODULE Symbols --------------------------------
(***************************************************************************)
(* The symbol table of perl-parser/src/symbol.rs: for every package the    *)
(* subs declared in it and its imports, each a name in another package.    *)
(* Declarations are of bare names: one with a qualifier is kept under that *)
(* whole name in the current package, where no lookup, which splits the    *)
(* name it is given, ever goes.                                            *)
(***************************************************************************)
EXTENDS Integers, Sequences, SequencesExt, FiniteSets

CONSTANTS Packages, SubNames

SymbolsAssumption == /\ "" \notin Packages /\ "main" \in Packages
                     /\ IsFiniteSet(Packages) /\ IsFiniteSet(SubNames)

VARIABLES subs,     \* what is declared under a key: "none", "plain" or "proto"
          imports   \* the key a local name stands for, or NotImported

Keys == Packages \X SubNames
NotImported == <<>>

(* split_qualified_name *)
Split(qualifier, name, package) == <<IF qualifier = "" THEN package ELSE qualifier, name>>

(* SymbolTable::resolve: a loop from key to key.  A round leaves with an   *)
(* answer, own subs before the import, or goes on at the imported key, and *)
(* remembers every key it has been at.                                     *)
Start(key) == [at |-> key, visited |-> {}, found |-> "open"]
Leave(s, answer) == [s EXCEPT !.found = answer]
GoOn(s) == [s EXCEPT !.at = imports[s.at], !.visited = @ \cup {s.at}]
RoundUnless(been, s) ==
  IF s.found # "open" THEN s
  ELSE IF been THEN Leave(s, "none")
  ELSE IF subs[s.at] # "none" THEN Leave(s, subs[s.at])
  ELSE IF imports[s.at] = NotImported THEN Leave(s, "none")
  ELSE GoOn(s)
RoundOncePerPackage(s) ==            \* variant: the cycle check sees packages only
  RoundUnless(s.at[1] \in {key[1] : key \in s.visited}, s)
Round(s) == RoundUnless(s.at \in s.visited, s)

MaxRounds == Cardinality(Keys) + 1
Resolve(key) ==
  LET after[i \in 0..MaxRounds] == IF i = 0 THEN Start(key) ELSE Round(after[i - 1])
  IN after[MaxRounds].found

Lookup(qualifier, name, package) == Resolve(Split(qualifier, name, package))

DeclareFirst(package, name, what) ==         \* variant: the first declaration stays
  subs' = [subs EXCEPT ![<<package, name>>] = IF @ = "none" THEN what ELSE @]

(* declare_sub replaces whatever is there, a definition by a forward       *)
(* declaration too.                                                        *)
Declare(package, name, what) == subs' = [subs EXCEPT ![<<package, name>>] = what]

Import(package, n, from, fromName) ==
  /\ imports' = [imports EXCEPT ![<<package, n>>] = <<from, fromName>>]
  /\ UNCHANGED subs

Init == /\ subs = [k \in Keys |-> "none"]
        /\ imports = [k \in Keys |-> NotImported]

Next ==
  \/ \E p \in Packages, n \in SubNames, what \in {"plain", "proto"} :
        Declare(p, n, what) /\ UNCHANGED imports
  \/ \E p, q \in Packages, n, m \in SubNames : Import(p, n, q, m)

Spec == Init /\ [][Next]_<<subs, imports>>

------------------------------------------------------------------------------
(* A lookup finds the first declared sub on the way the imports lead, and  *)
(* finds none where they lead in a circle or to a name nobody declared:    *)
(* after as many steps as there are keys a way has ended or never does     *)
(* (symbol.rs:350).                                                        *)
LookupFollowsImports ==
  \A p \in Packages, n \in SubNames :
    LET Step(k) == IF subs[k] = "none" /\ imports[k] # NotImported THEN imports[k] ELSE k
        way[i \in 0..Cardinality(Keys)] == IF i = 0 THEN <<p, n>> ELSE Step(way[i - 1])
    IN Lookup("", n, p) = subs[way[Cardinality(Keys)]]
==============================================================================
