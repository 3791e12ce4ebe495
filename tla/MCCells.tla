------------------------------- MODULE MCCells -------------------------------
(* What threads share without a lock around it all, in three kinds of      *)
(* behaviours: the scan slot of a buffer that they ask questions of        *)
(* (ScanSlot), one cell that they coerce, assign and numify (ScalarCell),  *)
(* and a graph of cells, arrays and hashes that they build and let go of   *)
(* (ReleaseWorklist).  Two threads, three nodes and three references are   *)
(* the least that build a chain two nodes deep below a node in hand, share *)
(* a node, and close a cycle.                                              *)
EXTENDS MCScanSlot, MCScalarCell, ReleaseWorklist

ASSUME GraphAssumption == NoneAssumption /\ FiniteAssumption

VARIABLE kind

SlotAtRest == Init /\ form = "Heap" /\ class = "Ascii" /\ birth = "Ascii"
CellAtRest == CellInit /\ shape = "Plain" /\ payload = Undef

MCInit ==
  /\ GraphInit
  /\ \/ kind = "slot" /\ Init /\ CellAtRest
     \/ kind = "cell" /\ SlotAtRest /\ CellInit
     \/ kind = "graph" /\ SlotAtRest /\ CellAtRest

MCNext ==
  /\ UNCHANGED kind
  /\ \/ kind = "slot" /\ Next /\ UNCHANGED <<scalarVars, graphVars>>
     \/ kind = "cell" /\ CellNext /\ UNCHANGED <<vars, graphVars>>
     \/ kind = "graph" /\ GraphNext /\ UNCHANGED <<vars, scalarVars>>

(* A reader in the middle of a question goes on with it, and a thread in   *)
(* the middle of a teardown.                                               *)
MCSpec ==
  /\ MCInit /\ [][MCNext]_<<kind, vars, scalarVars, graphVars>>
  /\ \A r \in Readers :
       WF_vars(kind = "slot" /\ Step(r) /\ UNCHANGED <<kind, scalarVars, graphVars>>)
  /\ \A t \in Owners :
       WF_graphVars(kind = "graph" /\ Teardown(t) /\ UNCHANGED <<kind, vars, scalarVars>>)
==============================================================================
