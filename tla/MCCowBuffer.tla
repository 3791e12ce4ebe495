----------------------------- MODULE MCCowBuffer -----------------------------
(* CowBuffer with contents of up to two characters, of which a slice takes *)
(* the first or everything.                                                *)
EXTENDS CowBuffer, TLC

MCContents == {"xy", "x"}
MCCuts == {"whole", "front"}
MCCut(c, q) == IF q = "front" /\ c = "xy" THEN "x" ELSE c
MCCompose(p, q) == IF p = "whole" THEN q ELSE p

Symmetry == Permutations(Objs) \cup Permutations(Handles)
==============================================================================
