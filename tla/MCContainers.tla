----------------------------- MODULE MCContainers -----------------------------
(* A container is an array or a hash, of any engine: ArrayEngines with two *)
(* values and lengths up to four, which reach every slide, growth and      *)
(* spill, and HashEach with three keys, whose tables grow twice.  Tables   *)
(* are scaled down from hashbrown's 4, 8, 16 buckets.                      *)
EXTENDS ArrayEngines, HashEach, TLC

VARIABLE kind

MCInit ==
  /\ Init /\ HashInit
  /\ \/ kind = "array" /\ hashEngine = "Perl"
     \/ kind = "hash" /\ engine = "Perl"

MCNext ==
  /\ UNCHANGED kind
  /\ \/ kind = "array" /\ Next /\ UNCHANGED hashVars
     \/ kind = "hash" /\ HashNext /\ UNCHANGED vars

MCSpec == MCInit /\ [][MCNext]_<<vars, hashVars, kind>>

Symmetry == Permutations(Keys) \cup Permutations(Values)
=============================================================================
