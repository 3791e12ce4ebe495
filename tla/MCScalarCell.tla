---------------------------- MODULE MCScalarCell ----------------------------
(* ScalarCell asked as an integer and as a string, with the two payloads   *)
(* that matter beside a number: a string whose to_int stops at the e while *)
(* numifying it reads 1000, and the Dual numifying makes of it.            *)
EXTENDS ScalarCell, TLC

MCPayloads == {"Undef", "Integer 5", "String 1e3x", "Dual 1e3x"}
MCWarns(p) == p = "String 1e3x"
MCFace(p) == "Dual 1e3x"

MCCoerce(v, p) ==
  IF v = "string"
  THEN CASE p = "Undef" -> "" [] p = "Integer 5" -> "5" [] OTHER -> "1e3x"
  ELSE CASE p = "Undef" -> "0" [] p = "Integer 5" -> "5" [] MCWarns(p) -> "1" [] OTHER -> "1000"

Symmetry == Permutations(Threads)
=============================================================================
