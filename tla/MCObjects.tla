------------------------------- MODULE MCObjects -------------------------------
(* One object that owns memory, through every sequence of operations: a    *)
(* string (StringBuffer), an array or a hash (MCContainers).  Strings have *)
(* up to five bytes, which reach every tier and class: they are built from *)
(* a packable digit, the two classes of two bytes, a surrogate, and the    *)
(* halves of a sequence, so that an append completes or breaks a character. *)
EXTENDS MCContainers, StringBuffer

MCOriginals == {<<48, 48>>, <<195, 169, 48>>, <<196, 128, 48, 195>>, <<237, 160, 128, 48>>}
MCStrs == {<<48>>, <<195, 169>>, <<196, 128>>}
MCRaws == {<<195>>, <<169>>}

ObjectsInit ==
  /\ StringInit
  /\ MCInit \/ (kind = "string" /\ engine = "Perl" /\ hashEngine = "Perl" /\ Init /\ HashInit)

ObjectsNext ==
  \/ MCNext /\ UNCHANGED v
  \/ kind = "string" /\ StringNext /\ UNCHANGED <<vars, hashVars, kind>>

ObjectsSpec == ObjectsInit /\ [][ObjectsNext]_<<vars, hashVars, kind, v>>
================================================================================
