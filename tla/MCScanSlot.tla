------------------------------ MODULE MCScanSlot ------------------------------
(* Instances of ScanSlot with the births a heap buffer and an adopted       *)
(* object can really have.                                                  *)
EXTENDS ScanSlot

MCBirths ==
  [f \in Forms |->
     IF f = "Heap" THEN Terminal \cup {"Unknown"}
     ELSE {"Unknown", "Ascii", "MaybeUtf8Latin1", "ValidUtf8", "MaybeExtendedUtf8", "MalformedUtf8"}]

AsStrAndProbe == {"as_str", "is_ascii"}
===============================================================================
