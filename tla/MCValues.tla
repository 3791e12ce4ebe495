------------------------------- MODULE MCValues -------------------------------
(* What is asked of one string or one value, in four kinds of questions:   *)
(* ByteWalks over texts, NumericStrings over words, Values over slots and  *)
(* StringCompare over pairs of strings.                                    *)
EXTENDS Values, NumericStrings, ByteWalks, StringCompare, TLC

VARIABLE kind

(* Pieces of texts: for every form of the encoding the characters at the   *)
(* ends of its range, where a form changes class too,                      *)
(* and what no reading accepts, at the boundaries of each rule.  A block   *)
(* of four bytes puts every boundary inside some character.                *)

Fill(n, b) == [i \in 1..n |-> b]

Of(c, encodings) == {[bytes |-> e, class |-> c] : e \in encodings}

MCPieces ==
  Of("Ascii", {<<65>>, <<127>>})
    \cup Of("Utf8Latin1", {<<194, 128>>, <<195, 191>>})
    \cup Of("Utf8NonLatin1",
            {<<196, 128>>, <<223, 191>>, <<224, 160, 128>>, <<237, 159, 191>>,
             <<238, 128, 128>>, <<240, 144, 128, 128>>, <<244, 143, 191, 191>>})
    \cup Of("ExtendedUtf8",
            {<<237, 160, 128>>, <<237, 191, 191>>, <<244, 144, 128, 128>>,
             <<248, 136, 128, 128, 128>>, <<253>> \o Fill(5, 191),
             <<254, 130>> \o Fill(5, 128), <<254>> \o Fill(6, 191),
             <<255>> \o Fill(5, 128) \o <<129>> \o Fill(6, 128),
             <<255, 128, 135>> \o Fill(10, 191)})
    \cup Of("MalformedUtf8",
            {<<128>>, <<193, 191>>, <<195>>, <<224, 159, 191>>, <<224, 160>>,
             <<240, 143, 191, 191>>, <<252, 131>> \o Fill(4, 191),
             <<254, 129>> \o Fill(5, 191), <<255>> \o Fill(6, 128) \o Fill(6, 191),
             <<255, 128, 136>> \o Fill(10, 128)})

(* Four slots' worth of payloads: what is false, what is true, a string    *)
(* whose integer and whose number differ, a float that shows a dot.        *)
FloatValue == [class |-> "finite", negative |-> TRUE, m |-> 4, e |-> -1]
MCBirths ==
  {[kind |-> "Undef", tainted |-> TRUE], [kind |-> "True", tainted |-> FALSE],
   [kind |-> "String", tainted |-> TRUE, s |-> <<"4", "e", "1", "x">>],
   [kind |-> "Number", tainted |-> FALSE, x |-> [kind |-> "Float", f |-> FloatValue],
    digits |-> [count |-> 0, exp |-> 0, bytes |-> <<>>]]}

(* Pairs of contents, some the upgrade or the encoding of another, with    *)
(* their first difference in, at and after the first block.                *)
MCContents ==
  {<<>>, <<65>>, <<65, 66>>, <<233>>, <<255>>, <<195>>, <<195, 169>>, <<65, 233>>,
   <<65, 195, 169>>, <<195, 131, 194, 169>>, <<65, 66, 65, 233>>, <<65, 66, 65, 195, 169>>,
   <<195, 191>>, <<196, 128>>, <<237, 160, 128>>}

ASSUME QuestionsAssumption == /\ WidthAssumption /\ ValuesAssumption /\ StringsAssumption

-----------------------------------------------------------------------------
EmptyString == [bytes |-> <<>>, utf8 |-> FALSE, form |-> "envelope", scan |-> "Ascii", count |-> 0]

NoWalk ==
  /\ walk = "none" /\ text = <<>> /\ buf = <<>> /\ result = <<>>
  /\ truth = [class |-> "Ascii", chars |-> 0] /\ facts = truth
  /\ pos = 0 /\ dst = 0 /\ soft = 0
NoPair == left = EmptyString /\ right = EmptyString

MCInit ==
  /\ kind \in {"walk", "word", "slot", "pair"}
  /\ IF kind = "walk" THEN WalkInit ELSE NoWalk
  /\ IF kind = "pair" THEN PairInit ELSE NoPair
  /\ WordInit /\ Init

MCNext ==
  /\ UNCHANGED kind
  /\ \/ kind = "walk" /\ WalkNext /\ UNCHANGED <<word, vars, pairVars>>
     \/ kind = "word" /\ WordNext /\ UNCHANGED <<walkVars, vars, pairVars>>
     \/ kind = "slot" /\ Next /\ UNCHANGED <<walkVars, word, pairVars>>
     \/ kind = "pair" /\ PairNext /\ UNCHANGED <<walkVars, word, vars>>

MCSpec == MCInit /\ [][MCNext]_<<kind, walkVars, word, vars, pairVars>>

Symmetry == Permutations(Slots)
=============================================================================
