---------------------------- MODULE MCSourceLines ----------------------------
(* SourceLines on texts chosen so that bodies meet every way they can:     *)
(* heredocs in bodies and bodies in heredocs, two introducers on a line,   *)
(* indents within indents, closes at either end of a line, and bodies that *)
(* never close.                                                            *)
EXTENDS SourceLines, TLC

Closed(lines) == [lines |-> lines, closed |-> TRUE]
Unclosed(lines) == [lines |-> lines, closed |-> FALSE]

MCShort == Unclosed(<< <<"<", "(">>, <<"\\">> >>)

MCTexts == {
  Closed(<< <<"<", "x">>, <<"x">>, <<"T">>, <<"x">> >>),
  Closed(<< <<"<", "<">>, <<"(">>, <<"T">>, <<")">>, <<"T">> >>),
  Unclosed(<< <<"(", "<", ")">>, <<"x">>, <<"T">> >>),
  Closed(<< <<"(", "<">>, <<>>, <<"T">>, <<")", "x">> >>),
  Closed(<< <<"(", "x">>, <<"\\", ")", "\\">>, <<"(", ")", ")">> >>),
  Unclosed(<< <<"~", "x">>, <<" ", "<">>, <<" ", "x">>, <<" ", "T">>, <<" ", "U">> >>),
  Closed(<< <<"(", "~">>, <<" ", " ", "x">>, <<" ", "U", ")">> >>),
  Closed(<< <<"~", "(">>, <<" ", "(", "x">>, <<>>, <<" ", ")", "x">>, <<" ", "U">> >>),
  Unclosed(<< <<"~">>, <<"x">>, <<" ", "U">> >>),
  MCShort }
=============================================================================
