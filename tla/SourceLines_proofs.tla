-------------------------- MODULE SourceLines_proofs --------------------------
(***************************************************************************)
(* Proofs about SourceLines, for every text: no byte is delivered twice    *)
(* and none is lost, no delivered line reaches past the bound it is read   *)
(* under, and a lookahead that was let go leaves no trace.                 *)
(***************************************************************************)
EXTENDS SourceLines, SequenceTheorems, FiniteSetTheorems, WellFoundedInduction, TLAPS

-----------------------------------------------------------------------------
(* Sequences, by their lengths.                                            *)

(* A sequence of n + 1 elements is its head and a tail of n.               *)
LEMMA TailOf ==
  ASSUME NEW S, NEW s \in Seq(S), NEW n \in Nat, Len(s) = n + 1
  PROVE  /\ s # <<>> /\ Head(s) = s[1] /\ s[1] \in S
         /\ Tail(s) \in Seq(S) /\ Len(Tail(s)) = n
         /\ \A i \in 1..n : Tail(s)[i] = s[i + 1]
<1>1. s # <<>>
  OBVIOUS
<1>2. s[1] \in S
  OBVIOUS
<1>3. Tail(s) \in Seq(S)
  BY <1>1
<1>4. Len(Tail(s)) = n
  BY <1>1
<1>5. \A i \in 1..n : Tail(s)[i] = s[i + 1]
  BY <1>1, <1>4, HeadTailProperties
<1> QED
  BY <1>1, <1>2, <1>3, <1>4, <1>5

(* Two sequences end to end, element by element.                           *)
LEMMA ConcatOf ==
  ASSUME NEW S, NEW s \in Seq(S), NEW t \in Seq(S), NEW m \in Nat, NEW n \in Nat,
         m = Len(s), n = Len(t)
  PROVE  /\ s \o t \in Seq(S) /\ Len(s \o t) = m + n
         /\ \A i \in 1..m : (s \o t)[i] = s[i]
         /\ \A i \in 1..n : (s \o t)[m + i] = t[i]
BY ConcatProperties

Joined(S, s, t, m, n) ==
  /\ s \o t \in Seq(S) /\ Len(s \o t) = m + n
  /\ \A i \in 1..m : (s \o t)[i] = s[i]
  /\ \A i \in 1..n : (s \o t)[m + i] = t[i]

(* The same, as one fact.                                                  *)
LEMMA JoinedAs ==
  ASSUME NEW S, NEW s \in Seq(S), NEW t \in Seq(S), NEW m \in Nat, NEW n \in Nat,
         m = Len(s), n = Len(t)
  PROVE  Joined(S, s, t, m, n)
BY ConcatProperties DEF Joined

(* A sequence with one element more, element by element.                   *)
LEMMA AppendOf ==
  ASSUME NEW S, NEW s \in Seq(S), NEW x \in S, NEW m \in Nat, m = Len(s)
  PROVE  /\ Append(s, x) \in Seq(S) /\ Len(Append(s, x)) = m + 1
         /\ \A i \in 1..m : Append(s, x)[i] = s[i]
         /\ Append(s, x)[m + 1] = x
OBVIOUS

(* A sequence that is not empty has n + 1 elements for some n.             *)
LEMMA OneMore ==
  ASSUME NEW S, NEW s \in Seq(S), s # <<>>
  PROVE  \E n \in Nat : Len(s) = n + 1
<1>1. Len(s) - 1 \in Nat /\ Len(s) = (Len(s) - 1) + 1
  OBVIOUS
<1> QED
  BY <1>1

-----------------------------------------------------------------------------
(* The text: lines that lie one after the other, with room between them.   *)

Layout ==
  /\ Len(Lines) \in Nat
  /\ \A i \in 1..Len(Lines) :
       /\ Lines[i] \in Seq(STRING) /\ Full(i) \in Nat /\ HasNewline(i) \in BOOLEAN
       /\ Extent(i) \in Nat
       /\ Extent(i) = Offset(i) + Full(i) + (IF HasNewline(i) THEN 1 ELSE 0)
  /\ \A i \in Nat : Offset(i) \in Nat
  /\ \A i \in 1..Len(Lines), j \in Nat : i < j => Extent(i) < Offset(j)
  /\ \A i, j \in Nat : i <= j => Offset(i) <= Offset(j)
  /\ \A i \in 1..Len(Lines) : HasNewline(i) \/ i = Len(Lines)
  /\ NoBound = Offset(Len(Lines) + 1)

(* Every text lays its lines out so.                                       *)
LEMMA TextLaidOut ==
  ASSUME TextsAssumption, text \in Texts
  PROVE  Layout
<1>1. Lines \in Seq(Seq(STRING)) /\ text.closed \in BOOLEAN /\ Width \in Nat
  BY DEF TextsAssumption, Lines
<1>2. PICK n \in Nat : n = Len(Lines) /\ DOMAIN Lines = 1..n
  BY <1>1
<1>3. \A i \in 1..n : Lines[i] \in Seq(STRING) /\ Full(i) \in Nat /\ Full(i) + 1 < Width
  <2> SUFFICES ASSUME NEW i \in 1..n
               PROVE  Lines[i] \in Seq(STRING) /\ Full(i) \in Nat /\ Full(i) + 1 < Width
    OBVIOUS
  <2>1. Lines[i] \in Seq(STRING)
    BY <1>1, <1>2
  <2>2. Full(i) \in Nat
    BY <2>1 DEF Full
  <2>3. Full(i) + 1 < Width
    BY <1>2 DEF Full, Lines, TextsAssumption
  <2> QED
    BY <2>1, <2>2, <2>3
<1>4. \A i \in 1..n : HasNewline(i) \in BOOLEAN /\ (HasNewline(i) \/ i = n)
  BY <1>1, <1>2 DEF HasNewline
<1>5. \A i \in Nat : Offset(i) \in Nat
  BY <1>1 DEF Offset
<1>6. \A i, j \in Nat : i <= j => Offset(i) <= Offset(j)
  <2> SUFFICES ASSUME NEW i \in Nat, NEW j \in Nat, i <= j PROVE i * Width <= j * Width
    BY DEF Offset
  <2>1. PICK k \in Nat : j = i + k
    OBVIOUS
  <2>2. j * Width = i * Width + k * Width /\ k * Width \in Nat
    BY <1>1, <2>1
  <2> QED
    BY <1>1, <2>2
<1>7. \A i \in 1..n : Extent(i) \in Nat /\ Extent(i) = Offset(i) + Full(i) + (IF HasNewline(i) THEN 1 ELSE 0)
  <2> SUFFICES ASSUME NEW i \in 1..n PROVE Extent(i) \in Nat
    BY DEF Extent
  <2>1. PICK o \in Nat, f \in Nat : o = Offset(i) /\ f = Full(i)
    BY <1>2, <1>3, <1>5
  <2>2. PICK e \in Nat : e = IF HasNewline(i) THEN 1 ELSE 0
    OBVIOUS
  <2>3. o + f + e \in Nat
    OBVIOUS
  <2> QED
    BY <2>1, <2>2, <2>3 DEF Extent
<1>8. \A i \in 1..n, j \in Nat : i < j => Extent(i) < Offset(j)
  <2> SUFFICES ASSUME NEW i \in 1..n, NEW j \in Nat, i < j PROVE Extent(i) < Offset(j)
    OBVIOUS
  <2>1. Extent(i) < Offset(i) + Width
    <3>1. PICK o \in Nat, f \in Nat : o = Offset(i) /\ f = Full(i) /\ f + 1 < Width
      BY <1>2, <1>3, <1>5
    <3>2. PICK e \in 0..1 : e = IF HasNewline(i) THEN 1 ELSE 0
      OBVIOUS
    <3>3. o + f + e < o + Width
      <4>1. PICK w \in Nat : w = Width /\ f + 1 < w
        BY <1>1, <3>1
      <4>2. o + f + e < o + w
        <5>1. f + e < w
          BY <4>1
        <5> QED
          BY <5>1
      <4> QED
        BY <4>1, <4>2
    <3> QED
      BY <3>1, <3>2, <3>3 DEF Extent
  <2>2. Offset(i) + Width = Offset(i + 1)
    BY <1>1 DEF Offset
  <2>3. Offset(i + 1) <= Offset(j)
    BY <1>6
  <2>4. Extent(i) \in Nat /\ Offset(i) \in Nat /\ Offset(i + 1) \in Nat /\ Offset(j) \in Nat
    BY <1>5, <1>7
  <2>5. PICK x \in Nat, y \in Nat, z \in Nat :
          x = Extent(i) /\ y = Offset(i + 1) /\ z = Offset(j)
    BY <2>4
  <2>6. x < y /\ y <= z
    BY <2>1, <2>2, <2>3, <2>5
  <2>7. x < z
    BY <2>6
  <2> QED
    BY <2>5, <2>7
<1> QED
  BY <1>2, <1>3, <1>4, <1>5, <1>6, <1>7, <1>8 DEF Layout, NoBound

-----------------------------------------------------------------------------
(* Lines, frames and the lexer.                                            *)

LineRec ==
  [at : 1..Len(Lines), pos : Nat, len : Nat, term : BOOLEAN, indent : Nat, number : Nat]
FrameRec == [kind : {"body", "heredoc"}, line : LineRec, bound : Nat]
Lexer ==
  [line : LineRec \cup {None}, queue : Seq(LineRec), cursor : 1..Len(Lines) + 1, count : Nat,
   stack : Seq(FrameRec), captured : Seq(LineRec), ahead : BOOLEAN]

(* The absent line is no line.                                             *)
LEMMA NoneIsNoLine ==
  ASSUME NoneAssumption, Layout
  PROVE  None \notin LineRec
<1>1. ASSUME NEW l \in LineRec
      PROVE  l \in [at : Nat, pos : Nat, len : Nat, term : BOOLEAN, indent : Nat, number : Nat]
  BY <1>1 DEF LineRec, Layout
<1> QED
  BY <1>1 DEF NoneAssumption

(* The bytes of a line from a cursor on, and the view a bound leaves.      *)
Reach(l) == Offset(l.at) + l.pos .. Extent(l.at) - 1
Fixed(l, b) == l = SetEof(l, b)
Top(s) == IF s = <<>> THEN NoBound ELSE s[Len(s)].bound

(* What set_eof leaves of a line seen through the bound b.                 *)
LEMMA SetEofIs ==
  ASSUME Layout, NEW l \in LineRec, NEW b \in Nat
  PROVE  /\ SetEof(l, b) \in LineRec
         /\ SetEof(l, b).at = l.at /\ SetEof(l, b).pos = l.pos /\ SetEof(l, b).indent = l.indent
         /\ SetEof(l, b).number = l.number
         /\ SetEof(l, b).len = IF b >= Extent(l.at) THEN Full(l.at)
                               ELSE IF b < Offset(l.at) THEN 0 ELSE b - Offset(l.at)
         /\ SetEof(l, b).term = (b >= Extent(l.at) /\ HasNewline(l.at))
<1>1. PICK a \in 1..Len(Lines) : a = l.at
  BY DEF LineRec
<1>2. Full(a) \in Nat /\ HasNewline(a) \in BOOLEAN /\ Extent(a) \in Nat /\ Offset(a) \in Nat
  BY DEF Layout
<1> DEFINE n == IF b >= Extent(l.at) THEN Full(l.at) ELSE IF b < Offset(l.at) THEN 0 ELSE b - Offset(l.at)
           t == b >= Extent(l.at) /\ HasNewline(l.at)
<1>3. n \in Nat /\ t \in BOOLEAN
  BY <1>1, <1>2
<1>4. SetEof(l, b) = [l EXCEPT !.len = n, !.term = t]
  BY DEF SetEof
<1> HIDE DEF n, t
<1>5. /\ SetEof(l, b) \in LineRec
      /\ SetEof(l, b).at = l.at /\ SetEof(l, b).pos = l.pos /\ SetEof(l, b).indent = l.indent
      /\ SetEof(l, b).number = l.number
      /\ SetEof(l, b).len = n /\ SetEof(l, b).term = t
  BY <1>3, <1>4 DEF LineRec
<1> QED
  BY <1>5 DEF n, t

(* Two lines with the same fields are the same.                            *)
LEMMA SameLine ==
  ASSUME NEW l \in LineRec, NEW m \in LineRec,
         l.at = m.at, l.pos = m.pos, l.len = m.len, l.term = m.term, l.indent = m.indent,
         l.number = m.number
  PROVE  l = m
BY DEF LineRec

(* A view depends on its line and its bound, not on the cursor.            *)
LEMMA FixedIs ==
  ASSUME Layout, NEW l \in LineRec, NEW b \in Nat
  PROVE  Fixed(l, b) <=>
           /\ l.len = IF b >= Extent(l.at) THEN Full(l.at)
                      ELSE IF b < Offset(l.at) THEN 0 ELSE b - Offset(l.at)
           /\ l.term = (b >= Extent(l.at) /\ HasNewline(l.at))
<1> DEFINE m == SetEof(l, b)
<1>1. /\ m \in LineRec /\ m.at = l.at /\ m.pos = l.pos /\ m.indent = l.indent /\ m.number = l.number
      /\ m.len = IF b >= Extent(l.at) THEN Full(l.at)
                 ELSE IF b < Offset(l.at) THEN 0 ELSE b - Offset(l.at)
      /\ m.term = (b >= Extent(l.at) /\ HasNewline(l.at))
  BY SetEofIs
<1>2. Fixed(l, b) <=> l = m
  BY DEF Fixed
<1> HIDE DEF m
<1>3. l.len = m.len /\ l.term = m.term => l = m
  BY <1>1, SameLine
<1> QED
  BY <1>1, <1>2, <1>3

(* A line seen through b shows the bytes of its reach before b.            *)
LEMMA SpanOfFixed ==
  ASSUME Layout, NEW l \in LineRec, NEW b \in Nat, Fixed(l, b)
  PROVE  \A x : x \in Span(l) <=> x \in Reach(l) /\ x < b
<1>1. PICK a \in 1..Len(Lines) : a = l.at
  BY DEF LineRec
<1>2. PICK o \in Nat, f \in Nat, e \in Nat : o = Offset(a) /\ f = Full(a) /\ e = Extent(a)
  BY DEF Layout
<1>3. HasNewline(a) \in BOOLEAN /\ e = o + f + (IF HasNewline(a) THEN 1 ELSE 0)
  BY <1>2 DEF Layout
<1>4. PICK k \in Nat : k = l.pos
  BY DEF LineRec
<1>5. /\ l.len = IF b >= e THEN f ELSE IF b < o THEN 0 ELSE b - o
      /\ l.term = (b >= e /\ HasNewline(a))
  BY <1>1, <1>2, FixedIs
<1>9. ASSUME b < e PROVE ~l.term
  <2>1. ~(b >= e)
    BY <1>2, <1>9
  <2> QED
    BY <1>5, <2>1, Zenon
<1>6. ASSUME NEW x \in Span(l) PROVE x \in o + k .. e - 1 /\ x < b
  <2>1. PICK i \in k..l.len : x = o + i /\ (i < l.len \/ l.term)
    BY <1>1, <1>2, <1>4 DEF Span
  <2>2. CASE b >= e
    BY <1>3, <1>5, <2>1, <2>2
  <2>3. CASE b < e /\ ~(b < o)
    BY <1>3, <1>5, <1>9, <2>1, <2>3
  <2>4. CASE b < e /\ b < o
    BY <1>3, <1>5, <1>9, <2>1, <2>4
  <2> QED
    BY <2>2, <2>3, <2>4
<1>7. ASSUME NEW x \in o + k .. e - 1, x < b PROVE x \in Span(l)
  <2>1. PICK i \in Nat : x = o + i /\ i >= k
    BY <1>7
  <2>2. i \in k..l.len /\ (i < l.len \/ l.term)
    <3>1. CASE b >= e
      BY <1>3, <1>5, <1>7, <2>1, <3>1
    <3>2. CASE b < e
      BY <1>3, <1>5, <1>7, <2>1, <3>2
    <3> QED
      BY <3>1, <3>2
  <2> QED
    BY <1>1, <1>2, <1>4, <2>1, <2>2 DEF Span
<1>8. Reach(l) = o + k .. e - 1
  BY <1>1, <1>2, <1>4 DEF Reach
<1> QED
  BY <1>6, <1>7, <1>8

(* A line has a byte to read exactly when its view is not used up.         *)
LEMMA NoByteNoSpan ==
  ASSUME Layout, NEW l \in LineRec, l # None, ~HasByte(l)
  PROVE  Span(l) = {}
<1>1. l.pos \in Nat /\ l.len \in Nat /\ l.term \in BOOLEAN
  BY DEF LineRec
<1> QED
  BY <1>1 DEF HasByte, Span

(* The byte at the cursor is one the line shows.                           *)
LEMMA ByteInSpan ==
  ASSUME Layout, NEW l \in LineRec, HasByte(l)
  PROVE  Here(l) \in Span(l) /\ Here(l) \in Nat
<1>1. l.pos \in Nat /\ l.len \in Nat /\ l.term \in BOOLEAN /\ l.at \in Nat
  BY DEF LineRec
<1>2. Offset(l.at) \in Nat
  BY <1>1 DEF Layout
<1> QED
  BY <1>1, <1>2 DEF HasByte, Here, Span

Placed(l, k) == [l EXCEPT !.pos = k]

(* A line with its cursor elsewhere is the same line otherwise.            *)
LEMMA PlacedIs ==
  ASSUME NEW l \in LineRec, NEW k \in Nat
  PROVE  /\ Placed(l, k) \in LineRec
         /\ Placed(l, k).at = l.at /\ Placed(l, k).pos = k /\ Placed(l, k).len = l.len
         /\ Placed(l, k).term = l.term /\ Placed(l, k).indent = l.indent
         /\ Placed(l, k).number = l.number
BY DEF Placed, LineRec

(* set_eof gives a line seen through its bound.                            *)
LEMMA SetEofFixed ==
  ASSUME Layout, NEW l \in LineRec, NEW b \in Nat
  PROVE  Fixed(SetEof(l, b), b)
<1> DEFINE m == SetEof(l, b)
<1>1. /\ m \in LineRec /\ m.at = l.at
      /\ m.len = IF b >= Extent(l.at) THEN Full(l.at)
                 ELSE IF b < Offset(l.at) THEN 0 ELSE b - Offset(l.at)
      /\ m.term = (b >= Extent(l.at) /\ HasNewline(l.at))
  BY SetEofIs
<1> HIDE DEF m
<1>2. Fixed(m, b)
  BY <1>1, FixedIs
<1> QED
  BY <1>2 DEF m

(* Moving the cursor does not change the bound a line is seen through.     *)
LEMMA PlacedFixed ==
  ASSUME Layout, NEW l \in LineRec, NEW b \in Nat, Fixed(l, b), NEW k \in Nat
  PROVE  Fixed(Placed(l, k), b) /\ SetEof(Placed(l, k), b) = Placed(l, k)
<1> DEFINE m == Placed(l, k)
<1>1. m \in LineRec /\ m.at = l.at /\ m.len = l.len /\ m.term = l.term
  BY PlacedIs
<1>2. /\ l.len = IF b >= Extent(l.at) THEN Full(l.at)
                 ELSE IF b < Offset(l.at) THEN 0 ELSE b - Offset(l.at)
      /\ l.term = (b >= Extent(l.at) /\ HasNewline(l.at))
  BY FixedIs
<1> HIDE DEF m
<1>3. Fixed(m, b)
  BY <1>1, <1>2, FixedIs
<1> QED
  BY <1>3 DEF m, Fixed

(* Bounds beyond a line's end do not differ for it.                        *)
LEMMA FixedBeyond ==
  ASSUME Layout, NEW l \in LineRec, NEW b \in Nat, NEW c \in Nat,
         b >= Extent(l.at), c >= Extent(l.at), Fixed(l, b)
  PROVE  Fixed(l, c)
<1>1. l.len = Full(l.at) /\ l.term = (b >= Extent(l.at) /\ HasNewline(l.at))
  BY FixedIs
<1>2. l.term = (c >= Extent(l.at) /\ HasNewline(l.at))
  BY <1>1
<1> QED
  BY <1>1, <1>2, FixedIs

-----------------------------------------------------------------------------
(* What the operators of delivery do to each field of the lexer.           *)

(* The bound lines are delivered through is the top frame's.               *)
LEMMA BoundIs ==
  ASSUME Layout, NEW p \in Lexer
  PROVE  Bound(p) = Top(p.stack) /\ Bound(p) \in Nat /\ Top(p.stack) \in Nat
<1>1. p.stack \in Seq(FrameRec)
  BY DEF Lexer
<1>2. Bound(p) = Top(p.stack)
  BY DEF Bound, Top, Last
<1>3. NoBound \in Nat
  BY DEF Layout
<1>4. CASE p.stack = <<>>
  BY <1>2, <1>3, <1>4 DEF Top
<1>5. CASE p.stack # <<>>
  <2>1. p.stack[Len(p.stack)] \in FrameRec
    BY <1>1, <1>5
  <2>2. p.stack[Len(p.stack)].bound \in Nat
    BY <2>1 DEF FrameRec
  <2> QED
    BY <1>2, <1>5, <2>2 DEF Top
<1> QED
  BY <1>4, <1>5

(* Install cuts the line at the bound; a lookahead keeps the line it had.  *)
LEMMA InstallIs ==
  ASSUME Layout, NEW p \in Lexer, NEW l \in LineRec
  PROVE  /\ Install(p, l) \in Lexer
         /\ Install(p, l).line = SetEof(l, Top(p.stack))
         /\ Install(p, l).captured = IF p.ahead /\ p.line # None THEN Append(p.captured, p.line)
                                     ELSE p.captured
         /\ Install(p, l).queue = p.queue /\ Install(p, l).cursor = p.cursor
         /\ Install(p, l).count = p.count /\ Install(p, l).stack = p.stack
         /\ Install(p, l).ahead = p.ahead
<1> DEFINE m == SetEof(l, Bound(p))
           c == IF p.ahead /\ p.line # None THEN Append(p.captured, p.line) ELSE p.captured
<1>1. Bound(p) = Top(p.stack) /\ Bound(p) \in Nat
  BY BoundIs
<1>2. m \in LineRec
  BY <1>1, SetEofIs
<1>3. c \in Seq(LineRec)
  BY DEF Lexer
<1>4. Install(p, l) = [p EXCEPT !.line = m, !.captured = c]
  BY DEF Install
<1> HIDE DEF m, c
<1>5. /\ Install(p, l) \in Lexer
      /\ Install(p, l).line = m /\ Install(p, l).captured = c
      /\ Install(p, l).queue = p.queue /\ Install(p, l).cursor = p.cursor
      /\ Install(p, l).count = p.count /\ Install(p, l).stack = p.stack
      /\ Install(p, l).ahead = p.ahead
  BY <1>2, <1>3, <1>4 DEF Lexer
<1> QED
  BY <1>1, <1>5 DEF m, c

(* The line delivered next, as it waits.                                   *)
Due(p) == IF p.queue # <<>> THEN Head(p.queue) ELSE Fresh(p.cursor)

(* The line that is due next lies on or before the bound.                  *)
LEMMA DueIs ==
  ASSUME Layout, NEW p \in Lexer, HasNext(p)
  PROVE  Due(p) \in LineRec /\ NextStart(p) = Offset(Due(p).at) /\ Offset(Due(p).at) <= Top(p.stack)
<1>1. NextStart(p) <= Bound(p) /\ (p.queue # <<>> \/ p.cursor <= Len(Lines))
  BY DEF HasNext
<1>2. CASE p.queue # <<>>
  <2>1. Head(p.queue) \in LineRec
    BY <1>2 DEF Lexer
  <2> QED
    BY <1>1, <1>2, <2>1, BoundIs DEF Due, NextStart
<1>3. CASE p.queue = <<>>
  <2>1. p.cursor \in 1..Len(Lines)
    BY <1>1, <1>3 DEF Lexer, Layout
  <2>2. Full(p.cursor) \in Nat /\ HasNewline(p.cursor) \in BOOLEAN
    BY <2>1 DEF Layout
  <2>3. Fresh(p.cursor) \in LineRec /\ Fresh(p.cursor).at = p.cursor
    BY <2>1, <2>2 DEF Fresh, LineRec
  <2> QED
    BY <1>1, <1>3, <2>3, BoundIs DEF Due, NextStart
<1> QED
  BY <1>2, <1>3

Numbered(l, n) == [l EXCEPT !.number = n]

(* The next line comes off the queue, or else from the source.             *)
LEMMA NextLineIs ==
  ASSUME Layout, NEW p \in Lexer, HasNext(p)
  PROVE  /\ NextLine(p) \in Lexer
         /\ NextLine(p).line = SetEof(Numbered(Due(p), p.count), Top(p.stack))
         /\ NextLine(p).captured = IF p.ahead /\ p.line # None THEN Append(p.captured, p.line)
                                   ELSE p.captured
         /\ NextLine(p).stack = p.stack /\ NextLine(p).ahead = p.ahead
         /\ NextLine(p).queue = IF p.queue # <<>> THEN Tail(p.queue) ELSE <<>>
         /\ NextLine(p).cursor = IF p.queue # <<>> THEN p.cursor ELSE p.cursor + 1
<1> DEFINE q == IF p.queue # <<>> THEN [p EXCEPT !.queue = Tail(@)] ELSE [p EXCEPT !.cursor = @ + 1]
           r == [q EXCEPT !.count = @ + 1]
           l == Numbered(Due(p), p.count)
<1>1. NextLine(p) = Install(r, l)
  BY DEF NextLine, Due, Numbered
<1>2. l \in LineRec
  <2>1. Due(p) \in LineRec /\ p.count \in Nat
    BY DueIs DEF Lexer
  <2> QED
    BY <2>1 DEF Numbered, LineRec
<1>3. /\ q \in Lexer
      /\ q.line = p.line /\ q.captured = p.captured /\ q.stack = p.stack /\ q.ahead = p.ahead
      /\ q.queue = IF p.queue # <<>> THEN Tail(p.queue) ELSE <<>>
      /\ q.cursor = IF p.queue # <<>> THEN p.cursor ELSE p.cursor + 1
  <2>1. CASE p.queue # <<>>
    <3>1. PICK t \in Seq(LineRec) : t = Tail(p.queue)
      <4>1. Tail(p.queue) \in Seq(LineRec)
        BY <2>1 DEF Lexer
      <4> QED
        BY <4>1
    <3>2. q = [p EXCEPT !.queue = t]
      BY <2>1, <3>1
    <3> QED
      BY <2>1, <3>1, <3>2 DEF Lexer
  <2>2. CASE p.queue = <<>>
    <3>1. p.cursor <= Len(Lines) /\ Len(Lines) \in Nat
      BY <2>2 DEF HasNext, Layout
    <3>2. p.cursor + 1 \in 1..Len(Lines) + 1
      BY <3>1 DEF Lexer
    <3> QED
      BY <2>2, <3>2 DEF Lexer
  <2> QED
    BY <2>1, <2>2
<1> HIDE DEF q
<1>4. /\ r \in Lexer
      /\ r.line = q.line /\ r.captured = q.captured /\ r.stack = q.stack /\ r.ahead = q.ahead
      /\ r.queue = q.queue /\ r.cursor = q.cursor
  BY <1>3 DEF Lexer
<1> HIDE DEF r, l
<1>5. /\ Install(r, l) \in Lexer
      /\ Install(r, l).line = SetEof(l, Top(r.stack))
      /\ Install(r, l).captured = IF r.ahead /\ r.line # None THEN Append(r.captured, r.line)
                                  ELSE r.captured
      /\ Install(r, l).queue = r.queue /\ Install(r, l).cursor = r.cursor
      /\ Install(r, l).stack = r.stack /\ Install(r, l).ahead = r.ahead
  BY <1>2, <1>4, InstallIs
<1> QED
  BY <1>1, <1>3, <1>4, <1>5 DEF l

(* Frame f of a kind is put on the frames of p, and what that leaves.      *)
Framing(f, q, p, kind, parent, b, own) ==
  /\ q = Push(p, kind, parent, b, own)
  /\ f = [kind |-> kind, line |-> parent, bound |-> b]

Framed(f, q, p, parent, b, own) ==
  /\ f \in FrameRec /\ f.line = parent /\ f.bound = b
  /\ q \in Lexer /\ q.line = own /\ q.stack = Append(p.stack, f)
  /\ q.queue = p.queue /\ q.cursor = p.cursor /\ q.captured = p.captured /\ q.ahead = p.ahead

(* A frame is pushed; the current line is the body's, seen through its     *)
(* bound.                                                                  *)
LEMMA PushIs ==
  ASSUME NEW p \in Lexer, NEW kind \in {"body", "heredoc"}, NEW parent \in LineRec, NEW b \in Nat,
         NEW own \in LineRec \cup {None}, NEW q, NEW f, Framing(f, q, p, kind, parent, b, own)
  PROVE  Framed(f, q, p, parent, b, own)
<1> USE DEF Framing, Framed
<1>1. f \in FrameRec /\ f.line = parent /\ f.bound = b
  BY DEF FrameRec
<1>2. PICK s \in Seq(FrameRec) : s = Append(p.stack, f)
  <2>1. p.stack \in Seq(FrameRec)
    BY DEF Lexer
  <2>2. Append(p.stack, f) \in Seq(FrameRec)
    BY <1>1, <2>1
  <2> QED
    BY <2>2
<1>3. q = [p EXCEPT !.stack = s, !.line = own]
  BY <1>2 DEF Push
<1> QED
  BY <1>1, <1>2, <1>3 DEF Lexer

(* A frame is popped; its line is current again, through the bound below.  *)
LEMMA PopIs ==
  ASSUME Layout, NEW p \in Lexer, p.stack # <<>>
  PROVE  LET q == Pop(p)
             n == Len(p.stack)
             s == SubSeq(p.stack, 1, n - 1)
         IN  /\ q \in Lexer /\ q.stack = s /\ q.line = SetEof(p.stack[n].line, Top(s))
             /\ q.queue = p.queue /\ q.cursor = p.cursor /\ q.captured = p.captured /\ q.ahead = p.ahead
<1>1. p.stack \in Seq(FrameRec)
  BY DEF Lexer
<1>2. PICK n \in Nat : n = Len(p.stack) /\ n > 0
  BY <1>1
<1>3. PICK s \in Seq(FrameRec) : s = SubSeq(p.stack, 1, n - 1)
  <2>1. SubSeq(p.stack, 1, n - 1) \in Seq(FrameRec)
    BY <1>1, <1>2, SubSeqProperties
  <2> QED
    BY <2>1
<1>4. p.stack[n] \in FrameRec
  BY <1>1, <1>2
<1>5. PICK l \in LineRec : l = p.stack[n].line
  BY <1>4 DEF FrameRec
<1>6. PICK q \in Lexer : q = [p EXCEPT !.stack = s]
  BY DEF Lexer
<1>7. /\ q.stack = s /\ q.line = p.line /\ q.queue = p.queue /\ q.cursor = p.cursor
      /\ q.captured = p.captured /\ q.ahead = p.ahead
  BY <1>6 DEF Lexer
<1>8. Pop(p) = [q EXCEPT !.line = SetEof(l, Bound(q))]
  BY <1>2, <1>3, <1>5, <1>6 DEF Pop, Front, Last
<1>9. Bound(q) = Top(s) /\ Top(s) \in Nat
  BY <1>7, BoundIs
<1>10. SetEof(l, Top(s)) \in LineRec
  BY <1>9, SetEofIs
<1>11. PICK m \in LineRec : m = SetEof(l, Top(s))
  BY <1>10
<1>12. Pop(p) = [q EXCEPT !.line = m]
  BY <1>8, <1>9, <1>11
<1>13. /\ Pop(p) \in Lexer /\ Pop(p).line = m /\ Pop(p).stack = q.stack /\ Pop(p).queue = q.queue
       /\ Pop(p).cursor = q.cursor /\ Pop(p).captured = q.captured /\ Pop(p).ahead = q.ahead
  BY <1>12 DEF Lexer
<1> QED
  BY <1>2, <1>3, <1>5, <1>7, <1>11, <1>13

-----------------------------------------------------------------------------
(* Dropping a lookahead: all it has seen is the entry line and the lines   *)
(* delivered since, of which the last may have been taken out.             *)

Swept(p) == IF p.line = None THEN p.captured ELSE Append(p.captured, p.line)
Bounded(s, b) == IF s = <<>> THEN s ELSE [s EXCEPT ![Len(s)].bound = b]
Reset(l) == Placed(l, l.indent)
Returned(s) == [i \in 1..Len(s) - 1 |-> Reset(s[i + 1])]

(* Only the top frame's bound is set.                                      *)
LEMMA BoundedIs ==
  ASSUME NEW s \in Seq(FrameRec), NEW b \in Nat
  PROVE  /\ Bounded(s, b) \in Seq(FrameRec) /\ Len(Bounded(s, b)) = Len(s)
         /\ \A i \in 1..Len(s) : /\ Bounded(s, b)[i].line = s[i].line /\ Bounded(s, b)[i].kind = s[i].kind
                                 /\ Bounded(s, b)[i].bound = IF i = Len(s) THEN b ELSE s[i].bound
         /\ Top(Bounded(s, b)) = IF s = <<>> THEN NoBound ELSE b
<1>1. CASE s = <<>>
  BY <1>1 DEF Bounded, Top
<1>2. CASE s # <<>>
  <2>1. PICK n \in Nat : n = Len(s) /\ n > 0 /\ DOMAIN s = 1..n
    BY <1>2
  <2>2. s[n] \in FrameRec
    BY <2>1
  <2>3. PICK f \in FrameRec : f = [s[n] EXCEPT !.bound = b]
    BY <2>2 DEF FrameRec
  <2>4. f.line = s[n].line /\ f.bound = b /\ f.kind = s[n].kind
    BY <2>2, <2>3 DEF FrameRec
  <2>5. Bounded(s, b) = [s EXCEPT ![n] = f]
    BY <1>2, <2>1, <2>3 DEF Bounded
  <2>6. PICK t : t = Bounded(s, b)
    OBVIOUS
  <2>7. /\ t \in Seq(FrameRec) /\ Len(t) = n /\ DOMAIN t = 1..n
        /\ \A i \in 1..n : t[i] = IF i = n THEN f ELSE s[i]
    BY <2>1, <2>5, <2>6
  <2>8. t # <<>>
    BY <2>1, <2>7
  <2>9. Top(t) = b
    BY <2>1, <2>4, <2>7, <2>8 DEF Top
  <2> QED
    BY <1>2, <2>1, <2>4, <2>6, <2>7, <2>9
<1> QED
  BY <1>1, <1>2

(* Reset takes a line's cursor back to its indent.                         *)
LEMMA ResetIs ==
  ASSUME NEW l \in LineRec
  PROVE  /\ Reset(l) \in LineRec
         /\ Reset(l).at = l.at /\ Reset(l).pos = l.indent /\ Reset(l).len = l.len
         /\ Reset(l).term = l.term /\ Reset(l).indent = l.indent /\ Reset(l).number = l.number
<1>1. l.indent \in Nat
  BY DEF LineRec
<1> QED
  BY <1>1, PlacedIs DEF Reset

(* What a lookahead has seen is a sequence of lines.                       *)
LEMMA SweptIs ==
  ASSUME NEW p \in Lexer
  PROVE  Swept(p) \in Seq(LineRec)
BY DEF Swept, Lexer

(* The rewound lexer is on the entry line, at the entry column.            *)
LEMMA RewoundIs ==
  ASSUME Layout, NoneAssumption, NEW p \in Lexer, p.ahead,
         NEW s, s.entry \in Nat, s.bound \in Nat,
         NEW w \in Seq(LineRec), w = Swept(p), w # <<>>, NEW back, back = Rewound(p, s)
  PROVE  /\ back \in Lexer
         /\ back.stack = Bounded(p.stack, s.bound)
         /\ back.line = SetEof(Placed(w[1], s.entry), Top(Bounded(p.stack, s.bound)))
         /\ back.queue = p.queue /\ back.cursor = p.cursor
         /\ Len(back.captured) = Len(w) - 1
         /\ \A i \in 1..Len(w) - 1 : back.captured[i] = w[i + 1]
<1>1. PICK t \in Seq(FrameRec) : t = Bounded(p.stack, s.bound)
  <2>1. p.stack \in Seq(FrameRec)
    BY DEF Lexer
  <2> QED
    BY <2>1, BoundedIs
<1>2. PICK own \in Lexer : own = [p EXCEPT !.stack = t]
  BY DEF Lexer
<1>3. /\ own.stack = t /\ own.line = p.line /\ own.queue = p.queue /\ own.cursor = p.cursor
      /\ own.captured = p.captured /\ own.ahead = p.ahead
  BY <1>2 DEF Lexer
<1>4. own = [p EXCEPT !.stack = IF @ = <<>> THEN @ ELSE [@ EXCEPT ![Len(@)].bound = s.bound]]
  BY <1>1, <1>2 DEF Bounded
<1>5. Rewound(p, s) = IF p.captured = <<>>
                      THEN Install([own EXCEPT !.line = None], Placed(p.line, s.entry))
                      ELSE Install([own EXCEPT !.captured = Tail(@)], Placed(Head(p.captured), s.entry))
  BY <1>4 DEF Rewound, Placed
<1>6. PICK c \in Seq(LineRec) : c = p.captured
  BY DEF Lexer
<1>9. CASE c = <<>>
  <2>1. p.line # None /\ p.line \in LineRec /\ w = <<p.line>>
    BY <1>6, <1>9 DEF Swept, Lexer
  <2>2. PICK r \in Lexer : r = [own EXCEPT !.line = None]
    BY DEF Lexer
  <2>3. /\ r.line = None /\ r.stack = t /\ r.queue = p.queue /\ r.cursor = p.cursor
        /\ r.captured = c
    BY <1>3, <1>6, <2>2 DEF Lexer
  <2>4. PICK l \in LineRec : l = Placed(p.line, s.entry)
    BY <2>1, PlacedIs
  <2>5. back = Install(r, l)
    BY <1>5, <1>6, <1>9, <2>2, <2>4
  <2>6. /\ Install(r, l) \in Lexer /\ Install(r, l).line = SetEof(l, Top(r.stack))
        /\ Install(r, l).captured = IF r.ahead /\ r.line # None THEN Append(r.captured, r.line)
                                    ELSE r.captured
        /\ Install(r, l).queue = r.queue /\ Install(r, l).cursor = r.cursor
        /\ Install(r, l).stack = r.stack
    BY InstallIs
  <2>7. /\ back \in Lexer /\ back.line = SetEof(l, Top(t)) /\ back.captured = <<>>
        /\ back.queue = p.queue /\ back.cursor = p.cursor /\ back.stack = t
    BY <1>9, <2>3, <2>5, <2>6
  <2>8. Len(w) = 1 /\ w[1] = p.line /\ Len(back.captured) = 0
    BY <2>1, <2>7
  <2> QED
    BY <1>1, <2>4, <2>7, <2>8
<1>10. CASE c # <<>>
  <2>1. PICK h \in LineRec, u \in Seq(LineRec) :
           h = Head(c) /\ h = c[1] /\ u = Tail(c) /\ Len(u) = Len(c) - 1
           /\ \A i \in 1..Len(u) : u[i] = c[i + 1]
    <3>1. PICK n \in Nat : Len(c) = n + 1
      BY <1>10, OneMore
    <3>2. /\ Head(c) = c[1] /\ c[1] \in LineRec /\ Tail(c) \in Seq(LineRec) /\ Len(Tail(c)) = n
          /\ \A i \in 1..n : Tail(c)[i] = c[i + 1]
      BY <3>1, TailOf
    <3>3. Len(c) - 1 = n
      BY <3>1
    <3> QED
      BY <3>2, <3>3
  <2>2. PICK r \in Lexer : r = [own EXCEPT !.captured = u]
    BY DEF Lexer
  <2>3. /\ r.line = p.line /\ r.stack = t /\ r.queue = p.queue /\ r.cursor = p.cursor
        /\ r.captured = u /\ r.ahead
    BY <1>3, <2>2 DEF Lexer
  <2>4. PICK l \in LineRec : l = Placed(h, s.entry)
    BY PlacedIs
  <2>5. back = Install(r, l)
    <3>1. Head(p.captured) = h /\ Tail(p.captured) = u
      BY <1>6, <1>10, <2>1
    <3> QED
      BY <1>3, <1>5, <1>6, <1>10, <2>2, <2>4, <3>1
  <2>6. /\ Install(r, l) \in Lexer /\ Install(r, l).line = SetEof(l, Top(r.stack))
        /\ Install(r, l).captured = IF r.ahead /\ r.line # None THEN Append(r.captured, r.line)
                                    ELSE r.captured
        /\ Install(r, l).queue = r.queue /\ Install(r, l).cursor = r.cursor
        /\ Install(r, l).stack = r.stack
    BY InstallIs
  <2>7. /\ back \in Lexer /\ back.line = SetEof(l, Top(t))
        /\ back.captured = IF p.line # None THEN Append(u, p.line) ELSE u
        /\ back.queue = p.queue /\ back.cursor = p.cursor /\ back.stack = t
    BY <2>3, <2>5, <2>6
  <2>8. /\ w[1] = h /\ Len(back.captured) = Len(w) - 1
        /\ \A i \in 1..Len(w) - 1 : back.captured[i] = w[i + 1]
    <3>1. PICK n \in Nat : n = Len(c) /\ n > 0 /\ Len(u) = n - 1
      <4>1. PICK n \in Nat : Len(c) = n + 1
        BY <1>10, OneMore
      <4>2. Len(u) = (n + 1) - 1 /\ n + 1 \in Nat /\ n + 1 > 0
        BY <2>1, <4>1
      <4> QED
        BY <4>1, <4>2
    <3>2. CASE p.line = None
      <4>1. w = c /\ back.captured = u
        BY <1>6, <2>7, <3>2 DEF Swept
      <4> QED
        BY <2>1, <3>1, <4>1
    <3>3. CASE p.line # None
      <4>1. p.line \in LineRec
        BY <3>3 DEF Lexer
      <4>2. w = Append(c, p.line) /\ back.captured = Append(u, p.line)
        BY <1>6, <2>7, <3>3 DEF Swept
      <4>3. /\ Len(w) = n + 1 /\ \A i \in 1..n : w[i] = c[i]
            /\ w[n + 1] = p.line
        BY <3>1, <4>1, <4>2
      <4>4. /\ Len(back.captured) = n /\ \A i \in 1..n - 1 : back.captured[i] = u[i]
            /\ back.captured[n] = p.line
        BY <3>1, <4>1, <4>2
      <4>5. ASSUME NEW i \in 1..n PROVE back.captured[i] = w[i + 1]
        <5>1. CASE i = n
          BY <4>3, <4>4, <5>1
        <5>2. CASE i # n
          <6>1. i \in 1..n - 1 /\ i + 1 \in 1..n
            BY <3>1, <5>2
          <6>2. back.captured[i] = u[i] /\ u[i] = c[i + 1] /\ w[i + 1] = c[i + 1]
            BY <2>1, <3>1, <4>3, <4>4, <6>1
          <6> QED
            BY <6>2
        <5> QED
          BY <5>1, <5>2
      <4>6. w[1] = h
        BY <2>1, <3>1, <4>3
      <4> QED
        BY <3>1, <4>3, <4>4, <4>5, <4>6
    <3> QED
      BY <3>2, <3>3
  <2> QED
    BY <1>1, <2>4, <2>7, <2>8
<1> QED
  BY <1>9, <1>10

(* Requeueing ends the lookahead and puts the lines before the queue.      *)
LEMMA RequeueIs ==
  ASSUME NEW p \in Lexer, p.line # None, NEW e \in Seq(LineRec)
  PROVE  /\ Requeue(p, e) \in Lexer /\ Requeue(p, e).line = p.line
         /\ Requeue(p, e).stack = p.stack /\ Requeue(p, e).queue = e \o p.queue
         /\ Requeue(p, e).cursor = p.cursor /\ Requeue(p, e).captured = <<>>
         /\ ~Requeue(p, e).ahead
<1>1. PICK q \in Seq(LineRec) : q = e \o p.queue
  <2>1. PICK u \in Seq(LineRec) : u = p.queue
    BY DEF Lexer
  <2>2. e \o u \in Seq(LineRec)
    BY ConcatProperties
  <2> QED
    BY <2>1, <2>2
<1>2. PICK m \in Nat : m = p.line.number + 1
  <2>1. p.line.number \in Nat
    BY DEF Lexer, LineRec
  <2> QED
    BY <2>1
<1>3. PICK c \in Seq(LineRec) : c = <<>>
  <2>1. <<>> \in Seq(LineRec)
    OBVIOUS
  <2> QED
    BY <2>1
<1>4. PICK x \in Lexer : x = [p EXCEPT !.queue = q]
  BY DEF Lexer
<1>5. PICK y \in Lexer : y = [x EXCEPT !.captured = c]
  BY DEF Lexer
<1>6. PICK z \in Lexer : z = [y EXCEPT !.ahead = FALSE]
  BY DEF Lexer
<1>7. PICK d \in Lexer : d = [z EXCEPT !.count = m]
  BY DEF Lexer
<1>8. d = [p EXCEPT !.queue = q, !.captured = c, !.ahead = FALSE, !.count = m]
  BY <1>4, <1>5, <1>6, <1>7 DEF Lexer
<1>9. d = Requeue(p, e)
  BY <1>1, <1>2, <1>3, <1>8 DEF Requeue
<1>10. /\ d.line = p.line /\ d.stack = p.stack /\ d.queue = q /\ d.cursor = p.cursor
       /\ d.captured = c /\ ~d.ahead
  BY <1>4, <1>5, <1>6, <1>7 DEF Lexer
<1> QED
  BY <1>1, <1>3, <1>9, <1>10

DropsTo(d, p, s, w) ==
  /\ d \in Lexer /\ ~d.ahead /\ d.captured = <<>>
  /\ d.stack = Bounded(p.stack, s.bound)
  /\ d.line = SetEof(Placed(w[1], s.entry), Top(Bounded(p.stack, s.bound)))
  /\ d.line \in LineRec
  /\ d.queue = Returned(w) \o p.queue /\ d.cursor = p.cursor
  /\ Returned(w) \in Seq(LineRec) /\ Len(Returned(w)) = Len(w) - 1
  /\ \A i \in 1..Len(w) - 1 : Returned(w)[i] = Reset(w[i + 1])

(* A dropped lookahead is on its entry line; what it saw is queued again.  *)
LEMMA DropIs ==
  ASSUME Layout, NoneAssumption, NEW p \in Lexer, p.ahead,
         NEW s, s.entry \in Nat, s.bound \in Nat,
         NEW w \in Seq(LineRec), w = Swept(p), w # <<>>, NEW d, d = Drop(p, s)
  PROVE  DropsTo(d, p, s, w)
<1>1. PICK back : back = Rewound(p, s)
  OBVIOUS
<1>2. PICK n \in Nat : Len(w) = n + 1 /\ n = Len(w) - 1
  <2>1. PICK n \in Nat : Len(w) = n + 1
    BY OneMore
  <2>2. n = Len(w) - 1
    BY <2>1
  <2> QED
    BY <2>1, <2>2
<1>4. /\ back \in Lexer
      /\ back.stack = Bounded(p.stack, s.bound)
      /\ back.line = SetEof(Placed(w[1], s.entry), Top(Bounded(p.stack, s.bound)))
      /\ back.queue = p.queue /\ back.cursor = p.cursor
      /\ Len(back.captured) = n
      /\ \A i \in 1..n : back.captured[i] = w[i + 1]
  BY <1>1, <1>2, RewoundIs
<1>5. back.captured \in Seq(LineRec) /\ DOMAIN back.captured = 1..n
  BY <1>4 DEF Lexer
<1>6. PICK e : e = Returned(w)
  OBVIOUS
<1>7. e = [i \in 1..n |-> Reset(w[i + 1])]
  BY <1>2, <1>6 DEF Returned
<1>8. \A i \in 1..n : i + 1 \in 1..Len(w) /\ w[i + 1] \in LineRec
  BY <1>2
<1>9. \A i \in 1..n : Reset(w[i + 1]) \in LineRec
  BY <1>8, ResetIs
<1>10. e \in Seq(LineRec) /\ Len(e) = n /\ \A i \in 1..n : e[i] = Reset(w[i + 1])
  <2>1. e \in [1..n -> LineRec]
    BY <1>7, <1>9
  <2>2. e \in Seq(LineRec)
    BY <2>1
  <2> QED
    BY <1>7, <2>1, <2>2
<1>11. d = Requeue(back, e)
  <2>1. e = [i \in DOMAIN back.captured |-> [back.captured[i] EXCEPT !.pos = back.captured[i].indent]]
    BY <1>4, <1>5, <1>7 DEF Reset, Placed
  <2> QED
    BY <1>1, <2>1 DEF Drop
<1>13. back.line \in LineRec /\ back.line # None
  <2>1. w[1] \in LineRec
    OBVIOUS
  <2>2. Placed(w[1], s.entry) \in LineRec
    BY <2>1, PlacedIs
  <2>3. Top(Bounded(p.stack, s.bound)) \in Nat
    BY <1>4, BoundIs
  <2> QED
    BY <1>4, <2>2, <2>3, SetEofIs, NoneIsNoLine
<1>14. /\ Requeue(back, e) \in Lexer /\ Requeue(back, e).line = back.line
       /\ Requeue(back, e).stack = back.stack /\ Requeue(back, e).queue = e \o back.queue
       /\ Requeue(back, e).cursor = back.cursor /\ Requeue(back, e).captured = <<>>
       /\ ~Requeue(back, e).ahead
  BY <1>4, <1>10, <1>13, RequeueIs
<1> QED
  BY <1>2, <1>4, <1>6, <1>10, <1>11, <1>13, <1>14 DEF DropsTo

-----------------------------------------------------------------------------
(* Where the bytes are, given the current line l, the frames s, the lines  *)
(* W that wait with the cursor they will be read from, the bytes r that    *)
(* were read and g that are gone.                                          *)

WaitRec == [at : 1..Len(Lines), pos : Nat]

LineSpan(l) == IF l = None THEN {} ELSE Span(l)
FrameSpan(s, i) == IF i \in 1..Len(s) THEN Span(s[i].line) ELSE {}

(* A waiting line is cut by every bound on it or behind it.                *)
Under(s, a, x) == \A i \in 1..Len(s) : Offset(a) <= s[i].bound => x < s[i].bound
WaitSpan(s, W, a) ==
  {x \in Offset(a)..Extent(a) - 1 : (\E w \in W : w.at = a /\ Offset(a) + w.pos <= x) /\ Under(s, a, x)}

Sites == ({"read", "gone", "line"} \X {0}) \cup ({"frame", "wait"} \X Nat)
Hold(l, s, W, r, g) ==
  [t \in Sites |-> IF t[1] = "read" THEN r ELSE IF t[1] = "gone" THEN g
                   ELSE IF t[1] = "line" THEN LineSpan(l)
                   ELSE IF t[1] = "frame" THEN FrameSpan(s, t[2]) ELSE WaitSpan(s, W, t[2])]

(* Every byte is in one place.                                             *)
Partition(H) == \A x \in Positions : \E t \in Sites : \A u \in Sites : x \in H[u] <=> u = t

(* A frame's bound is on or behind the line it suspends; an inner bound    *)
(* that lies behind an outer one cuts no line the outer one cuts; a cursor *)
(* does not pass the end of its view; every line is seen through the bound *)
(* of the frame it is read under.                                          *)
Typed(l, s, W) == l \in LineRec \cup {None} /\ s \in Seq(FrameRec) /\ W \subseteq WaitRec
Single(W) == \A v, w \in W : v.at = w.at => v = w
Suspended(s) == \A i \in 1..Len(s) : Offset(s[i].line.at) <= s[i].bound
Behind(l, W) == l # None => \A w \in W : l.at < w.at
Inner(s, W) == \A i, k \in 1..Len(s) : \A w \in W :
                 i < k /\ Offset(w.at) <= s[i].bound => s[k].bound <= s[i].bound
Within(s, W) == \A w \in W : /\ w.pos <= Full(w.at)
                             /\ \A i \in 1..Len(s) : Offset(w.at) <= s[i].bound =>
                                  Offset(w.at) + w.pos <= s[i].bound
BoundOf(s, i) == IF i = 0 THEN NoBound ELSE s[i].bound
Levels(l, s) == /\ l # None => Fixed(l, Top(s))
                /\ \A i \in 1..Len(s) : Fixed(s[i].line, BoundOf(s, i - 1))

Nested(l, s, W) ==
  /\ Typed(l, s, W) /\ Single(W) /\ Suspended(s) /\ Behind(l, W) /\ Inner(s, W) /\ Within(s, W)
  /\ Levels(l, s)

Lies(l, s, W, r, g) == Nested(l, s, W) /\ Partition(Hold(l, s, W, r, g))

(* The places are the read and gone bytes, the line, frames and lines.     *)
LEMMA SiteKinds ==
  /\ <<"read", 0>> \in Sites /\ <<"gone", 0>> \in Sites /\ <<"line", 0>> \in Sites
  /\ \A i \in Nat : <<"frame", i>> \in Sites /\ <<"wait", i>> \in Sites
  /\ \A t \in Sites : \/ t = <<"read", 0>> \/ t = <<"gone", 0>> \/ t = <<"line", 0>>
                      \/ \E i \in Nat : t = <<"frame", i>> \/ t = <<"wait", i>>
BY DEF Sites

(* What each place holds.                                                  *)
LEMMA HoldIs ==
  ASSUME NEW l, NEW s, NEW W, NEW r, NEW g, NEW H, H = Hold(l, s, W, r, g)
  PROVE  /\ H[<<"read", 0>>] = r /\ H[<<"gone", 0>>] = g /\ H[<<"line", 0>>] = LineSpan(l)
         /\ \A i \in Nat : H[<<"frame", i>>] = FrameSpan(s, i)
         /\ \A i \in Nat : H[<<"wait", i>>] = WaitSpan(s, W, i)
BY SiteKinds DEF Hold

(* What is in one place is in no other.                                    *)
LEMMA Alone ==
  ASSUME NEW H, Partition(H), NEW x \in Positions, NEW t \in Sites, NEW u \in Sites,
         x \in H[t], x \in H[u]
  PROVE  t = u
BY DEF Partition

(* Bytes that move to b, and bytes that move to c, from wherever they are. *)
LEMMA MovedKeeps ==
  ASSUME NEW H, Partition(H), NEW b \in Sites, NEW c \in Sites, b # c,
         NEW A, NEW B, A \cap B = {}, NEW K,
         K[b] = H[b] \cup A, K[c] = H[c] \cup B,
         \A t \in Sites \ {b, c} : K[t] = H[t] \/ K[t] = H[t] \ (A \cup B),
         \A x \in A \cup B : \E t \in Sites \ {b, c} : x \in H[t] /\ x \notin K[t]
  PROVE  Partition(K)
<1> SUFFICES ASSUME NEW x \in Positions
             PROVE  \E t \in Sites : \A u \in Sites : x \in K[u] <=> u = t
  BY DEF Partition
<1>1. PICK t \in Sites : \A u \in Sites : x \in H[u] <=> u = t
  BY DEF Partition
<1>2. x \in A \cup B => t \notin {b, c} /\ x \notin K[t]
  BY <1>1
<1>3. CASE x \in A
  <2>1. \A u \in Sites : x \in K[u] <=> u = b
    BY <1>1, <1>2, <1>3
  <2> QED
    BY <2>1
<1>4. CASE x \in B
  <2>1. \A u \in Sites : x \in K[u] <=> u = c
    BY <1>1, <1>2, <1>4
  <2> QED
    BY <2>1
<1>5. CASE x \notin A \cup B
  <2>1. \A u \in Sites : x \in K[u] <=> u = t
    BY <1>1, <1>5
  <2> QED
    BY <2>1
<1> QED
  BY <1>3, <1>4, <1>5

(* Bytes that move from a to b.                                            *)
LEMMA MovedFrom ==
  ASSUME NEW H, Partition(H), NEW a \in Sites, NEW b \in Sites, a # b, NEW A, A \subseteq H[a],
         NEW K, K[b] = H[b] \cup A, K[a] = H[a] \ A, \A t \in Sites \ {a, b} : K[t] = H[t]
  PROVE  Partition(K)
<1> SUFFICES ASSUME NEW x \in Positions
             PROVE  \E t \in Sites : \A u \in Sites : x \in K[u] <=> u = t
  BY DEF Partition
<1>1. PICK t \in Sites : \A u \in Sites : x \in H[u] <=> u = t
  BY DEF Partition
<1>2. CASE x \in A
  <2>1. t = a
    BY <1>1, <1>2
  <2>2. \A u \in Sites : x \in K[u] <=> u = b
    BY <1>1, <1>2, <2>1
  <2> QED
    BY <2>2
<1>3. CASE x \notin A
  <2>1. \A u \in Sites : x \in K[u] <=> u = t
    BY <1>1, <1>3
  <2> QED
    BY <2>1
<1> QED
  BY <1>2, <1>3

(* Bytes that move from a to b, field by field.                            *)
Taken(X, A, isTo, isFrom) == IF isTo THEN X \cup A ELSE IF isFrom THEN X \ A ELSE X
Moves(A, a, b, l, s, W, r, g, m, t, V, q, h) ==
  /\ q = Taken(r, A, b = <<"read", 0>>, a = <<"read", 0>>)
  /\ h = Taken(g, A, b = <<"gone", 0>>, a = <<"gone", 0>>)
  /\ LineSpan(m) = Taken(LineSpan(l), A, b = <<"line", 0>>, a = <<"line", 0>>)
  /\ \A i \in Nat : FrameSpan(t, i) = Taken(FrameSpan(s, i), A, b = <<"frame", i>>, a = <<"frame", i>>)
  /\ \A i \in Nat : WaitSpan(t, V, i) = Taken(WaitSpan(s, W, i), A, b = <<"wait", i>>, a = <<"wait", i>>)

(* Bytes move from one place to another, and the places still part all     *)
(* bytes.                                                                  *)
LEMMA MovedHold ==
  ASSUME NEW l, NEW s, NEW W, NEW r, NEW g, NEW m, NEW t, NEW V, NEW q, NEW h,
         NEW A, NEW a \in Sites, NEW b \in Sites, a # b, A \subseteq Hold(l, s, W, r, g)[a],
         Partition(Hold(l, s, W, r, g)), Moves(A, a, b, l, s, W, r, g, m, t, V, q, h)
  PROVE  Partition(Hold(m, t, V, q, h))
<1>1. PICK H : H = Hold(l, s, W, r, g)
  OBVIOUS
<1>2. PICK K : K = Hold(m, t, V, q, h)
  OBVIOUS
<1>3. /\ H[<<"read", 0>>] = r /\ H[<<"gone", 0>>] = g /\ H[<<"line", 0>>] = LineSpan(l)
      /\ \A i \in Nat : H[<<"frame", i>>] = FrameSpan(s, i)
      /\ \A i \in Nat : H[<<"wait", i>>] = WaitSpan(s, W, i)
  BY <1>1, HoldIs
<1>4. /\ K[<<"read", 0>>] = q /\ K[<<"gone", 0>>] = h /\ K[<<"line", 0>>] = LineSpan(m)
      /\ \A i \in Nat : K[<<"frame", i>>] = FrameSpan(t, i)
      /\ \A i \in Nat : K[<<"wait", i>>] = WaitSpan(t, V, i)
  BY <1>2, HoldIs
<1>5. \A u \in Sites : K[u] = Taken(H[u], A, b = u, a = u)
  <2> SUFFICES ASSUME NEW u \in Sites PROVE K[u] = Taken(H[u], A, b = u, a = u)
    OBVIOUS
  <2>1. CASE u = <<"read", 0>>
    BY <1>3, <1>4, <2>1 DEF Moves
  <2>2. CASE u = <<"gone", 0>>
    BY <1>3, <1>4, <2>2 DEF Moves
  <2>3. CASE u = <<"line", 0>>
    BY <1>3, <1>4, <2>3 DEF Moves
  <2>4. ASSUME NEW i \in Nat, u = <<"frame", i>> PROVE K[u] = Taken(H[u], A, b = u, a = u)
    BY <1>3, <1>4, <2>4 DEF Moves
  <2>5. ASSUME NEW i \in Nat, u = <<"wait", i>> PROVE K[u] = Taken(H[u], A, b = u, a = u)
    BY <1>3, <1>4, <2>5 DEF Moves
  <2> QED
    BY <2>1, <2>2, <2>3, <2>4, <2>5, SiteKinds
<1>6. A \subseteq H[a] /\ Partition(H)
  BY <1>1
<1>7. K[b] = H[b] \cup A
  BY <1>5 DEF Taken
<1>8. K[a] = H[a] \ A
  BY <1>5 DEF Taken
<1>9. \A u \in Sites \ {a, b} : K[u] = H[u]
  BY <1>5 DEF Taken
<1>10. Partition(K)
  BY <1>6, <1>7, <1>8, <1>9, MovedFrom
<1> QED
  BY <1>2, <1>10

-----------------------------------------------------------------------------
(* Spans of lines, and steps on the current line.                          *)

Body(a) == Offset(a)..Extent(a) - 1

(* The bytes of two lines of the text are apart, in the order of the       *)
(* lines.                                                                  *)
LEMMA BodiesApart ==
  ASSUME Layout
  PROVE  /\ \A a \in 1..Len(Lines) : Body(a) \subseteq Positions
         /\ \A a, c \in 1..Len(Lines) : \A x, y : a < c /\ x \in Body(a) /\ y \in Body(c) => x < y
         /\ \A a \in 1..Len(Lines) : Offset(a) <= Extent(a) /\ Extent(a) < NoBound
<1>1. ASSUME NEW a \in 1..Len(Lines), NEW c \in 1..Len(Lines), NEW x, NEW y,
             a < c, x \in Body(a), y \in Body(c)
      PROVE  x < y
  <2>1. Extent(a) < Offset(c) /\ Extent(a) \in Nat /\ Offset(c) \in Nat /\ Extent(c) \in Nat /\ Offset(a) \in Nat
    BY <1>1 DEF Layout
  <2> QED
    BY <1>1, <2>1 DEF Body
<1>2. ASSUME NEW a \in 1..Len(Lines) PROVE Body(a) \subseteq Positions
  BY DEF Body, Positions, Layout
<1>3. ASSUME NEW a \in 1..Len(Lines) PROVE Offset(a) <= Extent(a) /\ Extent(a) < NoBound
  <2>1. PICK o \in Nat, f \in Nat, e \in Nat : o = Offset(a) /\ f = Full(a) /\ e = Extent(a)
    BY DEF Layout
  <2>2. e = o + f + (IF HasNewline(a) THEN 1 ELSE 0)
    BY <2>1 DEF Layout
  <2>3. o <= e
    BY <2>2
  <2>4. Len(Lines) + 1 \in Nat /\ a < Len(Lines) + 1
    <3>1. Len(Lines) \in Nat
      BY DEF Layout
    <3> QED
      BY <3>1
  <2>5. Extent(a) < Offset(Len(Lines) + 1)
    BY <2>4 DEF Layout
  <2> QED
    BY <2>1, <2>3, <2>5 DEF Layout
<1> QED
  BY <1>1, <1>2, <1>3

(* Where a line of the text starts and ends.                               *)
LEMMA LineAt ==
  ASSUME Layout, NEW a \in 1..Len(Lines)
  PROVE  /\ a \in Nat /\ Offset(a) \in Nat /\ Extent(a) \in Nat
         /\ Offset(a) <= Extent(a) /\ Extent(a) < NoBound /\ NoBound \in Nat
<1>1. a \in Nat /\ Offset(a) \in Nat /\ Extent(a) \in Nat /\ NoBound \in Nat
  BY DEF Layout
<1> QED
  BY <1>1, BodiesApart

(* A line of the text that starts earlier is an earlier line.              *)
LEMMA LineOrder ==
  ASSUME Layout, NEW a \in 1..Len(Lines), NEW c \in 1..Len(Lines)
  PROVE  /\ Offset(a) < Offset(c) => a < c
         /\ a < c => Extent(a) < Offset(c) /\ Offset(a) < Offset(c)
<1>1. PICK o \in Nat, e \in Nat : o = Offset(a) /\ e = Extent(a) /\ o <= e
  BY LineAt
<1>2. PICK d \in Nat : d = Offset(c)
  BY LineAt
<1>3. a \in Nat /\ c \in Nat
  OBVIOUS
<1>4. c <= a => d <= o
  BY <1>1, <1>2, <1>3 DEF Layout
<1>5. a < c => e < d
  BY <1>1, <1>2, <1>3 DEF Layout
<1> QED
  BY <1>1, <1>2, <1>3, <1>4, <1>5

(* A line seen through b shows what its body has from the cursor up to b.  *)
LEMMA SpanInBody ==
  ASSUME Layout, NEW l \in LineRec, NEW b \in Nat, Fixed(l, b)
  PROVE  /\ Span(l) \subseteq Body(l.at) /\ Span(l) \subseteq Positions
         /\ \A x \in Body(l.at) : x \in Span(l) <=> Here(l) <= x /\ x < b
<1>1. PICK a \in 1..Len(Lines), k \in Nat : a = l.at /\ k = l.pos
  BY DEF LineRec
<1>2. PICK o \in Nat, e \in Nat : o = Offset(a) /\ e = Extent(a)
  BY DEF Layout
<1>3. \A x : x \in Span(l) <=> x \in o + k .. e - 1 /\ x < b
  BY <1>1, <1>2, SpanOfFixed DEF Reach
<1>4. Body(a) = o .. e - 1 /\ Here(l) = o + k
  BY <1>1, <1>2 DEF Body, Here
<1>5. Span(l) \subseteq Body(a)
  BY <1>3, <1>4
<1> QED
  BY <1>1, <1>3, <1>4, <1>5, BodiesApart

(* The bounds of the frames are numbers.                                   *)
LEMMA TopIs ==
  ASSUME Layout, NEW s \in Seq(FrameRec), NEW n \in Nat, n = Len(s)
  PROVE  /\ Top(s) \in Nat /\ BoundOf(s, n) = Top(s)
         /\ \A i \in 1..n : s[i] \in FrameRec /\ s[i].bound \in Nat /\ s[i].line \in LineRec
         /\ \A i \in 0..n : BoundOf(s, i) \in Nat
         /\ NoBound \in Nat
<1>1. \A i \in 1..n : s[i] \in FrameRec
  OBVIOUS
<1>2. \A i \in 1..n : s[i].bound \in Nat /\ s[i].line \in LineRec
  BY <1>1 DEF FrameRec
<1>3. NoBound \in Nat
  BY DEF Layout
<1>4. BoundOf(s, n) = Top(s)
  BY DEF BoundOf, Top
<1>5. \A i \in 0..n : BoundOf(s, i) \in Nat
  BY <1>2, <1>3 DEF BoundOf
<1> QED
  BY <1>1, <1>2, <1>3, <1>4, <1>5

(* The byte at the cursor is read.                                         *)
LEMMA PlaceOf ==
  ASSUME Layout, NEW l \in LineRec
  PROVE  /\ l.at \in 1..Len(Lines) /\ l.pos \in Nat /\ Offset(l.at) \in Nat /\ Extent(l.at) \in Nat
         /\ Here(l) = Offset(l.at) + l.pos /\ Here(l) \in Nat
<1>1. PICK a \in 1..Len(Lines), k \in Nat : a = l.at /\ k = l.pos
  BY DEF LineRec
<1>2. PICK o \in Nat, e \in Nat : o = Offset(a) /\ e = Extent(a)
  BY DEF Layout
<1> QED
  BY <1>1, <1>2 DEF Here

(* The byte at the cursor is read.                                         *)
LEMMA ConsumeLies ==
  ASSUME Layout, NoneAssumption, NEW l \in LineRec, NEW s, NEW W, NEW r, NEW g, Lies(l, s, W, r, g),
         HasByte(l)
  PROVE  Lies(Placed(l, l.pos + 1), s, W, r \cup {Here(l)}, g)
<1>1. Nested(l, s, W) /\ Partition(Hold(l, s, W, r, g)) /\ l # None
  BY NoneIsNoLine DEF Lies
<1>2. s \in Seq(FrameRec) /\ Fixed(l, Top(s))
  BY <1>1 DEF Nested, Typed, Levels
<1>3. PICK b \in Nat : b = Top(s)
  BY <1>2, TopIs
<1>4. PICK k \in Nat, o \in Nat, a \in 1..Len(Lines) : k = l.pos /\ a = l.at /\ o = Offset(a)
  BY PlaceOf
<1>5. PICK m : m = Placed(l, l.pos + 1)
  OBVIOUS
<1>6. m \in LineRec /\ m.at = a /\ m.pos = k + 1 /\ Fixed(m, b) /\ m # None
  <2>1. k + 1 \in Nat
    OBVIOUS
  <2> QED
    BY <1>2, <1>3, <1>4, <1>5, <2>1, PlacedIs, PlacedFixed, NoneIsNoLine
<1>7. Nested(m, s, W)
  BY <1>1, <1>3, <1>4, <1>6 DEF Nested, Typed, Behind, Levels
<1>8. PICK x \in Nat : x = Here(l) /\ x = o + k
  BY <1>4, PlaceOf
<1>9. x \in Span(l)
  BY <1>8, ByteInSpan
<1>10. Span(m) = Span(l) \ {x}
  <2>1. \A y \in Body(a) : y \in Span(l) <=> x <= y /\ y < b
    BY <1>2, <1>3, <1>4, <1>8, SpanInBody
  <2>2. \A y \in Body(a) : y \in Span(m) <=> x + 1 <= y /\ y < b
    BY <1>3, <1>4, <1>6, <1>8, SpanInBody DEF Here
  <2>3. Span(l) \subseteq Body(a) /\ Span(m) \subseteq Body(a)
    BY <1>2, <1>3, <1>4, <1>6, SpanInBody
  <2>4. Body(a) \subseteq Int
    BY <1>4 DEF Body, Layout
  <2>5. \A y \in Body(a) : x + 1 <= y <=> x <= y /\ y # x
    BY <2>4
  <2> QED
    BY <2>1, <2>2, <2>3, <2>5
<1>11. PICK A : A = {x}
  OBVIOUS
<1>12. Moves(A, <<"line", 0>>, <<"read", 0>>, l, s, W, r, g, m, s, W, r \cup {x}, g)
  BY <1>1, <1>6, <1>10, <1>11 DEF Moves, Taken, LineSpan
<1>13. A \subseteq Hold(l, s, W, r, g)[<<"line", 0>>]
  BY <1>1, <1>9, <1>11, HoldIs DEF LineSpan
<1>14. Partition(Hold(m, s, W, r \cup {x}, g))
  BY <1>1, <1>12, <1>13, SiteKinds, MovedHold
<1> QED
  BY <1>5, <1>7, <1>8, <1>14 DEF Lies

(* The rest of the line is skipped.                                        *)
LEMMA AbandonLies ==
  ASSUME Layout, NoneAssumption, NEW l \in LineRec, NEW s, NEW W, NEW r, NEW g, Lies(l, s, W, r, g)
  PROVE  Lies(None, s, W, r, g \cup Span(l))
<1>1. Nested(l, s, W) /\ Partition(Hold(l, s, W, r, g)) /\ l # None
  BY NoneIsNoLine DEF Lies
<1>2. Nested(None, s, W)
  BY <1>1 DEF Nested, Typed, Behind, Levels
<1>3. PICK A : A = Span(l)
  OBVIOUS
<1>4. Moves(A, <<"line", 0>>, <<"gone", 0>>, l, s, W, r, g, None, s, W, r, g \cup A)
  BY <1>1, <1>3 DEF Moves, Taken, LineSpan
<1>5. A \subseteq Hold(l, s, W, r, g)[<<"line", 0>>]
  BY <1>1, <1>3, HoldIs DEF LineSpan
<1>6. Partition(Hold(None, s, W, r, g \cup A))
  BY <1>1, <1>4, <1>5, SiteKinds, MovedHold
<1> QED
  BY <1>2, <1>3, <1>6 DEF Lies

-----------------------------------------------------------------------------
(* A waiting line is loaded; a frame is left.                              *)

(* Seen through the top frame's bound, a line shows what waits of it.      *)
LEMMA WaitIsSpan ==
  ASSUME Layout, NEW l, NEW s, NEW W, Nested(l, s, W), NEW w \in W, Offset(w.at) <= Top(s),
         NEW m \in LineRec, m.at = w.at, m.pos = w.pos, Fixed(m, Top(s))
  PROVE  WaitSpan(s, W, w.at) = Span(m)
<1>1. s \in Seq(FrameRec) /\ w \in WaitRec /\ Single(W) /\ Inner(s, W)
  BY DEF Nested, Typed
<1>2. PICK n \in Nat : n = Len(s)
  BY <1>1
<1>3. PICK b \in Nat : b = Top(s)
  BY <1>1, TopIs
<1>4. PICK a \in 1..Len(Lines), k \in Nat : a = w.at /\ k = w.pos
  BY <1>1 DEF WaitRec
<1>5. PICK o \in Nat, e \in Nat : o = Offset(a) /\ e = Extent(a) /\ e < NoBound
  BY LineAt
<1>6. \A x \in Body(a) : x \in Span(m) <=> o + k <= x /\ x < b
  BY <1>3, <1>4, <1>5, SpanInBody DEF Here
<1>7. \A x \in Body(a) : x < b <=> Under(s, a, x)
  <2> SUFFICES ASSUME NEW x \in Body(a) PROVE x < b <=> Under(s, a, x)
    OBVIOUS
  <2>1. x \in o .. e - 1
    BY <1>5 DEF Body
  <2>2. CASE n = 0
    <3>1. b = NoBound
      <4>1. s = <<>>
        <5>1. Len(s) = 0
          BY <1>2, <2>2
        <5> QED
          BY <1>1, <5>1, EmptySeq
      <4> QED
        BY <1>3, <4>1 DEF Top
    <3>2. x < b
      BY <1>5, <2>1, <3>1
    <3> QED
      BY <1>2, <2>2, <3>2 DEF Under
  <2>3. CASE n # 0
    <3>1. n \in 1..Len(s) /\ b = s[n].bound
      BY <1>1, <1>2, <1>3, <2>3 DEF Top
    <3>2. Under(s, a, x) => x < b
      BY <1>3, <1>4, <1>5, <3>1 DEF Under
    <3>3. ASSUME x < b, NEW i \in 1..Len(s), o <= s[i].bound PROVE x < s[i].bound
      <4>1. CASE i = n
        BY <3>1, <3>3, <4>1
      <4>2. CASE i # n
        <5>1. i < n
          BY <1>2, <4>2
        <5>2. s[n].bound <= s[i].bound
          BY <1>1, <1>4, <1>5, <3>1, <3>3, <5>1 DEF Inner
        <5>3. s[i].bound \in Nat
          BY <1>1, <1>2, TopIs
        <5> QED
          BY <2>1, <3>1, <3>3, <5>2, <5>3
      <4> QED
        BY <4>1, <4>2
    <3> QED
      BY <1>5, <3>2, <3>3 DEF Under
  <2> QED
    BY <2>2, <2>3
<1>8. \A x \in Body(a) : (\E v \in W : v.at = a /\ Offset(a) + v.pos <= x) <=> o + k <= x
  BY <1>1, <1>4, <1>5 DEF Single
<1>9. \A x : x \in WaitSpan(s, W, a) <=> x \in Body(a) /\ o + k <= x /\ x < b
  BY <1>7, <1>8 DEF WaitSpan, Body
<1>10. Span(m) \subseteq Body(a)
  BY <1>3, <1>4, SpanInBody
<1> QED
  BY <1>4, <1>6, <1>9, <1>10

(* Which bytes of a line wait depends on that line's cursor only.          *)
LEMMA WaitGone ==
  ASSUME NEW s, NEW W, NEW V, NEW a
  PROVE  /\ (\A v : v.at = a => (v \in W <=> v \in V)) => WaitSpan(s, W, a) = WaitSpan(s, V, a)
         /\ (\A w \in W : w.at # a) => WaitSpan(s, W, a) = {}
BY DEF WaitSpan

(* The first waiting line becomes the current one.                         *)
LEMMA LoadLies ==
  ASSUME Layout, NoneAssumption, NEW l, NEW s, NEW W, NEW r, NEW g, Lies(l, s, W, r, g),
         LineSpan(l) = {}, NEW w \in W, \A v \in W \ {w} : w.at < v.at, Offset(w.at) <= Top(s),
         NEW m \in LineRec, m.at = w.at, m.pos = w.pos, Fixed(m, Top(s))
  PROVE  Lies(m, s, W \ {w}, r, g)
<1>1. Nested(l, s, W) /\ Partition(Hold(l, s, W, r, g)) /\ m # None
  BY NoneIsNoLine DEF Lies
<1>2. PICK V : V = W \ {w}
  OBVIOUS
<1>3. Nested(m, s, V)
  <2>1. Typed(m, s, V) /\ Single(V) /\ Suspended(s) /\ Inner(s, V) /\ Within(s, V) /\ Levels(m, s)
    BY <1>1, <1>2 DEF Nested, Typed, Single, Inner, Within, Levels
  <2>2. Behind(m, V)
    BY <1>2 DEF Behind
  <2> QED
    BY <2>1, <2>2 DEF Nested
<1>4. PICK a \in Nat : a = w.at
  BY <1>1 DEF Nested, Typed, WaitRec
<1>5. PICK A : A = WaitSpan(s, W, a)
  OBVIOUS
<1>6. Span(m) = A
  BY <1>1, <1>4, <1>5, WaitIsSpan
<1>7. WaitSpan(s, V, a) = {}
  BY <1>1, <1>2, <1>4, WaitGone DEF Nested, Single
<1>8. ASSUME NEW i \in Nat, i # a PROVE WaitSpan(s, V, i) = WaitSpan(s, W, i)
  BY <1>2, <1>4, <1>8, WaitGone
<1>9. Moves(A, <<"wait", a>>, <<"line", 0>>, l, s, W, r, g, m, s, V, r, g)
  BY <1>1, <1>5, <1>6, <1>7, <1>8 DEF Moves, Taken, LineSpan
<1>10. A \subseteq Hold(l, s, W, r, g)[<<"wait", a>>]
  BY <1>5, HoldIs
<1>11. Partition(Hold(m, s, V, r, g))
  <2>1. <<"wait", a>> \in Sites /\ <<"line", 0>> \in Sites /\ <<"wait", a>> # <<"line", 0>>
    BY SiteKinds
  <2> QED
    BY <1>1, <1>9, <1>10, <2>1, MovedHold
<1> QED
  BY <1>2, <1>3, <1>11 DEF Lies

(* The top frame is left when no line waits before its bound.              *)
LEMMA PopLies ==
  ASSUME Layout, NoneAssumption, NEW l, NEW s, NEW W, NEW r, NEW g, Lies(l, s, W, r, g),
         LineSpan(l) = {}, NEW n \in Nat, Len(s) = n + 1, \A w \in W : Top(s) < Offset(w.at),
         NEW t, t = SubSeq(s, 1, n), NEW m, m = SetEof(s[n + 1].line, Top(t))
  PROVE  Lies(m, t, W, r, g)
<1>1. Nested(l, s, W) /\ Partition(Hold(l, s, W, r, g))
  BY DEF Lies
<1>2. s \in Seq(FrameRec) /\ W \subseteq WaitRec
  BY <1>1 DEF Nested, Typed
<1>3. t \in Seq(FrameRec) /\ Len(t) = n /\ \A i \in 1..n : t[i] = s[i]
  BY <1>2, SubSeqProperties
<1>4. PICK b \in Nat : b = s[n + 1].bound /\ b = Top(s)
  <2>1. n + 1 \in 1..Len(s) /\ s # <<>>
    BY <1>2
  <2>2. s[n + 1].bound \in Nat
    BY <1>2, <2>1, TopIs
  <2> QED
    BY <2>1, <2>2 DEF Top
<1>5. Top(t) = BoundOf(s, n) /\ Top(t) \in Nat
  <2>1. Top(t) \in Nat /\ Top(t) = BoundOf(t, n)
    BY <1>3, TopIs
  <2> QED
    BY <1>3, <2>1 DEF BoundOf
<1>6. s[n + 1].line \in LineRec /\ Fixed(s[n + 1].line, BoundOf(s, n))
  <2>1. n + 1 \in 1..Len(s) /\ (n + 1) - 1 = n
    BY <1>2
  <2> QED
    BY <1>1, <1>2, <2>1, TopIs DEF Nested, Levels
<1>7. m = s[n + 1].line /\ m \in LineRec /\ m # None
  BY <1>5, <1>6, NoneIsNoLine DEF Fixed
<1>8. \A i \in 1..n : i \in 1..Len(s)
  OBVIOUS
<1>9. Nested(m, t, W)
  <2>1. Typed(m, t, W) /\ Single(W)
    BY <1>1, <1>2, <1>3, <1>7 DEF Nested, Typed
  <2>2. Suspended(t) /\ Inner(t, W) /\ Within(t, W)
    BY <1>1, <1>3, <1>8 DEF Nested, Suspended, Inner, Within
  <2>3. Behind(m, W)
    <3> SUFFICES ASSUME NEW w \in W PROVE m.at < w.at
      BY DEF Behind
    <3>1. PICK a \in 1..Len(Lines), c \in 1..Len(Lines) : a = m.at /\ c = w.at
      BY <1>2, <1>7 DEF LineRec, WaitRec
    <3>2. Offset(a) <= b
      <4>1. n + 1 \in 1..Len(s)
        OBVIOUS
      <4> QED
        BY <1>1, <1>4, <1>7, <3>1, <4>1 DEF Nested, Suspended
    <3>3. b < Offset(c)
      BY <1>4, <3>1
    <3>4. Offset(a) \in Nat /\ Offset(c) \in Nat /\ (Offset(a) < Offset(c) => a < c)
      BY LineAt, LineOrder
    <3> QED
      BY <1>4, <3>1, <3>2, <3>3, <3>4
  <2>4. Levels(m, t)
    <3>1. Fixed(m, Top(t))
      BY <1>5, <1>6, <1>7
    <3>2. ASSUME NEW i \in 1..n PROVE Fixed(t[i].line, BoundOf(t, i - 1))
      <4>1. BoundOf(t, i - 1) = BoundOf(s, i - 1)
        BY <1>3 DEF BoundOf
      <4> QED
        BY <1>1, <1>3, <1>8, <4>1 DEF Nested, Levels
    <3> QED
      BY <1>3, <3>1, <3>2 DEF Levels
  <2> QED
    BY <2>1, <2>2, <2>3, <2>4 DEF Nested
<1>10. PICK A : A = Span(m)
  OBVIOUS
<1>11. PICK k \in Nat : k = n + 1
  OBVIOUS
<1>12. FrameSpan(s, k) = A /\ FrameSpan(t, k) = {}
  BY <1>3, <1>7, <1>10, <1>11 DEF FrameSpan
<1>13. ASSUME NEW i \in Nat, i # k PROVE FrameSpan(t, i) = FrameSpan(s, i)
  BY <1>3, <1>11, <1>13 DEF FrameSpan
<1>14. ASSUME NEW i \in Nat PROVE WaitSpan(t, W, i) = WaitSpan(s, W, i)
  <2>1. ASSUME NEW w \in W, NEW x, w.at = i PROVE Under(t, i, x) <=> Under(s, i, x)
    <3>1. ~(Offset(i) <= s[n + 1].bound)
      <4>1. Offset(i) \in Nat /\ b < Offset(i)
        BY <1>4, <2>1 DEF Layout
      <4> QED
        BY <1>4, <4>1
    <3>2. \A j \in 1..Len(s) : j = n + 1 \/ j \in 1..n
      OBVIOUS
    <3> QED
      BY <1>3, <1>8, <3>1, <3>2 DEF Under
  <2> QED
    BY <2>1 DEF WaitSpan
<1>15. Moves(A, <<"frame", k>>, <<"line", 0>>, l, s, W, r, g, m, t, W, r, g)
  BY <1>1, <1>7, <1>10, <1>12, <1>13, <1>14 DEF Moves, Taken, LineSpan
<1>16. A \subseteq Hold(l, s, W, r, g)[<<"frame", k>>]
  BY <1>12, HoldIs
<1>17. Partition(Hold(m, t, W, r, g))
  <2>1. <<"frame", k>> \in Sites /\ <<"line", 0>> \in Sites /\ <<"frame", k>> # <<"line", 0>>
    BY SiteKinds
  <2> QED
    BY <1>1, <1>15, <1>16, <2>1, MovedHold
<1> QED
  BY <1>9, <1>17 DEF Lies

-----------------------------------------------------------------------------
(* A body opens: its frame takes over what lies behind it, and what closes *)
(* it is gone.                                                             *)

Less(X, Y, C) == Y = X \/ Y = X \ C
Splits(A, B, k, l, s, W, g, m, t, V, h) ==
  /\ A \cap B = {} /\ h = g \cup A /\ FrameSpan(t, k) = FrameSpan(s, k) \cup B
  /\ Less(LineSpan(l), LineSpan(m), A \cup B)
  /\ \A i \in Nat \ {k} : FrameSpan(t, i) = FrameSpan(s, i)
  /\ \A i \in Nat : Less(WaitSpan(s, W, i), WaitSpan(t, V, i), A \cup B)
  /\ \A x \in A \cup B : \/ x \in LineSpan(l) \ LineSpan(m)
                         \/ \E i \in Nat : x \in WaitSpan(s, W, i) \ WaitSpan(t, V, i)

(* Bytes of the current line go to a new frame, others are gone.           *)
LEMMA SplitHold ==
  ASSUME NEW l, NEW s, NEW W, NEW r, NEW g, NEW m, NEW t, NEW V, NEW h,
         NEW A, NEW B, NEW k \in Nat,
         Partition(Hold(l, s, W, r, g)), Splits(A, B, k, l, s, W, g, m, t, V, h)
  PROVE  Partition(Hold(m, t, V, r, h))
<1>1. PICK H : H = Hold(l, s, W, r, g)
  OBVIOUS
<1>2. PICK K : K = Hold(m, t, V, r, h)
  OBVIOUS
<1>3. /\ H[<<"read", 0>>] = r /\ H[<<"gone", 0>>] = g /\ H[<<"line", 0>>] = LineSpan(l)
      /\ \A i \in Nat : H[<<"frame", i>>] = FrameSpan(s, i)
      /\ \A i \in Nat : H[<<"wait", i>>] = WaitSpan(s, W, i)
  BY <1>1, HoldIs
<1>4. /\ K[<<"read", 0>>] = r /\ K[<<"gone", 0>>] = h /\ K[<<"line", 0>>] = LineSpan(m)
      /\ \A i \in Nat : K[<<"frame", i>>] = FrameSpan(t, i)
      /\ \A i \in Nat : K[<<"wait", i>>] = WaitSpan(t, V, i)
  BY <1>2, HoldIs
<1>5. PICK b \in Sites, c \in Sites : b = <<"gone", 0>> /\ c = <<"frame", k>>
  BY SiteKinds
<1>6. b # c
  BY <1>5
<1>7. K[b] = H[b] \cup A /\ K[c] = H[c] \cup B /\ A \cap B = {}
  BY <1>3, <1>4, <1>5 DEF Splits
<1>8. \A u \in Sites \ {b, c} : K[u] = H[u] \/ K[u] = H[u] \ (A \cup B)
  <2> SUFFICES ASSUME NEW u \in Sites \ {b, c} PROVE K[u] = H[u] \/ K[u] = H[u] \ (A \cup B)
    OBVIOUS
  <2>1. CASE u = <<"read", 0>>
    BY <1>3, <1>4, <2>1
  <2>2. CASE u = <<"line", 0>>
    BY <1>3, <1>4, <2>2 DEF Splits, Less
  <2>3. ASSUME NEW i \in Nat, u = <<"frame", i>> PROVE K[u] = H[u]
    <3>1. i # k
      BY <1>5, <2>3
    <3> QED
      BY <1>3, <1>4, <2>3, <3>1 DEF Splits
  <2>4. ASSUME NEW i \in Nat, u = <<"wait", i>> PROVE K[u] = H[u] \/ K[u] = H[u] \ (A \cup B)
    BY <1>3, <1>4, <2>4 DEF Splits, Less
  <2> QED
    BY <1>5, <2>1, <2>2, <2>3, <2>4, SiteKinds
<1>9. \A x \in A \cup B : \E u \in Sites \ {b, c} : x \in H[u] /\ x \notin K[u]
  <2> SUFFICES ASSUME NEW x \in A \cup B
               PROVE  \E u \in Sites \ {b, c} : x \in H[u] /\ x \notin K[u]
    OBVIOUS
  <2>1. CASE x \in LineSpan(l) \ LineSpan(m)
    <3>1. <<"line", 0>> \in Sites \ {b, c}
      BY <1>5, SiteKinds
    <3> QED
      BY <1>3, <1>4, <2>1, <3>1
  <2>2. ASSUME NEW i \in Nat, x \in WaitSpan(s, W, i) \ WaitSpan(t, V, i)
        PROVE  \E u \in Sites \ {b, c} : x \in H[u] /\ x \notin K[u]
    <3>1. <<"wait", i>> \in Sites \ {b, c}
      BY <1>5, SiteKinds
    <3> QED
      BY <1>3, <1>4, <2>2, <3>1
  <2> QED
    BY <2>1, <2>2 DEF Splits
<1>10. Partition(K)
  BY <1>1, <1>6, <1>7, <1>8, <1>9, MovedKeeps
<1> QED
  BY <1>2, <1>10

(* Inner bounds do not cut below outer ones.                               *)
LEMMA TopIsLeast ==
  ASSUME Layout, NEW s \in Seq(FrameRec), NEW W, Inner(s, W)
  PROVE  \A w \in W : \A i \in 1..Len(s) : Offset(w.at) <= s[i].bound => Top(s) <= s[i].bound
<1> SUFFICES ASSUME NEW w \in W, NEW i \in 1..Len(s), Offset(w.at) <= s[i].bound
             PROVE  Top(s) <= s[i].bound
  OBVIOUS
<1>1. PICK n \in Nat : n = Len(s)
  OBVIOUS
<1>2. s # <<>> /\ n \in 1..n
  BY <1>1
<1>3. Top(s) = s[n].bound /\ s[n].bound \in Nat
  BY <1>1, <1>2, TopIs DEF Top
<1>4. CASE i = n
  BY <1>3, <1>4
<1>5. CASE i # n
  <2>1. i < n
    BY <1>1, <1>5
  <2> QED
    BY <1>1, <1>2, <1>3, <2>1 DEF Inner
<1> QED
  BY <1>4, <1>5

IsPushed(t, s, n, f) ==
  /\ t \in Seq(FrameRec) /\ Len(t) = n + 1 /\ Top(t) = f.bound
  /\ \A i \in 1..n : t[i] = s[i]
  /\ t[n + 1] = f

(* A frame pushed on the stack, element by element.                        *)
LEMMA PushedIs ==
  ASSUME NEW s \in Seq(FrameRec), NEW n \in Nat, n = Len(s), NEW f \in FrameRec
  PROVE  IsPushed(Append(s, f), s, n, f)
<1>1. PICK t : t = Append(s, f)
  OBVIOUS
<1>2. t \in Seq(FrameRec) /\ Len(t) = n + 1 /\ (\A i \in 1..n : t[i] = s[i]) /\ t[n + 1] = f
  BY <1>1, AppendOf
<1>3. t # <<>>
  BY <1>2
<1>4. Top(t) = f.bound
  BY <1>2, <1>3 DEF Top
<1> QED
  BY <1>1, <1>2, <1>4 DEF IsPushed

(* A frame pushed adds its own line's bytes to the frames', no others.     *)
LEMMA PushedSpans ==
  ASSUME NEW t, NEW s, NEW n \in Nat, n = Len(s), NEW f, IsPushed(t, s, n, f)
  PROVE  /\ \A i \in Nat \ {n + 1} : FrameSpan(t, i) = FrameSpan(s, i)
         /\ FrameSpan(s, n + 1) = {} /\ FrameSpan(t, n + 1) = Span(f.line)
<1>1. Len(t) = n + 1 /\ (\A i \in 1..n : t[i] = s[i]) /\ t[n + 1] = f
  BY DEF IsPushed
<1>2. \A i \in Nat \ {n + 1} : FrameSpan(t, i) = FrameSpan(s, i)
  BY <1>1 DEF FrameSpan
<1>3. FrameSpan(s, n + 1) = {} /\ FrameSpan(t, n + 1) = Span(f.line)
  BY <1>1 DEF FrameSpan
<1> QED
  BY <1>2, <1>3

(* A frame whose bound cuts none of the lines that outer ones leave whole. *)
Fits(s, W, V, f) ==
  /\ V \subseteq WaitRec /\ Single(V) /\ Within(s, V)
  /\ \A v \in V : \E w \in W : w.at = v.at
  /\ Fixed(f.line, Top(s)) /\ Offset(f.line.at) <= f.bound
  /\ \A v \in V : \A i \in 1..Len(s) : Offset(v.at) <= s[i].bound => f.bound <= s[i].bound
  /\ \A v \in V : Offset(v.at) <= f.bound => Offset(v.at) + v.pos <= f.bound

(* A frame that fits the stack keeps it nested.                            *)
LEMMA PushedNests ==
  ASSUME Layout, NEW l, NEW s, NEW W, Nested(l, s, W), NEW V, NEW f \in FrameRec, Fits(s, W, V, f),
         NEW m \in LineRec \cup {None}, m # None => Fixed(m, f.bound), Behind(m, V)
  PROVE  Nested(m, Append(s, f), V)
<1>1. s \in Seq(FrameRec)
  BY DEF Nested, Typed
<1>2. PICK n \in Nat : n = Len(s)
  BY <1>1
<1>3. PICK t : t = Append(s, f)
  OBVIOUS
<1>4. /\ t \in Seq(FrameRec) /\ Len(t) = n + 1 /\ Top(t) = f.bound
      /\ \A i \in 1..n : t[i] = s[i]
      /\ t[n + 1] = f
  <2>1. IsPushed(t, s, n, f)
    BY <1>1, <1>2, <1>3, PushedIs
  <2> QED
    BY <2>1 DEF IsPushed
<1>7. \A i \in 0..n : BoundOf(t, i) = BoundOf(s, i)
  BY <1>4 DEF BoundOf
<1>5. Typed(m, t, V) /\ Single(V)
  BY <1>4 DEF Typed, Fits
<1>6. Suspended(t)
  BY <1>2, <1>4 DEF Nested, Suspended, Fits
<1>8. Inner(t, V)
  <2> SUFFICES ASSUME NEW i \in 1..n + 1, NEW j \in 1..n + 1, NEW v \in V, i < j,
                      Offset(v.at) <= t[i].bound
               PROVE  t[j].bound <= t[i].bound
    BY <1>4 DEF Inner
  <2>1. i \in 1..n
    OBVIOUS
  <2>2. CASE j = n + 1
    BY <1>2, <1>4, <2>1, <2>2 DEF Fits
  <2>3. CASE j # n + 1
    <3>1. j \in 1..n
      BY <2>3
    <3>2. PICK w \in W : w.at = v.at
      BY DEF Fits
    <3> QED
      BY <1>2, <1>4, <2>1, <3>1, <3>2 DEF Nested, Inner
  <2> QED
    BY <2>2, <2>3
<1>9. Within(t, V)
  <2> SUFFICES ASSUME NEW v \in V
               PROVE  /\ v.pos <= Full(v.at)
                      /\ \A i \in 1..n + 1 : Offset(v.at) <= t[i].bound => Offset(v.at) + v.pos <= t[i].bound
    BY <1>4 DEF Within
  <2> QED
    BY <1>2, <1>4 DEF Fits, Within
<1>10. Levels(m, t)
  <2>1. ASSUME NEW i \in 1..n + 1 PROVE Fixed(t[i].line, BoundOf(t, i - 1))
    <3>1. CASE i = n + 1
      <4>1. BoundOf(t, i - 1) = Top(s)
        BY <1>1, <1>2, <1>7, <3>1, TopIs
      <4> QED
        BY <1>4, <3>1, <4>1 DEF Fits
    <3>2. CASE i # n + 1
      <4>1. i \in 1..n /\ i - 1 \in 0..n
        BY <3>2
      <4> QED
        BY <1>2, <1>4, <1>7, <4>1 DEF Nested, Levels
    <3> QED
      BY <3>1, <3>2
  <2> QED
    BY <1>4, <2>1 DEF Levels
<1> QED
  BY <1>3, <1>5, <1>6, <1>8, <1>9, <1>10 DEF Nested

(* The body ends on the current line or on one that waits, at c's cursor.  *)
ClosesOn(l, W, c) == IF c.at = l.at THEN l.pos <= c.pos
                     ELSE \E w \in W : w.at = c.at /\ w.pos <= c.pos
Closes(l, s, W, c) ==
  c \in LineRec /\ Fixed(c, Top(s)) /\ HasByte(c) /\ ClosesOn(l, W, c)

(* The byte that closes a body lies on a line the body is delivered from.  *)
LEMMA CloseIs ==
  ASSUME Layout, NoneAssumption, NEW l \in LineRec, NEW s \in Seq(FrameRec), NEW W, Nested(l, s, W), NEW c, Closes(l, s, W, c)
  PROVE  /\ Here(c) \in Nat /\ Here(c) \in Body(c.at) /\ Here(c) < Top(s)
         /\ Offset(c.at) <= Here(c) /\ Here(c) < Extent(c.at)
         /\ l.at <= c.at
         /\ \A x : x \in Span(c) <=> x \in Body(c.at) /\ Here(c) <= x /\ x < Top(s)
<1>1. c \in LineRec /\ Fixed(c, Top(s)) /\ HasByte(c) /\ ClosesOn(l, W, c)
  BY DEF Closes
<1>2. PICK B \in Nat : B = Top(s)
  BY TopIs
<1>3. PICK b \in Nat, a \in 1..Len(Lines), k \in Nat : b = Here(c) /\ a = c.at /\ b = Offset(a) + k
  BY <1>1, PlaceOf
<1>4. b \in Span(c)
  BY <1>1, <1>3, ByteInSpan
<1>5. \A x : x \in Span(c) <=> x \in Body(a) /\ b <= x /\ x < B
  BY <1>1, <1>2, <1>3, SpanInBody
<1>6. PICK o \in Nat, e \in Nat : o = Offset(a) /\ e = Extent(a)
  BY LineAt
<1>7. o <= b /\ b < e
  BY <1>3, <1>4, <1>5, <1>6 DEF Body
<1>8. l.at <= c.at
  <2>1. l.at \in Nat /\ c.at \in Nat
    BY <1>1 DEF LineRec
  <2>2. CASE c.at = l.at
    BY <2>1, <2>2
  <2>3. CASE c.at # l.at
    <3>1. PICK w \in W : w.at = c.at
      BY <1>1, <2>3 DEF ClosesOn
    <3>2. l.at < w.at
      BY NoneIsNoLine DEF Nested, Behind
    <3> QED
      BY <2>1, <3>1, <3>2
  <2> QED
    BY <2>2, <2>3
<1> QED
  BY <1>2, <1>3, <1>4, <1>5, <1>6, <1>7, <1>8

(* A body's frame fits: its bound is the closing byte.                     *)
LEMMA CloseNests ==
  ASSUME Layout, NoneAssumption, NEW l \in LineRec, NEW s, NEW W, Nested(l, s, W),
         NEW c, Closes(l, s, W, c),
         NEW f \in FrameRec, f.line = Placed(c, c.pos + 1), f.bound = Here(c)
  PROVE  Nested(SetEof(l, Here(c)), Append(s, f), W)
<1>1. /\ s \in Seq(FrameRec) /\ W \subseteq WaitRec /\ Single(W) /\ Behind(l, W) /\ Inner(s, W)
      /\ Within(s, W)
  BY DEF Nested, Typed
<1>2. PICK b \in Nat, B \in Nat, a \in 1..Len(Lines) : b = Here(c) /\ B = Top(s) /\ a = c.at
  BY <1>1, CloseIs, TopIs DEF Closes, LineRec
<1>3. b < B /\ Offset(a) <= b /\ b < Extent(a) /\ l.at <= a
  BY <1>1, <1>2, CloseIs
<1>4. PICK m : m = SetEof(l, b)
  OBVIOUS
<1>5. m \in LineRec /\ Fixed(m, b) /\ m.at = l.at
  BY <1>4, SetEofIs, SetEofFixed
<1>6. Behind(m, W)
  BY <1>1, <1>5, NoneIsNoLine DEF Behind
<1>7. Fixed(f.line, Top(s)) /\ f.line.at = a
  <2>1. c \in LineRec /\ Fixed(c, B) /\ c.pos + 1 \in Nat
    BY <1>2 DEF Closes, LineRec
  <2>2. Fixed(Placed(c, c.pos + 1), B) /\ Placed(c, c.pos + 1).at = c.at
    BY <2>1, PlacedFixed, PlacedIs
  <2> QED
    BY <1>2, <2>2
<1>8. ASSUME NEW w \in W, NEW i \in 1..Len(s), Offset(w.at) <= s[i].bound PROVE b <= s[i].bound
  <2>1. B <= s[i].bound
    BY <1>1, <1>2, <1>8, TopIsLeast
  <2>2. s[i].bound \in Nat
    BY <1>1, TopIs
  <2> QED
    BY <1>3, <2>1, <2>2
<1>9. ASSUME NEW w \in W, Offset(w.at) <= b PROVE Offset(w.at) + w.pos <= b
  <2>1. PICK d \in 1..Len(Lines), k \in Nat : d = w.at /\ k = w.pos
    BY <1>1 DEF WaitRec
  <2>2. PICK o \in Nat, e \in Nat : o = Offset(d) /\ e = Extent(d)
    BY <2>1, LineAt
  <2>3. CASE d < a
    <3>1. e < Offset(a) /\ Offset(a) \in Nat
      BY <2>2, <2>3, LineOrder, LineAt
    <3>2. k <= Full(d) /\ Full(d) \in Nat
      BY <1>1, <2>1 DEF Within, Layout
    <3>3. e = o + Full(d) + (IF HasNewline(d) THEN 1 ELSE 0)
      BY <2>2 DEF Extent
    <3>4. o + k <= e
      BY <3>2, <3>3
    <3> QED
      BY <1>3, <2>1, <2>2, <3>1, <3>4
  <2>4. CASE d > a
    <3>1. Extent(a) < o /\ Extent(a) \in Nat
      BY <2>2, <2>4, LineOrder, LineAt
    <3> QED
      BY <1>3, <1>9, <2>1, <2>2, <3>1
  <2>5. CASE d = a
    <3>1. c.at # l.at
      <4>1. l.at < w.at
        BY <1>1, NoneIsNoLine DEF Behind
      <4>2. l.at \in Nat
        BY DEF LineRec
      <4> QED
        BY <1>2, <2>1, <2>5, <4>1, <4>2
    <3>2. PICK v \in W : v.at = c.at /\ v.pos <= c.pos
      BY <3>1 DEF Closes, ClosesOn
    <3>3. v = w
      BY <1>1, <1>2, <2>1, <2>5, <3>2 DEF Single
    <3>4. b = Offset(a) + c.pos /\ c.pos \in Nat
      BY <1>2, PlaceOf DEF Closes
    <3> QED
      BY <2>1, <2>2, <2>5, <3>2, <3>3, <3>4
  <2> QED
    BY <2>3, <2>4, <2>5
<1>10. Fits(s, W, W, f)
  BY <1>1, <1>2, <1>3, <1>7, <1>8, <1>9 DEF Fits
<1>11. Nested(m, Append(s, f), W)
  BY <1>2, <1>5, <1>6, <1>10, PushedNests
<1> QED
  BY <1>2, <1>4, <1>11

(* A pushed frame cuts the lines before its bound, besides those cut       *)
(* before.                                                                 *)
LEMMA UnderPushed ==
  ASSUME NEW t, NEW s, NEW n \in Nat, n = Len(s), NEW f, IsPushed(t, s, n, f), NEW a, NEW x
  PROVE  Under(t, a, x) <=> Under(s, a, x) /\ (Offset(a) <= f.bound => x < f.bound)
<1>1. Len(t) = n + 1 /\ (\A i \in 1..n : t[i] = s[i]) /\ t[n + 1] = f
  BY DEF IsPushed
<1>2. \A i \in 1..n + 1 : i \in 1..n \/ i = n + 1
  OBVIOUS
<1>3. n + 1 \in 1..n + 1 /\ \A i \in 1..n : i \in 1..n + 1
  OBVIOUS
<1> QED
  BY <1>1, <1>2, <1>3 DEF Under

(* The closing byte is gone; what follows it is the frame's line.          *)
LEMMA CloseParts ==
  ASSUME Layout, NoneAssumption, NEW l \in LineRec, NEW s, NEW W, NEW r, NEW g, Lies(l, s, W, r, g),
         NEW c, Closes(l, s, W, c),
         NEW f \in FrameRec, f.line = Placed(c, c.pos + 1), f.bound = Here(c)
  PROVE  Partition(Hold(SetEof(l, Here(c)), Append(s, f), W, r, g \cup {Here(c)}))
<1>1. /\ Nested(l, s, W) /\ Partition(Hold(l, s, W, r, g)) /\ l # None
      /\ s \in Seq(FrameRec) /\ W \subseteq WaitRec /\ Single(W) /\ Behind(l, W) /\ Fixed(l, Top(s))
  BY NoneIsNoLine DEF Lies, Nested, Typed, Levels
<1>2. PICK b \in Nat, B \in Nat, a \in 1..Len(Lines) : b = Here(c) /\ B = Top(s) /\ a = c.at
  BY <1>1, CloseIs, TopIs DEF Closes, LineRec
<1>3. /\ b < B /\ b \in Body(a) /\ Offset(a) <= b /\ b < Extent(a) /\ l.at <= a
      /\ \A x : x \in Span(c) <=> x \in Body(a) /\ b <= x /\ x < B
  BY <1>1, <1>2, CloseIs
<1>4. c \in LineRec /\ Fixed(c, B) /\ ClosesOn(l, W, c)
  BY <1>2 DEF Closes
<1>5. PICK m : m = SetEof(l, b)
  OBVIOUS
<1>6. m \in LineRec /\ Fixed(m, b) /\ m.at = l.at /\ m.pos = l.pos /\ m # None
  BY <1>5, SetEofIs, SetEofFixed, NoneIsNoLine
<1>7. PICK n \in Nat : n = Len(s)
  BY <1>1
<1>8. PICK t : t = Append(s, f)
  OBVIOUS
<1>9. IsPushed(t, s, n, f)
  BY <1>1, <1>7, <1>8, PushedIs
<1>10. PICK A : A = {b}
  OBVIOUS
<1>11. PICK P : P = Span(f.line)
  OBVIOUS
<1>12. \A y \in Nat : Body(y) \subseteq Int
  BY DEF Body, Layout
<1>13. \A x : x \in P <=> x \in Body(a) /\ b + 1 <= x /\ x < B
  <2>1. PICK q : q = Placed(c, c.pos + 1)
    OBVIOUS
  <2>2. PICK k \in Nat : k = c.pos /\ b = Offset(a) + k /\ Offset(a) \in Nat
    BY <1>2, <1>4, PlaceOf
  <2>3. k + 1 \in Nat
    OBVIOUS
  <2>4. q \in LineRec /\ q.at = a /\ q.pos = k + 1 /\ Fixed(q, B)
    BY <1>2, <1>4, <2>1, <2>2, <2>3, PlacedIs, PlacedFixed
  <2>5. Here(q) = b + 1
    BY <2>2, <2>4 DEF Here
  <2> QED
    BY <1>11, <2>1, <2>4, <2>5, SpanInBody
<1>14. Body(a) \subseteq Int /\ Span(c) = A \cup P /\ A \cap P = {}
  <2>1. Body(a) \subseteq Int
    BY <1>12
  <2> QED
    BY <1>3, <1>10, <1>13, <2>1
<1>15. PICK h \in Nat, d \in 1..Len(Lines) : h = Here(l) /\ d = l.at
  BY PlaceOf
<1>16. /\ \A x : x \in LineSpan(l) <=> x \in Body(d) /\ h <= x /\ x < B
       /\ \A x : x \in LineSpan(m) <=> x \in Body(d) /\ h <= x /\ x < b
  <2>1. Here(m) = h
    BY <1>6, <1>15 DEF Here
  <2> QED
    BY <1>1, <1>2, <1>6, <1>15, <2>1, SpanInBody DEF LineSpan
<1>17. ASSUME NEW i \in Nat, i # a PROVE WaitSpan(t, W, i) = WaitSpan(s, W, i)
  <2>1. ASSUME NEW w \in W, w.at = i, NEW x \in Body(i) PROVE Offset(i) <= b => x < b
    <3>1. i \in 1..Len(Lines)
      BY <1>1, <2>1 DEF WaitRec
    <3>2. PICK e \in Nat, o \in Nat : e = Extent(i) /\ o = Offset(i)
      BY <3>1, LineAt
    <3>3. x \in o .. e - 1
      BY <2>1, <3>2 DEF Body
    <3>4. CASE i < a
      <4>1. x < b
        BY <1>3, <2>1, <3>1, <3>4, BodiesApart
      <4> QED
        BY <4>1
    <3>5. CASE i > a
      <4>1. Extent(a) < o /\ Extent(a) \in Nat
        BY <3>1, <3>2, <3>5, LineOrder, LineAt
      <4> QED
        BY <1>3, <3>2, <4>1
    <3> QED
      BY <1>17, <3>4, <3>5
  <2>2. \A x : Under(t, i, x) <=> Under(s, i, x) /\ (Offset(i) <= b => x < b)
    BY <1>2, <1>7, <1>9, UnderPushed
  <2> QED
    BY <2>1, <2>2 DEF WaitSpan, Body
<1>18. \A x : x \in WaitSpan(t, W, a) <=> x \in WaitSpan(s, W, a) /\ x < b
  <2>1. \A x : Under(t, a, x) <=> Under(s, a, x) /\ (Offset(a) <= b => x < b)
    BY <1>2, <1>7, <1>9, UnderPushed
  <2> QED
    BY <1>3, <2>1 DEF WaitSpan
<1>19. /\ \A i \in Nat \ {n + 1} : FrameSpan(t, i) = FrameSpan(s, i)
       /\ FrameSpan(t, n + 1) = FrameSpan(s, n + 1) \cup P
  BY <1>7, <1>9, <1>11, PushedSpans
<1>20. PICK k \in Nat : k = n + 1
  OBVIOUS
<1>21. CASE c.at = l.at
  <2>1. h <= b
    <3>1. l.pos <= c.pos /\ l.pos \in Nat /\ c.pos \in Nat /\ Offset(a) \in Nat
      BY <1>4, <1>21, LineAt DEF ClosesOn, LineRec
    <3> QED
      BY <1>2, <1>15, <1>21, <3>1 DEF Here
  <2>2. \A x : x \in LineSpan(m) <=> x \in LineSpan(l) /\ x \notin A \cup P
    BY <1>2, <1>3, <1>14, <1>15, <1>16, <1>21
  <2>3. \A x \in A \cup P : x \in LineSpan(l) \ LineSpan(m)
    BY <1>2, <1>3, <1>14, <1>15, <1>16, <1>21, <2>1
  <2>4. WaitSpan(s, W, a) = {}
    <3>1. \A w \in W : w.at # a
      <4>1. \A w \in W : l.at < w.at
        BY <1>1 DEF Behind
      <4> QED
        BY <1>2, <1>21, <4>1
    <3> QED
      BY <3>1 DEF WaitSpan
  <2>5. \A i \in Nat : WaitSpan(t, W, i) = WaitSpan(s, W, i)
    BY <1>17, <1>18, <2>4
  <2>6. Splits(A, P, k, l, s, W, g, m, t, W, g \cup A)
    BY <1>14, <1>19, <1>20, <2>2, <2>3, <2>5 DEF Splits, Less
  <2>7. Partition(Hold(m, t, W, r, g \cup A))
    BY <1>1, <2>6, SplitHold
  <2> QED
    BY <1>2, <1>5, <1>8, <1>10, <2>7
<1>22. CASE c.at # l.at
  <2>1. PICK w \in W : w.at = a /\ w.pos <= c.pos
    BY <1>2, <1>4, <1>22 DEF ClosesOn
  <2>2. d < a
    BY <1>2, <1>3, <1>15, <1>22
  <2>3. \A x \in Body(d) : x < b /\ x < B
    <3>1. Body(d) \subseteq Int
      BY <1>12
    <3>2. \A x \in Body(d) : x < b
      BY <1>3, <2>2, BodiesApart
    <3> QED
      BY <1>3, <3>1, <3>2
  <2>4. LineSpan(m) = LineSpan(l)
    BY <1>16, <2>3
  <2>5. PICK q : q = Placed(c, w.pos)
    OBVIOUS
  <2>6. PICK j \in Nat : j = w.pos
    BY <1>1 DEF WaitRec
  <2>7. q \in LineRec /\ q.at = a /\ q.pos = j /\ Fixed(q, B)
    BY <1>2, <1>4, <2>5, <2>6, PlacedIs, PlacedFixed
  <2>8. Offset(a) <= B /\ Offset(a) \in Nat
    <3>1. Offset(a) \in Nat
      BY LineAt
    <3> QED
      BY <1>3, <3>1
  <2>9. WaitSpan(s, W, a) = Span(q)
    BY <1>1, <1>2, <2>1, <2>6, <2>7, <2>8, WaitIsSpan
  <2>10. \A x : x \in WaitSpan(s, W, a) <=> x \in Body(a) /\ Offset(a) + j <= x /\ x < B
    BY <2>7, <2>9, SpanInBody DEF Here
  <2>11. Offset(a) + j <= b
    <3>1. b = Offset(a) + c.pos /\ c.pos \in Nat
      BY <1>2, <1>4, PlaceOf
    <3> QED
      BY <2>1, <2>6, <2>8, <3>1
  <2>12. \A x : x \in WaitSpan(t, W, a) <=> x \in WaitSpan(s, W, a) /\ x \notin A \cup P
    BY <1>3, <1>14, <1>18, <2>10
  <2>13. \A x \in A \cup P : x \in WaitSpan(s, W, a) \ WaitSpan(t, W, a)
    BY <1>3, <1>14, <2>8, <2>10, <2>11, <2>12
  <2>14. WaitSpan(t, W, a) = WaitSpan(s, W, a) \ (A \cup P)
    BY <2>12
  <2>15. \A i \in Nat : Less(WaitSpan(s, W, i), WaitSpan(t, W, i), A \cup P)
    BY <1>17, <2>14 DEF Less
  <2>16. Splits(A, P, k, l, s, W, g, m, t, W, g \cup A)
    BY <1>14, <1>19, <1>20, <2>4, <2>13, <2>15 DEF Splits, Less
  <2>17. Partition(Hold(m, t, W, r, g \cup A))
    BY <1>1, <2>16, SplitHold
  <2> QED
    BY <1>2, <1>5, <1>8, <1>10, <2>17
<1> QED
  BY <1>21, <1>22

(* So closing a body keeps every byte in one place.                        *)
LEMMA CloseLies ==
  ASSUME Layout, NoneAssumption, NEW l \in LineRec, NEW s, NEW W, NEW r, NEW g, Lies(l, s, W, r, g),
         NEW c, Closes(l, s, W, c),
         NEW f \in FrameRec, f.line = Placed(c, c.pos + 1), f.bound = Here(c)
  PROVE  Lies(SetEof(l, Here(c)), Append(s, f), W, r, g \cup {Here(c)})
BY CloseNests, CloseParts DEF Lies

-----------------------------------------------------------------------------
(* A heredoc's body is found: V is W without the terminator's line z, the  *)
(* cursors of the body's lines moved past their indents.                   *)

Trims(s, W, z, V) ==
  /\ z \in W /\ V \subseteq WaitRec /\ Single(V) /\ Within(s, V)
  /\ \A v \in V : v.at # z.at /\ \E w \in W : w.at = v.at /\ w.pos <= v.pos
  /\ \A w \in W : w.at # z.at => \E v \in V : v.at = w.at
  /\ \A w \in W : \A i \in 1..Len(s) : Offset(w.at) <= s[i].bound => Offset(z.at) <= s[i].bound
Trimmed(s, W, V) == UNION {WaitSpan(s, W, i) \ WaitSpan(s, V, i) : i \in Nat}

(* A heredoc's frame fits: its bound is the terminator's line.             *)
LEMMA HeredocNests ==
  ASSUME Layout, NoneAssumption, NEW l \in LineRec, NEW s, NEW W, Nested(l, s, W),
         NEW z, NEW V, Trims(s, W, z, V),
         NEW f \in FrameRec, f.line = l, f.bound = Offset(z.at)
  PROVE  Nested(None, Append(s, f), V)
<1>1. W \subseteq WaitRec /\ Behind(l, W) /\ Fixed(l, Top(s)) /\ z \in W /\ V \subseteq WaitRec
  BY NoneIsNoLine DEF Nested, Typed, Levels, Trims
<1>2. PICK a \in 1..Len(Lines), d \in 1..Len(Lines) : a = z.at /\ d = l.at
  BY <1>1 DEF WaitRec, LineRec
<1>3. d < a
  BY <1>1, <1>2, NoneIsNoLine DEF Behind
<1>4. Offset(l.at) <= f.bound
  <2>1. Offset(d) < Offset(a) /\ Offset(d) \in Nat /\ Offset(a) \in Nat
    BY <1>3, LineOrder, LineAt
  <2> QED
    BY <1>2, <2>1
<1>5. ASSUME NEW v \in V, Offset(v.at) <= Offset(a) PROVE Offset(v.at) + v.pos <= Offset(a)
  <2>1. PICK i \in 1..Len(Lines), k \in Nat : i = v.at /\ k = v.pos
    BY <1>1 DEF WaitRec
  <2>2. PICK o \in Nat, e \in Nat, q \in Nat : o = Offset(i) /\ e = Extent(i) /\ q = Offset(a)
    BY LineAt
  <2>3. k <= Full(i) /\ Full(i) \in Nat
    BY <2>1 DEF Trims, Within, Layout
  <2>4. e = o + Full(i) + (IF HasNewline(i) THEN 1 ELSE 0)
    BY <2>2 DEF Extent
  <2>5. o + k <= e
    BY <2>3, <2>4
  <2>6. i # a
    BY <1>2, <2>1 DEF Trims
  <2>7. a < i => q < o
    BY <2>2, LineOrder
  <2>8. i < a => e < q
    BY <2>2, LineOrder
  <2> QED
    BY <1>5, <2>1, <2>2, <2>5, <2>6, <2>7, <2>8
<1>6. \A v \in V : \A i \in 1..Len(s) : Offset(v.at) <= s[i].bound => f.bound <= s[i].bound
  BY DEF Trims
<1>7. Fits(s, W, V, f)
  BY <1>1, <1>2, <1>4, <1>5, <1>6 DEF Fits, Trims
<1>8. Behind(None, V)
  BY DEF Behind
<1>9. None \in LineRec \cup {None}
  OBVIOUS
<1> QED
  BY <1>7, <1>8, <1>9, PushedNests

(* The terminator's line and the indents are gone, no other byte moves.    *)
LEMMA HeredocParts ==
  ASSUME Layout, NoneAssumption, NEW l \in LineRec, NEW s, NEW W, NEW r, NEW g, Lies(l, s, W, r, g),
         NEW z, NEW V, Trims(s, W, z, V),
         NEW f \in FrameRec, f.line = l, f.bound = Offset(z.at)
  PROVE  Partition(Hold(None, Append(s, f), V, r, g \cup Trimmed(s, W, V)))
<1>1. /\ Nested(l, s, W) /\ Partition(Hold(l, s, W, r, g)) /\ l # None
      /\ s \in Seq(FrameRec) /\ W \subseteq WaitRec /\ Single(W) /\ Behind(l, W) /\ Fixed(l, Top(s))
      /\ z \in W /\ V \subseteq WaitRec /\ Single(V)
  BY NoneIsNoLine DEF Lies, Nested, Typed, Levels, Trims
<1>2. PICK a \in 1..Len(Lines), d \in 1..Len(Lines) : a = z.at /\ d = l.at
  BY <1>1 DEF WaitRec, LineRec
<1>3. PICK n \in Nat : n = Len(s)
  BY <1>1
<1>4. PICK t : t = Append(s, f)
  OBVIOUS
<1>5. IsPushed(t, s, n, f)
  BY <1>1, <1>3, <1>4, PushedIs
<1>6. PICK A : A = Trimmed(s, W, V)
  OBVIOUS
<1>7. PICK P : P = Span(l)
  OBVIOUS
<1>8. PICK k \in Nat : k = n + 1
  OBVIOUS
<1>9. /\ \A i \in Nat \ {k} : FrameSpan(t, i) = FrameSpan(s, i)
      /\ FrameSpan(t, k) = FrameSpan(s, k) \cup P
  BY <1>3, <1>5, <1>7, <1>8, PushedSpans
<1>10. P \subseteq Body(d)
  BY <1>1, <1>2, <1>7, SpanInBody, TopIs
<1>11. \A i \in Nat : \A x : x \in WaitSpan(s, V, i) => x \in WaitSpan(s, W, i)
  <2> SUFFICES ASSUME NEW i \in Nat, NEW x \in WaitSpan(s, V, i) PROVE x \in WaitSpan(s, W, i)
    OBVIOUS
  <2>1. PICK v \in V : v.at = i /\ Offset(i) + v.pos <= x
    BY DEF WaitSpan
  <2>2. PICK w \in W : w.at = i /\ w.pos <= v.pos
    BY <2>1 DEF Trims
  <2>3. w.pos \in Nat /\ v.pos \in Nat /\ i \in 1..Len(Lines)
    BY <1>1, <2>1 DEF WaitRec
  <2>4. Offset(i) \in Nat /\ Extent(i) \in Nat
    BY <2>3, LineAt
  <2>5. x \in Offset(i)..Extent(i) - 1 /\ Under(s, i, x)
    BY DEF WaitSpan
  <2>6. Offset(i) + w.pos <= x
    BY <2>1, <2>2, <2>3, <2>4, <2>5
  <2> QED
    BY <2>2, <2>5, <2>6 DEF WaitSpan
<1>12. \A i \in Nat : WaitSpan(t, V, i) = WaitSpan(s, V, i)
  <2> SUFFICES ASSUME NEW i \in Nat PROVE WaitSpan(t, V, i) = WaitSpan(s, V, i)
    OBVIOUS
  <2>1. ASSUME NEW v \in V, v.at = i, NEW x \in Body(i) PROVE Offset(i) <= Offset(a) => x < Offset(a)
    <3>1. i \in 1..Len(Lines) /\ i # a
      BY <1>1, <1>2, <2>1 DEF WaitRec, Trims
    <3>2. PICK e \in Nat, o \in Nat, q \in Nat : e = Extent(i) /\ o = Offset(i) /\ q = Offset(a)
      BY <3>1, LineAt
    <3>3. x \in o .. e - 1
      BY <2>1, <3>2 DEF Body
    <3>4. (i < a => e < q) /\ (a < i => q < o)
      BY <3>1, <3>2, LineOrder
    <3> QED
      BY <3>1, <3>2, <3>3, <3>4
  <2>2. \A x : Under(t, i, x) <=> Under(s, i, x) /\ (Offset(i) <= Offset(a) => x < Offset(a))
    BY <1>2, <1>3, <1>5, UnderPushed
  <2> QED
    BY <2>1, <2>2 DEF WaitSpan, Body
<1>13. \A i \in Nat : \A x \in WaitSpan(s, W, i) : i \in 1..Len(Lines) /\ d < i /\ x \in Body(i)
  <2> SUFFICES ASSUME NEW i \in Nat, NEW x \in WaitSpan(s, W, i)
               PROVE  i \in 1..Len(Lines) /\ d < i /\ x \in Body(i)
    OBVIOUS
  <2>1. PICK w \in W : w.at = i
    BY DEF WaitSpan
  <2>2. x \in Body(i)
    BY DEF WaitSpan, Body
  <2> QED
    BY <1>1, <1>2, <2>1, <2>2 DEF WaitRec, Behind
<1>14. \A c, e \in 1..Len(Lines) : \A x : x \in Body(c) /\ x \in Body(e) => c = e
  <2> SUFFICES ASSUME NEW c \in 1..Len(Lines), NEW e \in 1..Len(Lines), NEW x, x \in Body(c), x \in Body(e)
               PROVE  c = e
    OBVIOUS
  <2>1. x \in Int
    BY LineAt DEF Body
  <2>2. c < e => x < x
    BY BodiesApart
  <2>3. e < c => x < x
    BY BodiesApart
  <2> QED
    BY <2>1, <2>2, <2>3
<1>15. \A i \in Nat : \A x \in WaitSpan(s, W, i) :
         /\ x \notin P
         /\ x \in A <=> x \notin WaitSpan(s, V, i)
  <2> SUFFICES ASSUME NEW i \in Nat, NEW x \in WaitSpan(s, W, i)
               PROVE  x \notin P /\ (x \in A <=> x \notin WaitSpan(s, V, i))
    OBVIOUS
  <2>1. i \in 1..Len(Lines) /\ d < i /\ x \in Body(i)
    BY <1>13
  <2>2. x \notin P
    BY <1>10, <1>14, <2>1
  <2>3. ASSUME x \in A PROVE x \notin WaitSpan(s, V, i)
    <3>1. PICK j \in Nat : x \in WaitSpan(s, W, j) /\ x \notin WaitSpan(s, V, j)
      BY <1>6, <2>3 DEF Trimmed
    <3>2. j = i
      BY <1>13, <1>14, <2>1, <3>1
    <3> QED
      BY <3>1, <3>2
  <2>4. ASSUME x \notin WaitSpan(s, V, i) PROVE x \in A
    BY <1>6, <2>4 DEF Trimmed
  <2> QED
    BY <2>2, <2>3, <2>4
<1>16. \A i \in Nat : WaitSpan(s, V, i) = WaitSpan(s, W, i) \ (A \cup P)
  BY <1>11, <1>15
<1>17. A \cap P = {} /\ \A x \in A : \E i \in Nat : x \in WaitSpan(s, W, i) \ WaitSpan(t, V, i)
  <2>1. ASSUME NEW x \in A PROVE x \notin P /\ \E i \in Nat : x \in WaitSpan(s, W, i) \ WaitSpan(t, V, i)
    <3>1. PICK i \in Nat : x \in WaitSpan(s, W, i) /\ x \notin WaitSpan(s, V, i)
      BY <1>6 DEF Trimmed
    <3> QED
      BY <1>12, <1>15, <3>1
  <2> QED
    BY <2>1
<1>18. LineSpan(None) = {} /\ LineSpan(l) = P
  BY <1>1, <1>7 DEF LineSpan
<1>19. /\ Less(LineSpan(l), LineSpan(None), A \cup P)
       /\ \A i \in Nat : Less(WaitSpan(s, W, i), WaitSpan(t, V, i), A \cup P)
  BY <1>12, <1>16, <1>18 DEF Less
<1>20. Splits(A, P, k, l, s, W, g, None, t, V, g \cup A)
  BY <1>9, <1>17, <1>18, <1>19 DEF Splits
<1>21. Partition(Hold(None, t, V, r, g \cup A))
  BY <1>1, <1>20, SplitHold
<1> QED
  BY <1>4, <1>6, <1>21

(* So closing a heredoc keeps every byte in one place.                     *)
LEMMA HeredocLies ==
  ASSUME Layout, NoneAssumption, NEW l \in LineRec, NEW s, NEW W, NEW r, NEW g, Lies(l, s, W, r, g),
         NEW z, NEW V, Trims(s, W, z, V),
         NEW f \in FrameRec, f.line = l, f.bound = Offset(z.at)
  PROVE  Lies(None, Append(s, f), V, r, g \cup Trimmed(s, W, V))
BY HeredocNests, HeredocParts DEF Lies

-----------------------------------------------------------------------------
(* What waits: the queue q, then the lines from c on.                      *)

Entry(l) == [at |-> l.at, pos |-> l.pos]
Waits(q, c) == {Entry(q[i]) : i \in 1..Len(q)} \cup {[at |-> a, pos |-> 0] : a \in c..Len(Lines)}

Rising(q) == \A i, j \in 1..Len(q) : i < j => q[i].at < q[j].at

(* The queue is in order and replays each line from its indent; no frame's *)
(* bound reaches a line not yet delivered; and a queued line that no frame *)
(* cuts is whole.                                                          *)
Whole(q, s) == \A i \in 1..Len(q) :
                 (\A j \in 1..Len(s) : s[j].bound < Offset(q[i].at)) => Fixed(q[i], NoBound)
Queued(q, c, s) ==
  /\ Rising(q) /\ Whole(q, s)
  /\ \A i \in 1..Len(q) : q[i].at < c /\ q[i].pos = q[i].indent
  /\ \A i \in 1..Len(s) : s[i].bound < Offset(c)

Settled(p, r, g) ==
  /\ p \in Lexer /\ Queued(p.queue, p.cursor, p.stack)
  /\ Lies(p.line, p.stack, Waits(p.queue, p.cursor), r, g)

(* A queued line waits at its cursor.                                      *)
LEMMA EntryIs ==
  ASSUME NEW l \in LineRec
  PROVE  Entry(l) \in WaitRec /\ Entry(l).at = l.at /\ Entry(l).pos = l.pos
BY DEF Entry, LineRec, WaitRec

(* What waits is the queue's lines and those not yet taken from the        *)
(* source.                                                                 *)
LEMMA WaitsIs ==
  ASSUME Layout, NEW q \in Seq(LineRec), NEW c \in 1..Len(Lines) + 1
  PROVE  /\ Waits(q, c) \subseteq WaitRec
         /\ \A i \in 1..Len(q) : Entry(q[i]) \in Waits(q, c)
         /\ \A a \in c..Len(Lines) : [at |-> a, pos |-> 0] \in Waits(q, c)
         /\ \A w \in Waits(q, c) : \/ \E i \in 1..Len(q) : w = Entry(q[i])
                                   \/ w.at \in c..Len(Lines) /\ w = [at |-> w.at, pos |-> 0]
<1>1. \A i \in 1..Len(q) : Entry(q[i]) \in WaitRec
  BY EntryIs
<1>2. \A a \in c..Len(Lines) : [at |-> a, pos |-> 0] \in WaitRec
  <2>1. \A a \in c..Len(Lines) : a \in 1..Len(Lines)
    BY DEF Layout
  <2> QED
    BY <2>1 DEF WaitRec
<1>3. \A a : [at |-> a, pos |-> 0].at = a
  OBVIOUS
<1>4. \A w \in Waits(q, c) : \/ \E i \in 1..Len(q) : w = Entry(q[i])
                            \/ \E a \in c..Len(Lines) : w = [at |-> a, pos |-> 0]
  BY DEF Waits
<1>5. ASSUME NEW w, NEW a \in c..Len(Lines), w = [at |-> a, pos |-> 0]
      PROVE  w.at \in c..Len(Lines) /\ w = [at |-> w.at, pos |-> 0]
  BY <1>3, <1>5
<1>6. Waits(q, c) \subseteq WaitRec
  BY <1>1, <1>2, <1>4
<1>7. \A i \in 1..Len(q) : Entry(q[i]) \in Waits(q, c)
  BY DEF Waits
<1>8. \A a \in c..Len(Lines) : [at |-> a, pos |-> 0] \in Waits(q, c)
  BY DEF Waits
<1> QED
  BY <1>4, <1>5, <1>6, <1>7, <1>8

(* The fields of a lexer.                                                  *)
LEMMA LexerIs ==
  ASSUME NEW p \in Lexer
  PROVE  /\ p.line \in LineRec \cup {None} /\ p.queue \in Seq(LineRec)
         /\ p.cursor \in 1..Len(Lines) + 1 /\ p.count \in Nat /\ p.stack \in Seq(FrameRec)
         /\ p.captured \in Seq(LineRec) /\ p.ahead \in BOOLEAN
BY DEF Lexer

(* Another line, or another place on it.                                   *)
LEMMA RelinedIs ==
  ASSUME NEW p \in Lexer, NEW m \in LineRec \cup {None}, NEW q, q = [p EXCEPT !.line = m]
  PROVE  /\ q \in Lexer /\ q.line = m /\ q.queue = p.queue /\ q.cursor = p.cursor
         /\ q.stack = p.stack /\ q.captured = p.captured /\ q.ahead = p.ahead /\ q.count = p.count
BY DEF Lexer

(* Moving the cursor changes the current line only.                        *)
LEMMA SteppedIs ==
  ASSUME NEW p \in Lexer, p.line \in LineRec, NEW n \in Nat, NEW q,
         q = [p EXCEPT !.line.pos = @ + n]
  PROVE  /\ q = [p EXCEPT !.line = Placed(p.line, p.line.pos + n)]
         /\ Placed(p.line, p.line.pos + n) \in LineRec
         /\ q \in Lexer /\ q.line = Placed(p.line, p.line.pos + n)
         /\ q.queue = p.queue /\ q.cursor = p.cursor
         /\ q.stack = p.stack /\ q.captured = p.captured /\ q.ahead = p.ahead /\ q.count = p.count
<1>1. p.line.pos + n \in Nat
  BY DEF LineRec
<1>2. PICK m \in LineRec : m = Placed(p.line, p.line.pos + n)
  BY <1>1, PlacedIs
<1>3. q = [p EXCEPT !.line = m]
  BY <1>2 DEF Placed, Lexer
<1>4. m \in LineRec \cup {None}
  BY <1>2
<1>5. /\ q \in Lexer /\ q.line = m /\ q.queue = p.queue /\ q.cursor = p.cursor
      /\ q.stack = p.stack /\ q.captured = p.captured /\ q.ahead = p.ahead /\ q.count = p.count
  BY <1>3, <1>4 DEF Lexer
<1> QED
  BY <1>2, <1>3, <1>5

(* The head of the queue is the first line that waits, and so is the       *)
(* cursor's when nothing is queued.                                        *)
First(w, W, V) == w \in W /\ (\A v \in W \ {w} : w.at < v.at) /\ V = W \ {w}

Splitted(q, h, u) == q # <<>> /\ h = Head(q) /\ u = Tail(q)
Ready(h, c, s) == /\ h.at < c /\ h.pos = h.indent
                  /\ (\A j \in 1..Len(s) : s[j].bound < Offset(h.at)) => Fixed(h, NoBound)

(* The queue's first line is the first that waits.                         *)
LEMMA QueueFirst ==
  ASSUME Layout, NEW q \in Seq(LineRec), NEW c \in 1..Len(Lines) + 1, NEW s, Queued(q, c, s),
         NEW u, NEW h, Splitted(q, h, u)
  PROVE  First(Entry(h), Waits(q, c), Waits(u, c)) /\ Queued(u, c, s) /\ Ready(h, c, s)
<1>0. PICK n \in Nat : Len(q) = n + 1
  BY OneMore DEF Splitted
<1>1. /\ u \in Seq(LineRec) /\ Len(u) = n /\ \A i \in 1..n : u[i] = q[i + 1]
      /\ h = q[1] /\ h \in LineRec
  BY <1>0, TailOf DEF Splitted
<1>2. /\ \A i, j \in 1..n + 1 : i < j => q[i].at < q[j].at
      /\ \A i \in 1..n + 1 : q[i].at < c /\ q[i].pos = q[i].indent
      /\ \A i \in 1..n + 1 : (\A j \in 1..Len(s) : s[j].bound < Offset(q[i].at)) => Fixed(q[i], NoBound)
      /\ \A i \in 1..Len(s) : s[i].bound < Offset(c)
  BY <1>0 DEF Queued, Rising, Whole
<1>3. \A i \in 1..n : i + 1 \in 1..n + 1 /\ 1 < i + 1
  OBVIOUS
<1>4. 1 \in 1..n + 1
  OBVIOUS
<1>5. Queued(u, c, s)
  <2>1. Rising(u)
    <3> SUFFICES ASSUME NEW i \in 1..n, NEW j \in 1..n, i < j PROVE u[i].at < u[j].at
      BY <1>1 DEF Rising
    <3>1. i + 1 \in 1..n + 1 /\ j + 1 \in 1..n + 1 /\ i + 1 < j + 1
      OBVIOUS
    <3> QED
      BY <1>1, <1>2, <3>1
  <2>2. Whole(u, s)
    BY <1>1, <1>2, <1>3 DEF Whole
  <2>3. \A i \in 1..n : u[i].at < c /\ u[i].pos = u[i].indent
    BY <1>1, <1>2, <1>3
  <2> QED
    BY <1>1, <1>2, <2>1, <2>2, <2>3 DEF Queued
<1>6. Entry(h).at = h.at /\ h.at \in Nat /\ c \in Nat
  <2>1. Entry(h).at = h.at /\ h.at \in 1..Len(Lines)
    BY <1>1, EntryIs DEF LineRec
  <2>2. Len(Lines) \in Nat
    BY DEF Layout
  <2> QED
    BY <2>1, <2>2
<1>7. \A i \in 1..n : q[i + 1].at \in Nat /\ h.at < q[i + 1].at /\ Entry(q[i + 1]).at = q[i + 1].at
  <2> SUFFICES ASSUME NEW i \in 1..n
               PROVE  q[i + 1].at \in Nat /\ h.at < q[i + 1].at /\ Entry(q[i + 1]).at = q[i + 1].at
    OBVIOUS
  <2>1. q[i + 1] \in LineRec
    BY <1>3, <1>0
  <2>2. Entry(q[i + 1]).at = q[i + 1].at /\ q[i + 1].at \in 1..Len(Lines)
    BY <2>1, EntryIs DEF LineRec
  <2>3. h.at < q[i + 1].at
    BY <1>1, <1>2, <1>3, <1>4
  <2> QED
    BY <2>2, <2>3, LineAt
<1>8. h.at < c
  BY <1>1, <1>2, <1>4
<1>9. ASSUME NEW v \in Waits(q, c), v # Entry(h)
      PROVE  h.at < v.at /\ v \in Waits(u, c)
  <2>1. CASE \E i \in 1..n + 1 : v = Entry(q[i])
    <3>1. PICK i \in 1..n + 1 : v = Entry(q[i])
      BY <2>1
    <3>2. i # 1
      BY <1>1, <1>9, <3>1
    <3>3. PICK k \in 1..n : i = k + 1
      <4>1. i - 1 \in 1..n /\ i = (i - 1) + 1
        BY <3>2
      <4> QED
        BY <4>1
    <3>4. v = Entry(u[k])
      BY <1>1, <3>1, <3>3
    <3> QED
      BY <1>1, <1>7, <3>1, <3>3, <3>4, WaitsIs
  <2>2. CASE v.at \in c..Len(Lines) /\ v = [at |-> v.at, pos |-> 0]
    <3>1. v \in Waits(u, c)
      BY <1>1, <2>2, WaitsIs
    <3>2. v.at \in Nat /\ c <= v.at
      BY <1>6, <2>2
    <3> QED
      BY <1>6, <1>8, <3>1, <3>2
  <2> QED
    BY <1>9, <1>0, <2>1, <2>2, WaitsIs
<1>10. ASSUME NEW v \in Waits(u, c) PROVE v \in Waits(q, c) /\ v # Entry(h)
  <2>1. CASE \E i \in 1..n : v = Entry(u[i])
    <3>1. PICK i \in 1..n : v = Entry(u[i])
      BY <2>1
    <3>2. v = Entry(q[i + 1]) /\ i + 1 \in 1..n + 1
      BY <1>1, <1>3, <3>1
    <3>3. v \in Waits(q, c)
      BY <1>0, <3>2, WaitsIs
    <3>4. v.at # h.at
      BY <1>6, <1>7, <3>2
    <3> QED
      BY <1>6, <3>3, <3>4
  <2>2. CASE v.at \in c..Len(Lines) /\ v = [at |-> v.at, pos |-> 0]
    <3>1. v \in Waits(q, c)
      BY <2>2, WaitsIs
    <3>2. v.at # h.at
      BY <1>6, <1>8, <2>2
    <3> QED
      BY <1>6, <3>1, <3>2
  <2> QED
    BY <1>1, <2>1, <2>2, WaitsIs
<1>11. Entry(h) \in Waits(q, c)
  BY <1>1, <1>4, <1>0, WaitsIs
<1>12. First(Entry(h), Waits(q, c), Waits(u, c))
  <2>1. Waits(u, c) = Waits(q, c) \ {Entry(h)}
    BY <1>9, <1>10
  <2>2. \A v \in Waits(q, c) \ {Entry(h)} : Entry(h).at < v.at
    BY <1>6, <1>9
  <2> QED
    BY <1>11, <2>1, <2>2 DEF First
<1> QED
  BY <1>1, <1>2, <1>4, <1>5, <1>8, <1>12 DEF Ready

(* A line fresh from the source is whole and waits at its start.           *)
LEMMA FreshIs ==
  ASSUME Layout, NEW c \in 1..Len(Lines)
  PROVE  /\ Fresh(c) \in LineRec /\ Fresh(c).at = c /\ Fresh(c).pos = 0 /\ Fresh(c).indent = 0
         /\ Fixed(Fresh(c), NoBound) /\ Entry(Fresh(c)) = [at |-> c, pos |-> 0]
<1>1. Full(c) \in Nat /\ HasNewline(c) \in BOOLEAN
  BY DEF Layout
<1>2. /\ Fresh(c) \in LineRec /\ Fresh(c).at = c /\ Fresh(c).pos = 0 /\ Fresh(c).indent = 0
      /\ Fresh(c).len = Full(c) /\ Fresh(c).term = HasNewline(c)
  BY <1>1 DEF Fresh, LineRec
<1>3. NoBound \in Nat /\ Extent(c) \in Nat /\ Extent(c) < NoBound
  BY LineAt
<1>4. Fixed(Fresh(c), NoBound)
  <2>1. NoBound >= Extent(c)
    BY <1>3
  <2>2. Fresh(c).term = (NoBound >= Extent(c) /\ HasNewline(c))
    BY <1>1, <1>2, <2>1
  <2> QED
    BY <1>2, <1>3, <2>1, <2>2, FixedIs
<1>5. Entry(Fresh(c)) = [at |-> c, pos |-> 0]
  BY <1>2 DEF Entry
<1> QED
  BY <1>2, <1>4, <1>5

(* With an empty queue, the line at c is the first that waits.             *)
LEMMA SourceFirst ==
  ASSUME Layout, NEW c \in 1..Len(Lines), NEW s, Queued(<<>>, c, s), s \in Seq(FrameRec),
         NEW h, h = Fresh(c), NEW e, e = c + 1
  PROVE  /\ First(Entry(h), Waits(<<>>, c), Waits(<<>>, e)) /\ Queued(<<>>, e, s)
         /\ Ready(h, e, s)
<1>1. /\ h.at = c /\ h.pos = 0 /\ h.indent = 0 /\ Fixed(h, NoBound) /\ Entry(h) = [at |-> c, pos |-> 0]
  BY FreshIs
<1>2. PICK N \in Nat : N = Len(Lines)
  BY DEF Layout
<1>3. e \in 1..N + 1 /\ c \in 1..N + 1 /\ <<>> \in Seq(LineRec) /\ c < e /\ c \in Nat
  BY <1>2
<1>4. \A d \in 1..N + 1 : Waits(<<>>, d) = {[at |-> a, pos |-> 0] : a \in d..N}
  BY <1>2 DEF Waits
<1>5. c..N = {c} \cup e..N /\ \A a \in e..N : c < a
  BY <1>2
<1>6. \A a : [at |-> a, pos |-> 0].at = a
  OBVIOUS
<1>7. \A a, b : [at |-> a, pos |-> 0] = [at |-> b, pos |-> 0] => a = b
  BY <1>6
<1>8. First(Entry(h), Waits(<<>>, c), Waits(<<>>, e))
  <2>1. Waits(<<>>, c) = {[at |-> a, pos |-> 0] : a \in c..N} /\ Waits(<<>>, e) = {[at |-> a, pos |-> 0] : a \in e..N}
    BY <1>3, <1>4
  <2>2. [at |-> c, pos |-> 0] \in Waits(<<>>, c)
    BY <1>5, <2>1
  <2>3. ASSUME NEW v \in Waits(<<>>, c), v # [at |-> c, pos |-> 0] PROVE v \in Waits(<<>>, e) /\ c < v.at
    BY <1>5, <1>6, <2>1, <2>3
  <2>4. ASSUME NEW v \in Waits(<<>>, e) PROVE v \in Waits(<<>>, c) /\ v # [at |-> c, pos |-> 0]
    <3>1. PICK a \in e..N : v = [at |-> a, pos |-> 0]
      BY <2>1
    <3>2. c < a /\ a \in c..N
      BY <1>5
    <3>3. v.at = a
      BY <1>6, <3>1
    <3>4. v.at # [at |-> c, pos |-> 0].at
      BY <1>3, <1>6, <3>2, <3>3
    <3> QED
      BY <2>1, <3>1, <3>2, <3>4
  <2>5. Waits(<<>>, e) = Waits(<<>>, c) \ {[at |-> c, pos |-> 0]}
    BY <2>3, <2>4
  <2> QED
    BY <1>1, <1>6, <2>2, <2>3, <2>5 DEF First
<1>9. Queued(<<>>, e, s)
  <2>1. \A i \in 1..Len(s) : s[i].bound < Offset(c) /\ s[i].bound \in Nat
    <3>1. PICK n \in Nat : n = Len(s)
      OBVIOUS
    <3> QED
      BY <3>1, TopIs DEF Queued
  <2>2. Offset(c) \in Nat /\ Offset(e) \in Nat /\ Offset(c) <= Offset(e)
    <3>1. c \in Nat /\ e \in Nat /\ c <= e
      BY <1>3
    <3> QED
      BY <3>1 DEF Layout
  <2>3. \A i \in 1..Len(s) : s[i].bound < Offset(e)
    BY <2>1, <2>2
  <2> QED
    BY <2>3 DEF Queued, Rising, Whole
<1> QED
  BY <1>1, <1>3, <1>8, <1>9 DEF Ready

(* The line due is the first that waits.                                   *)
LEMMA DueFirst ==
  ASSUME Layout, NEW p \in Lexer, HasNext(p), Queued(p.queue, p.cursor, p.stack),
         NEW q, NEW c, q = NextLine(p).queue, c = NextLine(p).cursor,
         NEW h, h = Due(p)
  PROVE  /\ First(Entry(h), Waits(p.queue, p.cursor), Waits(q, c)) /\ Queued(q, c, p.stack)
         /\ Ready(h, c, p.stack)
<1>1. /\ p.queue \in Seq(LineRec) /\ p.cursor \in 1..Len(Lines) + 1 /\ p.stack \in Seq(FrameRec)
      /\ Len(Lines) \in Nat
  BY LexerIs DEF Layout
<1>2. CASE p.queue # <<>>
  <2>1. Splitted(p.queue, h, q) /\ c = p.cursor
    BY <1>2, NextLineIs DEF Due, Splitted
  <2>2. First(Entry(h), Waits(p.queue, c), Waits(q, c)) /\ Queued(q, c, p.stack) /\ Ready(h, c, p.stack)
    BY <1>1, <2>1, QueueFirst
  <2> QED
    BY <2>1, <2>2
<1>3. CASE p.queue = <<>>
  <2>1. q = <<>> /\ c = p.cursor + 1 /\ h = Fresh(p.cursor)
    BY <1>3, NextLineIs DEF Due
  <2>2. p.cursor \in 1..Len(Lines)
    BY <1>1, <1>3 DEF HasNext
  <2>3. Queued(<<>>, p.cursor, p.stack)
    BY <1>3
  <2>4. /\ First(Entry(h), Waits(<<>>, p.cursor), Waits(<<>>, c)) /\ Queued(<<>>, c, p.stack)
        /\ Ready(h, c, p.stack)
    BY <1>1, <2>1, <2>2, <2>3, SourceFirst
  <2> QED
    BY <1>3, <2>1, <2>4
<1> QED
  BY <1>2, <1>3

-----------------------------------------------------------------------------
(* The steps of the lexer keep what is settled.                            *)

Beyond(W, b) == \A w \in W : b < Offset(w.at)

(* When the first waiting line lies behind a bound, all do.                *)
LEMMA FirstBeyond ==
  ASSUME Layout, NEW W \in SUBSET WaitRec, NEW w, NEW V, First(w, W, V), NEW b \in Nat, b < Offset(w.at)
  PROVE  Beyond(W, b)
<1> SUFFICES ASSUME NEW v \in W PROVE b < Offset(v.at)
  BY DEF Beyond
<1>1. v.at \in 1..Len(Lines) /\ w.at \in 1..Len(Lines)
  BY DEF First, WaitRec
<1>2. v = w \/ w.at < v.at
  BY DEF First
<1>3. w.at < v.at => Extent(w.at) < Offset(v.at) /\ Offset(w.at) < Offset(v.at)
  BY <1>1, LineOrder
<1>4. Offset(w.at) \in Nat /\ Offset(v.at) \in Nat
  BY <1>1, LineAt
<1> QED
  BY <1>2, <1>3, <1>4

(* With no next line, all that waits lies behind the bound.                *)
LEMMA NoNextAll ==
  ASSUME Layout, NEW p \in Lexer, ~HasNext(p), Queued(p.queue, p.cursor, p.stack)
  PROVE  Beyond(Waits(p.queue, p.cursor), Top(p.stack))
<1>1. /\ p.queue \in Seq(LineRec) /\ p.cursor \in 1..Len(Lines) + 1 /\ p.stack \in Seq(FrameRec)
  BY LexerIs
<1>2. Bound(p) = Top(p.stack) /\ Top(p.stack) \in Nat
  BY BoundIs
<1>3. Waits(p.queue, p.cursor) \in SUBSET WaitRec
  BY <1>1, WaitsIs
<1>4. CASE p.queue # <<>>
  <2>1. PICK h, u : Splitted(p.queue, h, u)
    BY <1>4 DEF Splitted
  <2>2. First(Entry(h), Waits(p.queue, p.cursor), Waits(u, p.cursor))
    BY <1>1, <2>1, QueueFirst
  <2>3. h \in LineRec
    BY <1>1, <2>1 DEF Splitted
  <2>4. Entry(h).at = h.at /\ Offset(h.at) \in Nat
    BY <2>3, EntryIs, PlaceOf
  <2>5. NextStart(p) = Offset(h.at)
    BY <1>4, <2>1 DEF NextStart, Splitted
  <2>6. Top(p.stack) < Offset(Entry(h).at)
    BY <1>2, <1>4, <2>4, <2>5 DEF HasNext
  <2> QED
    BY <1>2, <1>3, <2>2, <2>6, FirstBeyond
<1>5. CASE p.queue = <<>> /\ p.cursor \in 1..Len(Lines)
  <2>1. PICK h, e : h = Fresh(p.cursor) /\ e = p.cursor + 1
    OBVIOUS
  <2>2. Queued(<<>>, p.cursor, p.stack)
    BY <1>5
  <2>3. First(Entry(h), Waits(<<>>, p.cursor), Waits(<<>>, e))
    BY <1>1, <1>5, <2>1, <2>2, SourceFirst
  <2>4. Entry(h).at = p.cursor
    BY <1>5, <2>1, FreshIs
  <2>5. NextStart(p) = Offset(p.cursor) /\ Offset(p.cursor) \in Nat /\ p.cursor <= Len(Lines)
    <3>1. NextStart(p) = Offset(p.cursor)
      BY <1>5 DEF NextStart
    <3>2. Offset(p.cursor) \in Nat
      BY <1>5, LineAt
    <3>3. Len(Lines) \in Nat
      BY DEF Layout
    <3> QED
      BY <1>5, <3>1, <3>2, <3>3
  <2>6. Top(p.stack) < Offset(Entry(h).at)
    BY <1>2, <1>5, <2>4, <2>5 DEF HasNext
  <2>7. First(Entry(h), Waits(p.queue, p.cursor), Waits(<<>>, e))
    BY <1>5, <2>3
  <2> QED
    BY <1>2, <1>3, <2>7, <2>6, FirstBeyond
<1>6. CASE p.queue = <<>> /\ p.cursor \notin 1..Len(Lines)
  <2>1. p.cursor..Len(Lines) = {}
    <3>1. Len(Lines) \in Nat
      BY DEF Layout
    <3> QED
      BY <1>1, <1>6, <3>1
  <2>2. Waits(p.queue, p.cursor) = {}
    BY <1>6, <2>1 DEF Waits
  <2> QED
    BY <2>2 DEF Beyond
<1> QED
  BY <1>4, <1>5, <1>6

(* Popping a frame that cuts no queued line keeps the queue's order.       *)
LEMMA PopQueued ==
  ASSUME Layout, NEW q \in Seq(LineRec), NEW c \in 1..Len(Lines) + 1, NEW s \in Seq(FrameRec),
         Queued(q, c, s), NEW n \in Nat, Len(s) = n + 1, NEW t, t = SubSeq(s, 1, n),
         Beyond(Waits(q, c), Top(s))
  PROVE  Queued(q, c, t)
<1>1. Len(t) = n /\ \A i \in 1..n : t[i] = s[i]
  BY SubSeqProperties
<1>2. Top(s) = s[n + 1].bound
  <2>1. s # <<>>
    OBVIOUS
  <2> QED
    BY <2>1 DEF Top
<1>3. \A i \in 1..n + 1 : s[i].bound < Offset(c)
  BY DEF Queued
<1>4. \A i \in 1..n : t[i].bound < Offset(c)
  BY <1>1, <1>3
<1>5. Whole(q, t)
  <2> SUFFICES ASSUME NEW i \in 1..Len(q), \A j \in 1..n : t[j].bound < Offset(q[i].at)
               PROVE  Fixed(q[i], NoBound)
    BY <1>1 DEF Whole
  <2>1. Entry(q[i]) \in Waits(q, c)
    BY WaitsIs
  <2>2. Entry(q[i]).at = q[i].at
    BY EntryIs
  <2>3. s[n + 1].bound < Offset(q[i].at)
    BY <1>2, <2>1, <2>2 DEF Beyond
  <2>4. \A j \in 1..n : s[j].bound < Offset(q[i].at)
    BY <1>1
  <2>5. \A j \in 1..n + 1 : j \in 1..n \/ j = n + 1
    OBVIOUS
  <2>6. \A j \in 1..Len(s) : s[j].bound < Offset(q[i].at)
    BY <2>3, <2>4, <2>5
  <2> QED
    BY <2>6 DEF Queued, Whole
<1> QED
  BY <1>1, <1>4, <1>5 DEF Queued

(* Reading a byte keeps the lexer settled.                                 *)
LEMMA SettledConsume ==
  ASSUME Layout, NoneAssumption, NEW p, NEW r, NEW g, Settled(p, r, g), HasByte(p.line),
         NEW q, q = [p EXCEPT !.line.pos = @ + 1]
  PROVE  /\ Settled(q, r \cup {Here(p.line)}, g)
         /\ q.ahead = p.ahead /\ q.captured = p.captured
<1>1. p \in Lexer /\ p.line \in LineRec
  BY LexerIs DEF Settled, HasByte
<1>2. PICK m \in LineRec : m = Placed(p.line, p.line.pos + 1)
  <2>1. p.line.pos + 1 \in Nat
    BY <1>1, PlaceOf
  <2> QED
    BY <1>1, <2>1, PlacedIs
<1>6. q = [p EXCEPT !.line = m]
  BY <1>1, <1>2 DEF Placed, Lexer
<1>3. /\ q \in Lexer /\ q.line = Placed(p.line, p.line.pos + 1)
      /\ q.queue = p.queue /\ q.cursor = p.cursor
      /\ q.stack = p.stack /\ q.captured = p.captured /\ q.ahead = p.ahead
  BY <1>1, <1>2, <1>6 DEF Lexer
<1>4. Lies(p.line, p.stack, Waits(p.queue, p.cursor), r, g)
  BY DEF Settled
<1>5. Lies(Placed(p.line, p.line.pos + 1), p.stack, Waits(p.queue, p.cursor), r \cup {Here(p.line)}, g)
  BY <1>1, <1>4, ConsumeLies
<1> QED
  BY <1>3, <1>5 DEF Settled

(* A line with no byte left shows none.                                    *)
LEMMA NoLineSpan ==
  ASSUME Layout, NoneAssumption, NEW l \in LineRec \cup {None}, ~HasByte(l)
  PROVE  LineSpan(l) = {}
BY NoneIsNoLine, NoByteNoSpan DEF LineSpan

(* Delivering the next line keeps the lexer settled.                       *)
LEMMA SettledLoad ==
  ASSUME Layout, NoneAssumption, NEW p, NEW r, NEW g, Settled(p, r, g), ~HasByte(p.line), HasNext(p),
         NEW q, q = NextLine(p)
  PROVE  Settled(q, r, g) /\ q.ahead = p.ahead /\ (~p.ahead => q.captured = p.captured)
<1>1. /\ p \in Lexer /\ Queued(p.queue, p.cursor, p.stack)
      /\ Lies(p.line, p.stack, Waits(p.queue, p.cursor), r, g)
  BY DEF Settled
<1>2. PICK h \in LineRec : h = Due(p) /\ Offset(h.at) <= Top(p.stack)
  BY <1>1, DueIs
<1>3. /\ First(Entry(h), Waits(p.queue, p.cursor), Waits(q.queue, q.cursor))
      /\ Queued(q.queue, q.cursor, p.stack)
  BY <1>1, <1>2, DueFirst
<1>4. PICK k \in LineRec : k = Numbered(h, p.count) /\ k.at = h.at /\ k.pos = h.pos
  <2>1. p.count \in Nat
    BY <1>1, LexerIs
  <2>2. Numbered(h, p.count) \in LineRec
    BY <2>1 DEF Numbered, LineRec
  <2>3. Numbered(h, p.count).at = h.at /\ Numbered(h, p.count).pos = h.pos
    BY DEF Numbered, LineRec
  <2> QED
    BY <2>2, <2>3
<1>5. /\ q \in Lexer /\ q.line = SetEof(k, Top(p.stack)) /\ q.stack = p.stack /\ q.ahead = p.ahead
      /\ ~p.ahead => q.captured = p.captured
  BY <1>1, <1>2, <1>4, NextLineIs
<1>6. Top(p.stack) \in Nat
  BY <1>1, BoundIs
<1>7. PICK m \in LineRec : m = q.line /\ m.at = h.at /\ m.pos = h.pos /\ Fixed(m, Top(p.stack))
  <2>1. SetEof(k, Top(p.stack)) \in LineRec /\ SetEof(k, Top(p.stack)).at = k.at /\ SetEof(k, Top(p.stack)).pos = k.pos
    BY <1>6, SetEofIs
  <2>2. Fixed(SetEof(k, Top(p.stack)), Top(p.stack))
    BY <1>6, SetEofFixed
  <2> QED
    BY <1>4, <1>5, <2>1, <2>2
<1>8. LineSpan(p.line) = {}
  BY <1>1, LexerIs, NoLineSpan
<1>9. PICK w : w = Entry(h) /\ w.at = h.at /\ w.pos = h.pos
  BY EntryIs
<1>10. /\ w \in Waits(p.queue, p.cursor) /\ \A v \in Waits(p.queue, p.cursor) \ {w} : w.at < v.at
       /\ Waits(q.queue, q.cursor) = Waits(p.queue, p.cursor) \ {w}
  BY <1>3, <1>9 DEF First
<1>11. Lies(m, p.stack, Waits(p.queue, p.cursor) \ {w}, r, g)
  BY <1>1, <1>2, <1>7, <1>8, <1>9, <1>10, LoadLies
<1> QED
  BY <1>3, <1>5, <1>7, <1>10, <1>11 DEF Settled

(* Letting go of the rest of the line keeps the lexer settled.             *)
LEMMA SettledAbandon ==
  ASSUME Layout, NoneAssumption, NEW p, NEW r, NEW g, Settled(p, r, g), HasByte(p.line),
         NEW q, q = [p EXCEPT !.line = None]
  PROVE  /\ Settled(q, r, g \cup Span(p.line))
         /\ q.ahead = p.ahead /\ q.captured = p.captured
<1>1. p \in Lexer /\ p.line \in LineRec
  BY LexerIs DEF Settled, HasByte
<1>3. /\ q \in Lexer /\ q.line = None
      /\ q.queue = p.queue /\ q.cursor = p.cursor
      /\ q.stack = p.stack /\ q.captured = p.captured /\ q.ahead = p.ahead
  BY <1>1 DEF Lexer
<1>4. Lies(p.line, p.stack, Waits(p.queue, p.cursor), r, g)
  BY DEF Settled
<1>5. Lies(None, p.stack, Waits(p.queue, p.cursor), r, g \cup Span(p.line))
  BY <1>1, <1>4, AbandonLies
<1> QED
  BY <1>3, <1>5 DEF Settled

(* Leaving a body keeps the lexer settled.                                 *)
LEMMA SettledPop ==
  ASSUME Layout, NoneAssumption, NEW p, NEW r, NEW g, Settled(p, r, g), ~HasByte(p.line), ~HasNext(p),
         p.stack # <<>>, NEW q, q = Pop(p)
  PROVE  Settled(q, r, g) /\ q.ahead = p.ahead /\ q.captured = p.captured
<1>1. /\ p \in Lexer /\ Queued(p.queue, p.cursor, p.stack)
      /\ Lies(p.line, p.stack, Waits(p.queue, p.cursor), r, g)
  BY DEF Settled
<1>2. PICK s \in Seq(FrameRec), n \in Nat : s = p.stack /\ Len(s) = n + 1
  <2>1. p.stack \in Seq(FrameRec)
    BY <1>1, LexerIs
  <2> QED
    BY <2>1, OneMore
<1>3. PICK t : t = SubSeq(s, 1, n)
  OBVIOUS
<1>4. /\ q \in Lexer /\ q.stack = t /\ q.line = SetEof(s[n + 1].line, Top(t))
      /\ q.queue = p.queue /\ q.cursor = p.cursor /\ q.captured = p.captured /\ q.ahead = p.ahead
  <2>1. Len(p.stack) = n + 1 /\ Len(p.stack) - 1 = n
    BY <1>2
  <2> QED
    BY <1>1, <1>2, <1>3, <2>1, PopIs
<1>5. Beyond(Waits(p.queue, p.cursor), Top(s))
  BY <1>1, <1>2, NoNextAll
<1>6. LineSpan(p.line) = {}
  BY <1>1, LexerIs, NoLineSpan
<1>7. PICK m : m = q.line
  OBVIOUS
<1>8. Lies(m, t, Waits(p.queue, p.cursor), r, g)
  BY <1>1, <1>2, <1>3, <1>4, <1>5, <1>6, <1>7, PopLies DEF Beyond
<1>9. Queued(p.queue, p.cursor, t)
  <2>1. p.queue \in Seq(LineRec) /\ p.cursor \in 1..Len(Lines) + 1
    BY <1>1, LexerIs
  <2> QED
    BY <1>1, <1>2, <1>3, <1>5, <2>1, PopQueued
<1> QED
  BY <1>4, <1>7, <1>8, <1>9 DEF Settled

-----------------------------------------------------------------------------
(* A line that a scan has moved from what waits to what it has seen would  *)
(* wait again, where it did, if the scan were dropped.                     *)

Coming(q, c) ==
  [i \in DOMAIN q |-> [at |-> q[i].at, pos |-> q[i].pos]]
  \o [i \in 1..Len(Lines) + 1 - c |-> [at |-> c + i - 1, pos |-> 0]]

Swapped(q, v, k, x) ==
  /\ k \in 1..Len(q) /\ Len(v) = Len(q) /\ v[k] = x
  /\ \A i \in 1..Len(q) : i # k => v[i] = q[i]

Replays(x, h) == x.at = h.at /\ x.pos = h.pos /\ x.indent = h.indent
WholeLine(x, s) == (\A j \in 1..Len(s) : s[j].bound < Offset(x.at)) => Fixed(x, NoBound)
Returns(q, c, v, e, s) == Queued(v, e, s) /\ Waits(v, e) = Waits(q, c) /\ Coming(v, e) = Coming(q, c)

(* One line of the queue replaced by one that replays the same bytes.      *)
LEMMA SwappedReturns ==
  ASSUME Layout, NEW q \in Seq(LineRec), NEW c \in 1..Len(Lines) + 1, NEW s, Queued(q, c, s),
         NEW v \in Seq(LineRec), NEW k, NEW x, Swapped(q, v, k, x),
         Replays(x, q[k]), WholeLine(x, s)
  PROVE  Returns(q, c, v, c, s)
<1>1. PICK n \in Nat : n = Len(q) /\ n = Len(v) /\ DOMAIN q = 1..n /\ DOMAIN v = 1..n
  BY DEF Swapped
<1>2. \A i \in 1..n : v[i].at = q[i].at /\ v[i].pos = q[i].pos /\ v[i].indent = q[i].indent
  BY <1>1 DEF Swapped, Replays
<1>3. \A i \in 1..n : Entry(v[i]) = Entry(q[i])
  BY <1>2 DEF Entry
<1>4. {Entry(q[i]) : i \in 1..Len(q)} = {Entry(v[i]) : i \in 1..Len(v)}
  <2>1. {Entry(q[i]) : i \in 1..n} = {Entry(v[i]) : i \in 1..n}
    BY <1>3
  <2> QED
    BY <1>1, <2>1
<1>5. Waits(v, c) = Waits(q, c)
  BY <1>4 DEF Waits
<1>6. Coming(v, c) = Coming(q, c)
  <2>1. [i \in 1..n |-> [at |-> q[i].at, pos |-> q[i].pos]] = [i \in 1..n |-> [at |-> v[i].at, pos |-> v[i].pos]]
    BY <1>2
  <2> QED
    BY <1>1, <2>1 DEF Coming
<1>7. Whole(v, s)
  <2> SUFFICES ASSUME NEW i \in 1..n, \A j \in 1..Len(s) : s[j].bound < Offset(v[i].at)
               PROVE  Fixed(v[i], NoBound)
    BY <1>1 DEF Whole
  <2>1. CASE i = k
    BY <2>1 DEF Swapped, WholeLine
  <2>2. CASE i # k
    BY <1>1, <2>2 DEF Swapped, Queued, Whole
  <2> QED
    BY <2>1, <2>2
<1>8. Rising(v) /\ \A i \in 1..n : v[i].at < c /\ v[i].pos = v[i].indent
  BY <1>1, <1>2 DEF Queued, Rising
<1> QED
  BY <1>1, <1>5, <1>6, <1>7, <1>8 DEF Queued, Returns

Added(a, x, b, k) == b = Append(a, x) /\ k = Len(a) + 1

(* The same line of two queues, after the lines returned before it.        *)
LEMMA ConcatSwapped ==
  ASSUME NEW a \in Seq(LineRec), NEW x \in LineRec, NEW q \in Seq(LineRec), NEW h, NEW u, Splitted(q, h, u),
         NEW k, NEW b, Added(a, x, b, k)
  PROVE  /\ Swapped(a \o q, b \o u, k, x) /\ (a \o q)[k] = h
         /\ a \o q \in Seq(LineRec) /\ b \o u \in Seq(LineRec)
<1>1. PICK n \in Nat : Len(q) = n + 1
  BY OneMore DEF Splitted
<1>2. /\ h = q[1] /\ h \in LineRec /\ u \in Seq(LineRec) /\ Len(u) = n
      /\ \A i \in 1..n : u[i] = q[i + 1]
  BY <1>1, TailOf DEF Splitted
<1>12. PICK m \in Nat : m = Len(a)
  OBVIOUS
<1>3. k = m + 1 /\ b = Append(a, x)
  BY <1>12 DEF Added
<1>4. PICK N \in Nat : N = n + 1 /\ N = Len(q)
  BY <1>1
<1>5. PICK y \in Seq(LineRec) : y = a \o q /\ Len(y) = m + N
        /\ (\A i \in 1..m : y[i] = a[i]) /\ \A i \in 1..N : y[m + i] = q[i]
  <2>1. /\ a \o q \in Seq(LineRec) /\ Len(a \o q) = m + N
        /\ \A i \in 1..m : (a \o q)[i] = a[i]
        /\ \A i \in 1..N : (a \o q)[m + i] = q[i]
    <3>1. PICK J \in Nat, K \in Nat : J = Len(a) /\ K = Len(q)
      OBVIOUS
    <3>2. /\ a \o q \in Seq(LineRec) /\ Len(a \o q) = J + K
          /\ \A i \in 1..J : (a \o q)[i] = a[i]
          /\ \A i \in 1..K : (a \o q)[J + i] = q[i]
      BY <3>1, ConcatOf
    <3>3. J = m /\ K = N
      BY <1>4, <1>12, <3>1
    <3> QED
      BY <3>2, <3>3
  <2> QED
    BY <2>1
<1>6. /\ b \in Seq(LineRec) /\ Len(b) = k /\ b[k] = x /\ \A i \in 1..m : b[i] = a[i]
  BY <1>12, <1>3, AppendOf
<1>7. PICK z \in Seq(LineRec) : z = b \o u /\ Len(z) = k + n
        /\ (\A i \in 1..k : z[i] = b[i]) /\ \A i \in 1..n : z[k + i] = u[i]
  <2>1. /\ b \o u \in Seq(LineRec) /\ Len(b \o u) = k + n
        /\ \A i \in 1..k : (b \o u)[i] = b[i]
        /\ \A i \in 1..n : (b \o u)[k + i] = u[i]
    <3>1. PICK B \in Seq(LineRec), U \in Seq(LineRec) : B = b /\ U = u
      BY <1>2, <1>6
    <3>2. PICK K \in Nat, J \in Nat : K = Len(B) /\ J = Len(U)
      OBVIOUS
    <3>3. /\ B \o U \in Seq(LineRec) /\ Len(B \o U) = K + J
          /\ \A i \in 1..K : (B \o U)[i] = B[i]
          /\ \A i \in 1..J : (B \o U)[K + i] = U[i]
      BY <3>2, ConcatOf
    <3>4. K = k /\ J = n
      BY <1>2, <1>6, <3>1, <3>2
    <3> QED
      BY <3>1, <3>3, <3>4
  <2> QED
    BY <2>1
<1>8. Len(y) = k + n /\ k \in 1..k + n /\ 1 \in 1..N /\ k \in 1..k
  BY <1>3, <1>4, <1>5, <1>12
<1>9. y[k] = h
  BY <1>2, <1>3, <1>5, <1>8
<1>10. z[k] = x
  BY <1>6, <1>7, <1>8
<1>11. ASSUME NEW i \in 1..k + n, i # k PROVE z[i] = y[i]
  <2>1. CASE i \in 1..m
    BY <1>3, <1>5, <1>6, <1>7, <2>1
  <2>2. CASE i \notin 1..m
    <3>1. PICK j \in 1..n : i = k + j
      <4>1. i - k \in 1..n /\ i = k + (i - k)
        BY <1>3, <1>11, <2>2
      <4> QED
        BY <4>1
    <3>2. i = m + (j + 1) /\ j + 1 \in 1..N
      BY <1>3, <1>4, <3>1
    <3>3. y[i] = q[j + 1]
      BY <1>5, <3>2
    <3>4. z[i] = u[j]
      BY <1>7, <3>1
    <3> QED
      BY <1>2, <3>1, <3>3, <3>4
  <2> QED
    BY <2>1, <2>2
<1> QED
  BY <1>5, <1>7, <1>8, <1>9, <1>10, <1>11 DEF Swapped

Laid(q) == [i \in DOMAIN q |-> [at |-> q[i].at, pos |-> q[i].pos]]
Remaining(c) == [i \in 1..Len(Lines) + 1 - c |-> [at |-> c + i - 1, pos |-> 0]]

Grown(q, c, x, v, e) ==
  x.at = c /\ x.pos = 0 /\ x.indent = 0 /\ v = Append(q, x) /\ e = c + 1

(* A line taken from the source to the queue's end comes where it did.     *)
LEMMA ComingMoves ==
  ASSUME Layout, NEW q \in Seq(LineRec), NEW c \in 1..Len(Lines), NEW x \in LineRec, NEW v, NEW e,
         Grown(q, c, x, v, e)
  PROVE  Coming(v, e) = Coming(q, c)
<1>0. x.at = c /\ x.pos = 0 /\ v = Append(q, x) /\ e = c + 1
  BY DEF Grown
<1>1. PICK N \in Nat : N = Len(Lines)
  BY DEF Layout
<1>2. PICK n \in Nat : n = Len(q)
  OBVIOUS
<1>3. PICK k \in Nat : c + k = N /\ e + k = N + 1
  <2>1. N - c \in Nat /\ c + (N - c) = N /\ e + (N - c) = N + 1
    BY <1>0, <1>1
  <2> QED
    BY <2>1
<1>4. v \in Seq(LineRec) /\ Len(v) = n + 1 /\ (\A i \in 1..n : v[i] = q[i]) /\ v[n + 1] = x
  BY <1>0, <1>2, AppendOf
<1>5. PICK A : A = Laid(q)
  OBVIOUS
<1>6. PICK B : B = Remaining(c)
  OBVIOUS
<1>7. PICK C : C = Laid(v)
  OBVIOUS
<1>8. PICK D : D = Remaining(e)
  OBVIOUS
<1>9. A \in Seq(WaitRec) /\ Len(A) = n /\ \A i \in 1..n : A[i] = Entry(q[i])
  <2>1. \A i \in 1..n : Entry(q[i]) \in WaitRec
    BY <1>2, EntryIs
  <2>2. A = [i \in 1..n |-> Entry(q[i])]
    BY <1>2, <1>5 DEF Laid, Entry
  <2>3. A \in [1..n -> WaitRec]
    BY <2>1, <2>2
  <2>4. A \in Seq(WaitRec) /\ Len(A) = n
    BY <2>3
  <2> QED
    BY <2>2, <2>4
<1>10. C \in Seq(WaitRec) /\ Len(C) = n + 1 /\ \A i \in 1..n + 1 : C[i] = Entry(v[i])
  <2>1. \A i \in 1..n + 1 : Entry(v[i]) \in WaitRec
    BY <1>4, EntryIs
  <2>2. C = [i \in 1..n + 1 |-> Entry(v[i])]
    BY <1>4, <1>7 DEF Laid, Entry
  <2>3. C \in [1..n + 1 -> WaitRec]
    BY <2>1, <2>2
  <2>4. C \in Seq(WaitRec) /\ Len(C) = n + 1
    BY <2>3
  <2> QED
    BY <2>2, <2>4
<1>11. B \in Seq(WaitRec) /\ Len(B) = k + 1 /\ \A i \in 1..k + 1 : B[i] = [at |-> c + i - 1, pos |-> 0]
  <2>1. Len(Lines) + 1 - c = k + 1
    BY <1>1, <1>3
  <2>2. \A i \in 1..k + 1 : [at |-> c + i - 1, pos |-> 0] \in WaitRec
    <3>1. \A i \in 1..k + 1 : c + i - 1 \in 1..Len(Lines)
      BY <1>1, <1>3
    <3> QED
      BY <3>1 DEF WaitRec
  <2>3. B = [i \in 1..k + 1 |-> [at |-> c + i - 1, pos |-> 0]]
    BY <1>6, <2>1 DEF Remaining
  <2>4. B \in [1..k + 1 -> WaitRec]
    BY <2>2, <2>3
  <2>5. B \in Seq(WaitRec) /\ Len(B) = k + 1
    BY <2>4
  <2> QED
    BY <2>3, <2>5
<1>12. D \in Seq(WaitRec) /\ Len(D) = k /\ \A i \in 1..k : D[i] = [at |-> e + i - 1, pos |-> 0]
  <2>1. Len(Lines) + 1 - e = k
    <3>1. PICK E \in Nat : E = e
      BY <1>0, <1>1
    <3>2. E + k = N + 1
      BY <1>3, <3>1
    <3>3. N + 1 - E = k
      BY <1>1, <3>2
    <3> QED
      BY <1>1, <3>1, <3>3
  <2>2. \A i \in 1..k : [at |-> e + i - 1, pos |-> 0] \in WaitRec
    <3>1. \A i \in 1..k : e + i - 1 \in 1..Len(Lines)
      BY <1>0, <1>1, <1>3
    <3> QED
      BY <3>1 DEF WaitRec
  <2>3. D = [i \in 1..k |-> [at |-> e + i - 1, pos |-> 0]]
    BY <1>8, <2>1 DEF Remaining
  <2>4. D \in [1..k -> WaitRec]
    BY <2>2, <2>3
  <2>5. D \in Seq(WaitRec) /\ Len(D) = k
    BY <2>4
  <2> QED
    BY <2>3, <2>5
<1>13. PICK y \in Seq(WaitRec) : y = A \o B /\ Len(y) = n + (k + 1)
         /\ (\A i \in 1..n : y[i] = A[i]) /\ \A i \in 1..k + 1 : y[n + i] = B[i]
  <2>0. A \in Seq(WaitRec) /\ B \in Seq(WaitRec)
    BY <1>9, <1>11
  <2>1. PICK J \in Nat, K \in Nat : J = Len(A) /\ K = Len(B)
    BY <2>0
  <2>2. /\ A \o B \in Seq(WaitRec) /\ Len(A \o B) = J + K
        /\ \A i \in 1..J : (A \o B)[i] = A[i]
        /\ \A i \in 1..K : (A \o B)[J + i] = B[i]
    BY <2>0, <2>1, ConcatOf
  <2>3. J = n /\ K = k + 1
    BY <1>9, <1>11, <2>1
  <2> QED
    BY <2>2, <2>3
<1>14. PICK z \in Seq(WaitRec) : z = C \o D /\ Len(z) = (n + 1) + k
         /\ (\A i \in 1..n + 1 : z[i] = C[i]) /\ \A i \in 1..k : z[(n + 1) + i] = D[i]
  <2>0. C \in Seq(WaitRec) /\ D \in Seq(WaitRec)
    BY <1>10, <1>12
  <2>1. PICK J \in Nat, K \in Nat : J = Len(C) /\ K = Len(D)
    BY <2>0
  <2>2. /\ C \o D \in Seq(WaitRec) /\ Len(C \o D) = J + K
        /\ \A i \in 1..J : (C \o D)[i] = C[i]
        /\ \A i \in 1..K : (C \o D)[J + i] = D[i]
    BY <2>0, <2>1, ConcatOf
  <2>3. J = n + 1 /\ K = k
    BY <1>10, <1>12, <2>1
  <2> QED
    BY <2>2, <2>3
<1>15. PICK m \in Nat : m = n + k + 1 /\ m = Len(y) /\ m = Len(z)
  BY <1>13, <1>14
<1>16. \A i \in 1..m : y[i] = z[i]
  <2> SUFFICES ASSUME NEW i \in 1..m PROVE y[i] = z[i]
    OBVIOUS
  <2>1. CASE i \in 1..n
    <3>1. i \in 1..n + 1
      BY <2>1
    <3>2. y[i] = Entry(q[i]) /\ z[i] = Entry(v[i])
      BY <1>9, <1>10, <1>13, <1>14, <2>1, <3>1
    <3> QED
      BY <1>4, <2>1, <3>2
  <2>2. CASE i = n + 1
    <3>1. 1 \in 1..k + 1 /\ n + 1 \in 1..n + 1 /\ c + 1 - 1 = c
      OBVIOUS
    <3>2. y[i] = [at |-> c, pos |-> 0]
      BY <1>11, <1>13, <2>2, <3>1
    <3>3. z[i] = Entry(x)
      BY <1>4, <1>10, <1>14, <2>2, <3>1
    <3> QED
      BY <1>0, <3>2, <3>3 DEF Entry
  <2>3. CASE i \notin 1..n /\ i # n + 1
    <3>1. PICK j \in 1..k : i = (n + 1) + j
      <4>1. i - (n + 1) \in 1..k /\ i = (n + 1) + (i - (n + 1))
        BY <1>15, <2>3
      <4> QED
        BY <4>1
    <3>2. i = n + (j + 1) /\ j + 1 \in 1..k + 1
      BY <3>1
    <3>3. y[i] = [at |-> c + (j + 1) - 1, pos |-> 0]
      BY <1>11, <1>13, <3>2
    <3>4. z[i] = [at |-> e + j - 1, pos |-> 0]
      BY <1>12, <1>14, <3>1
    <3>5. c + (j + 1) - 1 = e + j - 1
      BY <1>0, <1>1
    <3> QED
      BY <3>3, <3>4, <3>5
  <2> QED
    BY <2>1, <2>2, <2>3
<1>17. y = z
  BY <1>15, <1>16, SeqEqual
<1>18. Coming(q, c) = A \o B /\ Coming(v, e) = C \o D
  BY <1>5, <1>6, <1>7, <1>8 DEF Coming, Laid, Remaining
<1> QED
  BY <1>13, <1>14, <1>17, <1>18

(* So it waits where it did.                                               *)
LEMMA AppendReturns ==
  ASSUME Layout, NEW q \in Seq(LineRec), NEW c \in 1..Len(Lines), NEW s \in Seq(FrameRec), Queued(q, c, s),
         NEW x \in LineRec, WholeLine(x, s), NEW v, NEW e, Grown(q, c, x, v, e)
  PROVE  Returns(q, c, v, e, s)
<1>0. x.at = c /\ x.pos = 0 /\ x.indent = 0 /\ v = Append(q, x) /\ e = c + 1
  BY DEF Grown
<1>1. Coming(v, e) = Coming(q, c)
  BY ComingMoves
<1>2. PICK n \in Nat : n = Len(q)
  OBVIOUS
<1>3. v \in Seq(LineRec) /\ Len(v) = n + 1 /\ (\A i \in 1..n : v[i] = q[i]) /\ v[n + 1] = x
  BY <1>0, <1>2, AppendOf
<1>4. PICK N \in Nat : N = Len(Lines)
  BY DEF Layout
<1>5. c..N = {c} \cup e..N /\ c < e /\ c \in Nat /\ e \in Nat
  BY <1>0, <1>4
<1>6. Entry(x) = [at |-> c, pos |-> 0]
  BY <1>0 DEF Entry
<1>7. \A i \in 1..n + 1 : i \in 1..n \/ i = n + 1
  BY <1>2
<1>8. \A i \in 1..n : i \in 1..n + 1
  BY <1>2
<1>9. Waits(v, e) = Waits(q, c)
  <2>1. {Entry(v[i]) : i \in 1..n + 1} = {Entry(q[i]) : i \in 1..n} \cup {Entry(x)}
    <3>1. n + 1 \in 1..n + 1
      OBVIOUS
    <3>2. ASSUME NEW i \in 1..n + 1 PROVE Entry(v[i]) \in {Entry(q[j]) : j \in 1..n} \cup {Entry(x)}
      BY <1>3, <1>7
    <3>3. ASSUME NEW i \in 1..n PROVE Entry(q[i]) \in {Entry(v[j]) : j \in 1..n + 1}
      BY <1>3, <1>8
    <3>4. Entry(x) \in {Entry(v[j]) : j \in 1..n + 1}
      BY <1>3, <3>1
    <3> QED
      BY <3>2, <3>3, <3>4
  <2>2. {[at |-> a, pos |-> 0] : a \in c..N} = {[at |-> a, pos |-> 0] : a \in e..N} \cup {Entry(x)}
    BY <1>5, <1>6
  <2>3. /\ Waits(v, e) = {Entry(v[i]) : i \in 1..n + 1} \cup {[at |-> a, pos |-> 0] : a \in e..N}
        /\ Waits(q, c) = {Entry(q[i]) : i \in 1..n} \cup {[at |-> a, pos |-> 0] : a \in c..N}
    BY <1>2, <1>3, <1>4 DEF Waits
  <2> HIDE DEF Entry
  <2> QED
    BY <2>1, <2>2, <2>3
<1>10. \A i \in 1..n : q[i].at < c /\ q[i].pos = q[i].indent /\ q[i].at \in Nat
  <2>1. \A i \in 1..n : q[i] \in LineRec
    BY <1>2
  <2> QED
    BY <1>2, <2>1, PlaceOf, LineAt DEF Queued
<1>11. Rising(v)
  <2> SUFFICES ASSUME NEW i \in 1..n + 1, NEW j \in 1..n + 1, i < j PROVE v[i].at < v[j].at
    BY <1>3 DEF Rising
  <2>1. i \in 1..n
    BY <1>2
  <2>2. CASE j \in 1..n
    BY <1>2, <1>3, <2>1, <2>2 DEF Queued, Rising
  <2>3. CASE j = n + 1
    BY <1>0, <1>3, <1>10, <2>1, <2>3
  <2> QED
    BY <1>7, <2>2, <2>3
<1>12. Whole(v, s)
  <2> SUFFICES ASSUME NEW i \in 1..n + 1, \A j \in 1..Len(s) : s[j].bound < Offset(v[i].at)
               PROVE  Fixed(v[i], NoBound)
    BY <1>3 DEF Whole
  <2>1. CASE i \in 1..n
    BY <1>2, <1>3, <2>1 DEF Queued, Whole
  <2>2. CASE i = n + 1
    BY <1>3, <2>2 DEF WholeLine
  <2> QED
    BY <1>7, <2>1, <2>2
<1>13. \A i \in 1..n + 1 : v[i].at < e /\ v[i].pos = v[i].indent
  <2> SUFFICES ASSUME NEW i \in 1..n + 1 PROVE v[i].at < e /\ v[i].pos = v[i].indent
    OBVIOUS
  <2>1. CASE i \in 1..n
    <3>1. v[i] = q[i]
      BY <1>3, <2>1
    <3>2. q[i].at < c /\ q[i].pos = q[i].indent /\ q[i].at \in Nat
      BY <1>10, <2>1
    <3>3. q[i].at < e
      BY <1>5, <3>2
    <3> QED
      BY <3>1, <3>2, <3>3
  <2>2. CASE i = n + 1
    BY <1>0, <1>3, <1>5, <2>2
  <2> QED
    BY <1>7, <2>1, <2>2
<1>14. \A i \in 1..Len(s) : s[i].bound < Offset(e)
  <2>1. \A i \in 1..Len(s) : s[i].bound < Offset(c) /\ s[i].bound \in Nat
    <3>1. PICK k \in Nat : k = Len(s)
      OBVIOUS
    <3> QED
      BY <3>1, TopIs DEF Queued
  <2>2. Offset(c) \in Nat /\ Offset(e) \in Nat /\ Offset(c) <= Offset(e)
    <3>1. c <= e
      BY <1>5
    <3> QED
      BY <1>5, <3>1 DEF Layout
  <2> QED
    BY <2>1, <2>2
<1> QED
  BY <1>1, <1>3, <1>9, <1>11, <1>12, <1>13, <1>14 DEF Queued, Returns

-----------------------------------------------------------------------------
(* A lookahead: were it dropped now, all would be settled.  What it has    *)
(* seen is seen through the bound it runs under, which is one that no      *)
(* waiting line lies on or before.                                         *)

Unmoved(p, b) == p.line = b.line /\ p.stack = b.stack /\ Ahead(p) = Ahead(b)

Seen(l, C, kind) ==
  /\ Fixed(l, C) /\ Offset(l.at) <= C
  /\ l.indent <= l.pos /\ (kind = "heredoc" => l.indent = l.pos)
Entered(l, s) == s.entry <= l.pos /\ Fixed(l, s.bound)
Shown(w, C, s) == Entered(w[1], s) /\ \A i \in 1..Len(w) : i # 1 => Seen(w[i], C, s.kind)

Ceil(C, s, W) ==
  /\ C = NoBound \/ \E i \in 1..Len(s) : C = s[i].bound
  /\ \A w \in W : \A i \in 1..Len(s) : Offset(w.at) <= s[i].bound => C <= s[i].bound

Looking(p, s) ==
  /\ p \in Lexer /\ p.ahead /\ p.line \in LineRec /\ s.entry \in Nat /\ s.bound \in Nat
  /\ Shown(Swept(p), Top(p.stack), s)
  /\ s.kind # "heredoc" => Top(p.stack) = s.bound
Dropped(d, p, s, r, g) ==
  /\ Settled(d, r, g) /\ Ceil(Top(p.stack), d.stack, Waits(d.queue, d.cursor))
  /\ s.kind = "peek" => Unmoved(d, s.before)
ScanOk(p, s, r, g) == Looking(p, s) /\ Dropped(Drop(p, s), p, s, r, g)

Relates(d, e) ==
  e \in Lexer /\ e.line = d.line /\ e.stack = d.stack
  /\ Returns(d.queue, d.cursor, e.queue, e.cursor, d.stack)
Agree(s, t) ==
  t.kind = s.kind /\ t.entry = s.entry /\ t.bound = s.bound /\ (s.kind = "peek" => t.before = s.before)

(* What PeekLeavesNoTrace calls ahead is what comes.                       *)
LEMMA AheadIs ==
  ASSUME NEW p
  PROVE  Ahead(p) = Coming(p.queue, p.cursor)
BY DEF Ahead, Coming

(* What a scan would be dropped to depends only on what e keeps of d.      *)
LEMMA DroppedKept ==
  ASSUME NEW d, NEW p, NEW s, NEW r, NEW g, Dropped(d, p, s, r, g),
         NEW e, Relates(d, e), NEW q, q.stack = p.stack, NEW t, Agree(s, t)
  PROVE  Dropped(e, q, t, r, g)
<1>1. e \in Lexer /\ e.line = d.line /\ e.stack = d.stack
  BY DEF Relates
<1>2. /\ Queued(e.queue, e.cursor, e.stack) /\ Waits(e.queue, e.cursor) = Waits(d.queue, d.cursor)
      /\ Coming(e.queue, e.cursor) = Coming(d.queue, d.cursor)
  BY <1>1 DEF Relates, Returns
<1>3. Settled(e, r, g)
  BY <1>1, <1>2 DEF Dropped, Settled
<1>4. Ceil(Top(q.stack), e.stack, Waits(e.queue, e.cursor))
  BY <1>1, <1>2 DEF Dropped
<1>5. t.kind = "peek" => Unmoved(e, t.before)
  <2> SUFFICES ASSUME t.kind = "peek" PROVE Unmoved(e, t.before)
    OBVIOUS
  <2>1. Unmoved(d, s.before) /\ t.before = s.before
    BY DEF Dropped, Agree
  <2>2. Ahead(e) = Ahead(d)
    BY <1>2, AheadIs
  <2> QED
    BY <1>1, <2>1, <2>2 DEF Unmoved
<1> QED
  BY <1>3, <1>4, <1>5 DEF Dropped

(* Of two moves of the cursor the last one counts, and none after a reset. *)
LEMMA PlacedTwice ==
  ASSUME NEW l \in LineRec, NEW a \in Nat, NEW b \in Nat
  PROVE  Placed(Placed(l, a), b) = Placed(l, b) /\ Reset(Placed(l, a)) = Reset(l)
<1>1. PICK m \in LineRec : /\ m = Placed(l, a) /\ m.at = l.at /\ m.len = l.len
                           /\ m.term = l.term /\ m.indent = l.indent /\ m.number = l.number
  BY PlacedIs
<1>2. \A k \in Nat : Placed(m, k) = Placed(l, k)
  <2> SUFFICES ASSUME NEW k \in Nat PROVE Placed(m, k) = Placed(l, k)
    OBVIOUS
  <2>1. /\ Placed(m, k) \in LineRec
        /\ Placed(m, k).at = l.at /\ Placed(m, k).pos = k /\ Placed(m, k).len = l.len
        /\ Placed(m, k).term = l.term /\ Placed(m, k).indent = l.indent
        /\ Placed(m, k).number = l.number
    BY <1>1, PlacedIs
  <2>2. /\ Placed(l, k) \in LineRec
        /\ Placed(l, k).at = l.at /\ Placed(l, k).pos = k /\ Placed(l, k).len = l.len
        /\ Placed(l, k).term = l.term /\ Placed(l, k).indent = l.indent
        /\ Placed(l, k).number = l.number
    BY PlacedIs
  <2> QED
    BY <2>1, <2>2, SameLine
<1>3. Placed(m, b) = Placed(l, b)
  BY <1>2
<1>4. Reset(m) = Reset(l)
  <2>1. l.indent \in Nat
    BY DEF LineRec
  <2> QED
    BY <1>1, <1>2, <2>1 DEF Reset
<1> QED
  BY <1>1, <1>3, <1>4

(* What a lookahead has seen, its current line the last of it.             *)
LEMMA LookedIs ==
  ASSUME Layout, NoneAssumption, NEW p \in Lexer, p.line \in LineRec,
         NEW c, c = p.captured, NEW l, l = p.line
  PROVE  /\ Swept(p) = Append(c, l) /\ Swept(p) \in Seq(LineRec) /\ l # None
         /\ c \in Seq(LineRec)
         /\ \E n \in Nat : /\ n = Len(c) /\ Len(Swept(p)) = n + 1 /\ Swept(p)[n + 1] = l
                           /\ \A i \in 1..n : Swept(p)[i] = c[i]
<1>1. l # None
  BY NoneIsNoLine
<1>2. c \in Seq(LineRec)
  BY LexerIs
<1>3. Swept(p) = Append(c, l)
  BY <1>1 DEF Swept
<1>4. PICK n \in Nat : n = Len(c)
  BY <1>2
<1>5. /\ Append(c, l) \in Seq(LineRec) /\ Len(Append(c, l)) = n + 1 /\ Append(c, l)[n + 1] = l
      /\ \A i \in 1..n : Append(c, l)[i] = c[i]
  BY <1>2, <1>4, AppendOf
<1> QED
  BY <1>1, <1>2, <1>3, <1>4, <1>5

Looked(p, n) == /\ n = Len(p.captured) /\ Len(Swept(p)) = n + 1 /\ Swept(p)[n + 1] = p.line
                /\ \A i \in 1..n : Swept(p)[i] = p.captured[i]

(* What a scan has seen is what it captured, and its current line.         *)
LEMMA LookedAs ==
  ASSUME Layout, NoneAssumption, NEW p \in Lexer, p.line \in LineRec
  PROVE  \E n \in Nat : Looked(p, n)
<1>1. PICK c \in Seq(LineRec) : c = p.captured
  BY LexerIs
<1>2. \E n \in Nat : /\ n = Len(c) /\ Len(Swept(p)) = n + 1 /\ Swept(p)[n + 1] = p.line
                     /\ \A i \in 1..n : Swept(p)[i] = c[i]
  BY <1>1, LookedIs
<1> QED
  BY <1>1, <1>2 DEF Looked

MovedOn(p, q, k) == q = [p EXCEPT !.line = Placed(p.line, k)] /\ k \in Nat /\ p.line.pos <= k

(* The fields of a dropped lookahead.                                      *)
LEMMA DropFields ==
  ASSUME Layout, NoneAssumption, NEW p, NEW s, Looking(p, s), NEW d, d = Drop(p, s)
  PROVE  /\ d \in Lexer /\ ~d.ahead /\ d.captured = <<>>
         /\ d.stack = Bounded(p.stack, s.bound) /\ d.line \in LineRec
         /\ d.line = SetEof(Placed(Swept(p)[1], s.entry), Top(Bounded(p.stack, s.bound)))
         /\ d.queue = Returned(Swept(p)) \o p.queue /\ d.cursor = p.cursor
         /\ Returned(Swept(p)) \in Seq(LineRec)
         /\ \E n \in Nat : /\ Len(Swept(p)) = n + 1 /\ Len(Returned(Swept(p))) = n
                           /\ \A i \in 1..n : Returned(Swept(p))[i] = Reset(Swept(p)[i + 1])
<1>1. p \in Lexer /\ p.ahead /\ p.line \in LineRec /\ s.entry \in Nat /\ s.bound \in Nat
  BY DEF Looking
<1>6. PICK w \in Seq(LineRec) : w = Swept(p) /\ w # <<>>
  <2>1. PICK n \in Nat : Swept(p) \in Seq(LineRec) /\ Len(Swept(p)) = n + 1
    BY <1>1, LookedIs
  <2>2. Swept(p) # <<>>
    BY <2>1
  <2> QED
    BY <2>1, <2>2
<1>2. PICK n \in Nat : Len(w) = n + 1
  BY <1>6, OneMore
<1>3. DropsTo(d, p, s, w)
  BY <1>1, <1>6, DropIs
<1>4. Len(w) - 1 = n
  BY <1>2
<1>5. Len(Returned(w)) = n /\ \A i \in 1..n : Returned(w)[i] = Reset(w[i + 1])
  BY <1>3, <1>4 DEF DropsTo
<1> QED
  BY <1>2, <1>3, <1>5, <1>6 DEF DropsTo

(* Lexers that differ in the count only return to the same state.          *)
LEMMA SameReturns ==
  ASSUME NEW d \in Lexer, Queued(d.queue, d.cursor, d.stack), NEW e \in Lexer,
         e.line = d.line, e.stack = d.stack, e.queue = d.queue, e.cursor = d.cursor
  PROVE  Relates(d, e)
BY DEF Relates, Returns

(* Moving the cursor in a scan does not change what it would be dropped    *)
(* to.                                                                     *)
LEMMA ScanStep ==
  ASSUME Layout, NoneAssumption, NEW p, NEW s, NEW r, NEW g, ScanOk(p, s, r, g), s.kind # "heredoc",
         NEW q, NEW k, MovedOn(p, q, k), NEW t, Agree(s, t)
  PROVE  ScanOk(q, t, r, g)
<1>1. p \in Lexer /\ p.ahead /\ p.line \in LineRec /\ s.entry \in Nat /\ s.bound \in Nat
  BY DEF ScanOk, Looking
<1>2. k \in Nat /\ p.line.pos <= k
  BY DEF MovedOn
<1>3. PICK m \in LineRec : /\ m = Placed(p.line, k) /\ m.at = p.line.at /\ m.pos = k /\ m.len = p.line.len
                           /\ m.term = p.line.term /\ m.indent = p.line.indent
  <2>1. PICK l \in LineRec : l = p.line
    BY <1>1
  <2>2. /\ Placed(l, k) \in LineRec
        /\ Placed(l, k).at = l.at /\ Placed(l, k).pos = k /\ Placed(l, k).len = l.len
        /\ Placed(l, k).term = l.term /\ Placed(l, k).indent = l.indent
    BY <1>2, PlacedIs
  <2> QED
    BY <2>1, <2>2
<1>4. /\ q \in Lexer /\ q.line = m /\ q.queue = p.queue /\ q.cursor = p.cursor
      /\ q.stack = p.stack /\ q.captured = p.captured /\ q.ahead = p.ahead
  BY <1>1, <1>3 DEF Lexer, MovedOn
<1>5. PICK w \in Seq(LineRec), n \in Nat, c \in Seq(LineRec) :
        /\ c = p.captured /\ w = Swept(p) /\ Len(w) = n + 1 /\ n = Len(c) /\ w[n + 1] = p.line
        /\ \A i \in 1..n : w[i] = c[i]
  BY <1>1, LookedIs
<1>6. PICK v \in Seq(LineRec) :
        v = Swept(q) /\ Len(v) = n + 1 /\ v[n + 1] = m /\ \A i \in 1..n : v[i] = c[i]
  BY <1>4, <1>5, LookedIs
<1>7. \A i \in 1..n + 1 : i \in 1..n \/ i = n + 1
  OBVIOUS
<1>8. \A i \in 1..n + 1 : Reset(v[i]) = Reset(w[i]) /\ Placed(v[i], s.entry) = Placed(w[i], s.entry)
  <2>1. Reset(m) = Reset(p.line) /\ Placed(m, s.entry) = Placed(p.line, s.entry)
    BY <1>1, <1>2, <1>3, PlacedTwice
  <2> QED
    BY <1>5, <1>6, <1>7, <2>1
<1>9. 1 \in 1..n + 1 /\ \A i \in 1..n : i + 1 \in 1..n + 1
  OBVIOUS
<1>10. Top(p.stack) \in Nat
  BY <1>1, BoundIs
<1>11. Looking(q, t)
  <2>1. Shown(w, Top(p.stack), s)
    BY <1>5 DEF ScanOk, Looking
  <2>2. t.kind = s.kind /\ t.entry = s.entry /\ t.bound = s.bound
    BY DEF Agree
  <2>3. ASSUME Entered(p.line, s) PROVE Entered(m, t)
    <3>1. Fixed(m, s.bound)
      BY <1>1, <1>2, <1>3, <2>3, PlacedFixed DEF Entered
    <3>2. s.entry <= m.pos
      BY <1>1, <1>2, <1>3, <2>3, PlaceOf DEF Entered
    <3> QED
      BY <2>2, <3>1, <3>2 DEF Entered
  <2>4. ASSUME Seen(p.line, Top(p.stack), s.kind) PROVE Seen(m, Top(p.stack), t.kind)
    <3>1. Fixed(m, Top(p.stack))
      BY <1>1, <1>2, <1>3, <1>10, <2>4, PlacedFixed DEF Seen
    <3>2. p.line.indent \in Nat /\ p.line.pos \in Nat
      BY <1>1 DEF LineRec
    <3>3. m.indent <= m.pos
      BY <1>2, <1>3, <2>4, <3>2 DEF Seen
    <3> QED
      BY <1>3, <2>2, <2>4, <3>1, <3>3 DEF Seen
  <2>5. Entered(v[1], t)
    <3>1. Entered(w[1], s)
      BY <2>1 DEF Shown
    <3>2. CASE 1 \in 1..n
      BY <1>5, <1>6, <2>2, <3>1, <3>2 DEF Entered
    <3>3. CASE 1 = n + 1
      BY <1>5, <1>6, <2>3, <3>1, <3>3
    <3> QED
      BY <1>7, <1>9, <3>2, <3>3
  <2>6. ASSUME NEW i \in 1..n + 1, i # 1 PROVE Seen(v[i], Top(p.stack), t.kind)
    <3>1. Seen(w[i], Top(p.stack), s.kind)
      BY <1>5, <2>1, <2>6 DEF Shown
    <3>2. CASE i \in 1..n
      BY <1>5, <1>6, <2>2, <3>1, <3>2
    <3>3. CASE i = n + 1
      BY <1>5, <1>6, <2>4, <3>1, <3>3
    <3> QED
      BY <1>7, <3>2, <3>3
  <2>7. Shown(v, Top(q.stack), t)
    BY <1>4, <1>6, <2>5, <2>6 DEF Shown
  <2>8. Top(q.stack) = t.bound
    BY <1>4, <2>2 DEF ScanOk, Looking
  <2> QED
    BY <1>1, <1>3, <1>4, <1>6, <2>2, <2>7, <2>8 DEF Looking
<1>12. PICK d : d = Drop(p, s)
  OBVIOUS
<1>13. PICK e : e = Drop(q, t)
  OBVIOUS
<1>14. /\ d \in Lexer /\ d.stack = Bounded(p.stack, s.bound)
       /\ d.line = SetEof(Placed(w[1], s.entry), Top(Bounded(p.stack, s.bound)))
       /\ d.queue = Returned(w) \o p.queue /\ d.cursor = p.cursor
  <2>1. Looking(p, s)
    BY DEF ScanOk
  <2>2. /\ d \in Lexer /\ d.stack = Bounded(p.stack, s.bound)
        /\ d.line = SetEof(Placed(Swept(p)[1], s.entry), Top(Bounded(p.stack, s.bound)))
        /\ d.queue = Returned(Swept(p)) \o p.queue /\ d.cursor = p.cursor
    BY <1>12, <2>1, DropFields
  <2> QED
    BY <1>5, <2>2
<1>15. /\ e \in Lexer /\ e.stack = Bounded(p.stack, s.bound)
       /\ e.line = SetEof(Placed(v[1], s.entry), Top(Bounded(p.stack, s.bound)))
       /\ e.queue = Returned(v) \o p.queue /\ e.cursor = p.cursor
  <2>1. t.entry = s.entry /\ t.bound = s.bound
    BY DEF Agree
  <2>2. /\ e \in Lexer /\ e.stack = Bounded(q.stack, t.bound)
        /\ e.line = SetEof(Placed(Swept(q)[1], t.entry), Top(Bounded(q.stack, t.bound)))
        /\ e.queue = Returned(Swept(q)) \o q.queue /\ e.cursor = q.cursor
    BY <1>11, <1>13, DropFields
  <2> QED
    BY <1>4, <1>6, <2>1, <2>2
<1>16. Returned(v) = Returned(w)
  <2>1. Returned(v) = [i \in 1..n |-> Reset(v[i + 1])] /\ Returned(w) = [i \in 1..n |-> Reset(w[i + 1])]
    BY <1>5, <1>6 DEF Returned
  <2> QED
    BY <1>8, <1>9, <2>1
<1>17. e.line = d.line
  BY <1>8, <1>9, <1>14, <1>15
<1>18. Dropped(d, p, s, r, g)
  BY <1>12 DEF ScanOk
<1>19. Relates(d, e)
  <2>1. Queued(d.queue, d.cursor, d.stack)
    BY <1>18 DEF Dropped, Settled
  <2> QED
    BY <1>14, <1>15, <1>16, <1>17, <2>1, SameReturns
<1>20. Dropped(e, q, t, r, g)
  BY <1>4, <1>18, <1>19, DroppedKept
<1> QED
  BY <1>11, <1>13, <1>20 DEF ScanOk

(* The line due, seen by a lookahead, would wait again in its own place.   *)
Redue(p, h, a, x, b, u, e, s) ==
  /\ h = Due(p) /\ b = Append(a, x) /\ x.at = h.at /\ x.pos = h.indent /\ x.indent = h.indent
  /\ u = NextLine(p).queue /\ e = NextLine(p).cursor
  /\ Queued(a \o p.queue, p.cursor, s)

(* The line that is due would be queued again as it was.                   *)
LEMMA DueReturns ==
  ASSUME Layout, NEW p \in Lexer, HasNext(p), NEW s \in Seq(FrameRec),
         NEW a \in Seq(LineRec), NEW x \in LineRec, WholeLine(x, s),
         NEW h, NEW b, NEW u, NEW e, Redue(p, h, a, x, b, u, e, s)
  PROVE  Returns(a \o p.queue, p.cursor, b \o u, e, s) /\ h.pos = h.indent
<1>1. /\ p.queue \in Seq(LineRec) /\ p.cursor \in 1..Len(Lines) + 1 /\ h \in LineRec
  BY LexerIs, DueIs DEF Redue
<1>2. /\ h = Due(p) /\ b = Append(a, x) /\ x.at = h.at /\ x.pos = h.indent /\ x.indent = h.indent
      /\ Queued(a \o p.queue, p.cursor, s)
      /\ u = IF p.queue # <<>> THEN Tail(p.queue) ELSE <<>>
      /\ e = IF p.queue # <<>> THEN p.cursor ELSE p.cursor + 1
  BY NextLineIs DEF Redue
<1>3. CASE p.queue # <<>>
  <2>1. Splitted(p.queue, h, u) /\ e = p.cursor
    BY <1>2, <1>3 DEF Due, Splitted
  <2>2. PICK k : Added(a, x, b, k)
    BY <1>2 DEF Added
  <2>3. /\ Swapped(a \o p.queue, b \o u, k, x) /\ (a \o p.queue)[k] = h
        /\ a \o p.queue \in Seq(LineRec) /\ b \o u \in Seq(LineRec)
    <3>1. PICK q \in Seq(LineRec) : q = p.queue
      BY <1>1
    <3>2. Splitted(q, h, u)
      BY <2>1, <3>1
    <3>3. /\ Swapped(a \o q, b \o u, k, x) /\ (a \o q)[k] = h
          /\ a \o q \in Seq(LineRec) /\ b \o u \in Seq(LineRec)
      BY <2>2, <3>2, ConcatSwapped
    <3> QED
      BY <3>1, <3>3
  <2>4. PICK Q \in Seq(LineRec), v \in Seq(LineRec) : Q = a \o p.queue /\ v = b \o u
    BY <2>3
  <2>5. Swapped(Q, v, k, x) /\ Q[k] = h /\ Queued(Q, p.cursor, s)
    BY <1>2, <2>3, <2>4
  <2>6. h.pos = h.indent
    BY <2>5 DEF Swapped, Queued
  <2>7. Replays(x, Q[k])
    BY <1>2, <2>5, <2>6 DEF Replays
  <2>8. Returns(Q, p.cursor, v, p.cursor, s)
    BY <1>1, <2>5, <2>7, SwappedReturns
  <2> QED
    BY <2>1, <2>4, <2>6, <2>8
<1>4. CASE p.queue = <<>>
  <2>1. h = Fresh(p.cursor) /\ u = <<>> /\ e = p.cursor + 1
    BY <1>2, <1>4 DEF Due
  <2>2. p.cursor \in 1..Len(Lines)
    <3>1. p.cursor <= Len(Lines) /\ Len(Lines) \in Nat
      BY <1>4 DEF HasNext, Layout
    <3> QED
      BY <1>1, <3>1
  <2>3. h.at = p.cursor /\ h.pos = 0 /\ h.indent = 0
    BY <2>1, <2>2, FreshIs
  <2>4. Grown(a, p.cursor, x, b, e)
    BY <1>2, <2>1, <2>3 DEF Grown
  <2>5. b \in Seq(LineRec)
    BY <1>2
  <2>6. a \o p.queue = a /\ b \o u = b
    BY <1>4, <2>1, <2>5, ConcatEmptySeq
  <2>7. Queued(a, p.cursor, s)
    BY <1>2, <2>6
  <2>8. Returns(a, p.cursor, b, e, s)
    BY <2>2, <2>4, <2>7, AppendReturns
  <2> QED
    BY <2>3, <2>6, <2>8
<1> QED
  BY <1>3, <1>4

Grows(w, n, m, v) == n \in Nat /\ Len(w) = n + 1 /\ v = Append(w, m)

HasGrown(w, n, m, v) ==
  /\ v \in Seq(LineRec) /\ Len(v) = n + 2 /\ v[1] = w[1] /\ v[n + 2] = m
  /\ \A i \in 1..n + 1 : v[i] = w[i]
  /\ Returned(v) = Append(Returned(w), Reset(m))

(* A scan that has seen one line more would return one line more.          *)
LEMMA ReturnedGrows ==
  ASSUME NEW w \in Seq(LineRec), NEW n, NEW m \in LineRec, NEW v, Grows(w, n, m, v)
  PROVE  HasGrown(w, n, m, v)
<1>0. n \in Nat /\ Len(w) = n + 1 /\ v = Append(w, m)
  BY DEF Grows
<1>1. PICK k \in Nat : k = n + 1 /\ k = Len(w)
  BY <1>0
<1>2. v \in Seq(LineRec) /\ Len(v) = k + 1 /\ v[k + 1] = m /\ \A i \in 1..k : v[i] = w[i]
  BY <1>0, <1>1, AppendOf
<1>3. 1 \in 1..k /\ k + 1 = n + 2
  BY <1>0, <1>1
<1>4. PICK R : R = Returned(w)
  OBVIOUS
<1>5. R = [i \in 1..n |-> Reset(w[i + 1])]
  BY <1>0, <1>4 DEF Returned
<1>6. \A i \in 1..n : w[i + 1] \in LineRec
  BY <1>0
<1>7. \A i \in 1..n : Reset(w[i + 1]) \in LineRec
  BY <1>6, ResetIs
<1>8. R \in Seq(LineRec) /\ Len(R) = n
  <2>1. R \in [1..n -> LineRec]
    BY <1>5, <1>7
  <2> QED
    BY <1>0, <2>1
<1>9. Reset(m) \in LineRec
  BY ResetIs
<1>10. PICK A \in Seq(LineRec) : /\ A = Append(R, Reset(m)) /\ Len(A) = n + 1 /\ A[n + 1] = Reset(m)
                                 /\ \A i \in 1..n : A[i] = R[i]
  <2>1. PICK x \in LineRec : x = Reset(m)
    BY <1>9
  <2>2. PICK j \in Nat : j = Len(R)
    BY <1>8
  <2>3. /\ Append(R, x) \in Seq(LineRec) /\ Len(Append(R, x)) = j + 1
        /\ \A i \in 1..j : Append(R, x)[i] = R[i]
        /\ Append(R, x)[j + 1] = x
    BY <1>8, <2>2, AppendOf
  <2> QED
    BY <1>8, <2>1, <2>2, <2>3
<1>11. PICK B : B = Returned(v)
  OBVIOUS
<1>12. B = [i \in 1..n + 1 |-> Reset(v[i + 1])]
  <2>1. Len(v) - 1 = n + 1
    BY <1>0, <1>1, <1>2
  <2> QED
    BY <1>11, <2>1 DEF Returned
<1>13. \A i \in 1..n + 1 : A[i] = Reset(v[i + 1])
  <2> SUFFICES ASSUME NEW i \in 1..n + 1 PROVE A[i] = Reset(v[i + 1])
    OBVIOUS
  <2>1. CASE i \in 1..n
    <3>1. i + 1 \in 1..k
      BY <1>0, <1>1, <2>1
    <3>2. v[i + 1] = w[i + 1]
      BY <1>2, <3>1
    <3>3. A[i] = R[i] /\ R[i] = Reset(w[i + 1])
      BY <1>5, <1>10, <2>1
    <3> QED
      BY <3>2, <3>3
  <2>2. CASE i = n + 1
    <3>1. i + 1 = k + 1
      BY <1>1, <2>2
    <3> QED
      BY <1>2, <1>10, <2>2, <3>1
  <2>3. i \in 1..n \/ i = n + 1
    BY <1>0
  <2> QED
    BY <2>1, <2>2, <2>3
<1>14. \A i \in 1..n + 1 : Reset(v[i + 1]) \in LineRec
  BY <1>10, <1>13
<1>15. B \in Seq(LineRec) /\ Len(B) = n + 1
  <2>1. B \in [1..n + 1 -> LineRec]
    BY <1>12, <1>14
  <2> QED
    BY <1>0, <2>1
<1>16. A = B
  <2>1. \A i \in 1..n + 1 : A[i] = B[i]
    BY <1>12, <1>13
  <2>2. Len(A) = Len(B) /\ \A i \in 1..Len(A) : A[i] = B[i]
    BY <1>10, <1>15, <2>1
  <2> QED
    BY <1>15, <2>2, SeqEqual
<1> QED
  BY <1>0, <1>1, <1>2, <1>3, <1>4, <1>10, <1>11, <1>16 DEF HasGrown

(* The bound a lookahead runs under cuts what every frame's bound cuts.    *)
LEMMA CeilWhole ==
  ASSUME Layout, NEW C \in Nat, NEW s, NEW W, Ceil(C, s, W), NEW m \in LineRec, Fixed(m, C),
         Offset(m.at) <= C, NEW x, x = Reset(m)
  PROVE  WholeLine(x, s)
<1>1. m.at \in 1..Len(Lines) /\ Offset(m.at) \in Nat /\ m.indent \in Nat
  BY PlaceOf DEF LineRec
<1>2. x.at = m.at
  BY ResetIs
<1> SUFFICES ASSUME \A j \in 1..Len(s) : s[j].bound < Offset(m.at) PROVE Fixed(x, NoBound)
  BY <1>2 DEF WholeLine
<1>3. ASSUME NEW i \in 1..Len(s), C = s[i].bound PROVE FALSE
  BY <1>1, <1>3
<1>4. C = NoBound
  BY <1>3 DEF Ceil
<1>5. Fixed(Placed(m, m.indent), C)
  BY <1>1, PlacedFixed
<1> QED
  BY <1>4, <1>5 DEF Reset

(* A line's number has no part in where it lies.                           *)
LEMMA NumberedIs ==
  ASSUME NEW h \in LineRec, NEW n \in Nat
  PROVE  /\ Numbered(h, n) \in LineRec /\ Numbered(h, n).at = h.at /\ Numbered(h, n).pos = h.pos
         /\ Numbered(h, n).indent = h.indent
BY DEF Numbered, LineRec

(* The line due, delivered.                                                *)
Delivers(q, p, h, m) ==
  /\ h \in LineRec /\ h = Due(p) /\ m \in LineRec /\ q.line = m
  /\ m.at = h.at /\ m.pos = h.pos /\ m.indent = h.indent
  /\ Fixed(m, Top(p.stack)) /\ Offset(m.at) <= Top(p.stack)
  /\ q \in Lexer /\ q.stack = p.stack /\ q.ahead = p.ahead

(* What the next line takes from the queue or the source.                  *)
LEMMA DeliveredIs ==
  ASSUME Layout, NEW p \in Lexer, HasNext(p), NEW q, q = NextLine(p)
  PROVE  \E h, m : Delivers(q, p, h, m)
<1>1. PICK h \in LineRec : h = Due(p) /\ Offset(h.at) <= Top(p.stack)
  BY DueIs
<1>2. PICK k \in LineRec : k = Numbered(h, p.count) /\ k.at = h.at /\ k.pos = h.pos /\ k.indent = h.indent
  BY LexerIs, NumberedIs
<1>3. PICK C \in Nat : C = Top(p.stack)
  BY BoundIs
<1>4. /\ q \in Lexer /\ q.line = SetEof(k, C) /\ q.stack = p.stack /\ q.ahead = p.ahead
  BY <1>1, <1>2, <1>3, NextLineIs
<1>5. PICK m \in LineRec : m = SetEof(k, C) /\ m.at = k.at /\ m.pos = k.pos /\ m.indent = k.indent
  BY SetEofIs
<1>6. Fixed(m, C)
  BY <1>5, SetEofFixed
<1>7. Delivers(q, p, h, m)
  BY <1>1, <1>2, <1>3, <1>4, <1>5, <1>6 DEF Delivers
<1> QED
  BY <1>7

(* Delivering a line in a scan does not change what it would be dropped    *)
(* to.                                                                     *)
LEMMA ScanNext ==
  ASSUME Layout, NoneAssumption, NEW p, NEW s, NEW r, NEW g, ScanOk(p, s, r, g), HasNext(p),
         NEW q, q = NextLine(p)
  PROVE  ScanOk(q, s, r, g)
<1>1. /\ p \in Lexer /\ p.ahead /\ p.line \in LineRec /\ s.entry \in Nat /\ s.bound \in Nat
      /\ Looking(p, s)
  BY DEF ScanOk, Looking
<1>2. PICK h, m : Delivers(q, p, h, m)
  BY <1>1, DeliveredIs
<1>3. /\ h \in LineRec /\ m \in LineRec /\ h = Due(p) /\ m.at = h.at /\ m.pos = h.pos /\ m.indent = h.indent
      /\ q \in Lexer /\ q.line = m /\ q.stack = p.stack /\ q.ahead = p.ahead
      /\ Fixed(m, Top(p.stack)) /\ Offset(m.at) <= Top(p.stack)
  BY <1>2 DEF Delivers
<1>4. PICK w \in Seq(LineRec), n \in Nat : w = Swept(p) /\ Len(w) = n + 1 /\ q.captured = w
  <2>1. q.captured = Append(p.captured, p.line)
    <3>1. p.line # None
      BY <1>1, NoneIsNoLine
    <3> QED
      BY <1>1, <3>1, NextLineIs
  <2>2. /\ Swept(p) = Append(p.captured, p.line) /\ Swept(p) \in Seq(LineRec)
        /\ \E n \in Nat : Len(Swept(p)) = n + 1
    BY <1>1, LookedIs
  <2> QED
    BY <2>1, <2>2
<1>5. PICK v \in Seq(LineRec) : v = Append(w, m) /\ v = Swept(q)
  <2>1. Swept(q) = Append(q.captured, q.line) /\ Swept(q) \in Seq(LineRec)
    BY <1>3, LookedIs
  <2> QED
    BY <1>3, <1>4, <2>1
<1>6. /\ Len(v) = n + 2 /\ v[1] = w[1] /\ v[n + 2] = m
      /\ \A i \in 1..n + 1 : v[i] = w[i]
      /\ Returned(v) = Append(Returned(w), Reset(m))
  <2>1. Grows(w, n, m, v)
    BY <1>4, <1>5 DEF Grows
  <2> QED
    <3>1. HasGrown(w, n, m, v)
      BY <1>3, <2>1, ReturnedGrows
    <3> QED
      BY <3>1 DEF HasGrown
<1>7. PICK d : d = Drop(p, s)
  OBVIOUS
<1>22. PICK e : e = Drop(q, s)
  OBVIOUS
<1>8. Dropped(d, p, s, r, g)
  BY <1>7 DEF ScanOk
<1>9. /\ d \in Lexer /\ d.stack = Bounded(p.stack, s.bound)
      /\ d.line = SetEof(Placed(w[1], s.entry), Top(Bounded(p.stack, s.bound)))
      /\ d.queue = Returned(w) \o p.queue /\ d.cursor = p.cursor
      /\ Returned(w) \in Seq(LineRec)
  <2>1. /\ d \in Lexer /\ d.stack = Bounded(p.stack, s.bound)
        /\ d.line = SetEof(Placed(Swept(p)[1], s.entry), Top(Bounded(p.stack, s.bound)))
        /\ d.queue = Returned(Swept(p)) \o p.queue /\ d.cursor = p.cursor
        /\ Returned(Swept(p)) \in Seq(LineRec)
    BY <1>1, <1>7, DropFields
  <2> QED
    BY <1>4, <2>1
<1>10. PICK x \in LineRec : x = Reset(m) /\ x.at = h.at /\ x.pos = h.indent /\ x.indent = h.indent
  BY <1>3, ResetIs
<1>11. PICK C \in Nat : C = Top(p.stack)
  BY <1>1, BoundIs
<1>12. PICK a \in Seq(LineRec), b \in {Returned(v)} : a = Returned(w)
  BY <1>9
<1>13. PICK t \in Seq(FrameRec) : t = d.stack
  BY <1>9, LexerIs
<1>14. WholeLine(x, t)
  <2>1. Ceil(C, t, Waits(d.queue, d.cursor)) /\ Fixed(m, C) /\ Offset(m.at) <= C
    BY <1>3, <1>8, <1>11, <1>13 DEF Dropped
  <2> QED
    BY <1>3, <1>10, <2>1, CeilWhole
<1>15. Redue(p, h, a, x, b, q.queue, q.cursor, t)
  <2>1. Queued(a \o p.queue, p.cursor, t)
    BY <1>8, <1>9, <1>12, <1>13 DEF Dropped, Settled
  <2>2. b = Append(a, x)
    BY <1>6, <1>10, <1>12
  <2> QED
    BY <1>3, <1>10, <2>1, <2>2 DEF Redue
<1>16. Returns(a \o p.queue, p.cursor, b \o q.queue, q.cursor, t) /\ h.pos = h.indent
  BY <1>1, <1>14, <1>15, DueReturns
<1>17. Looking(q, s)
  <2>1. Shown(w, C, s)
    BY <1>1, <1>4, <1>11 DEF Looking
  <2>2. Seen(m, C, s.kind)
    <3>1. m.indent \in Nat
      BY <1>3 DEF LineRec
    <3>2. m.indent = m.pos
      BY <1>3, <1>16
    <3>3. m.indent <= m.pos
      BY <3>1, <3>2
    <3> QED
      BY <1>3, <1>11, <3>2, <3>3 DEF Seen
  <2>3. ASSUME NEW i \in 1..n + 2, i # 1 PROVE Seen(v[i], C, s.kind)
    <3>1. CASE i \in 1..n + 1
      BY <1>4, <1>6, <2>1, <2>3, <3>1 DEF Shown
    <3>2. CASE i = n + 2
      BY <1>6, <2>2, <3>2
    <3>3. i \in 1..n + 1 \/ i = n + 2
      OBVIOUS
    <3> QED
      BY <3>1, <3>2, <3>3
  <2>4. Shown(v, C, s)
    BY <1>6, <2>1, <2>3 DEF Shown
  <2>5. s.kind # "heredoc" => Top(q.stack) = s.bound
    BY <1>1, <1>3 DEF Looking
  <2> QED
    BY <1>1, <1>3, <1>5, <1>11, <2>4, <2>5 DEF Looking
<1>18. /\ e \in Lexer /\ e.stack = Bounded(p.stack, s.bound)
       /\ e.line = SetEof(Placed(w[1], s.entry), Top(Bounded(p.stack, s.bound)))
       /\ e.queue = b \o q.queue /\ e.cursor = q.cursor
  <2>1. /\ e \in Lexer /\ e.stack = Bounded(q.stack, s.bound)
        /\ e.line = SetEof(Placed(Swept(q)[1], s.entry), Top(Bounded(q.stack, s.bound)))
        /\ e.queue = Returned(Swept(q)) \o q.queue /\ e.cursor = q.cursor
    BY <1>22, <1>17, DropFields
  <2> QED
    BY <1>3, <1>5, <1>6, <1>12, <2>1
<1>19. Relates(d, e)
  BY <1>9, <1>12, <1>13, <1>16, <1>18 DEF Relates
<1>20. Agree(s, s)
  BY DEF Agree
<1>21. Dropped(e, q, s, r, g)
  BY <1>3, <1>8, <1>19, <1>20, DroppedKept
<1> QED
  BY <1>22, <1>17, <1>21 DEF ScanOk

(* A lookahead that has only begun is dropped without a trace.             *)
LEMMA SameFrame ==
  ASSUME NEW f \in FrameRec, NEW h \in FrameRec, f.kind = h.kind, f.line = h.line, f.bound = h.bound
  PROVE  f = h
BY DEF FrameRec

(* Setting the top frame's bound and setting it back leaves the stack.     *)
LEMMA BoundedBack ==
  ASSUME NEW s \in Seq(FrameRec), NEW C \in Nat, Top(s) \in Nat
  PROVE  Bounded(Bounded(s, C), Top(s)) = s /\ Bounded(s, Top(s)) = s
<1>1. PICK n \in Nat : n = Len(s)
  OBVIOUS
<1>2. \A i \in 1..n : s[i] \in FrameRec
  BY <1>1
<1>3. PICK b \in Nat : b = Top(s)
  OBVIOUS
<1>4. \A i \in 1..n : i = n => s[i].bound = b
  <2>1. n \in 1..n => s # <<>>
    BY <1>1
  <2> QED
    BY <1>1, <1>3, <2>1 DEF Top
<1>5. PICK t \in Seq(FrameRec) : /\ t = Bounded(s, C) /\ Len(t) = n
         /\ \A i \in 1..n : t[i].line = s[i].line /\ t[i].kind = s[i].kind /\ (i # n => t[i].bound = s[i].bound)
  <2>1. /\ Bounded(s, C) \in Seq(FrameRec) /\ Len(Bounded(s, C)) = Len(s)
        /\ \A i \in 1..Len(s) : /\ Bounded(s, C)[i].line = s[i].line /\ Bounded(s, C)[i].kind = s[i].kind
                                /\ Bounded(s, C)[i].bound = IF i = Len(s) THEN C ELSE s[i].bound
    BY BoundedIs
  <2> QED
    BY <1>1, <2>1
<1>6. ASSUME NEW u \in Seq(FrameRec), Len(u) = n,
             \A i \in 1..n : u[i].line = s[i].line /\ u[i].kind = s[i].kind /\ (i # n => u[i].bound = s[i].bound)
      PROVE  Bounded(u, b) = s
  <2>1. PICK v \in Seq(FrameRec) : /\ v = Bounded(u, b) /\ Len(v) = n
           /\ \A i \in 1..n : v[i].line = u[i].line /\ v[i].kind = u[i].kind
                              /\ v[i].bound = IF i = n THEN b ELSE u[i].bound
    <3>1. /\ Bounded(u, b) \in Seq(FrameRec) /\ Len(Bounded(u, b)) = Len(u)
          /\ \A i \in 1..Len(u) : /\ Bounded(u, b)[i].line = u[i].line /\ Bounded(u, b)[i].kind = u[i].kind
                                  /\ Bounded(u, b)[i].bound = IF i = Len(u) THEN b ELSE u[i].bound
      BY BoundedIs
    <3> QED
      BY <1>6, <3>1
  <2>2. \A i \in 1..n : v[i] = s[i]
    <3> SUFFICES ASSUME NEW i \in 1..n PROVE v[i] = s[i]
      OBVIOUS
    <3>1. v[i] \in FrameRec /\ s[i] \in FrameRec
      BY <1>2, <2>1
    <3>2. v[i].line = s[i].line /\ v[i].kind = s[i].kind /\ v[i].bound = s[i].bound
      BY <1>4, <1>6, <2>1
    <3> QED
      BY <3>1, <3>2, SameFrame
  <2>3. Len(v) = Len(s) /\ \A i \in 1..Len(v) : v[i] = s[i]
    BY <1>1, <2>1, <2>2
  <2> QED
    BY <2>1, <2>3, SeqEqual
<1>7. Bounded(t, b) = s
  BY <1>5, <1>6
<1>8. Bounded(s, b) = s
  BY <1>1, <1>6
<1> QED
  BY <1>3, <1>5, <1>7, <1>8

Opens(p, b, C) ==
  /\ p \in Lexer /\ p.ahead /\ p.captured = <<>> /\ p.line = b.line /\ p.queue = b.queue
  /\ p.cursor = b.cursor /\ p.stack = Bounded(b.stack, C)

(* A scan that opens on a settled lexer would be dropped to that lexer.    *)
LEMMA ScanStart ==
  ASSUME Layout, NoneAssumption, NEW b, NEW r, NEW g, Settled(b, r, g), b.line \in LineRec,
         NEW C \in Nat, Ceil(C, b.stack, Waits(b.queue, b.cursor)), NEW p, Opens(p, b, C),
         NEW s, s.entry = b.line.pos, s.bound = Top(b.stack), s.kind # "heredoc" => C = s.bound,
         s.kind = "peek" => Unmoved(b, s.before)
  PROVE  ScanOk(p, s, r, g)
<1>1. b \in Lexer /\ Queued(b.queue, b.cursor, b.stack) /\ Nested(b.line, b.stack, Waits(b.queue, b.cursor))
  BY DEF Settled, Lies
<1>2. PICK S \in Seq(FrameRec) : S = b.stack
  BY <1>1, LexerIs
<1>3. Top(S) \in Nat /\ Top(b.stack) \in Nat
  BY <1>1, <1>2, BoundIs
<1>4. /\ p \in Lexer /\ p.ahead /\ p.captured = <<>> /\ p.line = b.line /\ p.queue = b.queue
      /\ p.cursor = b.cursor /\ p.stack = Bounded(S, C)
  BY <1>2 DEF Opens
<1>5. PICK l \in LineRec : l = b.line
  OBVIOUS
<1>6. l.pos \in Nat /\ Fixed(l, Top(S))
  <2>1. l.pos \in Nat
    BY DEF LineRec
  <2>2. l # None
    BY NoneIsNoLine
  <2> QED
    BY <1>1, <1>2, <1>5, <2>1, <2>2 DEF Nested, Levels
<1>7. Top(p.stack) = C
  <2>1. Top(Bounded(S, C)) = IF S = <<>> THEN NoBound ELSE C
    BY BoundedIs
  <2>2. S = <<>> => C = NoBound
    <3>1. S = <<>> => Len(S) = 0
      OBVIOUS
    <3>2. S = <<>> => 1..Len(S) = {}
      BY <3>1
    <3> QED
      BY <1>2, <3>2 DEF Ceil
  <2> QED
    BY <1>4, <2>1, <2>2
<1>8. PICK w \in Seq(LineRec) : w = Swept(p) /\ w = <<l>> /\ Len(w) = 1 /\ w[1] = l
  <2>1. Swept(p) = Append(p.captured, p.line) /\ Swept(p) \in Seq(LineRec)
    <3>1. p \in Lexer /\ p.line \in LineRec
      BY <1>4
    <3> QED
      BY <3>1, LookedIs
  <2>2. Swept(p) = <<l>>
    BY <1>4, <1>5, <2>1
  <2>3. <<l>> \in Seq(LineRec) /\ Len(<<l>>) = 1 /\ <<l>>[1] = l
    OBVIOUS
  <2> QED
    BY <2>2, <2>3
<1>9. Looking(p, s)
  <2>1. Entered(l, s)
    BY <1>2, <1>5, <1>6 DEF Entered
  <2>2. Shown(w, C, s)
    BY <1>8, <2>1 DEF Shown
  <2> QED
    BY <1>2, <1>3, <1>4, <1>5, <1>6, <1>7, <1>8, <2>2 DEF Looking
<1>10. PICK d : d = Drop(p, s)
  OBVIOUS
<1>11. /\ d \in Lexer /\ d.stack = Bounded(p.stack, s.bound)
       /\ d.line = SetEof(Placed(Swept(p)[1], s.entry), Top(Bounded(p.stack, s.bound)))
       /\ d.queue = Returned(Swept(p)) \o p.queue /\ d.cursor = p.cursor
  BY <1>9, <1>10, DropFields
<1>12. d.stack = S
  BY <1>2, <1>3, <1>4, <1>11, BoundedBack
<1>13. d.line = l
  <2>1. Placed(l, l.pos) = l
    BY DEF Placed, LineRec
  <2>2. d.line = SetEof(l, Top(S))
    BY <1>5, <1>8, <1>11, <1>12, <2>1
  <2> QED
    BY <1>6, <2>2 DEF Fixed
<1>14. d.queue = b.queue
  <2>1. Returned(w) = <<>>
    BY <1>8 DEF Returned
  <2>2. b.queue \in Seq(LineRec)
    BY <1>1, LexerIs
  <2> QED
    BY <1>4, <1>8, <1>11, <2>1, <2>2, ConcatEmptySeq
<1>15. Relates(b, d)
  BY <1>1, <1>2, <1>4, <1>5, <1>11, <1>12, <1>13, <1>14, SameReturns
<1>16. Dropped(b, p, s, r, g)
  BY <1>7 DEF Dropped
<1>17. Agree(s, s)
  BY DEF Agree
<1>18. Dropped(d, p, s, r, g)
  BY <1>15, <1>16, <1>17, DroppedKept
<1> QED
  BY <1>9, <1>10, <1>18 DEF ScanOk

-----------------------------------------------------------------------------
(* The bound a heredoc's lookahead runs under.                             *)

(* A set of numbers has a least one.                                       *)
LEMMA LowestExists ==
  ASSUME NEW H \in SUBSET Nat, H # {}
  PROVE  \E k \in H : \A j \in H : k <= j
<1> DEFINE R == OpToRel(<, Nat)
<1>1. PICK k \in H : \A j \in H : ~(<<j, k>> \in R)
  <2> HIDE DEF R
  <2>1. IsWellFoundedOn(R, Nat)
    BY NatLessThanWellFounded DEF R
  <2> QED
    BY <2>1, WFMin
<1>2. \A j \in H : ~(j < k)
  BY <1>1 DEF OpToRel
<1>3. \A j \in H : k <= j
  BY <1>2
<1> QED
  BY <1>3

(* A bounded set of numbers has a greatest one.                            *)
LEMMA HighestExists ==
  ASSUME NEW n \in Nat, NEW H \in SUBSET (0..n), H # {}
  PROVE  \E k \in H : \A j \in H : j <= k
<1> DEFINE D == {n - i : i \in H}
<1>1. D \in SUBSET Nat /\ D # {}
  <2>1. PICK i : i \in H
    OBVIOUS
  <2>2. n - i \in D
    BY <2>1
  <2>3. \A j \in H : n - j \in Nat
    OBVIOUS
  <2> QED
    BY <2>2, <2>3
<1>2. PICK d \in D : \A e \in D : d <= e
  BY <1>1, LowestExists
<1>3. PICK k \in H : d = n - k
  BY <1>2
<1>4. \A j \in H : n - k <= n - j
  BY <1>2, <1>3
<1>5. \A j \in H : j <= k
  BY <1>4
<1> QED
  BY <1>5

LevelLine(l, s, i) == IF i = Len(s) THEN l ELSE s[i + 1].line

(* The bound a heredoc's search runs under is one no waiting line          *)
(* straddles.                                                              *)
LEMMA CeilingIs ==
  ASSUME Layout, NoneAssumption, NEW p \in Lexer, NEW l \in LineRec, l = p.line,
         NEW s \in Seq(FrameRec), s = p.stack, NEW W, Nested(l, s, W)
  PROVE  Ceiling(p) \in Nat /\ Ceil(Ceiling(p), s, W)
<1>1. PICK n \in Nat : n = Len(s)
  OBVIOUS
<1>2. /\ \A i \in 1..n : s[i] \in FrameRec /\ s[i].bound \in Nat /\ s[i].line \in LineRec
      /\ \A i \in 0..n : BoundOf(s, i) \in Nat
      /\ NoBound \in Nat
  BY <1>1, TopIs
<1>3. PICK H : H = {i \in 0..n : LevelLine(l, s, i).term}
  OBVIOUS
<1>4. Ceiling(p) = IF H = {} THEN NoBound ELSE BoundOf(s, CHOOSE i \in H : \A j \in H : j <= i)
  BY <1>1, <1>3 DEF Ceiling, LevelLine, BoundOf
<1>5. H # {} => \E k \in H : \A j \in H : j <= k
  BY <1>3, HighestExists
<1>6. ASSUME NEW w \in W, NEW i \in 1..n, Offset(w.at) <= s[i].bound
      PROVE  \E k \in H : i <= k
  <2>1. PICK J : J = {j \in 1..n : Offset(w.at) <= s[j].bound}
    OBVIOUS
  <2>2. PICK k \in J : \A j \in J : j <= k
    <3>1. J \in SUBSET (0..n) /\ J # {}
      BY <1>6, <2>1
    <3> QED
      BY <3>1, HighestExists
  <2>3. k \in 1..n /\ Offset(w.at) <= s[k].bound /\ i <= k
    BY <1>6, <2>1, <2>2
  <2>4. w.at \in 1..Len(Lines)
    BY DEF Nested, Typed, WaitRec
  <2>5. PICK m \in LineRec : m = LevelLine(l, s, k)
    <3>1. k # n => k + 1 \in 1..n
      BY <2>3
    <3> QED
      BY <1>1, <1>2, <3>1 DEF LevelLine
  <2>6. m.at \in 1..Len(Lines)
    BY PlaceOf
  <2>7. Fixed(m, s[k].bound) /\ m.at < w.at
    <3>1. CASE k = n
      <4>1. m = l /\ l # None
        BY <1>1, <2>5, <3>1, NoneIsNoLine DEF LevelLine
      <4>2. Top(s) = s[k].bound
        <5>1. s # <<>>
          BY <1>1, <2>3
        <5> QED
          BY <1>1, <3>1, <5>1 DEF Top
      <4> QED
        BY <4>1, <4>2 DEF Nested, Levels, Behind
    <3>2. CASE k # n
      <4>1. k + 1 \in 1..n /\ k + 1 - 1 = k /\ k # 0
        BY <2>3, <3>2
      <4>2. m = s[k + 1].line
        BY <1>1, <2>5, <3>2 DEF LevelLine
      <4>3. Fixed(m, s[k].bound)
        <5>1. \A c \in 1..n : Fixed(s[c].line, BoundOf(s, c - 1))
          BY <1>1 DEF Nested, Levels
        <5>2. BoundOf(s, k) = s[k].bound
          BY <4>1 DEF BoundOf
        <5>3. PICK j \in 1..n : j = k + 1
          BY <4>1
        <5>4. Fixed(s[j].line, BoundOf(s, j - 1)) /\ j - 1 = k
          <6>1. j - 1 = k
            BY <2>3, <5>3
          <6>2. Fixed(s[j].line, BoundOf(s, j - 1))
            BY <5>1
          <6> QED
            BY <6>1, <6>2
        <5> QED
          BY <4>2, <5>2, <5>3, <5>4
      <4>4. k + 1 \notin J
        BY <2>2, <2>3
      <4>5. ~(Offset(w.at) <= s[k + 1].bound)
        BY <2>1, <4>1, <4>4
      <4>6. Offset(m.at) <= s[k + 1].bound
        BY <1>1, <4>1, <4>2 DEF Nested, Suspended
      <4>7. Offset(m.at) \in Nat /\ Offset(w.at) \in Nat /\ s[k + 1].bound \in Nat
        BY <1>2, <2>4, <2>6, <4>1, LineAt
      <4>8. Offset(m.at) < Offset(w.at)
        BY <4>5, <4>6, <4>7
      <4> QED
        BY <2>4, <2>6, <4>3, <4>8, LineOrder
    <3> QED
      BY <3>1, <3>2
  <2>8. HasNewline(m.at)
    <3>1. Len(Lines) \in Nat
      BY DEF Layout
    <3>2. m.at # Len(Lines)
      BY <2>4, <2>6, <2>7, <3>1
    <3> QED
      BY <2>6, <3>2 DEF Layout
  <2>9. s[k].bound >= Extent(m.at)
    <3>1. Extent(m.at) < Offset(w.at)
      BY <2>4, <2>6, <2>7, LineOrder
    <3>2. Extent(m.at) \in Nat /\ Offset(w.at) \in Nat /\ s[k].bound \in Nat
      BY <1>2, <2>3, <2>4, <2>6, LineAt
    <3> QED
      BY <2>3, <3>1, <3>2
  <2>10. m.term
    <3>1. s[k].bound \in Nat
      BY <1>2, <2>3
    <3>2. m.term = (s[k].bound >= Extent(m.at) /\ HasNewline(m.at))
      BY <2>7, <3>1, FixedIs
    <3> QED
      BY <2>8, <2>9, <3>2
  <2>11. k \in H
    BY <1>3, <2>3, <2>5, <2>10
  <2> QED
    BY <2>3, <2>11
<1>7. CASE H = {}
  <2>1. Ceiling(p) = NoBound
    BY <1>4, <1>7
  <2>2. Ceil(NoBound, s, W)
    BY <1>1, <1>6, <1>7 DEF Ceil
  <2> QED
    BY <1>2, <2>1, <2>2
<1>8. CASE H # {}
  <2>1. PICK k : k = CHOOSE i \in H : \A j \in H : j <= i
    OBVIOUS
  <2>2. k \in H /\ \A j \in H : j <= k
    BY <1>5, <1>8, <2>1
  <2>3. k \in 0..n
    BY <1>3, <2>2
  <2>4. Ceiling(p) = BoundOf(s, k)
    BY <1>4, <1>8, <2>1
  <2>5. BoundOf(s, k) = NoBound \/ \E i \in 1..n : BoundOf(s, k) = s[i].bound
    BY <2>3 DEF BoundOf
  <2>6. ASSUME NEW w \in W, NEW i \in 1..n, Offset(w.at) <= s[i].bound PROVE BoundOf(s, k) <= s[i].bound
    <3>1. i <= k
      <4>1. PICK j \in H : i <= j
        BY <1>6, <2>6
      <4>2. j <= k /\ j \in 0..n
        BY <1>3, <2>2
      <4> QED
        BY <2>3, <4>1, <4>2
    <3>2. k \in 1..n /\ BoundOf(s, k) = s[k].bound
      BY <2>3, <3>1 DEF BoundOf
    <3>3. CASE i = k
      BY <1>2, <3>2, <3>3
    <3>4. CASE i # k
      <4>1. i < k
        BY <2>3, <3>1, <3>4
      <4> QED
        BY <1>1, <2>6, <3>2, <4>1 DEF Nested, Inner
    <3> QED
      BY <3>3, <3>4
  <2>7. Ceil(BoundOf(s, k), s, W)
    BY <1>1, <2>5, <2>6 DEF Ceil
  <2> QED
    BY <1>2, <2>3, <2>4, <2>7
<1> QED
  BY <1>7, <1>8

-----------------------------------------------------------------------------
(* A body is opened.                                                       *)

(* A frame whose bound lies before the source keeps the queue's order.     *)
LEMMA QueuedPushed ==
  ASSUME NEW q, NEW c, NEW s \in Seq(FrameRec), Queued(q, c, s), NEW f \in FrameRec, f.bound < Offset(c),
         NEW t, t = Append(s, f)
  PROVE  Queued(q, c, t)
<1>1. PICK n \in Nat : n = Len(s)
  OBVIOUS
<1>2. Len(t) = n + 1 /\ (\A i \in 1..n : t[i] = s[i]) /\ t[n + 1] = f
  BY <1>1, AppendOf
<1>3. \A i \in 1..n + 1 : i \in 1..n \/ i = n + 1
  OBVIOUS
<1>4. \A i \in 1..n : i \in 1..n + 1
  OBVIOUS
<1>5. \A i \in 1..n : s[i].bound < Offset(c)
  BY <1>1 DEF Queued
<1>6. \A i \in 1..n + 1 : t[i].bound < Offset(c)
  BY <1>2, <1>3, <1>5
<1>7. Whole(q, t)
  <2> SUFFICES ASSUME NEW i \in 1..Len(q), \A j \in 1..n + 1 : t[j].bound < Offset(q[i].at)
               PROVE  Fixed(q[i], NoBound)
    BY <1>2 DEF Whole
  <2>1. \A j \in 1..n : s[j].bound < Offset(q[i].at)
    BY <1>2, <1>4
  <2> QED
    BY <1>1, <2>1 DEF Queued, Whole
<1> QED
  BY <1>2, <1>6, <1>7 DEF Queued

(* The current line was taken from the source.                             *)
LEMMA CursorAhead ==
  ASSUME Layout, NoneAssumption, NEW q \in Seq(LineRec), NEW c \in 1..Len(Lines) + 1, NEW l \in LineRec,
         Behind(l, Waits(q, c))
  PROVE  l.at < c
<1>1. l # None
  BY NoneIsNoLine
<1>2. PICK N \in Nat : N = Len(Lines)
  BY DEF Layout
<1>3. l.at \in 1..N /\ c \in 1..N + 1
  BY <1>2, PlaceOf
<1>4. CASE c \in 1..N
  <2>1. c \in c..Len(Lines)
    BY <1>2, <1>4
  <2>2. PICK w : w = [at |-> c, pos |-> 0]
    OBVIOUS
  <2>3. w \in Waits(q, c) /\ w.at = c
    BY <2>1, <2>2, WaitsIs
  <2> QED
    BY <1>1, <2>3 DEF Behind
<1>5. CASE c = N + 1
  BY <1>3, <1>5
<1> QED
  BY <1>3, <1>4, <1>5

Closing(q, d, c) ==
  q = Push(d, "body", Placed(c, c.pos + 1), Here(c), SetEof(d.line, Here(c)))

(* A scan that finds the byte closing a body leaves the lexer settled.     *)
LEMMA BodyCloses ==
  ASSUME Layout, NoneAssumption, NEW p, NEW s, NEW r, NEW g, ScanOk(p, s, r, g), s.kind = "body",
         HasByte(p.line), NEW d, d = Drop(p, s), NEW c, c = p.line, NEW q, Closing(q, d, c)
  PROVE  Settled(q, r, g \cup {Here(c)}) /\ ~q.ahead /\ q.captured = <<>>
<1>1. /\ p \in Lexer /\ p.ahead /\ c \in LineRec /\ s.entry \in Nat /\ s.bound \in Nat
      /\ Looking(p, s) /\ Top(p.stack) = s.bound
  BY DEF ScanOk, Looking
<1>2. Dropped(d, p, s, r, g)
  BY DEF ScanOk
<1>3. /\ d \in Lexer /\ ~d.ahead /\ d.captured = <<>>
      /\ d.stack = Bounded(p.stack, s.bound) /\ d.line \in LineRec
      /\ d.line = SetEof(Placed(Swept(p)[1], s.entry), Top(Bounded(p.stack, s.bound)))
      /\ d.queue = Returned(Swept(p)) \o p.queue
      /\ Returned(Swept(p)) \in Seq(LineRec)
      /\ \E n \in Nat : /\ Len(Swept(p)) = n + 1 /\ Len(Returned(Swept(p))) = n
                        /\ \A i \in 1..n : Returned(Swept(p))[i] = Reset(Swept(p)[i + 1])
  BY <1>1, DropFields
<1>4. PICK w \in Seq(LineRec) : w = Swept(p)
  BY <1>1, LookedIs
<1>5. PICK n \in Nat : Len(w) = n + 1 /\ Len(Returned(w)) = n /\ \A i \in 1..n : Returned(w)[i] = Reset(w[i + 1])
  BY <1>3, <1>4
<1>6. w[n + 1] = c
  <2>1. \E m \in Nat : Len(Swept(p)) = m + 1 /\ Swept(p)[m + 1] = c
    BY <1>1, LookedIs
  <2>2. PICK m \in Nat : Len(w) = m + 1 /\ w[m + 1] = c
    BY <1>4, <2>1
  <2>3. m = n
    BY <1>5, <2>2
  <2> QED
    BY <2>2, <2>3
<1>7. PICK S \in Seq(FrameRec) : S = d.stack
  BY <1>3, LexerIs
<1>8. PICK b \in Nat : b = s.bound /\ b = Top(S) /\ b = Top(p.stack)
  <2>1. PICK P \in Seq(FrameRec) : P = p.stack
    BY <1>1, LexerIs
  <2>2. Top(Bounded(P, s.bound)) = IF P = <<>> THEN NoBound ELSE s.bound
    BY <1>1, BoundedIs
  <2>3. P = <<>> => Top(P) = NoBound
    BY DEF Top
  <2>4. Top(S) = s.bound
    BY <1>1, <1>3, <1>7, <2>1, <2>2, <2>3
  <2> QED
    BY <1>1, <2>4
<1>9. PICK W : W = Waits(d.queue, d.cursor)
  OBVIOUS
<1>10. PICK l \in LineRec : l = d.line
  BY <1>3
<1>11. /\ Lies(l, S, W, r, g) /\ Nested(l, S, W) /\ Queued(d.queue, d.cursor, S)
  BY <1>2, <1>7, <1>9, <1>10 DEF Dropped, Settled, Lies
<1>12. d.queue \in Seq(LineRec) /\ d.cursor \in 1..Len(Lines) + 1 /\ p.queue \in Seq(LineRec)
  BY <1>1, <1>3, LexerIs
<1>13. Shown(w, b, s)
  BY <1>1, <1>4, <1>8 DEF Looking
<1>14. Behind(l, W) /\ l # None /\ l.at < d.cursor
  <2>1. Behind(l, W)
    BY <1>11 DEF Nested
  <2>2. Behind(l, Waits(d.queue, d.cursor))
    BY <1>9, <2>1
  <2>3. l.at < d.cursor
    BY <1>12, <2>2, CursorAhead
  <2> QED
    BY <2>1, <2>3, NoneIsNoLine
<1>15. Fixed(c, b) /\ ClosesOn(l, W, c) /\ c.at < d.cursor
  <2>1. CASE n = 0
    <3>1. w[1] = c
      BY <1>6, <2>1
    <3>2. Entered(c, s)
      BY <1>13, <3>1 DEF Shown
    <3>3. l.at = c.at /\ l.pos = s.entry
      <4>1. PICK m \in LineRec : m = Placed(c, s.entry) /\ m.at = c.at /\ m.pos = s.entry
        <5>1. PICK k \in Nat : k = s.entry
          BY <1>1
        <5>2. Placed(c, k) \in LineRec /\ Placed(c, k).at = c.at /\ Placed(c, k).pos = k
          BY <1>1, PlacedIs
        <5> QED
          BY <5>1, <5>2
      <4>2. l = SetEof(m, b)
        BY <1>3, <1>4, <1>7, <1>8, <1>10, <3>1, <4>1
      <4>3. SetEof(m, b).at = m.at /\ SetEof(m, b).pos = m.pos
        BY SetEofIs
      <4> QED
        BY <4>1, <4>2, <4>3
    <3>4. Fixed(c, b)
      BY <1>8, <3>2 DEF Entered
    <3>5. ClosesOn(l, W, c)
      BY <3>2, <3>3 DEF Entered, ClosesOn
    <3> QED
      BY <1>14, <3>3, <3>4, <3>5
  <2>2. CASE n # 0
    <3>1. n \in 1..n /\ n + 1 # 1 /\ n + 1 \in 1..Len(w)
      BY <1>5, <2>2
    <3>2. Seen(c, b, s.kind)
      BY <1>6, <1>13, <3>1 DEF Shown
    <3>3. PICK x \in LineRec : x = Reset(c) /\ x.at = c.at /\ x.pos = c.indent /\ x.indent = c.indent
      BY <1>1, ResetIs
    <3>4. PICK R \in Seq(LineRec), Q \in Seq(LineRec) : R = Returned(w) /\ Q = p.queue
      BY <1>3, <1>4, <1>12
    <3>5. R[n] = x
      BY <1>5, <1>6, <3>1, <3>3, <3>4
    <3>6. PICK m \in Nat, k \in Nat : m = Len(R) /\ k = Len(Q)
      OBVIOUS
    <3>7. Len(R \o Q) = m + k /\ \A i \in 1..m : (R \o Q)[i] = R[i]
      BY <3>6, ConcatOf
    <3>8. d.queue = R \o Q
      BY <1>3, <1>4, <3>4
    <3>9. m = n
      BY <1>5, <3>4, <3>6
    <3>10. n \in 1..Len(d.queue) /\ d.queue[n] = x
      BY <3>1, <3>5, <3>7, <3>8, <3>9
    <3>11. Entry(x) \in W /\ x.at < d.cursor
      <4>1. Entry(d.queue[n]) \in Waits(d.queue, d.cursor)
        BY <1>12, <3>10, WaitsIs
      <4>2. d.queue[n].at < d.cursor
        BY <1>11, <3>10 DEF Queued
      <4> QED
        BY <1>9, <3>10, <4>1, <4>2
    <3>12. Entry(x).at = c.at /\ Entry(x).pos = c.indent
      BY <3>3, EntryIs
    <3>13. l.at < c.at
      BY <1>14, <3>11, <3>12 DEF Behind
    <3>14. l.at # c.at
      <4>1. l.at \in 1..Len(Lines)
        BY PlaceOf
      <4>2. l.at \in Nat
        BY <4>1, LineAt
      <4> QED
        BY <3>13, <4>2
    <3>15. ClosesOn(l, W, c)
      BY <3>2, <3>11, <3>12, <3>14 DEF Seen, ClosesOn
    <3> QED
      BY <3>2, <3>3, <3>11, <3>15 DEF Seen
  <2> QED
    BY <2>1, <2>2
<1>16. Closes(l, S, W, c)
  BY <1>1, <1>8, <1>15 DEF Closes
<1>17. PICK h \in Nat : h = Here(c)
  BY <1>1, PlaceOf
<1>18. PICK m \in LineRec : m = Placed(c, c.pos + 1)
  <2>1. c.pos + 1 \in Nat
    BY <1>1, PlaceOf
  <2> QED
    BY <1>1, <2>1, PlacedIs
<1>19. PICK o \in LineRec : o = SetEof(l, h)
  BY SetEofIs
<1>20. PICK f : f = [kind |-> "body", line |-> m, bound |-> h]
  OBVIOUS
<1>21. /\ f \in FrameRec /\ f.line = m /\ f.bound = h
       /\ q \in Lexer /\ q.line = o /\ q.stack = Append(d.stack, f)
       /\ q.queue = d.queue /\ q.cursor = d.cursor /\ q.captured = d.captured /\ q.ahead = d.ahead
  <2>1. Framing(f, q, d, "body", m, h, o)
    BY <1>10, <1>17, <1>18, <1>19, <1>20 DEF Framing, Closing
  <2>2. d \in Lexer /\ o \in LineRec \cup {None} /\ "body" \in {"body", "heredoc"}
    BY <1>3
  <2>3. Framed(f, q, d, m, h, o)
    BY <2>1, <2>2, PushIs
  <2> QED
    BY <2>3 DEF Framed
<1>22. Lies(o, Append(S, f), W, r, g \cup {Here(c)})
  <2>1. Lies(SetEof(l, Here(c)), Append(S, f), W, r, g \cup {Here(c)})
    BY <1>11, <1>16, <1>17, <1>18, <1>21, CloseLies
  <2> QED
    BY <1>17, <1>19, <2>1
<1>23. h < Offset(d.cursor)
  <2>1. Here(c) < Extent(c.at)
    BY <1>11, <1>16, CloseIs
  <2>2. c.at \in 1..Len(Lines) /\ d.cursor \in Nat
    <3>1. PICK N \in Nat : N = Len(Lines)
      BY DEF Layout
    <3>2. d.cursor \in 1..N + 1
      BY <1>12, <3>1
    <3>3. c.at \in 1..Len(Lines)
      BY <1>1, PlaceOf
    <3> QED
      BY <3>2, <3>3
  <2>3. Extent(c.at) < Offset(d.cursor)
    BY <1>15, <2>2 DEF Layout
  <2>4. Extent(c.at) \in Nat /\ Offset(d.cursor) \in Nat
    BY <2>2, LineAt DEF Layout
  <2> QED
    BY <1>17, <2>1, <2>3, <2>4
<1>24. Queued(d.queue, d.cursor, Append(S, f))
  BY <1>11, <1>21, <1>23, QueuedPushed
<1> QED
  BY <1>3, <1>7, <1>9, <1>21, <1>22, <1>24 DEF Settled

-----------------------------------------------------------------------------
(* A sequence with one element more.                                       *)
LEMMA OneLonger ==
  ASSUME NEW S, NEW s \in Seq(S), NEW y \in S, NEW n \in Nat, n = Len(s), NEW t, t = s \o <<y>>
  PROVE  t \in Seq(S) /\ Len(t) = n + 1 /\ t[n + 1] = y
OBVIOUS

(* The blanks a line begins with are some of it.                           *)
LEMMA BlanksIs ==
  ASSUME NEW S, NEW s \in Seq(S)
  PROVE  Blanks(s) \in Nat /\ Blanks(s) <= Len(s)
<1>1. PICK n \in Nat : n = Len(s)
  OBVIOUS
<1>2. PICK y : y = "x"
  OBVIOUS
<1>3. PICK t : t = s \o <<"x">> /\ Len(t) = n + 1 /\ t[n + 1] = "x"
  <2>1. PICK T : T = S \cup {y}
    OBVIOUS
  <2>2. s \in Seq(T) /\ y \in T
    BY <2>1
  <2>3. PICK t : t = s \o <<y>>
    OBVIOUS
  <2>4. Len(t) = n + 1 /\ t[n + 1] = y
    BY <1>1, <2>2, <2>3, OneLonger
  <2> QED
    BY <1>2, <2>3, <2>4
<1>4. PICK I \in SUBSET Nat : I = {i \in 1..Len(t) : t[i] # " "}
  <2>1. 1..Len(t) \subseteq Nat
    OBVIOUS
  <2> QED
    BY <2>1
<1>5. n + 1 \in I
  <2>1. n + 1 \in 1..Len(t)
    BY <1>3
  <2>2. t[n + 1] # " "
    BY <1>3
  <2> QED
    BY <1>4, <2>1, <2>2
<1>6. PICK k \in I : \A j \in I : k <= j
  BY <1>5, LowestExists
<1>7. PICK m : m = CHOOSE x \in I : \A z \in I : x =< z
  OBVIOUS
<1>8. m \in I /\ \A z \in I : m =< z
  BY <1>6, <1>7
<1>9. SelectInSeq(t, LAMBDA c : c # " ") = m
  BY <1>4, <1>5, <1>7 DEF SelectInSeq, Min
<1>10. Blanks(s) = m - 1
  BY <1>2, <1>3, <1>9 DEF Blanks
<1>11. m \in 1..n + 1
  BY <1>3, <1>4, <1>8
<1> QED
  BY <1>1, <1>10, <1>11

(* What a line has from its cursor on lies within its view.                *)
LEMMA RestIs ==
  ASSUME Layout, NEW l \in LineRec, NEW b \in Nat, Fixed(l, b)
  PROVE  /\ Rest(l) \in Seq(STRING)
         /\ Rest(l) # <<>> => l.pos + Len(Rest(l)) <= l.len
         /\ l.len <= Full(l.at) /\ (b < Extent(l.at) => Offset(l.at) + l.len <= b \/ l.len = 0)
<1>1. PICK a \in 1..Len(Lines) : a = l.at
  BY DEF LineRec
<1>2. Lines[a] \in Seq(STRING) /\ Full(a) \in Nat /\ Offset(a) \in Nat /\ Extent(a) \in Nat
      /\ Extent(a) <= Offset(a) + Full(a) + 1
  <2>1. a \in Nat /\ Offset(a) \in Nat /\ Extent(a) \in Nat
    BY LineAt
  <2>2. /\ Lines[a] \in Seq(STRING) /\ Full(a) \in Nat
        /\ Extent(a) = Offset(a) + Full(a) + (IF HasNewline(a) THEN 1 ELSE 0)
    BY DEF Layout
  <2>3. Extent(a) <= Offset(a) + Full(a) + 1
    BY <2>1, <2>2
  <2> QED
    BY <2>1, <2>2, <2>3
<1>3. PICK p \in Nat, e \in Nat : p = l.pos /\ e = l.len
  BY DEF LineRec
<1>4. e = IF b >= Extent(a) THEN Full(a) ELSE IF b < Offset(a) THEN 0 ELSE b - Offset(a)
  BY <1>1, <1>3, FixedIs
<1>5. e <= Full(a) /\ (b < Extent(a) => Offset(a) + e <= b \/ e = 0)
  BY <1>2, <1>3, <1>4
<1>6. PICK t \in Seq(STRING) : t = Lines[a]
  BY <1>2
<1>7. Len(t) = Full(a)
  BY <1>6 DEF Full
<1>8. Rest(l) = SubSeq(t, p + 1, e)
  BY <1>1, <1>3, <1>6 DEF Rest
<1>9. SubSeq(t, p + 1, e) \in Seq(STRING)
  BY <1>3, <1>5, <1>7, SubSeqProperties
<1>10. Len(SubSeq(t, p + 1, e)) = IF p + 1 <= e THEN e - p ELSE 0
  BY <1>3, <1>5, <1>7, SubSeqProperties
<1>11. SubSeq(t, p + 1, e) # <<>> => Len(SubSeq(t, p + 1, e)) # 0
  BY <1>9, EmptySeq
<1>12. PICK u \in Seq(STRING) : u = Rest(l)
  BY <1>8, <1>9
<1>13. u # <<>> => p + Len(u) <= e
  <2>1. Len(u) = IF p + 1 <= e THEN e - p ELSE 0
    BY <1>8, <1>10, <1>12
  <2>2. u # <<>> => Len(u) # 0
    BY <1>8, <1>11, <1>12
  <2> QED
    BY <1>3, <2>1, <2>2
<1> QED
  BY <1>1, <1>3, <1>5, <1>12, <1>13

(* A line of a heredoc's body, its cursor moved past the indent it drops.  *)
Stamped(m, l, C) ==
  /\ m \in LineRec /\ m.at = l.at /\ m.indent = m.pos /\ l.pos <= m.pos /\ Fixed(m, C)
  /\ m.pos = l.pos \/ (m.pos <= Full(m.at) /\ Offset(m.at) + m.pos <= C)
Stampable(l, C, n) ==
  /\ Fixed(l, C) /\ Offset(l.at) <= C /\ l.indent = l.pos
  /\ Blank(l) \/ Blanks(Rest(l)) >= n

(* Stamping an indent moves a line's cursor past it, and changes no view.  *)
LEMMA StampIs ==
  ASSUME Layout, NEW l \in LineRec, NEW C \in Nat, NEW n \in Nat, Stampable(l, C, n)
  PROVE  Stamped(Stamp(l, n), l, C)
<1>1. Fixed(l, C) /\ Offset(l.at) <= C /\ l.indent = l.pos
  BY DEF Stampable
<1>2. /\ l.pos \in Nat /\ l.len \in Nat /\ Offset(l.at) \in Nat /\ Extent(l.at) \in Nat
      /\ Full(l.at) \in Nat /\ Offset(l.at) + Full(l.at) <= Extent(l.at)
  <2>1. l.at \in 1..Len(Lines) /\ Offset(l.at) \in Nat /\ Extent(l.at) \in Nat /\ l.pos \in Nat
    BY PlaceOf
  <2>2. l.len \in Nat
    BY DEF LineRec
  <2>3. /\ Full(l.at) \in Nat
        /\ Extent(l.at) = Offset(l.at) + Full(l.at) + (IF HasNewline(l.at) THEN 1 ELSE 0)
    BY <2>1 DEF Layout
  <2> QED
    BY <2>1, <2>2, <2>3
<1>3. CASE Blank(l)
  <2>1. Stamp(l, n) = l
    BY <1>3 DEF Stamp
  <2> QED
    BY <1>1, <1>2, <2>1 DEF Stamped
<1>4. CASE ~Blank(l)
  <2>1. PICK u \in Seq(STRING) : u = Rest(l)
    BY <1>1, RestIs
  <2>2. u # <<>> /\ Blanks(u) >= n
    BY <1>4, <2>1 DEF Stampable, Blank
  <2>3. Blanks(u) \in Nat /\ Blanks(u) <= Len(u) /\ Len(u) \in Nat
    BY BlanksIs
  <2>4. l.pos + Len(u) <= l.len
    BY <1>1, <2>1, <2>2, RestIs
  <2>5. l.len <= Full(l.at) /\ (C < Extent(l.at) => Offset(l.at) + l.len <= C \/ l.len = 0)
    BY <1>1, RestIs
  <2>6. PICK k \in Nat : k = l.pos + n
    BY <1>2
  <2>7. k <= l.len /\ l.pos <= k
    BY <1>2, <2>2, <2>3, <2>4, <2>6
  <2>8. k <= Full(l.at) /\ Offset(l.at) + k <= C
    BY <1>1, <1>2, <2>5, <2>7
  <2>9. PICK m : m = Stamp(l, n)
    OBVIOUS
  <2>10. m = [l EXCEPT !.pos = k, !.indent = k]
    BY <1>4, <2>6, <2>9 DEF Stamp
  <2>11. /\ m \in LineRec /\ m.at = l.at /\ m.pos = k /\ m.indent = k
         /\ m.len = l.len /\ m.term = l.term
    BY <2>10 DEF LineRec
  <2>12. Fixed(m, C)
    BY <1>1, <2>11, FixedIs
  <2> QED
    BY <2>7, <2>8, <2>9, <2>11, <2>12 DEF Stamped
<1> QED
  BY <1>3, <1>4

(* Seen through the bound a lookahead runs under, a line shows what waits  *)
(* of it.                                                                  *)
LEMMA CeilSpan ==
  ASSUME Layout, NEW C \in Nat, NEW s \in Seq(FrameRec), NEW W, Ceil(C, s, W), Single(W),
         NEW m \in LineRec, Fixed(m, C), Offset(m.at) <= C,
         NEW w \in W, w.at = m.at, w.pos = m.pos
  PROVE  WaitSpan(s, W, m.at) = Span(m)
<1>1. PICK a \in 1..Len(Lines) : a = m.at
  BY PlaceOf
<1>2. Offset(a) \in Nat /\ Extent(a) \in Nat /\ Extent(a) < NoBound /\ NoBound \in Nat
  BY LineAt
<1>3. \A i \in 1..Len(s) : s[i].bound \in Nat
  BY TopIs
<1>4. ASSUME NEW x \in Body(a) PROVE Under(s, a, x) <=> x < C
  <2>1. x \in Nat /\ x < NoBound
    BY <1>2 DEF Body
  <2>2. ASSUME x < C PROVE Under(s, a, x)
    <3> SUFFICES ASSUME NEW i \in 1..Len(s), Offset(a) <= s[i].bound PROVE x < s[i].bound
      BY DEF Under
    <3>1. C <= s[i].bound
      BY <1>1 DEF Ceil
    <3> QED
      BY <1>3, <2>1, <2>2, <3>1
  <2>3. ASSUME Under(s, a, x) PROVE x < C
    <3>1. CASE C = NoBound
      BY <2>1, <3>1
    <3>2. CASE \E i \in 1..Len(s) : C = s[i].bound
      BY <1>1, <2>3, <3>2 DEF Under
    <3> QED
      BY <3>1, <3>2 DEF Ceil
  <2> QED
    BY <2>2, <2>3
<1>5. \A x : x \in Span(m) <=> x \in Body(a) /\ Here(m) <= x /\ x < C
  <2>1. Span(m) \subseteq Body(a)
    BY <1>1, SpanInBody
  <2>2. \A x \in Body(a) : x \in Span(m) <=> Here(m) <= x /\ x < C
    BY <1>1, SpanInBody
  <2> QED
    BY <2>1, <2>2
<1>6. Here(m) = Offset(a) + w.pos
  BY <1>1, PlaceOf
<1>7. \A v \in W : v.at = a => v = w
  BY <1>1 DEF Single
<1>8. \A x \in Body(a) : (\E v \in W : v.at = a /\ Offset(a) + v.pos <= x) <=> Here(m) <= x
  BY <1>1, <1>6, <1>7
<1>9. \A x : x \in WaitSpan(s, W, a) <=> x \in Body(a) /\ Here(m) <= x /\ x < C
  BY <1>4, <1>8 DEF WaitSpan, Body
<1> QED
  BY <1>1, <1>5, <1>9

(* The queue q without its line m, the lines b of the body before it moved *)
(* past their indents.                                                     *)
Emptied(q, v, b, m, C, n) ==
  /\ q \in Seq(LineRec) /\ v \in Seq(LineRec) /\ b \in Seq(LineRec)
  /\ Len(q) = Len(v) + 1 /\ Len(b) <= Len(v)
  /\ m \in LineRec /\ Fixed(m, C) /\ Offset(m.at) <= C
  /\ m.at = q[Len(b) + 1].at /\ m.pos = q[Len(b) + 1].pos
  /\ \A i \in 1..Len(b) : /\ Stampable(b[i], C, n) /\ b[i].at = q[i].at /\ b[i].pos = q[i].pos
                          /\ v[i] = Stamp(b[i], n)
  /\ \A i \in Len(b) + 1..Len(v) : v[i] = q[i + 1]

(* Where line i of the shorter queue was.                                  *)
Was(q, v, i, a, K) == /\ a \in 1..Len(q) /\ a # K + 1 /\ v[i].at = q[a].at /\ q[a].pos <= v[i].pos
                      /\ a = (IF i <= K THEN i ELSE i + 1) /\ (i > K => v[i] = q[a])

Shortens(q, v, b, m, C, n, K, N) ==
  /\ K <= N /\ Len(b) = K /\ Len(v) = N /\ Len(q) = N + 1 /\ K + 1 \in 1..N + 1
  /\ m.at = q[K + 1].at /\ m.pos = q[K + 1].pos
  /\ \A i \in 1..K : b[i] \in LineRec /\ Stamped(v[i], b[i], C) /\ Stampable(b[i], C, n)
                     /\ b[i].at = q[i].at /\ b[i].pos = q[i].pos /\ v[i] = Stamp(b[i], n)
  /\ \A i \in 1..N : v[i] \in LineRec /\ \E a : Was(q, v, i, a, K)
  /\ \A a \in 1..N + 1 : a # K + 1 => \E i \in 1..N : Was(q, v, i, a, K)

(* The queue after the terminator was taken out, element by element.       *)
LEMMA EmptiedIs ==
  ASSUME Layout, NEW C \in Nat, NEW n \in Nat, NEW q, NEW v, NEW b, NEW m, Emptied(q, v, b, m, C, n)
  PROVE  \E K, N \in Nat : Shortens(q, v, b, m, C, n, K, N)
<1>1. /\ q \in Seq(LineRec) /\ v \in Seq(LineRec) /\ b \in Seq(LineRec)
      /\ Len(q) = Len(v) + 1 /\ Len(b) <= Len(v)
  BY DEF Emptied
<1>2. PICK K \in Nat, N \in Nat : K = Len(b) /\ N = Len(v)
  BY <1>1
<1>3. K <= N /\ Len(q) = N + 1 /\ K + 1 \in 1..N + 1
  BY <1>1, <1>2
<1>4. m.at = q[K + 1].at /\ m.pos = q[K + 1].pos
  BY <1>2 DEF Emptied
<1>5. \A i \in 1..N : v[i] \in LineRec
  BY <1>1, <1>2
<1>6. \A i \in 1..K : b[i] \in LineRec
  BY <1>1, <1>2
<1>7. \A i \in 1..K : /\ Stampable(b[i], C, n) /\ b[i].at = q[i].at /\ b[i].pos = q[i].pos
                      /\ v[i] = Stamp(b[i], n)
  BY <1>2 DEF Emptied
<1>8. \A i \in 1..K : Stamped(v[i], b[i], C)
  BY <1>6, <1>7, StampIs
<1>9. \A i \in K + 1..N : v[i] = q[i + 1]
  BY <1>2 DEF Emptied
<1>10. \A a \in 1..N + 1 : q[a] \in LineRec /\ q[a].pos \in Nat
  <2>1. \A a \in 1..N + 1 : q[a] \in LineRec
    BY <1>1, <1>3
  <2> QED
    BY <2>1, PlaceOf
<1>11. ASSUME NEW i \in 1..K PROVE i \in 1..N /\ Was(q, v, i, i, K)
  <2>1. i \in 1..N + 1 /\ i # K + 1 /\ i <= K /\ i \in 1..N /\ ~(i > K)
    BY <1>3
  <2>2. v[i].at = q[i].at /\ q[i].pos <= v[i].pos
    BY <1>7, <1>8 DEF Stamped
  <2> QED
    BY <1>3, <2>1, <2>2 DEF Was
<1>12. ASSUME NEW i \in K + 1..N, NEW a, a = i + 1 PROVE i \in 1..N /\ Was(q, v, i, a, K)
  <2>1. a \in 1..N + 1 /\ a # K + 1 /\ ~(i <= K) /\ i \in 1..N
    BY <1>3, <1>12
  <2>2. v[i] = q[a]
    BY <1>9, <1>12
  <2>3. q[a].pos <= q[a].pos
    BY <1>10, <2>1
  <2> QED
    BY <1>3, <1>12, <2>1, <2>2, <2>3 DEF Was
<1>13. \A i \in 1..N : \E a : Was(q, v, i, a, K)
  <2> TAKE i \in 1..N
  <2>1. i \in 1..K \/ i \in K + 1..N
    OBVIOUS
  <2>2. PICK a : a = i + 1
    OBVIOUS
  <2> QED
    BY <1>11, <1>12, <2>1, <2>2
<1>14. \A a \in 1..N + 1 : a # K + 1 => \E i \in 1..N : Was(q, v, i, a, K)
  <2> SUFFICES ASSUME NEW a \in 1..N + 1, a # K + 1 PROVE \E i \in 1..N : Was(q, v, i, a, K)
    OBVIOUS
  <2>1. CASE a <= K
    <3>1. a \in 1..K
      BY <2>1
    <3> QED
      BY <1>11, <3>1
  <2>2. CASE a > K
    <3>1. PICK i \in Nat : i = a - 1
      BY <2>2
    <3>2. i \in K + 1..N /\ a = i + 1
      BY <2>2, <3>1
    <3> QED
      BY <1>12, <3>2
  <2> QED
    BY <2>1, <2>2
<1>15. Shortens(q, v, b, m, C, n, K, N)
  BY <1>2, <1>3, <1>4, <1>5, <1>6, <1>7, <1>8, <1>13, <1>14 DEF Shortens
<1> QED
  BY <1>15

(* It is in order, with the heredoc's frame pushed.                        *)
LEMMA ShortQueue ==
  ASSUME Layout, NEW C \in Nat, NEW n \in Nat, NEW q, NEW v, NEW b, NEW m, Emptied(q, v, b, m, C, n),
         NEW c \in 1..Len(Lines) + 1, NEW s \in Seq(FrameRec), Queued(q, c, s),
         NEW f \in FrameRec, f.bound = Offset(m.at), NEW t, t = Append(s, f)
  PROVE  Queued(v, c, t)
<1>1. PICK K \in Nat, N \in Nat :
           /\ K <= N /\ Len(b) = K /\ Len(v) = N /\ Len(q) = N + 1 /\ K + 1 \in 1..N + 1
           /\ m.at = q[K + 1].at
           /\ \A i \in 1..K : b[i] \in LineRec /\ Stamped(v[i], b[i], C)
           /\ \A i \in 1..N : v[i] \in LineRec /\ \E a : Was(q, v, i, a, K)
  <2>1. PICK K \in Nat, N \in Nat : Shortens(q, v, b, m, C, n, K, N)
    BY EmptiedIs
  <2> QED
    BY <2>1 DEF Shortens
<1>2. /\ \A i, j \in 1..N + 1 : i < j => q[i].at < q[j].at
      /\ \A i \in 1..N + 1 : q[i].at < c /\ q[i].pos = q[i].indent
  BY <1>1 DEF Queued, Rising
<1>3. \A i \in 1..N : \E a \in 1..N + 1 : v[i].at = q[a].at /\ a = (IF i <= K THEN i ELSE i + 1)
                                          /\ (i > K => v[i] = q[a])
  BY <1>1 DEF Was
<1>4. Rising(v)
  <2> SUFFICES ASSUME NEW i \in 1..N, NEW j \in 1..N, i < j PROVE v[i].at < v[j].at
    BY <1>1 DEF Rising
  <2>1. PICK a \in 1..N + 1 : v[i].at = q[a].at /\ a = (IF i <= K THEN i ELSE i + 1)
    BY <1>3
  <2>2. PICK d \in 1..N + 1 : v[j].at = q[d].at /\ d = (IF j <= K THEN j ELSE j + 1)
    BY <1>3
  <2>3. a < d
    BY <2>1, <2>2
  <2> QED
    BY <1>2, <2>1, <2>2, <2>3
<1>5. \A i \in 1..N : v[i].at < c /\ v[i].pos = v[i].indent
  <2> TAKE i \in 1..N
  <2>1. v[i].at < c
    BY <1>2, <1>3
  <2>2. CASE i <= K
    <3>1. i \in 1..K
      BY <2>2
    <3>2. Stamped(v[i], b[i], C)
      BY <1>1, <3>1
    <3> QED
      BY <2>1, <3>2 DEF Stamped
  <2>3. CASE i > K
    BY <1>2, <1>3, <2>1, <2>3
  <2> QED
    BY <2>2, <2>3
<1>6. PICK z \in 1..Len(Lines) : z = m.at /\ z < c
  <2>1. m.at \in 1..Len(Lines)
    BY PlaceOf DEF Emptied
  <2>2. q[K + 1].at < c
    BY <1>1, <1>2
  <2> QED
    BY <1>1, <2>1, <2>2
<1>7. f.bound < Offset(c)
  <2>1. c \in Nat
    <3>1. Len(Lines) \in Nat
      BY DEF Layout
    <3> QED
      BY <3>1
  <2>2. Offset(c) \in Nat
    BY <2>1 DEF Layout
  <2>3. Extent(z) < Offset(c)
    BY <1>6, <2>1 DEF Layout
  <2>4. Offset(z) <= Extent(z) /\ Offset(z) \in Nat /\ Extent(z) \in Nat
    BY LineAt
  <2> QED
    BY <1>6, <2>2, <2>3, <2>4
<1>8. PICK L \in Nat : L = Len(s)
  OBVIOUS
<1>9. IsPushed(t, s, L, f)
  BY <1>8, PushedIs
<1>10. Len(t) = L + 1 /\ (\A i \in 1..L : t[i] = s[i]) /\ t[L + 1] = f
  BY <1>9 DEF IsPushed
<1>11. \A i \in 1..L + 1 : t[i].bound < Offset(c)
  <2>1. \A i \in 1..L : s[i].bound < Offset(c)
    BY <1>8 DEF Queued
  <2>2. \A i \in 1..L + 1 : i \in 1..L \/ i = L + 1
    OBVIOUS
  <2> QED
    BY <1>7, <1>10, <2>1, <2>2
<1>12. Whole(v, t)
  <2> SUFFICES ASSUME NEW i \in 1..N, \A j \in 1..L + 1 : t[j].bound < Offset(v[i].at)
               PROVE  Fixed(v[i], NoBound)
    BY <1>1, <1>10 DEF Whole
  <2>1. /\ \A j \in 1..L : j \in 1..L + 1
        /\ L + 1 \in 1..L + 1
    BY <1>8
  <2>2. f.bound < Offset(v[i].at) /\ \A j \in 1..L : s[j].bound < Offset(v[i].at)
    BY <1>10, <2>1
  <2>3. PICK y \in 1..Len(Lines) : y = v[i].at
    <3>1. v[i] \in LineRec
      BY <1>1
    <3> QED
      BY <3>1, PlaceOf
  <2>4. z < y
    BY <1>6, <2>2, <2>3, LineOrder
  <2>5. PICK a \in 1..N + 1 : v[i].at = q[a].at /\ a = (IF i <= K THEN i ELSE i + 1) /\ (i > K => v[i] = q[a])
    BY <1>3
  <2>6. i > K
    <3> SUFFICES ASSUME i <= K PROVE FALSE
      OBVIOUS
    <3>1. a < K + 1
      BY <2>5
    <3>2. q[a].at < q[K + 1].at
      BY <1>1, <1>2, <3>1
    <3>3. y < z /\ y \in Nat /\ z \in Nat
      BY <1>1, <1>6, <2>3, <2>5, <3>2, LineAt
    <3> QED
      BY <2>4, <3>3
  <2>7. Whole(q, s)
    BY DEF Queued
  <2>8. \A j \in 1..Len(s) : s[j].bound < Offset(q[a].at)
    BY <1>8, <2>2, <2>5
  <2>9. Fixed(q[a], NoBound)
    BY <1>1, <2>7, <2>8 DEF Whole
  <2> QED
    BY <2>5, <2>6, <2>9
<1> QED
  BY <1>1, <1>4, <1>5, <1>10, <1>11, <1>12 DEF Queued

(* What waits of the shorter queue.                                        *)
LEMMA SingleWaits ==
  ASSUME Layout, NEW q \in Seq(LineRec), NEW c \in 1..Len(Lines) + 1, NEW s, Queued(q, c, s)
  PROVE  Single(Waits(q, c))
<1>1. PICK n \in Nat, N \in Nat : n = Len(q) /\ N = Len(Lines)
  BY DEF Layout
<1>2. c \in 1..N + 1
  BY <1>1
<1>3. /\ \A i, j \in 1..n : i < j => q[i].at < q[j].at
      /\ \A i \in 1..n : q[i].at < c
  BY <1>1 DEF Queued, Rising
<1>4. \A i \in 1..n : q[i] \in LineRec /\ q[i].at \in 1..N
  <2>1. \A i \in 1..n : q[i] \in LineRec
    BY <1>1
  <2> QED
    BY <1>1, <2>1, PlaceOf
<1>5. \A i, j \in 1..n : q[i].at = q[j].at => i = j
  <2> SUFFICES ASSUME NEW i \in 1..n, NEW j \in 1..n, q[i].at = q[j].at PROVE i = j
    OBVIOUS
  <2>1. q[i].at \in Nat /\ q[j].at \in Nat
    BY <1>4
  <2>2. ~(i < j) /\ ~(j < i)
    BY <1>3, <2>1
  <2> QED
    BY <2>2
<1>6. \A w \in Waits(q, c) : \/ \E i \in 1..n : w = Entry(q[i])
                             \/ w.at \in c..N /\ w = [at |-> w.at, pos |-> 0]
  BY <1>1, WaitsIs
<1>7. \A i \in 1..n : Entry(q[i]).at = q[i].at
  BY DEF Entry
<1> SUFFICES ASSUME NEW x \in Waits(q, c), NEW w \in Waits(q, c), w.at = x.at PROVE x = w
  BY DEF Single
<1>8. CASE \E i \in 1..n : x = Entry(q[i])
  <2>1. PICK i \in 1..n : x = Entry(q[i])
    BY <1>8
  <2>2. x.at < c /\ x.at \in Nat
    BY <1>3, <1>4, <1>7, <2>1
  <2>3. ~(w.at \in c..N)
    BY <1>2, <2>2
  <2>4. PICK j \in 1..n : w = Entry(q[j])
    BY <1>6, <2>3
  <2> QED
    BY <1>5, <1>7, <2>1, <2>4
<1>9. CASE x.at \in c..N /\ x = [at |-> x.at, pos |-> 0]
  <2>1. ~ \E i \in 1..n : w = Entry(q[i])
    <3> SUFFICES ASSUME NEW i \in 1..n, w = Entry(q[i]) PROVE FALSE
      OBVIOUS
    <3>1. w.at < c /\ w.at \in Nat
      BY <1>3, <1>4, <1>7
    <3> QED
      BY <1>2, <1>9, <3>1
  <2>2. w = [at |-> w.at, pos |-> 0]
    BY <1>6, <2>1
  <2> QED
    BY <1>9, <2>2
<1> QED
  BY <1>6, <1>8, <1>9

(* Each line that waits of the shorter queue waited of the longer one.     *)
Follows(y, q, v, b, C, n, W, z) ==
  /\ y.at # z.at /\ \E w \in W : w.at = y.at /\ w.pos <= y.pos
  /\ \/ y \in W
     \/ y.pos <= Full(y.at) /\ Offset(y.at) + y.pos <= C
  /\ \/ y \in W
     \/ \E i \in 1..Len(b) : /\ b[i] \in LineRec /\ y = Entry(v[i]) /\ v[i] = Stamp(b[i], n)
                             /\ Entry(b[i]) \in W /\ Stampable(b[i], C, n) /\ Stamped(v[i], b[i], C)

Shortened(q, v, b, C, n, W, V, z) ==
  /\ z \in W
  /\ \A y \in V : Follows(y, q, v, b, C, n, W, z)
  /\ \A w \in W : w.at # z.at => \E y \in V : y.at = w.at
  /\ \A i \in 1..Len(b) : Entry(b[i]) \in W /\ Entry(v[i]) \in V

(* Its lines are those that waited, without the terminator's.              *)
LEMMA ShortFollows ==
  ASSUME Layout, NEW C \in Nat, NEW n \in Nat, NEW q, NEW v, NEW b, NEW m, Emptied(q, v, b, m, C, n),
         NEW c \in 1..Len(Lines) + 1, NEW s, Queued(q, c, s),
         NEW W, W = Waits(q, c), NEW V, V = Waits(v, c), NEW z, z = Entry(m)
  PROVE  Shortened(q, v, b, C, n, W, V, z)
<1>1. PICK K \in Nat, N \in Nat : Shortens(q, v, b, m, C, n, K, N)
  BY EmptiedIs
<1>2. q \in Seq(LineRec) /\ v \in Seq(LineRec)
  BY DEF Emptied
<1>3. /\ K <= N /\ Len(b) = K /\ Len(v) = N /\ Len(q) = N + 1 /\ K + 1 \in 1..N + 1
      /\ m.at = q[K + 1].at /\ m.pos = q[K + 1].pos
  BY <1>1 DEF Shortens
<1>4. \A i \in 1..K : b[i] \in LineRec /\ Stamped(v[i], b[i], C) /\ Stampable(b[i], C, n)
                      /\ b[i].at = q[i].at /\ b[i].pos = q[i].pos /\ v[i] = Stamp(b[i], n)
  BY <1>1 DEF Shortens
<1>5. /\ \A i \in 1..N : \E a : Was(q, v, i, a, K)
      /\ \A a \in 1..N + 1 : a # K + 1 => \E i \in 1..N : Was(q, v, i, a, K)
  BY <1>1 DEF Shortens
<1>6. /\ \A i \in 1..N + 1 : Entry(q[i]) \in W
      /\ \A a \in c..Len(Lines) : [at |-> a, pos |-> 0] \in W
      /\ \A w \in W : \/ \E i \in 1..N + 1 : w = Entry(q[i])
                      \/ w.at \in c..Len(Lines) /\ w = [at |-> w.at, pos |-> 0]
  <2>1. PICK x \in Seq(LineRec), M \in Nat : x = q /\ M = Len(x) /\ M = N + 1
    BY <1>2, <1>3
  <2>2. /\ \A i \in 1..Len(x) : Entry(x[i]) \in Waits(x, c)
        /\ \A a \in c..Len(Lines) : [at |-> a, pos |-> 0] \in Waits(x, c)
        /\ \A y \in Waits(x, c) : \/ \E i \in 1..Len(x) : y = Entry(x[i])
                                  \/ y.at \in c..Len(Lines) /\ y = [at |-> y.at, pos |-> 0]
    BY WaitsIs
  <2> QED
    BY <2>1, <2>2
<1>7. /\ \A i \in 1..N : Entry(v[i]) \in V
      /\ \A a \in c..Len(Lines) : [at |-> a, pos |-> 0] \in V
      /\ \A y \in V : \/ \E i \in 1..N : y = Entry(v[i])
                      \/ y.at \in c..Len(Lines) /\ y = [at |-> y.at, pos |-> 0]
  <2>1. PICK x \in Seq(LineRec), M \in Nat : x = v /\ M = Len(x) /\ M = N
    BY <1>2, <1>3
  <2>2. /\ \A i \in 1..Len(x) : Entry(x[i]) \in Waits(x, c)
        /\ \A a \in c..Len(Lines) : [at |-> a, pos |-> 0] \in Waits(x, c)
        /\ \A y \in Waits(x, c) : \/ \E i \in 1..Len(x) : y = Entry(x[i])
                                  \/ y.at \in c..Len(Lines) /\ y = [at |-> y.at, pos |-> 0]
    BY WaitsIs
  <2> QED
    BY <2>1, <2>2
<1>8. Entry(q[K + 1]) = z /\ z.at = m.at
  BY <1>3 DEF Entry
<1>9. z \in W
  BY <1>3, <1>6, <1>8
<1>10. /\ \A i, j \in 1..N + 1 : i < j => q[i].at < q[j].at
       /\ \A i \in 1..N + 1 : q[i].at < c
  BY <1>3 DEF Queued, Rising
<1>11. \A i \in 1..N + 1 : q[i] \in LineRec /\ q[i].at \in Nat /\ q[i].pos \in Nat
  <2>1. \A i \in 1..N + 1 : q[i] \in LineRec
    BY <1>2, <1>3
  <2>2. \A i \in 1..N + 1 : q[i].at \in 1..Len(Lines) /\ q[i].pos \in Nat
    BY <2>1, PlaceOf
  <2>3. Len(Lines) \in Nat
    BY DEF Layout
  <2> QED
    BY <2>1, <2>2, <2>3
<1>12. \A i \in 1..N + 1 : i # K + 1 => q[i].at # z.at
  <2> SUFFICES ASSUME NEW i \in 1..N + 1, i # K + 1, q[i].at = q[K + 1].at PROVE FALSE
    BY <1>3, <1>8
  <2>1. q[i].at \in Nat /\ q[K + 1].at \in Nat
    BY <1>3, <1>11
  <2>2. i < K + 1 \/ K + 1 < i
    OBVIOUS
  <2> QED
    BY <1>3, <1>10, <2>1, <2>2
<1>13. \A i \in 1..K : Entry(b[i]) = Entry(q[i])
  BY <1>4 DEF Entry
<1>14. \A i \in 1..K : i \in 1..N + 1 /\ i \in 1..N
  BY <1>3
<1>15. \A i \in 1..K : Entry(b[i]) \in W /\ Entry(v[i]) \in V
  BY <1>6, <1>7, <1>13, <1>14
<1>16. ASSUME NEW i \in 1..N PROVE Follows(Entry(v[i]), q, v, b, C, n, W, z)
  <2>1. PICK y : y = Entry(v[i]) /\ y.at = v[i].at /\ y.pos = v[i].pos
    <3>1. Entry(v[i]).at = v[i].at /\ Entry(v[i]).pos = v[i].pos
      BY DEF Entry
    <3> QED
      BY <3>1
  <2>2. PICK a : Was(q, v, i, a, K)
    BY <1>5
  <2>3. a \in 1..N + 1 /\ a # K + 1 /\ v[i].at = q[a].at /\ q[a].pos <= v[i].pos
    BY <1>3, <2>2 DEF Was
  <2>4. PICK w \in W : w = Entry(q[a]) /\ w.at = q[a].at /\ w.pos = q[a].pos
    BY <1>6, <2>3 DEF Entry
  <2>5. y.at # z.at /\ w.at = y.at /\ w.pos <= y.pos
    BY <1>12, <2>1, <2>3, <2>4
  <2>6. CASE i > K
    <3>1. v[i] = q[a]
      BY <2>2, <2>6 DEF Was
    <3>2. y \in W
      BY <2>1, <2>4, <3>1
    <3> QED
      BY <2>1, <2>5, <3>2 DEF Follows
  <2>7. CASE i <= K
    <3>1. i \in 1..K
      BY <2>7
    <3>2. /\ b[i] \in LineRec /\ Stamped(v[i], b[i], C) /\ Stampable(b[i], C, n)
          /\ b[i].at = q[i].at /\ b[i].pos = q[i].pos /\ v[i] = Stamp(b[i], n)
      BY <1>4, <3>1
    <3>3. v[i].at = b[i].at /\ (v[i].pos = b[i].pos \/ (v[i].pos <= Full(v[i].at) /\ Offset(v[i].at) + v[i].pos <= C))
      BY <3>2 DEF Stamped
    <3>4. Entry(b[i]) \in W
      BY <1>15, <3>1
    <3>5. v[i].pos = b[i].pos => y \in W
      BY <2>1, <3>3, <3>4 DEF Entry
    <3>6. y \in W \/ (y.pos <= Full(y.at) /\ Offset(y.at) + y.pos <= C)
      BY <2>1, <3>3, <3>5
    <3>7. \E k \in 1..Len(b) : /\ b[k] \in LineRec /\ y = Entry(v[k]) /\ v[k] = Stamp(b[k], n)
                             /\ Entry(b[k]) \in W /\ Stampable(b[k], C, n) /\ Stamped(v[k], b[k], C)
      BY <1>3, <2>1, <3>1, <3>2, <3>4
    <3> QED
      BY <2>1, <2>5, <3>6, <3>7 DEF Follows
  <2> QED
    BY <1>3, <2>6, <2>7
<1>17. ASSUME NEW y, y.at \in c..Len(Lines), y = [at |-> y.at, pos |-> 0]
       PROVE  y \in W /\ Follows(y, q, v, b, C, n, W, z)
  <2>1. y \in W
    BY <1>6, <1>17
  <2>2. y.pos = 0
    BY <1>17
  <2>3. z.at \in Nat /\ z.at < c
    BY <1>3, <1>8, <1>10, <1>11
  <2>4. c \in Nat
    <3>1. Len(Lines) \in Nat
      BY DEF Layout
    <3> QED
      BY <3>1
  <2>5. y.at # z.at
    BY <1>17, <2>3, <2>4
  <2> QED
    BY <2>1, <2>2, <2>5 DEF Follows
<1>18. \A y \in V : Follows(y, q, v, b, C, n, W, z)
  BY <1>7, <1>16, <1>17
<1>19. ASSUME NEW w \in W, w.at # z.at PROVE \E y \in V : y.at = w.at
  <2>1. CASE \E a \in 1..N + 1 : w = Entry(q[a])
    <3>1. PICK a \in 1..N + 1 : w = Entry(q[a])
      BY <2>1
    <3>2. a # K + 1
      BY <1>8, <1>19, <3>1
    <3>3. PICK i \in 1..N : Was(q, v, i, a, K)
      BY <1>5, <3>2
    <3>4. v[i].at = q[a].at
      BY <3>3 DEF Was
    <3>5. Entry(v[i]) \in V /\ Entry(v[i]).at = w.at
      BY <1>7, <3>1, <3>4 DEF Entry
    <3> QED
      BY <3>5
  <2>2. CASE w.at \in c..Len(Lines) /\ w = [at |-> w.at, pos |-> 0]
    BY <1>7, <2>2
  <2> QED
    BY <1>6, <2>1, <2>2
<1> QED
  BY <1>3, <1>9, <1>15, <1>18, <1>19 DEF Shortened

(* The bytes of the body that nobody is to read: its lines' indents, and   *)
(* the terminator's line.                                                  *)
LEMMA BodyTrims ==
  ASSUME Layout, NEW C \in Nat, NEW n \in Nat, NEW q, NEW v, NEW b, NEW m, Emptied(q, v, b, m, C, n),
         NEW c \in 1..Len(Lines) + 1, NEW s \in Seq(FrameRec), Queued(q, c, s), NEW t, Queued(v, c, t),
         NEW W, W = Waits(q, c), NEW V, V = Waits(v, c), NEW z, z = Entry(m),
         Ceil(C, s, W), Within(s, W)
  PROVE  Trims(s, W, z, V)
<1>1. /\ z \in W
      /\ \A y \in V : Follows(y, q, v, b, C, n, W, z)
      /\ \A w \in W : w.at # z.at => \E y \in V : y.at = w.at
      /\ \A i \in 1..Len(b) : Entry(b[i]) \in W /\ Entry(v[i]) \in V
  <2>1. Shortened(q, v, b, C, n, W, V, z)
    BY ShortFollows
  <2> QED
    BY <2>1 DEF Shortened
<1>2. q \in Seq(LineRec) /\ v \in Seq(LineRec) /\ m \in LineRec /\ Offset(m.at) <= C
  BY DEF Emptied
<1>3. W \subseteq WaitRec /\ V \subseteq WaitRec
  BY <1>2, WaitsIs
<1>4. Single(V)
  BY <1>2, SingleWaits
<1>5. \A y \in V : y.at # z.at /\ \E w \in W : w.at = y.at /\ w.pos <= y.pos
  BY <1>1 DEF Follows
<1>6. z.at = m.at /\ Offset(z.at) \in Nat
  <2>1. z.at = m.at
    BY DEF Entry
  <2> QED
    BY <1>2, <2>1, PlaceOf
<1>7. \A i \in 1..Len(s) : s[i].bound \in Nat
  <2>1. PICK L \in Nat : L = Len(s)
    OBVIOUS
  <2>2. \A i \in 1..L : s[i].bound \in Nat
    BY <2>1, TopIs
  <2> QED
    BY <2>1, <2>2
<1>8. \A w \in W : \A i \in 1..Len(s) : Offset(w.at) <= s[i].bound => C <= s[i].bound
  BY DEF Ceil
<1>9. \A w \in W : \A i \in 1..Len(s) : Offset(w.at) <= s[i].bound => Offset(z.at) <= s[i].bound
  BY <1>2, <1>6, <1>7, <1>8
<1>10. Within(s, V)
  <2> SUFFICES ASSUME NEW y \in V
               PROVE  /\ y.pos <= Full(y.at)
                      /\ \A i \in 1..Len(s) : Offset(y.at) <= s[i].bound => Offset(y.at) + y.pos <= s[i].bound
    BY DEF Within
  <2>1. CASE y \in W
    BY <2>1 DEF Within
  <2>2. CASE y.pos <= Full(y.at) /\ Offset(y.at) + y.pos <= C
    <3>1. PICK w \in W : w.at = y.at
      BY <1>5
    <3>2. \A i \in 1..Len(s) : Offset(y.at) <= s[i].bound => C <= s[i].bound
      BY <1>8, <3>1
    <3>3. y.pos \in Nat /\ Offset(y.at) \in Nat
      <4>1. y.at \in 1..Len(Lines) /\ y.pos \in Nat
        BY <1>3 DEF WaitRec
      <4> QED
        BY <4>1, LineAt
    <3> QED
      BY <1>7, <2>2, <3>2, <3>3
  <2>3. Follows(y, q, v, b, C, n, W, z)
    BY <1>1
  <2> QED
    BY <2>1, <2>2, <2>3 DEF Follows
<1> QED
  BY <1>1, <1>3, <1>4, <1>5, <1>9, <1>10 DEF Trims

(* The bytes of the body that are gone are those the code skips.           *)
LEMMA BodyTrimmed ==
  ASSUME Layout, NEW C \in Nat, NEW n \in Nat, NEW q, NEW v, NEW b, NEW m, Emptied(q, v, b, m, C, n),
         NEW c \in 1..Len(Lines) + 1, NEW s \in Seq(FrameRec), Queued(q, c, s), NEW t, Queued(v, c, t),
         NEW W, W = Waits(q, c), NEW V, V = Waits(v, c), NEW z, z = Entry(m),
         Ceil(C, s, W), Within(s, W)
  PROVE  Trimmed(s, W, V) = Span(m) \cup UNION {Stripped(b[i], n) : i \in 1..Len(b)}
<1>1. /\ z \in W
      /\ \A y \in V : Follows(y, q, v, b, C, n, W, z)
      /\ \A w \in W : w.at # z.at => \E y \in V : y.at = w.at
      /\ \A i \in 1..Len(b) : Entry(b[i]) \in W /\ Entry(v[i]) \in V
  <2>1. Shortened(q, v, b, C, n, W, V, z)
    BY ShortFollows
  <2> QED
    BY <2>1 DEF Shortened
<1>2. /\ q \in Seq(LineRec) /\ v \in Seq(LineRec) /\ b \in Seq(LineRec)
      /\ m \in LineRec /\ Fixed(m, C) /\ Offset(m.at) <= C
  BY DEF Emptied
<1>3. Trims(s, W, z, V)
  BY BodyTrims
<1>4. Single(W) /\ Single(V) /\ W \subseteq WaitRec
  BY <1>2, SingleWaits, WaitsIs
<1>5. z.at = m.at /\ z.pos = m.pos
  BY DEF Entry
<1>6. Ceil(C, s, V)
  <2>1. \A y \in V : \E w \in W : w.at = y.at
    BY <1>3 DEF Trims
  <2> QED
    BY <2>1 DEF Ceil
<1>7. WaitSpan(s, W, m.at) = Span(m)
  BY <1>1, <1>2, <1>4, <1>5, CeilSpan
<1>8. WaitSpan(s, V, m.at) = {}
  <2>1. \A y \in V : y.at # m.at
    BY <1>3, <1>5 DEF Trims
  <2> QED
    BY <2>1, WaitGone
<1>9. m.at \in Nat
  <2>1. m.at \in 1..Len(Lines)
    BY <1>2, PlaceOf
  <2> QED
    BY <2>1, LineAt
<1>10. ASSUME NEW i \in 1..Len(b)
       PROVE  /\ b[i].at \in Nat
              /\ WaitSpan(s, W, b[i].at) \ WaitSpan(s, V, b[i].at) = Stripped(b[i], n)
  <2>1. PICK K \in Nat, N \in Nat : Shortens(q, v, b, m, C, n, K, N)
    BY EmptiedIs
  <2>2. i \in 1..K
    BY <2>1 DEF Shortens
  <2>3. b[i] \in LineRec /\ Stamped(v[i], b[i], C) /\ Stampable(b[i], C, n) /\ v[i] = Stamp(b[i], n)
    BY <2>1, <2>2 DEF Shortens
  <2>4. PICK l \in LineRec : l = b[i]
    BY <2>3
  <2>5. PICK x : x = v[i]
    OBVIOUS
  <2>6. Fixed(l, C) /\ Offset(l.at) <= C
    BY <2>3, <2>4 DEF Stampable
  <2>7. x \in LineRec /\ x.at = l.at /\ Fixed(x, C)
    BY <2>3, <2>4, <2>5 DEF Stamped
  <2>8. Entry(l) \in W /\ Entry(x) \in V
    BY <1>1, <2>4, <2>5
  <2>9. Entry(l).at = l.at /\ Entry(l).pos = l.pos /\ Entry(x).at = x.at /\ Entry(x).pos = x.pos
    BY DEF Entry
  <2>10. WaitSpan(s, W, l.at) = Span(l)
    BY <1>4, <2>6, <2>8, <2>9, CeilSpan
  <2>11. WaitSpan(s, V, x.at) = Span(x)
    BY <1>4, <1>6, <2>6, <2>7, <2>8, <2>9, CeilSpan
  <2>12. l.at \in Nat
    <3>1. l.at \in 1..Len(Lines)
      BY PlaceOf
    <3> QED
      BY <3>1, LineAt
  <2>13. Stripped(l, n) = Span(l) \ Span(x)
    BY <2>3, <2>4, <2>5 DEF Stripped
  <2> QED
    BY <2>4, <2>7, <2>10, <2>11, <2>12, <2>13
<1>11. ASSUME NEW x \in Trimmed(s, W, V)
       PROVE  x \in Span(m) \/ \E i \in 1..Len(b) : x \in Stripped(b[i], n)
  <2>1. PICK a \in Nat : x \in WaitSpan(s, W, a) /\ x \notin WaitSpan(s, V, a)
    BY DEF Trimmed
  <2>2. PICK w \in W : w.at = a
    BY <2>1 DEF WaitSpan
  <2>3. CASE a = m.at
    BY <1>7, <2>1, <2>3
  <2>4. CASE a # m.at
    <3>1. PICK y \in V : y.at = a
      BY <1>1, <1>5, <2>2, <2>4
    <3>2. Follows(y, q, v, b, C, n, W, z)
      BY <1>1
    <3>3. CASE y \in W
      <4>1. \A u : u.at = a => (u \in W <=> u \in V)
        BY <1>4, <3>1, <3>3 DEF Single
      <4> QED
        BY <2>1, <4>1, WaitGone
    <3>4. CASE \E i \in 1..Len(b) : y = Entry(v[i]) /\ b[i] \in LineRec /\ Stamped(v[i], b[i], C)
      <4>1. PICK i \in 1..Len(b) : y = Entry(v[i]) /\ Stamped(v[i], b[i], C)
        BY <3>4
      <4>2. b[i].at = a
        BY <3>1, <4>1 DEF Entry, Stamped
      <4> QED
        BY <1>10, <2>1, <4>2
    <3> QED
      BY <3>2, <3>3, <3>4 DEF Follows
  <2> QED
    BY <2>3, <2>4
<1>12. ASSUME NEW x, x \in Span(m) PROVE x \in Trimmed(s, W, V)
  BY <1>7, <1>8, <1>9, <1>12 DEF Trimmed
<1>13. ASSUME NEW i \in 1..Len(b), NEW x \in Stripped(b[i], n) PROVE x \in Trimmed(s, W, V)
  <2>1. b[i].at \in Nat /\ x \in WaitSpan(s, W, b[i].at) \ WaitSpan(s, V, b[i].at)
    BY <1>10
  <2> QED
    BY <2>1 DEF Trimmed
<1> QED
  BY <1>11, <1>12, <1>13

-----------------------------------------------------------------------------
(* The terminator is found.                                                *)

(* A line at its indent is not moved by a reset.                           *)
LEMMA ResetSame ==
  ASSUME NEW l \in LineRec, l.pos = l.indent
  PROVE  Reset(l) = l
BY ResetIs, SameLine

(* The lines of the body, stamped, behind the entry line.                  *)
Stamping(p, n, b, e, u) ==
  /\ b = Tail(p.captured) /\ Stamps(b, n) /\ p.captured # <<>>
  /\ e = [i \in DOMAIN b |-> Stamp(b[i], n)] /\ u = <<Head(p.captured)>> \o e

StampedAs(p, n, b, e, u, w, K, C) ==
  /\ b \in Seq(LineRec) /\ e \in Seq(LineRec) /\ u \in Seq(LineRec) /\ w = Swept(p)
  /\ Len(b) = K /\ Len(e) = K /\ Len(u) = K + 1 /\ Len(w) = K + 2
  /\ u[1] = w[1] /\ w[K + 2] = p.line
  /\ \A i \in 1..K : /\ w[i + 1] = b[i] /\ u[i + 1] = Stamp(b[i], n)
                     /\ Stampable(b[i], C, n) /\ Stamped(Stamp(b[i], n), b[i], C)

(* The lines the scan returns are the body's, stamped.                     *)
LEMMA StampingIs ==
  ASSUME Layout, NoneAssumption, NEW p, NEW s, Looking(p, s), s.kind = "heredoc",
         NEW n \in Nat, NEW b, NEW e, NEW u, Stamping(p, n, b, e, u)
  PROVE  \E K \in Nat, w \in Seq(LineRec) : StampedAs(p, n, b, e, u, w, K, Top(p.stack))
<1>1. /\ p \in Lexer /\ p.line \in LineRec /\ Shown(Swept(p), Top(p.stack), s)
  BY DEF Looking
<1>2. PICK c \in Seq(LineRec) : c = p.captured
  BY <1>1, LexerIs
<1>3. PICK C \in Nat : C = Top(p.stack)
  BY <1>1, BoundIs
<1>4. PICK K \in Nat : Len(c) = K + 1
  BY <1>2, OneMore DEF Stamping
<1>5. Head(c) = c[1] /\ c[1] \in LineRec /\ b \in Seq(LineRec) /\ Len(b) = K /\ \A i \in 1..K : b[i] = c[i + 1]
  <2>1. /\ c # <<>> /\ Head(c) = c[1] /\ c[1] \in LineRec
        /\ Tail(c) \in Seq(LineRec) /\ Len(Tail(c)) = K
        /\ \A i \in 1..K : Tail(c)[i] = c[i + 1]
    BY <1>4, TailOf
  <2> QED
    BY <1>2, <2>1 DEF Stamping
<1>6. PICK w \in Seq(LineRec) : w = Swept(p)
  BY <1>1, LookedIs
<1>7. Len(w) = K + 2 /\ w[K + 2] = p.line /\ \A i \in 1..K + 1 : w[i] = c[i]
  <2>1. PICK k \in Nat : Looked(p, k)
    BY <1>1, LookedAs
  <2>2. /\ k = Len(c) /\ Len(w) = k + 1 /\ w[k + 1] = p.line
        /\ \A i \in 1..k : w[i] = c[i]
    BY <1>2, <1>6, <2>1 DEF Looked
  <2>3. k = K + 1 /\ k + 1 = K + 2
    BY <1>4, <2>2
  <2> QED
    BY <2>2, <2>3
<1>8. \A i \in 1..K : i + 1 \in 1..K + 1 /\ i + 1 # 1 /\ i + 1 \in 1..Len(w)
  BY <1>7
<1>9. \A i \in 1..K : w[i + 1] = b[i]
  BY <1>5, <1>7, <1>8
<1>10. \A i \in 1..K : b[i] \in LineRec
  BY <1>5
<1>11. \A i \in 1..K : Stampable(b[i], C, n)
  <2> TAKE i \in 1..K
  <2>1. Seen(b[i], C, s.kind)
    BY <1>1, <1>3, <1>6, <1>8, <1>9 DEF Shown
  <2>2. Blank(b[i]) \/ Blanks(Rest(b[i])) >= n
    <3>1. i \in DOMAIN b
      BY <1>5
    <3> QED
      BY <3>1 DEF Stamping, Stamps
  <2> QED
    BY <2>1, <2>2 DEF Seen, Stampable
<1>12. \A i \in 1..K : Stamped(Stamp(b[i], n), b[i], C)
  BY <1>10, <1>11, StampIs
<1>13. e \in Seq(LineRec) /\ Len(e) = K /\ \A i \in 1..K : e[i] = Stamp(b[i], n)
  <2>1. DOMAIN b = 1..K
    BY <1>5
  <2>2. e = [i \in 1..K |-> Stamp(b[i], n)]
    BY <2>1 DEF Stamping
  <2>3. \A i \in 1..K : Stamp(b[i], n) \in LineRec
    BY <1>12 DEF Stamped
  <2>4. e \in [1..K -> LineRec]
    BY <2>2, <2>3
  <2>5. e \in Seq(LineRec)
    BY <2>4
  <2>6. Len(e) = K
    BY <2>4, <2>5
  <2> QED
    BY <2>2, <2>5, <2>6
<1>14. u \in Seq(LineRec) /\ Len(u) = K + 1 /\ u[1] = w[1] /\ \A i \in 1..K : u[i + 1] = Stamp(b[i], n)
  <2>1. PICK x \in LineRec : x = c[1]
    BY <1>5
  <2>2. PICK h \in Seq(LineRec) : h = <<x>> /\ Len(h) = 1 /\ h[1] = x
    <3>1. <<x>> \in Seq(LineRec) /\ Len(<<x>>) = 1 /\ <<x>>[1] = x
      OBVIOUS
    <3> QED
      BY <3>1
  <2>3. u = h \o e
    BY <1>2, <1>5, <2>1, <2>2 DEF Stamping
  <2>4. PICK J \in Nat, M \in Nat : J = Len(h) /\ M = Len(e)
    BY <1>13
  <2>5. /\ h \o e \in Seq(LineRec) /\ Len(h \o e) = J + M
        /\ \A i \in 1..J : (h \o e)[i] = h[i]
        /\ \A i \in 1..M : (h \o e)[J + i] = e[i]
    <3>1. e \in Seq(LineRec)
      BY <1>13
    <3>2. PICK y \in Seq(LineRec) : y = e
      BY <3>1
    <3>3. M = Len(y)
      BY <2>4, <3>2
    <3>4. Joined(LineRec, h, y, J, M)
      BY <2>4, <3>3, JoinedAs
    <3> QED
      BY <3>2, <3>4 DEF Joined
  <2>6. J = 1 /\ M = K
    BY <1>13, <2>2, <2>4
  <2>7. u[1] = x
    BY <2>2, <2>3, <2>5, <2>6
  <2>8. w[1] = x
    <3>1. 1 \in 1..K + 1
      OBVIOUS
    <3> QED
      BY <1>7, <2>1, <3>1
  <2>9. \A i \in 1..K : 1 + i = i + 1 /\ u[1 + i] = e[i]
    BY <2>3, <2>5, <2>6
  <2>10. Len(u) = K + 1
    BY <2>3, <2>5, <2>6
  <2> QED
    BY <1>13, <2>3, <2>5, <2>7, <2>8, <2>9, <2>10
<1>15. StampedAs(p, n, b, e, u, w, K, C)
  BY <1>5, <1>6, <1>7, <1>9, <1>11, <1>12, <1>13, <1>14 DEF StampedAs
<1> QED
  BY <1>3, <1>15

(* Dropped with its body stamped and its terminator taken out, the scan    *)
(* queues what it would have queued without either.                        *)
BackAs(k, d, b, m, C, n) ==
  /\ k \in Lexer /\ ~k.ahead /\ k.captured = <<>>
  /\ k.line = d.line /\ k.stack = d.stack /\ k.cursor = d.cursor
  /\ Emptied(d.queue, k.queue, b, m, C, n)

(* Dropped with them, the lexer has the body's lines queued at their       *)
(* indents.                                                                *)
LEMMA HeredocBack ==
  ASSUME Layout, NoneAssumption, NEW p, NEW s, Looking(p, s), s.kind = "heredoc",
         NEW n \in Nat, NEW b, NEW e, NEW u, Stamping(p, n, b, e, u),
         NEW k, k = Drop([p EXCEPT !.captured = u, !.line = None], s),
         NEW d, d = Drop(p, s), NEW m, m = p.line
  PROVE  BackAs(k, d, b, m, Top(p.stack), n)
<1>1. /\ p \in Lexer /\ p.ahead /\ m \in LineRec /\ s.entry \in Nat /\ s.bound \in Nat
      /\ Shown(Swept(p), Top(p.stack), s)
  BY DEF Looking
<1>2. PICK C \in Nat : C = Top(p.stack)
  BY <1>1, BoundIs
<1>3. PICK K \in Nat, w \in Seq(LineRec) : StampedAs(p, n, b, e, u, w, K, C)
  BY <1>2, StampingIs
<1>4. /\ b \in Seq(LineRec) /\ u \in Seq(LineRec) /\ w = Swept(p)
      /\ Len(b) = K /\ Len(u) = K + 1 /\ Len(w) = K + 2
      /\ u[1] = w[1] /\ w[K + 2] = m
  BY <1>3 DEF StampedAs
<1>5. \A i \in 1..K : /\ w[i + 1] = b[i] /\ u[i + 1] = Stamp(b[i], n)
                      /\ Stampable(b[i], C, n) /\ Stamped(Stamp(b[i], n), b[i], C)
  BY <1>3 DEF StampedAs
<1>6. PICK o : o = [p EXCEPT !.captured = u, !.line = None]
  OBVIOUS
<1>7. /\ o \in Lexer /\ o.captured = u /\ o.line = None /\ o.ahead /\ o.stack = p.stack
      /\ o.queue = p.queue /\ o.cursor = p.cursor
  BY <1>1, <1>4, <1>6 DEF Lexer
<1>8. Swept(o) = u
  BY <1>7 DEF Swept
<1>9. u # <<>>
  BY <1>4
<1>10. DropsTo(k, o, s, u)
  <2>1. k = Drop(o, s)
    BY <1>6
  <2> QED
    BY <1>1, <1>4, <1>7, <1>8, <1>9, <2>1, DropIs
<1>11. /\ k \in Lexer /\ ~k.ahead /\ k.captured = <<>>
       /\ k.stack = Bounded(p.stack, s.bound)
       /\ k.line = SetEof(Placed(u[1], s.entry), Top(Bounded(p.stack, s.bound)))
       /\ k.queue = Returned(u) \o p.queue /\ k.cursor = p.cursor
       /\ Returned(u) \in Seq(LineRec) /\ Len(Returned(u)) = Len(u) - 1
       /\ \A i \in 1..Len(u) - 1 : Returned(u)[i] = Reset(u[i + 1])
  BY <1>7, <1>10 DEF DropsTo
<1>12. /\ d \in Lexer
       /\ d.stack = Bounded(p.stack, s.bound)
       /\ d.line = SetEof(Placed(Swept(p)[1], s.entry), Top(Bounded(p.stack, s.bound)))
       /\ d.queue = Returned(Swept(p)) \o p.queue /\ d.cursor = p.cursor
       /\ Returned(Swept(p)) \in Seq(LineRec)
       /\ \E j \in Nat : /\ Len(Swept(p)) = j + 1 /\ Len(Returned(Swept(p))) = j
                         /\ \A i \in 1..j : Returned(Swept(p))[i] = Reset(Swept(p)[i + 1])
  <2>1. /\ d \in Lexer /\ ~d.ahead /\ d.captured = <<>>
         /\ d.stack = Bounded(p.stack, s.bound) /\ d.line \in LineRec
         /\ d.line = SetEof(Placed(Swept(p)[1], s.entry), Top(Bounded(p.stack, s.bound)))
         /\ d.queue = Returned(Swept(p)) \o p.queue /\ d.cursor = p.cursor
         /\ Returned(Swept(p)) \in Seq(LineRec)
         /\ \E j \in Nat : /\ Len(Swept(p)) = j + 1 /\ Len(Returned(Swept(p))) = j
                           /\ \A i \in 1..j : Returned(Swept(p))[i] = Reset(Swept(p)[i + 1])
    BY DropFields
  <2> QED
    BY <2>1
<1>13. k.line = d.line /\ k.stack = d.stack /\ k.cursor = d.cursor
  BY <1>4, <1>11, <1>12
<1>14. PICK R \in Seq(LineRec) : R = Returned(w)
  BY <1>4, <1>12
<1>15. Len(R) = K + 1 /\ \A i \in 1..K + 1 : R[i] = Reset(w[i + 1])
  <2>1. PICK j \in Nat : /\ Len(w) = j + 1 /\ Len(R) = j
                         /\ \A i \in 1..j : R[i] = Reset(w[i + 1])
    BY <1>4, <1>12, <1>14
  <2>2. j = K + 1
    BY <1>4, <2>1
  <2> QED
    BY <2>1, <2>2
<1>16. PICK T \in Seq(LineRec) : T = Returned(u)
  BY <1>11
<1>17. Len(T) = K /\ \A i \in 1..K : T[i] = Reset(u[i + 1])
  <2>1. Len(u) - 1 = K
    BY <1>4
  <2> QED
    BY <1>11, <1>16, <2>1
<1>18. \A i \in 1..K : T[i] = Stamp(b[i], n)
  <2> TAKE i \in 1..K
  <2>1. PICK x : x = Stamp(b[i], n)
    OBVIOUS
  <2>2. Stamped(x, b[i], C)
    BY <1>5, <2>1
  <2>3. x \in LineRec /\ x.indent = x.pos
    BY <2>2 DEF Stamped
  <2>4. Reset(x) = x
    BY <2>3, ResetSame
  <2> QED
    BY <1>5, <1>17, <2>1, <2>4
<1>19. /\ \A i \in 1..K : R[i].at = b[i].at /\ R[i].pos = b[i].pos
       /\ R[K + 1].at = m.at /\ R[K + 1].pos = m.pos
       /\ Fixed(m, C) /\ Offset(m.at) <= C
  <2>1. ASSUME NEW i \in 1..K PROVE R[i].at = b[i].at /\ R[i].pos = b[i].pos
    <3>1. R[i] = Reset(b[i])
      BY <1>5, <1>15
    <3>2. b[i] \in LineRec
      BY <1>4
    <3>3. b[i].indent = b[i].pos
      BY <1>5 DEF Stampable
    <3> QED
      BY <3>1, <3>2, <3>3, ResetIs
  <2>2. R[K + 1] = Reset(m)
    <3>1. K + 1 \in 1..K + 1 /\ K + 1 + 1 = K + 2
      OBVIOUS
    <3> QED
      BY <1>4, <1>15, <3>1
  <2>3. Seen(m, C, s.kind)
    <3>1. K + 2 # 1 /\ K + 2 \in 1..Len(w)
      BY <1>4
    <3> QED
      BY <1>1, <1>2, <1>4, <3>1 DEF Shown
  <2> QED
    BY <1>1, <2>1, <2>2, <2>3, ResetIs DEF Seen
<1>20. PICK Q \in Seq(LineRec) : Q = p.queue
  BY <1>1, LexerIs
<1>21. PICK J \in Nat : J = Len(Q)
  OBVIOUS
<1>22. PICK q : q = R \o Q
  OBVIOUS
<1>23. PICK v : v = T \o Q
  OBVIOUS
<1>24. /\ q \in Seq(LineRec) /\ Len(q) = K + 1 + J
       /\ \A i \in 1..K + 1 : q[i] = R[i]
       /\ \A i \in 1..J : q[K + 1 + i] = Q[i]
  <2>1. PICK M \in Nat : M = Len(R)
    OBVIOUS
  <2>2. /\ q \in Seq(LineRec) /\ Len(q) = M + J
        /\ \A i \in 1..M : q[i] = R[i]
        /\ \A i \in 1..J : q[M + i] = Q[i]
    <3>1. /\ R \o Q \in Seq(LineRec) /\ Len(R \o Q) = M + J
          /\ \A i \in 1..M : (R \o Q)[i] = R[i]
          /\ \A i \in 1..J : (R \o Q)[M + i] = Q[i]
      BY <1>21, <2>1, ConcatOf
    <3> QED
      BY <1>22, <3>1
  <2>3. M = K + 1
    BY <1>15, <2>1
  <2> QED
    BY <2>2, <2>3
<1>25. /\ v \in Seq(LineRec) /\ Len(v) = K + J
       /\ \A i \in 1..K : v[i] = T[i]
       /\ \A i \in 1..J : v[K + i] = Q[i]
  <2>1. PICK M \in Nat : M = Len(T)
    OBVIOUS
  <2>2. /\ v \in Seq(LineRec) /\ Len(v) = M + J
        /\ \A i \in 1..M : v[i] = T[i]
        /\ \A i \in 1..J : v[M + i] = Q[i]
    <3>1. Joined(LineRec, T, Q, M, J)
      BY <1>21, <2>1, JoinedAs
    <3> QED
      BY <1>23, <3>1 DEF Joined
  <2>3. M = K
    BY <1>17, <2>1
  <2> QED
    BY <2>2, <2>3
<1>26. Emptied(q, v, b, m, C, n)
  <2>1. Len(q) = Len(v) + 1 /\ Len(b) <= Len(v)
    <3>1. Len(q) = K + 1 + J
      BY <1>24
    <3>2. Len(v) = K + J
      BY <1>25
    <3>3. Len(b) = K
      BY <1>4
    <3> QED
      BY <3>1, <3>2, <3>3
  <2>2. m.at = q[Len(b) + 1].at /\ m.pos = q[Len(b) + 1].pos
    <3>1. K + 1 \in 1..K + 1
      OBVIOUS
    <3> QED
      BY <1>4, <1>19, <1>24, <3>1
  <2>3. ASSUME NEW i \in 1..Len(b)
        PROVE  /\ Stampable(b[i], C, n) /\ b[i].at = q[i].at /\ b[i].pos = q[i].pos
               /\ v[i] = Stamp(b[i], n)
    <3>1. i \in 1..K /\ i \in 1..K + 1
      BY <1>4
    <3> QED
      BY <1>5, <1>18, <1>19, <1>24, <1>25, <3>1
  <2>4. ASSUME NEW i \in Len(b) + 1..Len(v) PROVE v[i] = q[i + 1]
    <3>1. i \in K + 1..K + J
      BY <1>4, <1>25
    <3>2. PICK a \in Nat : a = i - K
      BY <3>1
    <3>3. a \in 1..J /\ K + a = i /\ K + 1 + a = i + 1
      BY <3>1, <3>2
    <3> QED
      BY <1>24, <1>25, <3>3
  <2> QED
    BY <1>1, <1>4, <1>19, <1>24, <1>25, <2>1, <2>2, <2>3, <2>4 DEF Emptied
<1>27. q = d.queue /\ v = k.queue
  BY <1>4, <1>11, <1>12, <1>14, <1>16, <1>20, <1>22, <1>23
<1> QED
  BY <1>2, <1>11, <1>13, <1>26, <1>27 DEF BackAs

ClosingHeredoc(q, k, p, s, u) ==
  /\ k = Drop([p EXCEPT !.captured = u, !.line = None], s)
  /\ q = Push(k, "heredoc", k.line, Offset(p.line.at), None)

(* A search that finds the terminator leaves the lexer settled.            *)
LEMMA HeredocCloses ==
  ASSUME Layout, NoneAssumption, NEW p, NEW s, NEW r, NEW g, ScanOk(p, s, r, g), s.kind = "heredoc",
         NEW n \in Nat, NEW b, NEW e, NEW u, Stamping(p, n, b, e, u),
         NEW k, NEW q, ClosingHeredoc(q, k, p, s, u)
  PROVE  /\ Settled(q, r, g \cup Span(p.line) \cup UNION {Stripped(b[i], n) : i \in 1..Len(b)})
         /\ ~q.ahead /\ q.captured = <<>>
<1>1. Looking(p, s) /\ p \in Lexer /\ p.line \in LineRec
  BY DEF ScanOk, Looking
<1>2. PICK d : d = Drop(p, s)
  OBVIOUS
<1>3. PICK m \in LineRec : m = p.line
  BY <1>1
<1>4. PICK C \in Nat : C = Top(p.stack)
  BY <1>1, BoundIs
<1>5. Dropped(d, p, s, r, g)
  BY <1>2 DEF ScanOk
<1>6. BackAs(k, d, b, m, C, n)
  BY <1>1, <1>2, <1>3, <1>4, HeredocBack DEF ClosingHeredoc
<1>7. /\ k \in Lexer /\ ~k.ahead /\ k.captured = <<>>
      /\ k.line = d.line /\ k.stack = d.stack /\ k.cursor = d.cursor
      /\ Emptied(d.queue, k.queue, b, m, C, n)
  BY <1>6 DEF BackAs
<1>8. d \in Lexer /\ Queued(d.queue, d.cursor, d.stack) /\ Lies(d.line, d.stack, Waits(d.queue, d.cursor), r, g)
      /\ Ceil(C, d.stack, Waits(d.queue, d.cursor))
  BY <1>4, <1>5 DEF Dropped, Settled
<1>9. PICK l \in LineRec : l = d.line
  <2>1. d.line \in LineRec
    <3>1. /\ d \in Lexer /\ ~d.ahead /\ d.captured = <<>>
         /\ d.stack = Bounded(p.stack, s.bound) /\ d.line \in LineRec
         /\ d.line = SetEof(Placed(Swept(p)[1], s.entry), Top(Bounded(p.stack, s.bound)))
         /\ d.queue = Returned(Swept(p)) \o p.queue /\ d.cursor = p.cursor
         /\ Returned(Swept(p)) \in Seq(LineRec)
         /\ \E j \in Nat : /\ Len(Swept(p)) = j + 1 /\ Len(Returned(Swept(p))) = j
                           /\ \A i \in 1..j : Returned(Swept(p))[i] = Reset(Swept(p)[i + 1])
      BY <1>1, <1>2, DropFields
    <3> QED
      BY <3>1
  <2> QED
    BY <2>1
<1>10. PICK S \in Seq(FrameRec), c \in 1..Len(Lines) + 1 : S = d.stack /\ c = d.cursor
  BY <1>8, LexerIs
<1>11. PICK x, v : x = d.queue /\ v = k.queue
  OBVIOUS
<1>12. PICK W : W = Waits(x, c)
  OBVIOUS
<1>13. PICK V : V = Waits(v, c)
  OBVIOUS
<1>14. PICK z : z = Entry(m)
  OBVIOUS
<1>15. Emptied(x, v, b, m, C, n) /\ Queued(x, c, S) /\ Lies(l, S, W, r, g) /\ Ceil(C, S, W)
  BY <1>7, <1>8, <1>9, <1>10, <1>11, <1>12
<1>16. PICK h \in Nat : h = Offset(m.at)
  BY <1>3, PlaceOf
<1>17. PICK f : f = [kind |-> "heredoc", line |-> l, bound |-> h]
  OBVIOUS
<1>18. Framed(f, q, k, l, h, None)
  <2>1. Framing(f, q, k, "heredoc", l, h, None)
    BY <1>3, <1>7, <1>9, <1>16, <1>17 DEF Framing, ClosingHeredoc
  <2>2. None \in LineRec \cup {None} /\ "heredoc" \in {"body", "heredoc"}
    OBVIOUS
  <2> QED
    BY <1>7, <2>1, <2>2, PushIs
<1>19. /\ f \in FrameRec /\ f.line = l /\ f.bound = h
       /\ q \in Lexer /\ q.line = None /\ q.stack = Append(k.stack, f)
       /\ q.queue = k.queue /\ q.cursor = k.cursor /\ q.captured = k.captured /\ q.ahead = k.ahead
  BY <1>18 DEF Framed
<1>20. PICK t : t = Append(S, f)
  OBVIOUS
<1>21. Queued(v, c, t)
  <2>1. f.bound = Offset(m.at)
    BY <1>16, <1>19
  <2>2. f \in FrameRec
    BY <1>19
  <2>3. Queued(v, c, Append(S, f))
    BY <1>15, <2>1, <2>2, ShortQueue
  <2> QED
    BY <1>20, <2>3
<1>22. Within(S, W)
  BY <1>15 DEF Lies, Nested
<1>23. Trims(S, W, z, V)
  BY <1>12, <1>13, <1>14, <1>15, <1>21, <1>22, BodyTrims
<1>24. Trimmed(S, W, V) = Span(m) \cup UNION {Stripped(b[i], n) : i \in 1..Len(b)}
  BY <1>12, <1>13, <1>14, <1>15, <1>21, <1>22, BodyTrimmed
<1>25. Lies(None, Append(S, f), V, r, g \cup Trimmed(S, W, V))
  <2>1. z.at = m.at
    BY <1>14 DEF Entry
  <2>2. f.bound = Offset(z.at)
    BY <1>16, <1>19, <2>1
  <2> QED
    BY <1>15, <1>19, <1>23, <2>2, HeredocLies
<1>26. Lies(None, t, V, r, g \cup Span(p.line) \cup UNION {Stripped(b[i], n) : i \in 1..Len(b)})
  <2>1. g \cup Trimmed(S, W, V) = g \cup Span(p.line) \cup UNION {Stripped(b[i], n) : i \in 1..Len(b)}
    BY <1>3, <1>24
  <2> QED
    BY <1>20, <1>25, <2>1
<1>27. q.line = None /\ q.stack = t /\ q.queue = v /\ q.cursor = c /\ V = Waits(q.queue, q.cursor)
  BY <1>7, <1>10, <1>11, <1>13, <1>19, <1>20
<1> QED
  BY <1>7, <1>19, <1>21, <1>26, <1>27 DEF Settled

-----------------------------------------------------------------------------
(* The inductive invariant: between scans the lexer is settled, and during *)
(* one it would be if the scan were dropped.                               *)

Scans == {"peek", "body", "heredoc"}
BodyScan(s) == s = [kind |-> s.kind, entry |-> s.entry, bound |-> s.bound, depth |-> s.depth]
Good(p, s, r, g) ==
  /\ p.ahead = (s.kind \in Scans)
  /\ ~p.ahead => p.captured = <<>> /\ Settled(p, r, g)
  /\ p.ahead => ScanOk(p, s, r, g)
  /\ s.kind = "peeked" => Unmoved(p, s.before)
  /\ s.kind = "body" => BodyScan(s)

IInv == text \in Texts /\ Good(lx, scan, read, gone)

(* Good does not depend on the step it is looked at from: the text stays.  *)
LEMMA TextStays ==
  ASSUME text' = text
  PROVE  /\ Lines' = Lines /\ LineRec' = LineRec /\ FrameRec' = FrameRec /\ Lexer' = Lexer
         /\ WaitRec' = WaitRec /\ Positions' = Positions /\ NoBound' = NoBound
         /\ \A i : Full(i)' = Full(i) /\ HasNewline(i)' = HasNewline(i) /\ Extent(i)' = Extent(i)
<1>1. Lines' = Lines
  BY DEF Lines
<1>2. NoBound' = NoBound
  BY <1>1 DEF NoBound
<1>3. ASSUME NEW i PROVE Full(i)' = Full(i) /\ HasNewline(i)' = HasNewline(i)
  BY <1>1 DEF Full, HasNewline, Lines
<1>4. ASSUME NEW i PROVE Extent(i)' = Extent(i)
  BY <1>3 DEF Extent
<1>5. LineRec' = LineRec
  BY <1>1 DEF LineRec
<1>6. FrameRec' = FrameRec
  BY <1>5 DEF FrameRec
<1>7. Lexer' = Lexer
  BY <1>1, <1>5, <1>6 DEF Lexer
<1>8. WaitRec' = WaitRec
  BY <1>1 DEF WaitRec
<1>9. Positions' = Positions
  BY <1>1, <1>4 DEF Positions
<1> QED
  BY <1>1, <1>2, <1>3, <1>4, <1>5, <1>6, <1>7, <1>8, <1>9

(* What is said of lines stays while the text does.                        *)
LEMMA LinesStay ==
  ASSUME text' = text
  PROVE  /\ \A l, b : SetEof(l, b)' = SetEof(l, b) /\ (Fixed(l, b)' <=> Fixed(l, b))
         /\ \A s : Top(s)' = Top(s) /\ \A i : BoundOf(s, i)' = BoundOf(s, i)
         /\ \A l : Span(l)' = Span(l) /\ LineSpan(l)' = LineSpan(l)
         /\ \A s, i : FrameSpan(s, i)' = FrameSpan(s, i)
         /\ \A s, W, a : WaitSpan(s, W, a)' = WaitSpan(s, W, a)
         /\ \A q, c : Waits(q, c)' = Waits(q, c)
         /\ \A H : Partition(H)' <=> Partition(H)
<1>1. ASSUME NEW l, NEW b PROVE SetEof(l, b)' = SetEof(l, b)
  BY TextStays DEF SetEof
<1>2. ASSUME NEW l, NEW b PROVE Fixed(l, b)' <=> Fixed(l, b)
  BY <1>1 DEF Fixed
<1>3. ASSUME NEW s PROVE Top(s)' = Top(s)
  BY TextStays DEF Top
<1>4. ASSUME NEW s, NEW i PROVE BoundOf(s, i)' = BoundOf(s, i)
  BY TextStays DEF BoundOf
<1>5. ASSUME NEW l PROVE Span(l)' = Span(l)
  BY DEF Span
<1>6. ASSUME NEW l PROVE LineSpan(l)' = LineSpan(l)
  BY <1>5 DEF LineSpan
<1>7. ASSUME NEW s, NEW i PROVE FrameSpan(s, i)' = FrameSpan(s, i)
  BY <1>5 DEF FrameSpan
<1>8. ASSUME NEW s, NEW W, NEW a PROVE WaitSpan(s, W, a)' = WaitSpan(s, W, a)
  BY TextStays DEF WaitSpan
<1>9. ASSUME NEW q, NEW c PROVE Waits(q, c)' = Waits(q, c)
  BY TextStays DEF Waits
<1>10. ASSUME NEW H PROVE Partition(H)' <=> Partition(H)
  BY TextStays DEF Partition
<1> QED
  BY <1>1, <1>2, <1>3, <1>4, <1>5, <1>6, <1>7, <1>8, <1>9, <1>10

(* So does what is said of the lexer between scans,                        *)
LEMMA LyingStays ==
  ASSUME text' = text
  PROVE  /\ \A l, s, W, r, g : Lies(l, s, W, r, g)' <=> Lies(l, s, W, r, g)
         /\ \A p, r, g : Settled(p, r, g)' <=> Settled(p, r, g)
<1>1. ASSUME NEW l, NEW s, NEW W PROVE Typed(l, s, W)' <=> Typed(l, s, W)
  BY TextStays DEF Typed
<1>2. ASSUME NEW s, NEW W PROVE Within(s, W)' <=> Within(s, W)
  BY TextStays DEF Within
<1>3. ASSUME NEW l, NEW s PROVE Levels(l, s)' <=> Levels(l, s)
  BY LinesStay DEF Levels
<1>4. ASSUME NEW l, NEW s, NEW W PROVE Nested(l, s, W)' <=> Nested(l, s, W)
  BY <1>1, <1>2, <1>3 DEF Nested
<1>5. ASSUME NEW l, NEW s, NEW W, NEW r, NEW g PROVE Hold(l, s, W, r, g)' = Hold(l, s, W, r, g)
  BY LinesStay DEF Hold
<1>6. ASSUME NEW l, NEW s, NEW W, NEW r, NEW g PROVE Lies(l, s, W, r, g)' <=> Lies(l, s, W, r, g)
  <2>1. PICK H : H = Hold(l, s, W, r, g)
    OBVIOUS
  <2>2. H = Hold(l, s, W, r, g)'
    BY <1>5, <2>1
  <2> QED
    BY <1>4, <2>1, <2>2, LinesStay DEF Lies
<1>7. ASSUME NEW q, NEW s PROVE Whole(q, s)' <=> Whole(q, s)
  BY TextStays, LinesStay DEF Whole
<1>8. ASSUME NEW q, NEW c, NEW s PROVE Queued(q, c, s)' <=> Queued(q, c, s)
  BY <1>7 DEF Queued
<1>9. ASSUME NEW p, NEW r, NEW g PROVE Settled(p, r, g)' <=> Settled(p, r, g)
  BY <1>6, <1>8, TextStays, LinesStay DEF Settled
<1> QED
  BY <1>6, <1>9

(* and what a scan would be dropped to,                                    *)
LEMMA DropStays ==
  ASSUME text' = text
  PROVE  \A p, s : Drop(p, s)' = Drop(p, s)
<1>1. ASSUME NEW p PROVE Bound(p)' = Bound(p)
  BY TextStays DEF Bound
<1>2. ASSUME NEW p, NEW l PROVE Install(p, l)' = Install(p, l)
  BY <1>1, LinesStay DEF Install
<1>3. ASSUME NEW p, NEW s PROVE Rewound(p, s)' = Rewound(p, s)
  BY <1>2 DEF Rewound
<1> QED
  BY <1>3 DEF Drop

(* and what is said of a scan,                                             *)
LEMMA ScanStays ==
  ASSUME text' = text
  PROVE  \A p, s, r, g : ScanOk(p, s, r, g)' <=> ScanOk(p, s, r, g)
<1>1. ASSUME NEW w, NEW C, NEW s PROVE Shown(w, C, s)' <=> Shown(w, C, s)
  BY LinesStay DEF Shown, Entered, Seen
<1>2. ASSUME NEW p, NEW s PROVE Looking(p, s)' <=> Looking(p, s)
  BY <1>1, TextStays, LinesStay DEF Looking
<1>3. ASSUME NEW C, NEW s, NEW W PROVE Ceil(C, s, W)' <=> Ceil(C, s, W)
  BY TextStays DEF Ceil
<1>4. ASSUME NEW p PROVE Ahead(p)' = Ahead(p)
  BY TextStays DEF Ahead
<1>5. ASSUME NEW p, NEW b PROVE Unmoved(p, b)' <=> Unmoved(p, b)
  BY <1>4 DEF Unmoved
<1>6. ASSUME NEW d, NEW p, NEW s, NEW r, NEW g PROVE Dropped(d, p, s, r, g)' <=> Dropped(d, p, s, r, g)
  BY <1>3, <1>5, LinesStay, LyingStays DEF Dropped
<1>7. ASSUME NEW p, NEW s, NEW r, NEW g PROVE ScanOk(p, s, r, g)' <=> ScanOk(p, s, r, g)
  <2>1. PICK d : d = Drop(p, s)
    OBVIOUS
  <2>2. d = Drop(p, s)'
    BY <2>1, DropStays
  <2> QED
    BY <1>2, <1>6, <2>1, <2>2 DEF ScanOk
<1> QED
  BY <1>7

(* and so the invariant,                                                   *)
LEMMA GoodStays ==
  ASSUME text' = text, NEW p, NEW s, NEW r, NEW g, Good(p, s, r, g)
  PROVE  Good(p, s, r, g)'
<1>1. Ahead(p)' = Ahead(p)
  BY TextStays DEF Ahead
<1>2. ASSUME s.kind = "peeked" PROVE Unmoved(p, s.before)' <=> Unmoved(p, s.before)
  <2>1. PICK b : b = s.before
    OBVIOUS
  <2>2. Ahead(b)' = Ahead(b)
    BY TextStays DEF Ahead
  <2> QED
    BY <1>1, <2>1, <2>2 DEF Unmoved
<1> QED
  BY <1>2, LyingStays, ScanStays DEF Good

(* which holds of the next state when it does of its fields.               *)
LEMMA IInvStays ==
  ASSUME text \in Texts, text' = text, Good(lx', scan', read', gone')
  PROVE  IInv'
<1>1. Good(lx, scan, read, gone)'
  BY GoodStays
<1> QED
  BY <1>1 DEF IInv

-----------------------------------------------------------------------------
(* Each step keeps it.                                                     *)

(* Between scans, being settled is enough.                                 *)
LEMMA SettledGood ==
  ASSUME NEW p, NEW s, NEW r, NEW g, Settled(p, r, g), ~p.ahead, p.captured = <<>>,
         s.kind \notin Scans, s.kind = "peeked" => Unmoved(p, s.before)
  PROVE  Good(p, s, r, g)
<1>1. p.ahead \in BOOLEAN
  BY LexerIs DEF Settled
<1> QED
  BY <1>1 DEF Good, Scans

(* During a scan, a scan in order is enough.                               *)
LEMMA ScanGood ==
  ASSUME NEW p, NEW s, NEW r, NEW g, ScanOk(p, s, r, g), s.kind \in Scans,
         s.kind = "body" => BodyScan(s)
  PROVE  Good(p, s, r, g)
<1>1. p.ahead /\ p.ahead \in BOOLEAN
  <2>1. p.ahead /\ p \in Lexer
    BY DEF ScanOk, Looking
  <2> QED
    BY <2>1, LexerIs
<1>2. s.kind # "peeked"
  BY DEF Scans
<1> QED
  BY <1>1, <1>2 DEF Good

(* What the invariant says when no scan is on.                             *)
LEMMA IdleGood ==
  ASSUME IInv, Idle
  PROVE  /\ Settled(lx, read, gone) /\ ~lx.ahead /\ lx.captured = <<>>
         /\ scan.kind \notin Scans /\ NoScan.kind \notin Scans /\ NoScan.kind # "peeked"
         /\ text \in Texts
<1>1. scan.kind \notin Scans
  BY DEF Idle, Scanning, Scans
<1>2. ~lx.ahead
  BY <1>1 DEF IInv, Good
<1> QED
  BY <1>1, <1>2 DEF IInv, Good, NoScan, Scans

(* What it says when one is.                                               *)
LEMMA ScanningGood ==
  ASSUME IInv, NEW k \in Scans, Scanning(k)
  PROVE  /\ ScanOk(lx, scan, read, gone) /\ scan.kind = k /\ text \in Texts
         /\ scan.kind = "body" => BodyScan(scan)
<1>1. scan.kind = k
  BY DEF Scanning
<1>2. lx.ahead
  BY <1>1 DEF IInv, Good
<1> QED
  BY <1>1, <1>2 DEF IInv, Good

(* A line with a byte on it is a line.                                     *)
LEMMA LineIs ==
  ASSUME NEW p \in Lexer, HasByte(p.line)
  PROVE  p.line \in LineRec
BY LexerIs DEF HasByte

(* Reading a byte keeps the invariant.                                     *)
LEMMA ConsumeGood ==
  ASSUME TextsAssumption, NoneAssumption, IInv, Consume
  PROVE  IInv'
<1>1. Idle /\ HasByte(lx.line)
  BY DEF Consume
<1>2. /\ lx' = [lx EXCEPT !.line.pos = @ + 1] /\ scan' = NoScan
      /\ read' = read \cup {Here(lx.line)} /\ gone' = gone /\ text' = text
  BY DEF Consume, Step
<1>3. Settled(lx, read, gone) /\ ~lx.ahead /\ lx.captured = <<>> /\ NoScan.kind \notin Scans
      /\ NoScan.kind # "peeked" /\ text \in Texts
  BY <1>1, IdleGood
<1>4. Layout
  BY <1>3, TextLaidOut
<1>5. /\ Settled(lx', read \cup {Here(lx.line)}, gone)
      /\ lx'.ahead = lx.ahead /\ lx'.captured = lx.captured
  BY <1>1, <1>2, <1>3, <1>4, SettledConsume
<1>6. Good(lx', NoScan, read \cup {Here(lx.line)}, gone)
  BY <1>3, <1>5, SettledGood
<1> QED
  BY <1>2, <1>3, <1>6, IInvStays

(* So does delivering a line,                                              *)
LEMMA LoadGood ==
  ASSUME TextsAssumption, NoneAssumption, IInv, Load
  PROVE  IInv'
<1>1. Idle /\ ~HasByte(lx.line) /\ HasNext(lx)
  BY DEF Load
<1>2. lx' = NextLine(lx) /\ scan' = NoScan /\ read' = read /\ gone' = gone /\ text' = text
  BY DEF Load
<1>3. Settled(lx, read, gone) /\ ~lx.ahead /\ lx.captured = <<>> /\ NoScan.kind \notin Scans
      /\ NoScan.kind # "peeked" /\ text \in Texts
  BY <1>1, IdleGood
<1>4. Layout
  BY <1>3, TextLaidOut
<1>5. Settled(lx', read, gone) /\ lx'.ahead = lx.ahead /\ (~lx.ahead => lx'.captured = lx.captured)
  BY <1>1, <1>2, <1>3, <1>4, SettledLoad
<1>6. Good(lx', NoScan, read, gone)
  BY <1>3, <1>5, SettledGood
<1> QED
  BY <1>2, <1>3, <1>6, IInvStays

(* letting go of a line,                                                   *)
LEMMA AbandonGood ==
  ASSUME TextsAssumption, NoneAssumption, IInv, Abandon
  PROVE  IInv'
<1>1. Idle /\ HasByte(lx.line)
  BY DEF Abandon
<1>2. /\ lx' = [lx EXCEPT !.line = None] /\ scan' = NoScan
      /\ read' = read /\ gone' = gone \cup Span(lx.line) /\ text' = text
  BY DEF Abandon
<1>3. Settled(lx, read, gone) /\ ~lx.ahead /\ lx.captured = <<>> /\ NoScan.kind \notin Scans
      /\ NoScan.kind # "peeked" /\ text \in Texts
  BY <1>1, IdleGood
<1>4. Layout
  BY <1>3, TextLaidOut
<1>5. /\ Settled(lx', read, gone \cup Span(lx.line))
      /\ lx'.ahead = lx.ahead /\ lx'.captured = lx.captured
  BY <1>1, <1>2, <1>3, <1>4, SettledAbandon
<1>6. Good(lx', NoScan, read, gone \cup Span(lx.line))
  BY <1>3, <1>5, SettledGood
<1> QED
  BY <1>2, <1>3, <1>6, IInvStays

(* leaving a body,                                                         *)
LEMMA PopGood ==
  ASSUME TextsAssumption, NoneAssumption, IInv, PopContext
  PROVE  IInv'
<1>1. Idle /\ ~HasByte(lx.line) /\ ~HasNext(lx) /\ lx.stack # <<>>
  BY DEF PopContext
<1>2. lx' = Pop(lx) /\ scan' = NoScan /\ read' = read /\ gone' = gone /\ text' = text
  BY DEF PopContext
<1>3. Settled(lx, read, gone) /\ ~lx.ahead /\ lx.captured = <<>> /\ NoScan.kind \notin Scans
      /\ NoScan.kind # "peeked" /\ text \in Texts
  BY <1>1, IdleGood
<1>4. Layout
  BY <1>3, TextLaidOut
<1>5. Settled(lx', read, gone) /\ lx'.ahead = lx.ahead /\ lx'.captured = lx.captured
  BY <1>1, <1>2, <1>3, <1>4, SettledPop
<1>6. Good(lx', NoScan, read, gone)
  BY <1>3, <1>5, SettledGood
<1> QED
  BY <1>2, <1>3, <1>6, IInvStays

(* and ending.                                                             *)
LEMMA FinishGood ==
  ASSUME TextsAssumption, NoneAssumption, IInv, Finish
  PROVE  IInv'
<1>1. Idle /\ lx' = lx /\ scan' = NoScan /\ read' = read /\ gone' = gone /\ text' = text
  BY DEF Finish
<1>2. Settled(lx, read, gone) /\ ~lx.ahead /\ lx.captured = <<>> /\ NoScan.kind \notin Scans
      /\ NoScan.kind # "peeked" /\ text \in Texts
  BY <1>1, IdleGood
<1>3. Good(lx, NoScan, read, gone)
  BY <1>2, SettledGood
<1> QED
  BY <1>1, <1>2, <1>3, IInvStays

(* A lookahead under the top frame's own bound.                            *)
LEMMA TopIsCeil ==
  ASSUME Layout, NEW l, NEW s, NEW W, Nested(l, s, W)
  PROVE  Ceil(Top(s), s, W)
<1>1. s \in Seq(FrameRec) /\ Inner(s, W)
  BY DEF Nested, Typed
<1>2. Top(s) = NoBound \/ \E i \in 1..Len(s) : Top(s) = s[i].bound
  <2>1. CASE s = <<>>
    BY <2>1 DEF Top
  <2>2. CASE s # <<>>
    <3>1. Len(s) \in 1..Len(s)
      BY <1>1, <2>2
    <3> QED
      BY <2>2, <3>1 DEF Top
  <2> QED
    BY <2>1, <2>2
<1>3. \A w \in W : \A i \in 1..Len(s) : Offset(w.at) <= s[i].bound => Top(s) <= s[i].bound
  BY <1>1, TopIsLeast
<1> QED
  BY <1>2, <1>3 DEF Ceil

(* A lookahead opens a scan at the current bound,                          *)
LEMMA LookaheadOpens ==
  ASSUME Layout, NEW b, NEW r, NEW g, Settled(b, r, g), b.captured = <<>>, NEW p, p = Lookahead(b)
  PROVE  Opens(p, b, Top(b.stack))
<1>1. b \in Lexer
  BY DEF Settled
<1>2. PICK s \in Seq(FrameRec) : s = b.stack
  BY <1>1, LexerIs
<1>3. Top(s) \in Nat
  BY <1>1, <1>2, BoundIs
<1>4. Bounded(s, Top(s)) = s
  BY <1>2, <1>3, BoundedBack
<1>5. /\ p \in Lexer /\ p.ahead /\ p.captured = b.captured /\ p.line = b.line /\ p.queue = b.queue
      /\ p.cursor = b.cursor /\ p.stack = b.stack
  BY <1>1 DEF Lookahead, Lexer
<1> QED
  BY <1>2, <1>4, <1>5 DEF Opens

(* which is in order.                                                      *)
LEMMA LookaheadOk ==
  ASSUME Layout, NoneAssumption, NEW b, NEW r, NEW g, Settled(b, r, g), b.captured = <<>>, b.line \in LineRec,
         NEW p, p = Lookahead(b), NEW s, s.entry = b.line.pos, s.bound = Bound(b), s.kind # "heredoc",
         s.kind = "peek" => Unmoved(b, s.before)
  PROVE  ScanOk(p, s, r, g)
<1>1. b \in Lexer /\ Nested(b.line, b.stack, Waits(b.queue, b.cursor))
  BY DEF Settled, Lies
<1>2. Bound(b) = Top(b.stack) /\ Top(b.stack) \in Nat
  BY <1>1, BoundIs
<1>3. Opens(p, b, Top(b.stack))
  BY LookaheadOpens
<1>4. Ceil(Top(b.stack), b.stack, Waits(b.queue, b.cursor))
  BY <1>1, TopIsCeil
<1>5. PICK C \in Nat : C = Top(b.stack)
  BY <1>2
<1> QED
  BY <1>2, <1>3, <1>4, <1>5, ScanStart

(* Starting to peek keeps the invariant.                                   *)
LEMMA PeekGood ==
  ASSUME TextsAssumption, NoneAssumption, IInv, Peek
  PROVE  IInv'
<1>1. Idle /\ HasByte(lx.line)
  BY DEF Peek, Idle
<1>2. /\ lx' = Lookahead(lx) /\ read' = read /\ gone' = gone /\ text' = text
      /\ scan' = [kind |-> "peek", entry |-> lx.line.pos, bound |-> Bound(lx), before |-> lx]
  BY DEF Peek
<1>3. Settled(lx, read, gone) /\ ~lx.ahead /\ lx.captured = <<>> /\ text \in Texts
  BY <1>1, IdleGood
<1>4. Layout
  BY <1>3, TextLaidOut
<1>5. lx.line \in LineRec
  BY <1>1, <1>3, LineIs DEF Settled
<1>6. /\ scan'.kind = "peek" /\ scan'.entry = lx.line.pos /\ scan'.bound = Bound(lx)
      /\ scan'.before = lx
  BY <1>2
<1>7. Unmoved(lx, lx)
  BY DEF Unmoved
<1>8. ScanOk(lx', scan', read, gone)
  <2>1. scan'.kind # "heredoc"
    BY <1>6
  <2>2. PICK p, s : p = lx' /\ s = scan'
    OBVIOUS
  <2>3. ScanOk(p, s, read, gone)
    BY <1>2, <1>3, <1>4, <1>5, <1>6, <1>7, <2>1, <2>2, LookaheadOk
  <2> QED
    BY <2>2, <2>3
<1>9. Good(lx', scan', read, gone)
  BY <1>6, <1>8, ScanGood DEF Scans
<1> QED
  BY <1>2, <1>3, <1>9, IInvStays

(* Moving the cursor is a move within the scan,                            *)
LEMMA StepMoves ==
  ASSUME Layout, NEW p \in Lexer, p.line \in LineRec, NEW n \in Nat, NEW q, q = [p EXCEPT !.line.pos = @ + n]
  PROVE  MovedOn(p, q, p.line.pos + n)
<1>1. q = [p EXCEPT !.line = Placed(p.line, p.line.pos + n)]
  BY SteppedIs
<1>2. p.line.pos \in Nat
  BY PlaceOf
<1> QED
  BY <1>1, <1>2 DEF MovedOn

(* which stays in order.                                                   *)
LEMMA StepOk ==
  ASSUME Layout, NoneAssumption, NEW p, NEW s, NEW r, NEW g, ScanOk(p, s, r, g), s.kind # "heredoc",
         NEW n \in Nat, NEW q, q = [p EXCEPT !.line.pos = @ + n], NEW t, Agree(s, t)
  PROVE  ScanOk(q, t, r, g)
<1>1. p \in Lexer /\ p.line \in LineRec
  BY DEF ScanOk, Looking
<1>2. MovedOn(p, q, p.line.pos + n)
  BY <1>1, StepMoves
<1>3. PICK k : k = p.line.pos + n
  OBVIOUS
<1>4. MovedOn(p, q, k)
  BY <1>2, <1>3
<1> QED
  BY <1>4, ScanStep

(* Peeking over a byte keeps the invariant.                                *)
LEMMA PeekByteGood ==
  ASSUME TextsAssumption, NoneAssumption, IInv, PeekByte
  PROVE  IInv'
<1>1. /\ Scanning("peek") /\ lx' = [lx EXCEPT !.line.pos = @ + 1]
      /\ scan' = scan /\ read' = read /\ gone' = gone /\ text' = text
  BY DEF PeekByte, Step
<1>2. ScanOk(lx, scan, read, gone) /\ scan.kind = "peek" /\ text \in Texts
  BY <1>1, ScanningGood DEF Scans
<1>3. Layout
  BY <1>2, TextLaidOut
<1>4. Agree(scan, scan)
  BY DEF Agree
<1>5. ScanOk(lx', scan, read, gone)
  BY <1>1, <1>2, <1>3, <1>4, StepOk
<1>6. Good(lx', scan, read, gone)
  BY <1>2, <1>5, ScanGood DEF Scans
<1> QED
  BY <1>1, <1>2, <1>6, IInvStays

(* So does delivering a line in a scan,                                    *)
LEMMA NextLineGood ==
  ASSUME TextsAssumption, NoneAssumption, IInv, NEW k \in Scans, Scanning(k), HasNext(lx),
         lx' = NextLine(lx), scan' = scan, read' = read, gone' = gone, text' = text
  PROVE  IInv'
<1>1. /\ ScanOk(lx, scan, read, gone) /\ scan.kind = k /\ text \in Texts
      /\ scan.kind = "body" => BodyScan(scan)
  BY ScanningGood
<1>2. Layout
  BY <1>1, TextLaidOut
<1>3. ScanOk(lx', scan, read, gone)
  BY <1>1, <1>2, ScanNext
<1>4. Good(lx', scan, read, gone)
  BY <1>1, <1>3, ScanGood
<1> QED
  BY <1>1, <1>4, IInvStays

(* dropping a peek,                                                        *)
LEMMA PeekEndsGood ==
  ASSUME TextsAssumption, NoneAssumption, IInv, PeekEnds
  PROVE  IInv'
<1>1. /\ Scanning("peek") /\ lx' = Drop(lx, scan) /\ scan' = Peeked(scan.before)
      /\ read' = read /\ gone' = gone /\ text' = text
  BY DEF PeekEnds
<1>2. ScanOk(lx, scan, read, gone) /\ scan.kind = "peek" /\ text \in Texts
  BY <1>1, ScanningGood DEF Scans
<1>3. Layout
  BY <1>2, TextLaidOut
<1>4. Looking(lx, scan) /\ Dropped(lx', lx, scan, read, gone)
  BY <1>1, <1>2 DEF ScanOk
<1>5. ~lx'.ahead /\ lx'.captured = <<>>
  <2>1. PICK d : d = Drop(lx, scan)
    OBVIOUS
  <2>2. /\ d \in Lexer /\ ~d.ahead /\ d.captured = <<>>
         /\ d.stack = Bounded(lx.stack, scan.bound) /\ d.line \in LineRec
         /\ d.line = SetEof(Placed(Swept(lx)[1], scan.entry), Top(Bounded(lx.stack, scan.bound)))
         /\ d.queue = Returned(Swept(lx)) \o lx.queue /\ d.cursor = lx.cursor
         /\ Returned(Swept(lx)) \in Seq(LineRec)
         /\ \E j \in Nat : /\ Len(Swept(lx)) = j + 1 /\ Len(Returned(Swept(lx))) = j
                           /\ \A i \in 1..j : Returned(Swept(lx))[i] = Reset(Swept(lx)[i + 1])
    BY <1>3, <1>4, <2>1, DropFields
  <2> QED
    BY <1>1, <2>1, <2>2
<1>6. Settled(lx', read, gone) /\ Unmoved(lx', scan.before)
  BY <1>2, <1>4 DEF Dropped
<1>7. scan'.kind \notin Scans /\ scan'.before = scan.before
  BY <1>1 DEF Peeked, Scans
<1>8. Good(lx', scan', read, gone)
  BY <1>5, <1>6, <1>7, SettledGood
<1> QED
  BY <1>1, <1>2, <1>8, IInvStays

(* The byte that opens a body is read.                                     *)
LEMMA OpenerRead ==
  ASSUME Layout, NoneAssumption, NEW p, NEW r, NEW g, Settled(p, r, g), p.captured = <<>>, HasByte(p.line),
         NEW b, b = [p EXCEPT !.line.pos = @ + 1]
  PROVE  /\ Settled(b, r \cup {Here(p.line)}, g) /\ b.captured = <<>> /\ b.line \in LineRec
         /\ b.line.pos = p.line.pos + 1 /\ b.stack = p.stack /\ Bound(b) = Bound(p)
<1>1. p \in Lexer /\ p.line \in LineRec
  BY LineIs DEF Settled
<1>2. Settled(b, r \cup {Here(p.line)}, g) /\ b.captured = <<>>
  BY SettledConsume
<1>3. /\ Placed(p.line, p.line.pos + 1) \in LineRec
      /\ b.line = Placed(p.line, p.line.pos + 1) /\ b.stack = p.stack
  <2>1. PICK k \in Nat : k = p.line.pos + 1
    BY <1>1, PlaceOf
  <2>2. PICK m \in LineRec : m = Placed(p.line, k)
    BY <1>1, PlacedIs
  <2>3. b = [p EXCEPT !.line = m]
    BY <1>1, <2>1, <2>2 DEF Placed, Lexer
  <2>4. b.line = m /\ b.stack = p.stack
    BY <1>1, <2>3 DEF Lexer
  <2> QED
    BY <2>1, <2>2, <2>4
<1>4. b.line.pos = p.line.pos + 1
  <2>1. p.line.pos + 1 \in Nat
    BY <1>1, PlaceOf
  <2> QED
    BY <1>1, <1>3, <2>1, PlacedIs
<1>5. Bound(b) = Bound(p)
  BY <1>3 DEF Bound
<1> QED
  BY <1>2, <1>3, <1>4, <1>5

(* starting to look for the end of a body,                                 *)
LEMMA StartBodyGood ==
  ASSUME TextsAssumption, NoneAssumption, IInv, StartBody
  PROVE  IInv'
<1>1. PICK b : b = [lx EXCEPT !.line.pos = @ + 1]
  OBVIOUS
<1>2. /\ Idle /\ HasByte(lx.line) /\ lx' = Lookahead(b)
      /\ scan' = [kind |-> "body", entry |-> lx.line.pos + 1, bound |-> Bound(lx), depth |-> 0]
      /\ read' = read \cup {Here(lx.line)} /\ gone' = gone /\ text' = text
  BY <1>1 DEF StartBody
<1>3. Settled(lx, read, gone) /\ ~lx.ahead /\ lx.captured = <<>> /\ text \in Texts
  BY <1>2, IdleGood
<1>4. Layout
  BY <1>3, TextLaidOut
<1>5. /\ Settled(b, read', gone) /\ b.captured = <<>> /\ b.line \in LineRec
      /\ b.line.pos = lx.line.pos + 1 /\ b.stack = lx.stack /\ Bound(b) = Bound(lx)
  BY <1>1, <1>2, <1>3, <1>4, OpenerRead
<1>6. PICK s : s = scan' /\ s.kind = "body" /\ s.entry = b.line.pos /\ s.bound = Bound(b)
  BY <1>2, <1>5
<1>9. BodyScan(scan')
  BY <1>2 DEF BodyScan
<1>7. ScanOk(lx', s, read', gone)
  BY <1>2, <1>4, <1>5, <1>6, LookaheadOk
<1>8. Good(lx', scan', read', gone)
  BY <1>6, <1>7, <1>9, ScanGood DEF Scans
<1> QED
  BY <1>2, <1>3, <1>8, IInvStays

(* scanning a byte of it,                                                  *)
LEMMA ScanByteGood ==
  ASSUME TextsAssumption, NoneAssumption, IInv, ScanByte
  PROVE  IInv'
<1>1. Scanning("body") /\ read' = read /\ gone' = gone /\ text' = text
  BY DEF ScanByte
<1>2. PICK n \in Nat : lx' = [lx EXCEPT !.line.pos = @ + n]
  BY DEF ScanByte, Step
<1>3. ScanOk(lx, scan, read, gone) /\ scan.kind = "body" /\ text \in Texts /\ BodyScan(scan)
  BY <1>1, ScanningGood DEF Scans
<1>4. Agree(scan, scan') /\ scan'.kind = "body" /\ BodyScan(scan')
  <2>1. scan' = scan \/ \E e : scan' = [scan EXCEPT !.depth = e]
    BY DEF ScanByte
  <2>2. scan = [kind |-> scan.kind, entry |-> scan.entry, bound |-> scan.bound, depth |-> scan.depth]
    BY <1>3 DEF BodyScan
  <2>3. ASSUME NEW e, scan' = [scan EXCEPT !.depth = e]
        PROVE  scan' = [kind |-> scan.kind, entry |-> scan.entry, bound |-> scan.bound, depth |-> e]
    BY <2>2, <2>3
  <2>4. \/ scan' = scan
        \/ \E e : scan' = [kind |-> scan.kind, entry |-> scan.entry, bound |-> scan.bound, depth |-> e]
    BY <2>1, <2>3
  <2>5. scan'.kind = scan.kind /\ scan'.entry = scan.entry /\ scan'.bound = scan.bound
    BY <2>4
  <2>6. BodyScan(scan')
    BY <1>3, <2>4 DEF BodyScan
  <2> QED
    BY <1>3, <2>5, <2>6 DEF Agree
<1>5. Layout
  BY <1>3, TextLaidOut
<1>6. ScanOk(lx', scan', read, gone)
  BY <1>2, <1>3, <1>4, <1>5, StepOk
<1>7. Good(lx', scan', read, gone)
  BY <1>4, <1>6, ScanGood DEF Scans
<1> QED
  BY <1>1, <1>3, <1>7, IInvStays

(* and finding its end.                                                    *)
LEMMA CloseGood ==
  ASSUME TextsAssumption, NoneAssumption, IInv, CloseFound
  PROVE  IInv'
<1>1. PICK c : c = lx.line
  OBVIOUS
<1>2. PICK d : d = Drop(lx, scan)
  OBVIOUS
<1>3. /\ Scanning("body") /\ HasByte(c) /\ scan' = NoScan /\ gone' = gone \cup {Here(c)}
      /\ lx' = Push(d, "body", [c EXCEPT !.pos = @ + 1], Here(c), SetEof(d.line, Here(c)))
      /\ read' = read /\ text' = text
  BY <1>1, <1>2 DEF CloseFound
<1>4. ScanOk(lx, scan, read, gone) /\ scan.kind = "body" /\ text \in Texts
  BY <1>3, ScanningGood DEF Scans
<1>5. Layout
  BY <1>4, TextLaidOut
<1>6. [c EXCEPT !.pos = @ + 1] = Placed(c, c.pos + 1)
  BY DEF Placed
<1>7. Settled(lx', read, gone \cup {Here(c)}) /\ ~lx'.ahead /\ lx'.captured = <<>>
  <2>1. PICK q : q = lx'
    OBVIOUS
  <2>2. Closing(q, d, c)
    BY <1>3, <1>6, <2>1 DEF Closing
  <2>3. Settled(q, read, gone \cup {Here(c)}) /\ ~q.ahead /\ q.captured = <<>>
    <3>1. HasByte(lx.line)
      BY <1>1, <1>3
    <3> QED
      BY <1>1, <1>2, <1>4, <1>5, <2>2, <3>1, BodyCloses
  <2> QED
    BY <2>1, <2>3
<1>8. NoScan.kind \notin Scans /\ NoScan.kind # "peeked"
  BY DEF NoScan, Scans
<1>9. Good(lx', NoScan, read, gone \cup {Here(c)})
  BY <1>7, <1>8, SettledGood
<1> QED
  BY <1>3, <1>4, <1>9, IInvStays

(* A heredoc's search opens a scan at its ceiling.                         *)
LEMMA LookaheadToOpens ==
  ASSUME Layout, NEW b, NEW r, NEW g, Settled(b, r, g), b.captured = <<>>, NEW C \in Nat,
         NEW p, p = LookaheadTo(b, C)
  PROVE  Opens(p, b, C)
<1>1. b \in Lexer
  BY DEF Settled
<1>2. PICK s \in Seq(FrameRec) : s = b.stack
  BY <1>1, LexerIs
<1>3. PICK t \in Seq(FrameRec) : t = Bounded(s, C)
  BY <1>2, BoundedIs
<1>4. p = [b EXCEPT !.ahead = TRUE, !.stack = t]
  BY <1>2, <1>3 DEF LookaheadTo, Bounded
<1>5. /\ p \in Lexer /\ p.ahead /\ p.captured = b.captured /\ p.line = b.line /\ p.queue = b.queue
      /\ p.cursor = b.cursor /\ p.stack = t
  BY <1>1, <1>4 DEF Lexer
<1> QED
  BY <1>2, <1>3, <1>5 DEF Opens

(* Starting it keeps the invariant.                                        *)
LEMMA StartHeredocGood ==
  ASSUME TextsAssumption, NoneAssumption, IInv, StartHeredoc
  PROVE  IInv'
<1>1. PICK b : b = [lx EXCEPT !.line.pos = @ + 1]
  OBVIOUS
<1>2. PICK C : C = Ceiling(b)
  OBVIOUS
<1>3. /\ Idle /\ HasByte(lx.line) /\ lx' = LookaheadTo(b, C)
      /\ scan' = [kind |-> "heredoc", entry |-> lx.line.pos + 1, bound |-> Bound(lx),
                  indented |-> (Byte(lx.line) = "~")]
      /\ read' = read \cup {Here(lx.line)} /\ gone' = gone /\ text' = text
  BY <1>1, <1>2 DEF StartHeredoc
<1>4. Settled(lx, read, gone) /\ ~lx.ahead /\ lx.captured = <<>> /\ text \in Texts
  BY <1>3, IdleGood
<1>5. Layout
  BY <1>4, TextLaidOut
<1>6. /\ Settled(b, read', gone) /\ b.captured = <<>> /\ b.line \in LineRec
      /\ b.line.pos = lx.line.pos + 1 /\ b.stack = lx.stack /\ Bound(b) = Bound(lx)
  BY <1>1, <1>3, <1>4, <1>5, OpenerRead
<1>7. b \in Lexer /\ Nested(b.line, b.stack, Waits(b.queue, b.cursor))
  BY <1>6 DEF Settled, Lies
<1>8. Bound(b) = Top(b.stack)
  BY <1>5, <1>7, BoundIs
<1>9. C \in Nat /\ Ceil(C, b.stack, Waits(b.queue, b.cursor))
  <2>1. b.stack \in Seq(FrameRec)
    BY <1>7, LexerIs
  <2> QED
    BY <1>2, <1>5, <1>6, <1>7, <2>1, CeilingIs
<1>10. Opens(lx', b, C)
  BY <1>3, <1>5, <1>6, <1>9, LookaheadToOpens
<1>11. PICK s : s = scan' /\ s.kind = "heredoc" /\ s.entry = b.line.pos /\ s.bound = Top(b.stack)
  BY <1>3, <1>6, <1>8
<1>12. ScanOk(lx', s, read', gone)
  <2>1. s.kind # "peek"
    BY <1>11
  <2> QED
    BY <1>5, <1>6, <1>9, <1>10, <1>11, <2>1, ScanStart
<1>13. Good(lx', scan', read', gone)
  BY <1>11, <1>12, ScanGood DEF Scans
<1> QED
  BY <1>3, <1>4, <1>13, IInvStays

(* A scan that delivers a line has captured one before it.                 *)
LEMMA CapturedIs ==
  ASSUME Layout, NoneAssumption, NEW p, NEW s, NEW r, NEW g, ScanOk(p, s, r, g), HasNext(p),
         NEW q, q = NextLine(p)
  PROVE  q.captured # <<>> /\ q \in Lexer /\ q.line \in LineRec
<1>1. p \in Lexer /\ p.ahead /\ p.line \in LineRec
  BY DEF ScanOk, Looking
<1>2. p.line # None
  BY <1>1, NoneIsNoLine
<1>3. q.captured = Append(p.captured, p.line)
  BY <1>1, <1>2, NextLineIs
<1>4. PICK c \in Seq(LineRec) : c = p.captured
  BY <1>1, LexerIs
<1>5. q.captured # <<>>
  BY <1>1, <1>3, <1>4
<1>6. ScanOk(q, s, r, g)
  BY ScanNext
<1> QED
  BY <1>5, <1>6 DEF ScanOk, Looking

(* Finding the terminator keeps the invariant.                             *)
LEMMA TerminatorGood ==
  ASSUME TextsAssumption, NoneAssumption, IInv, TerminatorFound
  PROVE  IInv'
<1>1. Scanning("heredoc") /\ HasNext(lx) /\ scan' = NoScan /\ read' = read /\ text' = text
  BY DEF TerminatorFound
<1>2. ScanOk(lx, scan, read, gone) /\ scan.kind = "heredoc" /\ text \in Texts
  BY <1>1, ScanningGood DEF Scans
<1>3. Layout
  BY <1>2, TextLaidOut
<1>4. PICK p : p = NextLine(lx)
  OBVIOUS
<1>5. ScanOk(p, scan, read, gone)
  BY <1>1, <1>2, <1>3, <1>4, ScanNext
<1>6. p.captured # <<>> /\ p \in Lexer /\ p.line \in LineRec
  BY <1>1, <1>2, <1>3, <1>4, CapturedIs
<1>7. PICK n : n = IF scan.indented THEN Blanks(Rest(p.line)) ELSE 0
  OBVIOUS
<1>8. PICK b : b = Tail(p.captured)
  OBVIOUS
<1>9. PICK e : e = [i \in DOMAIN b |-> Stamp(b[i], n)]
  OBVIOUS
<1>10. PICK u : u = <<Head(p.captured)>> \o e
  OBVIOUS
<1>11. PICK k : k = Drop([p EXCEPT !.captured = u, !.line = None], scan)
  OBVIOUS
<1>12. /\ Stamps(b, n) /\ lx' = Push(k, "heredoc", k.line, Offset(p.line.at), None)
       /\ gone' = gone \cup Span(p.line) \cup UNION {Stripped(b[i], n) : i \in DOMAIN b}
  <2>1. [p EXCEPT !.captured = <<Head(@)>> \o e, !.line = None] = [p EXCEPT !.captured = u, !.line = None]
    BY <1>10
  <2>2. LET back == Drop([p EXCEPT !.captured = <<Head(@)>> \o e, !.line = None], scan)
        IN  /\ Stamps(b, n)
            /\ lx' = Push(back, "heredoc", back.line, Offset(p.line.at), None)
            /\ gone' = gone \cup Span(p.line) \cup UNION {Stripped(b[i], n) : i \in DOMAIN b}
    BY <1>4, <1>7, <1>8, <1>9 DEF TerminatorFound
  <2> QED
    BY <1>11, <2>1, <2>2
<1>13. n \in Nat
  <2>1. Fixed(p.line, Top(p.stack)) /\ Top(p.stack) \in Nat
    <3>1. Shown(Swept(p), Top(p.stack), scan) /\ Looking(p, scan)
      BY <1>5 DEF ScanOk, Looking
    <3>2. Top(p.stack) \in Nat
      BY <1>3, <1>6, BoundIs
    <3>3. lx \in Lexer
      BY <1>2 DEF ScanOk, Looking
    <3>4. PICK h, m : Delivers(p, lx, h, m)
      BY <1>1, <1>3, <1>4, <3>3, DeliveredIs
    <3> QED
      BY <3>2, <3>4 DEF Delivers
  <2>2. Rest(p.line) \in Seq(STRING)
    BY <1>3, <1>6, <2>1, RestIs
  <2>3. Blanks(Rest(p.line)) \in Nat
    BY <2>2, BlanksIs
  <2> QED
    BY <1>7, <2>3
<1>14. Stamping(p, n, b, e, u)
  BY <1>6, <1>8, <1>9, <1>10, <1>12 DEF Stamping
<1>15. /\ Settled(lx', read, gone \cup Span(p.line) \cup UNION {Stripped(b[i], n) : i \in 1..Len(b)})
       /\ ~lx'.ahead /\ lx'.captured = <<>>
  <2>1. PICK q : q = lx'
    OBVIOUS
  <2>2. ClosingHeredoc(q, k, p, scan, u)
    BY <1>11, <1>12, <2>1 DEF ClosingHeredoc
  <2>3. /\ Settled(q, read, gone \cup Span(p.line) \cup UNION {Stripped(b[i], n) : i \in 1..Len(b)})
        /\ ~q.ahead /\ q.captured = <<>>
    BY <1>2, <1>3, <1>5, <1>13, <1>14, <2>2, HeredocCloses
  <2> QED
    BY <2>1, <2>3
<1>16. DOMAIN b = 1..Len(b)
  <2>1. p.captured \in Seq(LineRec)
    BY <1>6, LexerIs
  <2>2. b \in Seq(LineRec)
    BY <1>6, <1>8, <2>1
  <2> QED
    BY <2>2
<1>17. Settled(lx', read, gone')
  BY <1>12, <1>15, <1>16
<1>18. NoScan.kind \notin Scans /\ NoScan.kind # "peeked"
  BY DEF NoScan, Scans
<1>19. Good(lx', NoScan, read, gone')
  BY <1>15, <1>17, <1>18, SettledGood
<1> QED
  BY <1>1, <1>2, <1>19, IInvStays

(* So does doing nothing.                                                  *)
LEMMA UnchangedGood ==
  ASSUME IInv, lx' = lx, scan' = scan, read' = read, gone' = gone, text' = text
  PROVE  IInv'
BY IInvStays DEF IInv

(* The invariant is inductive: every step of the lexer keeps it.           *)
LEMMA StepGood ==
  ASSUME TextsAssumption, NoneAssumption, IInv, [SourceNext]_sourceVars
  PROVE  IInv'
<1>1. CASE PeekLine
  BY <1>1, NextLineGood DEF PeekLine, Scans
<1>2. CASE ScanLine
  BY <1>2, NextLineGood DEF ScanLine, Scans
<1>3. CASE SeekTerminator
  BY <1>3, NextLineGood DEF SeekTerminator, Scans
<1>4. CASE Misindented
  BY <1>4, UnchangedGood DEF Misindented
<1>5. CASE Unterminated
  BY <1>5, UnchangedGood DEF Unterminated
<1>6. CASE UNCHANGED sourceVars
  BY <1>6, UnchangedGood DEF sourceVars
<1> QED
  BY <1>1, <1>2, <1>3, <1>4, <1>5, <1>6, ConsumeGood, LoadGood, AbandonGood, PopGood, FinishGood,
     PeekGood, PeekByteGood, PeekEndsGood, StartBodyGood, ScanByteGood, CloseGood, StartHeredocGood,
     TerminatorGood DEF SourceNext

-----------------------------------------------------------------------------
(* It holds at first: every byte waits in the source.                      *)

(* Every byte is a line's of the text.                                     *)
LEMMA PositionsAre ==
  ASSUME TextsAssumption, text \in Texts
  PROVE  \A x \in Positions : \E a \in 1..Len(Lines) : x \in Body(a)
<1>1. Lines \in Seq(Seq(STRING))
  BY DEF TextsAssumption, Lines
<1>2. DOMAIN Lines = 1..Len(Lines)
  BY <1>1
<1> QED
  BY <1>2 DEF Positions, Body

(* The lexer starts with nothing suspended,                                *)
LEMMA InitNests ==
  ASSUME Layout, NEW W, W = Waits(<<>>, 1)
  PROVE  Nested(None, <<>>, W)
<1>1. <<>> \in Seq(LineRec) /\ <<>> \in Seq(FrameRec) /\ Len(<<>>) = 0
  OBVIOUS
<1>2. 1 \in 1..Len(Lines) + 1
  <2>1. Len(Lines) \in Nat
    BY DEF Layout
  <2> QED
    BY <2>1
<1>3. W \subseteq WaitRec /\ \A w \in W : w = [at |-> w.at, pos |-> 0]
  <2>1. /\ W \subseteq WaitRec
        /\ \A w \in W : \/ \E i \in 1..Len(<<>>) : w = Entry(<<>>[i])
                        \/ w.at \in 1..Len(Lines) /\ w = [at |-> w.at, pos |-> 0]
    <3>1. PICK e \in Seq(LineRec), c \in 1..Len(Lines) + 1 : e = <<>> /\ c = 1
      BY <1>1, <1>2
    <3>2. /\ Waits(e, c) \subseteq WaitRec
          /\ \A w \in Waits(e, c) : \/ \E i \in 1..Len(e) : w = Entry(e[i])
                                    \/ w.at \in c..Len(Lines) /\ w = [at |-> w.at, pos |-> 0]
      BY WaitsIs
    <3> QED
      BY <3>1, <3>2
  <2>2. ~ \E i \in 1..Len(<<>>) : TRUE
    BY <1>1
  <2> QED
    BY <2>1, <2>2
<1>4. Typed(None, <<>>, W)
  BY <1>1, <1>3 DEF Typed
<1>5. Single(W)
  BY <1>3 DEF Single
<1>6. \A i \in 1..Len(<<>>) : FALSE
  BY <1>1
<1>7. Within(<<>>, W)
  <2> SUFFICES ASSUME NEW w \in W PROVE w.pos <= Full(w.at)
    BY <1>6 DEF Within
  <2>1. w.pos = 0
    BY <1>3
  <2>2. Full(w.at) \in Nat
    <3>1. w.at \in 1..Len(Lines)
      BY <1>3 DEF WaitRec
    <3> QED
      BY <3>1 DEF Layout
  <2> QED
    BY <2>1, <2>2
<1>8. Suspended(<<>>) /\ Inner(<<>>, W)
  BY <1>6 DEF Suspended, Inner
<1>9. Behind(None, W) /\ Levels(None, <<>>)
  BY <1>6 DEF Behind, Levels
<1> QED
  BY <1>4, <1>5, <1>7, <1>8, <1>9 DEF Nested

(* every byte waiting,                                                     *)
LEMMA InitLies ==
  ASSUME TextsAssumption, text \in Texts, Layout, NEW W, W = Waits(<<>>, 1)
  PROVE  Lies(None, <<>>, W, {}, {})
<1>1. Nested(None, <<>>, W)
  BY InitNests
<1>2. PICK H : H = Hold(None, <<>>, W, {}, {})
  OBVIOUS
<1>3. \A i \in 1..Len(<<>>) : FALSE
  OBVIOUS
<1>4. LineSpan(None) = {} /\ \A i : FrameSpan(<<>>, i) = {}
  BY <1>3 DEF LineSpan, FrameSpan
<1>5. \A a \in 1..Len(Lines) : [at |-> a, pos |-> 0] \in W
  BY DEF Waits
<1>6. \A a \in 1..Len(Lines) : Body(a) \subseteq WaitSpan(<<>>, W, a)
  <2> SUFFICES ASSUME NEW a \in 1..Len(Lines), NEW x \in Body(a) PROVE x \in WaitSpan(<<>>, W, a)
    OBVIOUS
  <2>1. Under(<<>>, a, x)
    BY <1>3 DEF Under
  <2>2. PICK w \in W : w = [at |-> a, pos |-> 0]
    BY <1>5
  <2>3. Offset(a) \in Nat
    BY LineAt
  <2>4. w.at = a /\ Offset(a) + w.pos <= x
    BY <2>2, <2>3 DEF Body
  <2> QED
    BY <2>1, <2>4 DEF WaitSpan, Body
<1>7. W \subseteq WaitRec
  BY <1>1 DEF Nested, Typed
<1>8. \A a : \A x \in WaitSpan(<<>>, W, a) : a \in 1..Len(Lines) /\ x \in Body(a)
  BY <1>7 DEF WaitSpan, Body, WaitRec
<1>9. Partition(H)
  <2> SUFFICES ASSUME NEW x \in Positions
               PROVE  \E t \in Sites : \A u \in Sites : x \in H[u] <=> u = t
    BY DEF Partition
  <2>1. PICK a \in 1..Len(Lines) : x \in Body(a)
    BY PositionsAre
  <2>2. PICK t : t = <<"wait", a>>
    OBVIOUS
  <2>3. a \in Nat /\ t \in Sites
    BY <2>2, LineAt, SiteKinds
  <2>4. x \in H[t]
    BY <1>2, <1>6, <2>1, <2>2, <2>3, HoldIs
  <2>5. ASSUME NEW u \in Sites, x \in H[u] PROVE u = t
    <3>1. u # <<"read", 0>> /\ u # <<"gone", 0>> /\ u # <<"line", 0>>
      <4>1. H[<<"read", 0>>] = {} /\ H[<<"gone", 0>>] = {} /\ H[<<"line", 0>>] = {}
        BY <1>2, <1>4, HoldIs
      <4> QED
        BY <2>5, <4>1
    <3>2. PICK i \in Nat : u = <<"frame", i>> \/ u = <<"wait", i>>
      BY <3>1, SiteKinds
    <3>3. u # <<"frame", i>>
      BY <1>2, <1>4, <2>5, HoldIs
    <3>4. x \in WaitSpan(<<>>, W, i)
      BY <1>2, <2>5, <3>2, <3>3, HoldIs
    <3>5. i \in 1..Len(Lines) /\ x \in Body(i)
      BY <1>8, <3>4
    <3>6. ~(i < a) /\ ~(a < i)
      <4>1. x \in Nat
        BY <2>1, LineAt DEF Body
      <4>2. \A b, c \in 1..Len(Lines) : \A y, z : b < c /\ y \in Body(b) /\ z \in Body(c) => y < z
        BY BodiesApart
      <4>3. ~(x < x)
        BY <4>1
      <4> QED
        BY <2>1, <3>5, <4>2, <4>3
    <3>7. i = a
      BY <2>3, <3>6
    <3> QED
      BY <2>2, <3>2, <3>3, <3>7
  <2> QED
    BY <2>3, <2>4, <2>5
<1> QED
  BY <1>1, <1>2, <1>9 DEF Lies

(* and so with the invariant.                                              *)
LEMMA InitGood ==
  ASSUME TextsAssumption, NoneAssumption, SourceInit
  PROVE  IInv
<1>1. text \in Texts /\ read = {} /\ gone = {} /\ scan = NoScan
  BY DEF SourceInit, NothingRead
<1>2. /\ lx = [line |-> None, queue |-> <<>>, cursor |-> 1, count |-> 1, stack |-> <<>>,
               captured |-> <<>>, ahead |-> FALSE]
  BY DEF SourceInit, NothingRead
<1>3. Layout
  BY <1>1, TextLaidOut
<1>4. 1 \in 1..Len(Lines) + 1
  <2>1. Len(Lines) \in Nat
    BY <1>3 DEF Layout
  <2> QED
    BY <2>1
<1>5. /\ lx \in Lexer /\ ~lx.ahead /\ lx.captured = <<>> /\ lx.line = None /\ lx.queue = <<>>
      /\ lx.cursor = 1 /\ lx.stack = <<>>
  BY <1>2, <1>4 DEF Lexer
<1>6. Queued(<<>>, 1, <<>>)
  <2>1. \A i \in 1..Len(<<>>) : FALSE
    OBVIOUS
  <2> QED
    BY <2>1 DEF Queued, Rising, Whole
<1>7. Lies(None, <<>>, Waits(<<>>, 1), {}, {})
  BY <1>1, <1>3, InitLies
<1>8. Settled(lx, read, gone)
  BY <1>1, <1>5, <1>6, <1>7 DEF Settled
<1>9. scan.kind \notin Scans /\ scan.kind # "peeked"
  BY <1>1 DEF NoScan, Scans
<1> QED
  BY <1>1, <1>5, <1>8, <1>9, SettledGood DEF IInv

-----------------------------------------------------------------------------
(* What follows from it.                                                   *)

(* The current line of a settled lexer ends before its bound.              *)
LEMMA SettledBound ==
  ASSUME Layout, NEW p, NEW r, NEW g, Settled(p, r, g), p.line # None
  PROVE  \A x \in Span(p.line) : x < Bound(p)
<1>1. p \in Lexer /\ Levels(p.line, p.stack)
  BY DEF Settled, Lies, Nested
<1>2. p.line \in LineRec
  BY <1>1, LexerIs
<1>3. Bound(p) = Top(p.stack) /\ Top(p.stack) \in Nat
  BY <1>1, BoundIs
<1>4. Fixed(p.line, Top(p.stack))
  BY <1>1 DEF Levels
<1> QED
  BY <1>2, <1>3, <1>4, SpanOfFixed

(* Seen through a bound no waiting line lies behind, a line that would wait *)
(* at its cursor has its cursor within its view.                           *)
LEMMA SeenWithin ==
  ASSUME Layout, NEW s \in Seq(FrameRec), NEW W, Within(s, W), NEW C \in Nat, Ceil(C, s, W),
         NEW l \in LineRec, Seen(l, C, "heredoc"), NEW w \in W, w.at = l.at, w.pos = l.indent
  PROVE  l.pos <= l.len
<1>1. PICK a \in 1..Len(Lines) : a = l.at
  BY PlaceOf
<1>2. /\ Offset(a) \in Nat /\ Extent(a) \in Nat /\ Extent(a) < NoBound /\ NoBound \in Nat
      /\ l.pos \in Nat
  BY LineAt, PlaceOf
<1>3. Fixed(l, C) /\ Offset(a) <= C /\ w.pos = l.pos
  BY <1>1 DEF Seen
<1>4. l.len = IF C >= Extent(a) THEN Full(a) ELSE IF C < Offset(a) THEN 0 ELSE C - Offset(a)
  BY <1>1, <1>3, FixedIs
<1>5. CASE C >= Extent(a)
  BY <1>1, <1>3, <1>4, <1>5 DEF Within
<1>6. CASE C < Extent(a)
  <2>1. C # NoBound
    BY <1>2, <1>6
  <2>2. PICK i \in 1..Len(s) : C = s[i].bound
    BY <2>1 DEF Ceil
  <2>3. Offset(a) + w.pos <= C
    BY <1>1, <1>3, <2>2 DEF Within
  <2>4. l.len = C - Offset(a)
    BY <1>2, <1>3, <1>4, <1>6
  <2> QED
    BY <1>2, <1>3, <2>3, <2>4
<1> QED
  BY <1>2, <1>5, <1>6

(* No line a heredoc's search has passed has its cursor behind its view.   *)
LEMMA ScanWithin ==
  ASSUME Layout, NoneAssumption, NEW p, NEW s, NEW r, NEW g, ScanOk(p, s, r, g), s.kind = "heredoc",
         p.captured # <<>>
  PROVE  \A l \in {p.line} \cup ToSet(Tail(p.captured)) : l.pos <= l.len
<1>1. /\ p \in Lexer /\ p.line \in LineRec /\ Looking(p, s)
      /\ Shown(Swept(p), Top(p.stack), s)
  BY DEF ScanOk, Looking
<1>2. PICK d : d = Drop(p, s)
  OBVIOUS
<1>3. Settled(d, r, g) /\ Ceil(Top(p.stack), d.stack, Waits(d.queue, d.cursor))
  BY <1>2 DEF ScanOk, Dropped
<1>4. PICK C \in Nat : C = Top(p.stack)
  BY <1>1, BoundIs
<1>5. PICK S \in Seq(FrameRec), W \in {Waits(d.queue, d.cursor)} : S = d.stack
  BY <1>3, LexerIs DEF Settled
<1>6. Within(S, W) /\ Ceil(C, S, W)
  BY <1>3, <1>4, <1>5 DEF Settled, Lies, Nested
<1>7. PICK w \in Seq(LineRec) : w = Swept(p)
  BY <1>1, LookedIs
<1>8. PICK c \in Seq(LineRec) : c = p.captured
  BY <1>1, LexerIs
<1>9. PICK K \in Nat : Len(c) = K + 1
  BY <1>8, OneMore
<1>10. Len(w) = K + 2 /\ w[K + 2] = p.line /\ \A i \in 1..K + 1 : w[i] = c[i]
  <2>1. PICK k \in Nat : Looked(p, k)
    BY <1>1, LookedAs
  <2>2. /\ k = Len(c) /\ Len(w) = k + 1 /\ w[k + 1] = p.line
        /\ \A i \in 1..k : w[i] = c[i]
    BY <1>7, <1>8, <2>1 DEF Looked
  <2>3. k = K + 1 /\ k + 1 = K + 2
    BY <1>9, <2>2
  <2> QED
    BY <2>2, <2>3
<1>11. PICK R \in Seq(LineRec) : /\ R = Returned(w) /\ d.queue = R \o p.queue /\ Len(R) = K + 1
                                 /\ \A i \in 1..K + 1 : R[i] = Reset(w[i + 1])
  <2>1. /\ d \in Lexer /\ ~d.ahead /\ d.captured = <<>>
         /\ d.stack = Bounded(p.stack, s.bound) /\ d.line \in LineRec
         /\ d.line = SetEof(Placed(Swept(p)[1], s.entry), Top(Bounded(p.stack, s.bound)))
         /\ d.queue = Returned(Swept(p)) \o p.queue /\ d.cursor = p.cursor
         /\ Returned(Swept(p)) \in Seq(LineRec)
         /\ \E j \in Nat : /\ Len(Swept(p)) = j + 1 /\ Len(Returned(Swept(p))) = j
                           /\ \A i \in 1..j : Returned(Swept(p))[i] = Reset(Swept(p)[i + 1])
    BY <1>1, <1>2, DropFields
  <2>2. PICK R \in Seq(LineRec) : R = Returned(w) /\ d.queue = R \o p.queue
    BY <1>7, <2>1
  <2>3. PICK j \in Nat : /\ Len(w) = j + 1 /\ Len(R) = j
                         /\ \A i \in 1..j : R[i] = Reset(w[i + 1])
    BY <1>7, <2>1, <2>2
  <2>4. j = K + 1
    BY <1>10, <2>3
  <2> QED
    BY <2>2, <2>3, <2>4
<1>12. PICK Q \in Seq(LineRec) : Q = p.queue
  BY <1>1, LexerIs
<1>13. d.queue \in Seq(LineRec) /\ \A i \in 1..K + 1 : i \in 1..Len(d.queue) /\ d.queue[i] = R[i]
  <2>1. PICK m \in Nat, k \in Nat : m = Len(R) /\ k = Len(Q)
    OBVIOUS
  <2>2. R \o Q \in Seq(LineRec) /\ Len(R \o Q) = m + k /\ \A i \in 1..m : (R \o Q)[i] = R[i]
    BY <2>1, ConcatOf
  <2>3. PICK q \in Seq(LineRec) : q = d.queue /\ Len(q) = m + k /\ \A i \in 1..m : q[i] = R[i]
    BY <1>11, <1>12, <2>2
  <2>4. m = K + 1
    BY <1>11, <2>1
  <2> QED
    BY <2>3, <2>4
<1>14. ASSUME NEW i \in 1..K + 1 PROVE w[i + 1].pos <= w[i + 1].len
  <2>1. i + 1 # 1 /\ i + 1 \in 1..Len(w)
    BY <1>10
  <2>2. PICK l \in LineRec : l = w[i + 1]
    BY <2>1
  <2>3. Seen(l, C, "heredoc")
    BY <1>1, <1>4, <1>7, <2>1, <2>2 DEF Shown
  <2>4. d.queue[i] = Reset(l) /\ i \in 1..Len(d.queue)
    BY <1>11, <1>13, <2>2
  <2>5. Entry(Reset(l)) \in W
    <3>1. d.cursor \in 1..Len(Lines) + 1
      BY <1>3, LexerIs DEF Settled
    <3>2. PICK q \in Seq(LineRec) : q = d.queue
      BY <1>13
    <3>3. Entry(q[i]) \in Waits(q, d.cursor)
      BY <2>4, <3>1, <3>2, WaitsIs
    <3> QED
      BY <1>5, <2>4, <3>2, <3>3
  <2>6. PICK e : e = Entry(Reset(l)) /\ e.at = l.at /\ e.pos = l.indent
    <3>1. Entry(Reset(l)).at = Reset(l).at /\ Entry(Reset(l)).pos = Reset(l).pos
      BY DEF Entry
    <3>2. Reset(l).at = l.at /\ Reset(l).pos = l.indent
      BY ResetIs
    <3> QED
      BY <3>1, <3>2
  <2>7. l.pos <= l.len
    BY <1>6, <2>3, <2>5, <2>6, SeenWithin
  <2> QED
    BY <2>2, <2>7
<1>15. p.line.pos <= p.line.len
  <2>1. K + 1 \in 1..K + 1 /\ K + 1 + 1 = K + 2
    OBVIOUS
  <2> QED
    BY <1>10, <1>14, <2>1
<1>16. ASSUME NEW l \in ToSet(Tail(p.captured)) PROVE l.pos <= l.len
  <2>1. /\ Tail(c) \in Seq(LineRec) /\ Len(Tail(c)) = K
        /\ \A i \in 1..K : Tail(c)[i] = c[i + 1]
    BY <1>9, TailOf
  <2>2. PICK i \in 1..K : l = Tail(c)[i]
    BY <1>8, <2>1 DEF ToSet
  <2>3. i + 1 \in 1..K + 1 /\ i \in 1..K + 1
    OBVIOUS
  <2>4. l = w[i + 1]
    BY <1>10, <2>1, <2>2, <2>3
  <2> QED
    BY <1>14, <2>3, <2>4
<1> QED
  BY <1>15, <1>16

(* The invariant keeps every line within its bound.                        *)
LEMMA GoodBound ==
  ASSUME TextsAssumption, NoneAssumption, IInv
  PROVE  BoundKept
<1>1. text \in Texts /\ Good(lx, scan, read, gone)
  BY DEF IInv
<1>2. Layout
  BY <1>1, TextLaidOut
<1>3. ASSUME ~lx.ahead, lx.line # None PROVE \A x \in Span(lx.line) : x < Bound(lx)
  BY <1>1, <1>2, <1>3, SettledBound DEF Good
<1>4. ASSUME Scanning("heredoc"), HasNext(lx), NEW p, p = NextLine(lx)
      PROVE  \A l \in {p.line} \cup ToSet(Tail(p.captured)) : l.pos <= l.len
  <2>1. ScanOk(lx, scan, read, gone) /\ scan.kind = "heredoc"
    BY <1>4, ScanningGood DEF Scans
  <2>2. ScanOk(p, scan, read, gone)
    BY <1>2, <1>4, <2>1, ScanNext
  <2>3. p.captured # <<>>
    BY <1>2, <1>4, <2>1, CapturedIs
  <2> QED
    BY <1>2, <2>1, <2>2, <2>3, ScanWithin
<1> QED
  BY <1>3, <1>4 DEF BoundKept

(* The invariant keeps a dropped peek from leaving a trace.                *)
LEMMA GoodTrace ==
  ASSUME IInv
  PROVE  PeekLeavesNoTrace
BY DEF IInv, Good, Unmoved, PeekLeavesNoTrace

-----------------------------------------------------------------------------
(* The places OneDelivery counts are those of the partition.               *)

(* The bytes of a waiting line, from its one cursor.                       *)
LEMMA WaitSpanOf ==
  ASSUME NEW s, NEW W, Single(W), NEW w \in W
  PROVE  \A x : x \in WaitSpan(s, W, w.at) <=>
                  x \in Body(w.at) /\ Offset(w.at) + w.pos <= x /\ Under(s, w.at, x)
BY DEF WaitSpan, Body, Single

(* The bytes of a queued line, cut where it will be, are those that wait.  *)
LEMMA CutSpan ==
  ASSUME Layout, NEW r, NEW g, Settled(lx, r, g), NEW i \in 1..Len(lx.queue),
         NEW l, l = lx.queue[i], NEW W, W = Waits(lx.queue, lx.cursor)
  PROVE  Span(Cut(l)) = WaitSpan(lx.stack, W, l.at)
<1>1. /\ lx \in Lexer /\ Queued(lx.queue, lx.cursor, lx.stack) /\ Single(W)
  BY DEF Settled, Lies, Nested
<1>2. PICK S \in Seq(FrameRec), q \in Seq(LineRec), c \in 1..Len(Lines) + 1 :
        S = lx.stack /\ q = lx.queue /\ c = lx.cursor
  BY <1>1, LexerIs
<1>3. l \in LineRec
  BY <1>2
<1>4. PICK a \in 1..Len(Lines) : a = l.at
  BY <1>3, PlaceOf
<1>5. /\ Offset(a) \in Nat /\ Extent(a) \in Nat /\ Extent(a) < NoBound /\ NoBound \in Nat
      /\ Here(l) = Offset(a) + l.pos
  BY <1>3, <1>4, LineAt, PlaceOf
<1>6. PICK w \in W : w.at = a /\ w.pos = l.pos
  <2>1. Entry(q[i]) \in Waits(q, c)
    BY <1>2, WaitsIs
  <2>2. Entry(l) \in W /\ Entry(l).at = l.at /\ Entry(l).pos = l.pos
    BY <1>2, <2>1 DEF Entry
  <2> QED
    BY <1>4, <2>2
<1>7. \A x : x \in WaitSpan(S, W, a) <=> x \in Body(a) /\ Here(l) <= x /\ Under(S, a, x)
  <2>1. \A x : x \in WaitSpan(S, W, w.at) <=>
                  x \in Body(w.at) /\ Offset(w.at) + w.pos <= x /\ Under(S, w.at, x)
    BY <1>1, WaitSpanOf
  <2> QED
    BY <1>5, <1>6, <2>1
<1>8. PICK n \in Nat : n = Len(S)
  OBVIOUS
<1>9. /\ \A j \in 1..n : S[j].bound \in Nat
      /\ DOMAIN S = 1..n
  BY <1>8, TopIs
<1>10. PICK B \in SUBSET Nat : B = {b \in {S[j].bound : j \in DOMAIN S} : b >= Offset(a)}
  <2>1. {b \in {S[j].bound : j \in DOMAIN S} : b >= Offset(a)} \subseteq Nat
    BY <1>9
  <2> QED
    BY <2>1
<1>11. \A x : Under(S, a, x) <=> \A b \in B : x < b
  BY <1>5, <1>8, <1>9, <1>10 DEF Under
<1>12. \A x \in Body(a) : x \in Nat /\ x < NoBound
  BY <1>5 DEF Body
<1>13. Cut(l) = IF B = {} THEN l ELSE SetEof(l, CHOOSE b \in B : \A d \in B : b <= d)
  BY <1>2, <1>4, <1>10 DEF Cut
<1>14. CASE B = {}
  <2>1. Fixed(l, NoBound)
    <3>1. \A j \in 1..n : S[j].bound < Offset(a)
      <4> SUFFICES ASSUME NEW j \in 1..n, ~(S[j].bound < Offset(a)) PROVE FALSE
        OBVIOUS
      <4>1. PICK b \in Nat : b = S[j].bound
        BY <1>9
      <4>2. b >= Offset(a)
        BY <1>5, <4>1
      <4>3. b \in {S[k].bound : k \in DOMAIN S}
        BY <1>9, <4>1
      <4> QED
        BY <1>10, <1>14, <4>2, <4>3
    <3>2. Whole(q, S)
      BY <1>1, <1>2 DEF Queued
    <3> QED
      BY <1>2, <1>4, <1>8, <3>1, <3>2 DEF Whole
  <2>2. Span(l) \subseteq Body(a)
    BY <1>3, <1>4, <1>5, <2>1, SpanInBody
  <2>3. \A x \in Body(a) : x \in Span(l) <=> Here(l) <= x /\ x < NoBound
    BY <1>3, <1>4, <1>5, <2>1, SpanInBody
  <2>4. \A x : x \in Span(l) <=> x \in WaitSpan(S, W, a)
    BY <1>7, <1>11, <1>12, <1>14, <2>2, <2>3
  <2>5. Cut(l) = l
    BY <1>13, <1>14
  <2>6. Span(l) = WaitSpan(S, W, a)
    BY <2>4
  <2> QED
    BY <1>2, <1>4, <2>5, <2>6
<1>15. CASE B # {}
  <2>1. PICK m : m = CHOOSE b \in B : \A d \in B : b <= d
    OBVIOUS
  <2>2. m \in B /\ \A d \in B : m <= d
    <3>1. \E b \in B : \A d \in B : b <= d
      BY <1>15, LowestExists
    <3> QED
      BY <2>1, <3>1
  <2>3. m \in Nat
    BY <2>2
  <2>4. PICK o \in LineRec : o = SetEof(l, m) /\ o.at = l.at /\ o.pos = l.pos
    BY <1>3, <2>3, SetEofIs
  <2>5. Fixed(o, m)
    BY <1>3, <2>3, <2>4, SetEofFixed
  <2>6. Here(o) = Here(l)
    BY <2>4 DEF Here
  <2>7. Span(o) \subseteq Body(a)
    BY <1>4, <2>3, <2>4, <2>5, SpanInBody
  <2>8. \A x \in Body(a) : x \in Span(o) <=> Here(l) <= x /\ x < m
    BY <1>4, <2>3, <2>4, <2>5, <2>6, SpanInBody
  <2>9. \A x \in Body(a) : Under(S, a, x) <=> x < m
    <3> SUFFICES ASSUME NEW x \in Body(a) PROVE (\A b \in B : x < b) <=> x < m
      BY <1>11
    <3>1. x \in Nat
      BY <1>12
    <3>2. ASSUME x < m, NEW b \in B PROVE x < b
      <4>1. m <= b /\ b \in Nat
        BY <2>2
      <4> QED
        BY <2>3, <3>1, <3>2, <4>1
    <3> QED
      BY <2>2, <3>2
  <2>10. \A x : x \in Span(o) <=> x \in WaitSpan(S, W, a)
    BY <1>7, <2>7, <2>8, <2>9
  <2>11. Cut(l) = o
    BY <1>13, <1>15, <2>1, <2>4
  <2> QED
    BY <1>2, <1>4, <2>10, <2>11
<1> QED
  BY <1>14, <1>15

(* All bytes of a line not yet taken from the source wait.                 *)
LEMMA SourceSpan ==
  ASSUME Layout, NEW q \in Seq(LineRec), NEW c \in 1..Len(Lines) + 1, NEW s \in Seq(FrameRec),
         Queued(q, c, s), NEW W, W = Waits(q, c), NEW a \in c..Len(Lines)
  PROVE  WaitSpan(s, W, a) = Body(a)
<1>1. a \in 1..Len(Lines) /\ c \in Nat /\ a \in Nat /\ c <= a
  <2>1. Len(Lines) \in Nat
    BY DEF Layout
  <2> QED
    BY <2>1
<1>2. Offset(a) \in Nat /\ Offset(c) \in Nat /\ Offset(c) <= Offset(a) /\ Extent(a) \in Nat
  BY <1>1 DEF Layout
<1>3. PICK w : w = [at |-> a, pos |-> 0]
  OBVIOUS
<1>4. w \in W /\ w.at = a /\ w.pos = 0
  BY <1>3, WaitsIs
<1>5. Single(W)
  BY SingleWaits
<1>6. \A x : x \in WaitSpan(s, W, a) <=> x \in Body(a) /\ Offset(a) + w.pos <= x /\ Under(s, a, x)
  BY <1>4, <1>5, WaitSpanOf
<1>7. \A x : Under(s, a, x)
  <2>1. PICK n \in Nat : n = Len(s)
    OBVIOUS
  <2>2. \A i \in 1..n : s[i].bound \in Nat
    BY <2>1, TopIs
  <2>3. \A i \in 1..n : s[i].bound < Offset(c)
    BY <2>1 DEF Queued
  <2>4. \A i \in 1..n : ~(Offset(a) <= s[i].bound)
    BY <1>2, <2>2, <2>3
  <2> QED
    BY <2>1, <2>4 DEF Under
<1>8. \A x \in Body(a) : Offset(a) + w.pos <= x
  BY <1>2, <1>4 DEF Body
<1> QED
  BY <1>6, <1>7, <1>8

-----------------------------------------------------------------------------
Thirds(u, v, w, k, n, m) ==
  /\ DOMAIN (u \o v \o w) = 1..k + n + m
  /\ \A i \in 1..k : (u \o v \o w)[i] = u[i]
  /\ \A i \in 1..n : (u \o v \o w)[k + i] = v[i]
  /\ \A i \in 1..m : (u \o v \o w)[k + n + i] = w[i]

(* Three sequences end to end, element by element.                         *)
LEMMA ThreeParts ==
  ASSUME NEW T, NEW u \in Seq(T), NEW v \in Seq(T), NEW w \in Seq(T),
         NEW k \in Nat, NEW n \in Nat, NEW m \in Nat, k = Len(u), n = Len(v), m = Len(w)
  PROVE  Thirds(u, v, w, k, n, m)
<1>1. PICK a \in Seq(T) : /\ a = u \o v /\ Len(a) = k + n
                          /\ \A i \in 1..k : a[i] = u[i]
                          /\ \A i \in 1..n : a[k + i] = v[i]
  <2>1. /\ u \o v \in Seq(T) /\ Len(u \o v) = k + n
        /\ \A i \in 1..k : (u \o v)[i] = u[i]
        /\ \A i \in 1..n : (u \o v)[k + i] = v[i]
    BY ConcatOf
  <2> QED
    BY <2>1
<1>2. PICK l \in Nat : l = k + n
  OBVIOUS
<1>3. PICK b \in Seq(T) : /\ b = a \o w /\ Len(b) = l + m
                          /\ \A i \in 1..l : b[i] = a[i]
                          /\ \A i \in 1..m : b[l + i] = w[i]
  <2>1. l = Len(a)
    BY <1>1, <1>2
  <2>2. /\ a \o w \in Seq(T) /\ Len(a \o w) = l + m
        /\ \A i \in 1..l : (a \o w)[i] = a[i]
        /\ \A i \in 1..m : (a \o w)[l + i] = w[i]
    BY <2>1, ConcatOf
  <2> QED
    BY <2>2
<1>4. \A i \in 1..k : i \in 1..l
  BY <1>2
<1>5. \A i \in 1..n : k + i \in 1..l
  BY <1>2
<1>6. DOMAIN b = 1..l + m
  BY <1>3
<1> QED
  BY <1>1, <1>2, <1>3, <1>4, <1>5, <1>6 DEF Thirds

(* The bytes of the source no line was made of yet.                        *)
Unread(c) == UNION {Offset(i)..Extent(i) - 1 : i \in c..Len(Lines)}

(* What each place holds, n frames and m queued lines being there.         *)
PlacesHold(n, m) ==
  /\ DOMAIN Places = 1..4 + n + m
  /\ Places[1] = read /\ Places[2] = gone /\ Places[3] = Unread(lx.cursor)
  /\ Places[4] = LineSpan(lx.line)
  /\ \A i \in 1..n : Places[4 + i] = Span(lx.stack[i].line)
  /\ \A i \in 1..m : Places[4 + n + i] = Span(Cut(lx.queue[i]))

(* The places OneDelivery lists.                                           *)
LEMMA PlacesAre ==
  ASSUME NEW n \in Nat, NEW m \in Nat, NEW s, s \in Seq(FrameRec), NEW q, q \in Seq(LineRec),
         s = lx.stack, q = lx.queue, n = Len(s), m = Len(q)
  PROVE  PlacesHold(n, m)
<1>1. PICK r, g, u, l : r = read /\ g = gone /\ u = Unread(lx.cursor) /\ l = LineSpan(lx.line)
  OBVIOUS
<1>2. PICK T : T = {r, g, u, l} \cup {Span(s[i].line) : i \in 1..n} \cup {Span(Cut(q[i])) : i \in 1..m}
  OBVIOUS
<1>3. PICK a : a = <<r, g, u, l>>
  OBVIOUS
<1>4. a \in Seq(T) /\ Len(a) = 4 /\ a[1] = r /\ a[2] = g /\ a[3] = u /\ a[4] = l
  BY <1>2, <1>3
<1>5. PICK b : b = [i \in 1..n |-> Span(s[i].line)]
  OBVIOUS
<1>6. b \in Seq(T) /\ Len(b) = n /\ \A i \in 1..n : b[i] = Span(s[i].line)
  <2>1. b \in [1..n -> T]
    BY <1>2, <1>5
  <2> QED
    BY <1>5, <2>1
<1>7. PICK c : c = [i \in 1..m |-> Span(Cut(q[i]))]
  OBVIOUS
<1>8. c \in Seq(T) /\ Len(c) = m /\ \A i \in 1..m : c[i] = Span(Cut(q[i]))
  <2>1. c \in [1..m -> T]
    BY <1>2, <1>7
  <2> QED
    BY <1>7, <2>1
<1>9. /\ DOMAIN (a \o b \o c) = 1..4 + n + m
      /\ \A i \in 1..4 : (a \o b \o c)[i] = a[i]
      /\ \A i \in 1..n : (a \o b \o c)[4 + i] = b[i]
      /\ \A i \in 1..m : (a \o b \o c)[4 + n + i] = c[i]
  <2>1. PICK k \in Nat : k = 4
    OBVIOUS
  <2>2. /\ DOMAIN (a \o b \o c) = 1..k + n + m
        /\ \A i \in 1..k : (a \o b \o c)[i] = a[i]
        /\ \A i \in 1..n : (a \o b \o c)[k + i] = b[i]
        /\ \A i \in 1..m : (a \o b \o c)[k + n + i] = c[i]
    <3>1. PICK z \in Nat, x \in Nat, y \in Nat : z = k /\ x = n /\ y = m
      BY <2>1
    <3>2. z = Len(a) /\ x = Len(b) /\ y = Len(c)
      BY <1>4, <1>6, <1>8, <2>1, <3>1
    <3>3. a \in Seq(T) /\ b \in Seq(T) /\ c \in Seq(T)
      BY <1>4, <1>6, <1>8
    <3>4. Thirds(a, b, c, z, x, y)
      BY <3>2, <3>3, ThreeParts
    <3> QED
      BY <3>1, <3>4 DEF Thirds
  <2> QED
    BY <2>1, <2>2
<1>10. Places = a \o b \o c
  <2>1. DOMAIN s = 1..n /\ DOMAIN q = 1..m
    OBVIOUS
  <2>2. Places = <<r, g, u, l>> \o [i \in DOMAIN s |-> Span(s[i].line)] \o [i \in DOMAIN q |-> Span(Cut(q[i]))]
    BY <1>1 DEF Places, Unread, LineSpan
  <2> QED
    BY <1>3, <1>5, <1>7, <2>1, <2>2
<1>11. 1 \in 1..4 /\ 2 \in 1..4 /\ 3 \in 1..4 /\ 4 \in 1..4
  OBVIOUS
<1>12. PICK P : P = Places /\ P = a \o b \o c
  BY <1>10
<1>13. P[1] = r /\ P[2] = g /\ P[3] = u /\ P[4] = l
  <2>1. \A i \in 1..4 : P[i] = a[i]
    BY <1>9, <1>12
  <2>2. P[1] = a[1] /\ P[2] = a[2] /\ P[3] = a[3] /\ P[4] = a[4]
    BY <1>11, <2>1
  <2> QED
    BY <1>4, <2>2
<1>14. /\ \A i \in 1..n : P[4 + i] = Span(s[i].line)
       /\ \A i \in 1..m : P[4 + n + i] = Span(Cut(q[i]))
  BY <1>6, <1>8, <1>9, <1>12
<1>15. DOMAIN P = 1..4 + n + m
  BY <1>9, <1>12
<1> QED
  BY <1>1, <1>12, <1>13, <1>14, <1>15 DEF PlacesHold

-----------------------------------------------------------------------------
(* The site of the partition that place i, of n frames, stands for.        *)
Stands(i, t, n) ==
  \/ i = 1 /\ t = <<"read", 0>>
  \/ i = 2 /\ t = <<"gone", 0>>
  \/ i = 3 /\ \E a \in lx.cursor..Len(Lines) : t = <<"wait", a>>
  \/ i = 4 /\ t = <<"line", 0>>
  \/ \E j \in 1..n : i = 4 + j /\ t = <<"frame", j>>
  \/ \E j \in 1..Len(lx.queue) : i = 4 + n + j /\ t = <<"wait", lx.queue[j].at>>

(* No two places stand for one site.                                       *)
LEMMA StandsOnce ==
  ASSUME Layout, NEW r, NEW g, Settled(lx, r, g), NEW n \in Nat, NEW i, NEW k, NEW t,
         Stands(i, t, n), Stands(k, t, n)
  PROVE  i = k
<1>1. lx \in Lexer /\ Queued(lx.queue, lx.cursor, lx.stack)
  BY DEF Settled
<1>2. PICK q \in Seq(LineRec), c \in 1..Len(Lines) + 1 : q = lx.queue /\ c = lx.cursor
  BY <1>1, LexerIs
<1>3. PICK m \in Nat : m = Len(q)
  OBVIOUS
<1>4. c \in Nat /\ Len(Lines) \in Nat
  <2>1. Len(Lines) \in Nat
    BY DEF Layout
  <2> QED
    BY <1>2, <2>1
<1>5. \A j \in 1..m : q[j].at \in Nat /\ q[j].at < c
  <2> SUFFICES ASSUME NEW j \in 1..m PROVE q[j].at \in Nat /\ q[j].at < c
    OBVIOUS
  <2>1. q[j] \in LineRec
    BY <1>3
  <2>2. q[j].at \in Nat
    BY <2>1, PlaceOf
  <2> QED
    BY <1>1, <1>2, <1>3, <2>2 DEF Queued
<1>6. \A j, h \in 1..m : q[j].at = q[h].at => j = h
  <2> SUFFICES ASSUME NEW j \in 1..m, NEW h \in 1..m, q[j].at = q[h].at, j # h PROVE FALSE
    OBVIOUS
  <2>1. j < h \/ h < j
    OBVIOUS
  <2>2. \A b, d \in 1..m : b < d => q[b].at < q[d].at
    BY <1>1, <1>2, <1>3 DEF Queued, Rising
  <2>3. q[j].at < q[h].at \/ q[h].at < q[j].at
    BY <2>1, <2>2
  <2> QED
    BY <1>5, <2>3
<1>7. ASSUME NEW a \in c..Len(Lines), NEW j \in 1..m PROVE a # q[j].at
  BY <1>4, <1>5
<1>8. /\ \/ i = 1 /\ t = <<"read", 0>>
         \/ i = 2 /\ t = <<"gone", 0>>
         \/ i = 3 /\ \E a \in c..Len(Lines) : t = <<"wait", a>>
         \/ i = 4 /\ t = <<"line", 0>>
         \/ \E j \in 1..n : i = 4 + j /\ t = <<"frame", j>>
         \/ \E j \in 1..m : i = 4 + n + j /\ t = <<"wait", q[j].at>>
      /\ \/ k = 1 /\ t = <<"read", 0>>
         \/ k = 2 /\ t = <<"gone", 0>>
         \/ k = 3 /\ \E a \in c..Len(Lines) : t = <<"wait", a>>
         \/ k = 4 /\ t = <<"line", 0>>
         \/ \E j \in 1..n : k = 4 + j /\ t = <<"frame", j>>
         \/ \E j \in 1..m : k = 4 + n + j /\ t = <<"wait", q[j].at>>
  BY <1>2, <1>3 DEF Stands
<1>9. CASE t[1] = "wait"
  <2>1. /\ \/ i = 3 /\ \E a \in c..Len(Lines) : t = <<"wait", a>>
           \/ \E j \in 1..m : i = 4 + n + j /\ t = <<"wait", q[j].at>>
        /\ \/ k = 3 /\ \E a \in c..Len(Lines) : t = <<"wait", a>>
           \/ \E j \in 1..m : k = 4 + n + j /\ t = <<"wait", q[j].at>>
    BY <1>8, <1>9
  <2>2. PICK y : y = t[2]
    OBVIOUS
  <2>3. /\ \/ i = 3 /\ y \in c..Len(Lines)
           \/ \E j \in 1..m : i = 4 + n + j /\ y = q[j].at
        /\ \/ k = 3 /\ y \in c..Len(Lines)
           \/ \E j \in 1..m : k = 4 + n + j /\ y = q[j].at
    BY <2>1, <2>2
  <2>4. CASE y \in c..Len(Lines)
    BY <1>7, <2>3, <2>4
  <2>5. CASE y \notin c..Len(Lines)
    <3>1. PICK j \in 1..m : i = 4 + n + j /\ y = q[j].at
      BY <2>3, <2>5
    <3>2. PICK h \in 1..m : k = 4 + n + h /\ y = q[h].at
      BY <2>3, <2>5
    <3> QED
      BY <1>6, <3>1, <3>2
  <2> QED
    BY <2>4, <2>5
<1>10. CASE t[1] = "frame"
  <2>1. PICK j \in 1..n : i = 4 + j /\ t = <<"frame", j>>
    BY <1>8, <1>10
  <2>2. PICK h \in 1..n : k = 4 + h /\ t = <<"frame", h>>
    BY <1>8, <1>10
  <2> QED
    BY <2>1, <2>2
<1>11. CASE t[1] # "wait" /\ t[1] # "frame"
  BY <1>8, <1>11
<1> QED
  BY <1>9, <1>10, <1>11

Sized(n, m) == n = Len(lx.stack) /\ m = Len(lx.queue)

(* A place holds what the sites it stands for hold.                        *)
LEMMA StandsFor ==
  ASSUME Layout, Settled(lx, read, gone), NEW H,
         H = Hold(lx.line, lx.stack, Waits(lx.queue, lx.cursor), read, gone),
         NEW n \in Nat, NEW m \in Nat, Sized(n, m), PlacesHold(n, m)
  PROVE  /\ \A i, t : Stands(i, t, n) => i \in 1..4 + n + m /\ t \in Sites /\ H[t] \subseteq Places[i]
         /\ \A i \in 1..4 + n + m : \A x \in Places[i] : \E t \in Sites : Stands(i, t, n) /\ x \in H[t]
<1>1. lx \in Lexer /\ Queued(lx.queue, lx.cursor, lx.stack)
  BY DEF Settled
<1>2. PICK q \in Seq(LineRec), s \in Seq(FrameRec), c \in 1..Len(Lines) + 1,
           W \in {Waits(lx.queue, lx.cursor)} :
        q = lx.queue /\ s = lx.stack /\ c = lx.cursor /\ W = Waits(q, c)
  BY <1>1, LexerIs
<1>3. n = Len(s) /\ m = Len(q)
  BY <1>2 DEF Sized
<1>4. Len(Lines) \in Nat
  BY DEF Layout
<1>5. /\ H[<<"read", 0>>] = read /\ H[<<"gone", 0>>] = gone /\ H[<<"line", 0>>] = LineSpan(lx.line)
      /\ \A i \in Nat : H[<<"frame", i>>] = FrameSpan(s, i)
      /\ \A i \in Nat : H[<<"wait", i>>] = WaitSpan(s, W, i)
  <2>1. PICK l, e, V : l = lx.line /\ e = lx.stack /\ V = Waits(lx.queue, lx.cursor)
    OBVIOUS
  <2>2. H = Hold(l, e, V, read, gone)
    BY <2>1
  <2>3. /\ H[<<"read", 0>>] = read /\ H[<<"gone", 0>>] = gone /\ H[<<"line", 0>>] = LineSpan(l)
        /\ \A i \in Nat : H[<<"frame", i>>] = FrameSpan(e, i)
        /\ \A i \in Nat : H[<<"wait", i>>] = WaitSpan(e, V, i)
    BY <2>2, HoldIs
  <2> QED
    BY <1>2, <2>1, <2>3
<1>6. ASSUME NEW j \in 1..n
      PROVE  H[<<"frame", j>>] = Places[4 + j] /\ <<"frame", j>> \in Sites
  <2>1. Places[4 + j] = Span(s[j].line)
    BY <1>2 DEF PlacesHold
  <2>2. FrameSpan(s, j) = Span(s[j].line)
    BY <1>3 DEF FrameSpan
  <2>3. j \in Nat
    OBVIOUS
  <2>4. H[<<"frame", j>>] = FrameSpan(s, j)
    BY <1>5, <2>3
  <2>5. <<"frame", j>> \in Sites
    BY <2>3, SiteKinds
  <2> QED
    BY <2>1, <2>2, <2>4, <2>5
<1>7. ASSUME NEW j \in 1..m
      PROVE  H[<<"wait", q[j].at>>] = Places[4 + n + j] /\ <<"wait", q[j].at>> \in Sites
  <2>1. Places[4 + n + j] = Span(Cut(q[j]))
    BY <1>2 DEF PlacesHold
  <2>2. Span(Cut(q[j])) = WaitSpan(s, W, q[j].at)
    <3>1. PICK l : l = q[j]
      OBVIOUS
    <3>2. j \in 1..Len(lx.queue) /\ l = lx.queue[j]
      BY <1>2, <1>3, <3>1
    <3>3. Span(Cut(l)) = WaitSpan(lx.stack, Waits(lx.queue, lx.cursor), l.at)
      BY <3>2, CutSpan
    <3> QED
      BY <1>2, <3>1, <3>3
  <2>3. q[j] \in LineRec
    BY <1>3
  <2>4. q[j].at \in Nat
    <3>1. \A l \in LineRec : l.at \in Nat
      BY PlaceOf
    <3> QED
      BY <2>3, <3>1
  <2>5. H[<<"wait", q[j].at>>] = WaitSpan(s, W, q[j].at)
    BY <1>5, <2>4
  <2>6. <<"wait", q[j].at>> \in Sites
    BY <2>4, SiteKinds
  <2> QED
    BY <2>1, <2>2, <2>5, <2>6
<1>8. ASSUME NEW a \in c..Len(Lines)
      PROVE  H[<<"wait", a>>] = Body(a) /\ <<"wait", a>> \in Sites
  <2>1. WaitSpan(s, W, a) = Body(a)
    BY <1>1, <1>2, SourceSpan
  <2>2. c \in Nat
    BY <1>2, <1>4
  <2>3. a \in Nat
    BY <1>4, <2>2
  <2>4. H[<<"wait", a>>] = WaitSpan(s, W, a)
    BY <1>5, <2>3
  <2>5. <<"wait", a>> \in Sites
    BY <2>3, SiteKinds
  <2> QED
    BY <2>1, <2>4, <2>5
<1>9. Places[1] = read /\ Places[2] = gone /\ Places[3] = Unread(c) /\ Places[4] = LineSpan(lx.line)
  BY <1>2 DEF PlacesHold
<1>10. /\ \A a \in c..Len(Lines) : Body(a) \subseteq Unread(c)
       /\ \A x \in Unread(c) : \E a \in c..Len(Lines) : x \in Body(a)
  BY DEF Unread, Body
<1>11. ASSUME NEW i, NEW t, Stands(i, t, n)
       PROVE  i \in 1..4 + n + m /\ t \in Sites /\ H[t] \subseteq Places[i]
  <2>1. \/ i = 1 /\ t = <<"read", 0>>
        \/ i = 2 /\ t = <<"gone", 0>>
        \/ i = 4 /\ t = <<"line", 0>>
        \/ i = 3 /\ \E a \in c..Len(Lines) : t = <<"wait", a>>
        \/ \E j \in 1..n : i = 4 + j /\ t = <<"frame", j>>
        \/ \E j \in 1..m : i = 4 + n + j /\ t = <<"wait", q[j].at>>
    <3>1. \/ i = 1 /\ t = <<"read", 0>>
          \/ i = 2 /\ t = <<"gone", 0>>
          \/ i = 4 /\ t = <<"line", 0>>
          \/ i = 3 /\ \E a \in lx.cursor..Len(Lines) : t = <<"wait", a>>
          \/ \E j \in 1..n : i = 4 + j /\ t = <<"frame", j>>
          \/ \E j \in 1..Len(lx.queue) : i = 4 + n + j /\ t = <<"wait", lx.queue[j].at>>
      BY <1>11 DEF Stands
    <3>2. PICK h \in Nat : h = m
      OBVIOUS
    <3>3. c = lx.cursor /\ q = lx.queue /\ Len(lx.queue) = h
      BY <1>2, <1>3, <3>2
    <3>4. ASSUME NEW j \in 1..Len(lx.queue), i = 4 + n + j, t = <<"wait", lx.queue[j].at>>
          PROVE  j \in 1..m /\ i = 4 + n + j /\ t = <<"wait", q[j].at>>
      BY <3>2, <3>3, <3>4
    <3> QED
      BY <3>1, <3>3, <3>4
  <2>2. CASE \/ i = 1 /\ t = <<"read", 0>>
             \/ i = 2 /\ t = <<"gone", 0>>
             \/ i = 4 /\ t = <<"line", 0>>
    <3>1. \/ i = 1 /\ t = <<"read", 0>>
          \/ i = 2 /\ t = <<"gone", 0>>
          \/ i = 4 /\ t = <<"line", 0>>
      BY <2>2
    <3>2. i \in 1..4 + n + m
      BY <2>2
    <3> QED
      BY <1>5, <1>9, <3>1, <3>2, SiteKinds
  <2>3. CASE i = 3 /\ \E a \in c..Len(Lines) : t = <<"wait", a>>
    <3>1. i \in 1..4 + n + m
      BY <2>3
    <3> QED
      BY <1>8, <1>9, <1>10, <2>3, <3>1
  <2>4. CASE \E j \in 1..n : i = 4 + j /\ t = <<"frame", j>>
    <3>1. i \in 1..4 + n + m
      BY <2>4
    <3> QED
      BY <1>6, <2>4, <3>1
  <2>5. CASE \E j \in 1..m : i = 4 + n + j /\ t = <<"wait", q[j].at>>
    <3>1. i \in 1..4 + n + m
      BY <2>5
    <3> QED
      BY <1>7, <2>5, <3>1
  <2> QED
    BY <2>1, <2>2, <2>3, <2>4, <2>5
<1>12. ASSUME NEW i \in 1..4 + n + m, NEW x \in Places[i]
       PROVE  \E t \in Sites : Stands(i, t, n) /\ x \in H[t]
  <2>1. CASE i = 1
    BY <1>5, <1>9, <1>12, <2>1, SiteKinds DEF Stands
  <2>2. CASE i = 2
    BY <1>5, <1>9, <1>12, <2>2, SiteKinds DEF Stands
  <2>3. CASE i = 3
    <3>1. PICK a \in c..Len(Lines) : x \in Body(a)
      BY <1>9, <1>10, <1>12, <2>3
    <3>2. Stands(i, <<"wait", a>>, n)
      BY <1>2, <2>3 DEF Stands
    <3> QED
      BY <1>8, <3>1, <3>2
  <2>4. CASE i = 4
    BY <1>5, <1>9, <1>12, <2>4, SiteKinds DEF Stands
  <2>5. CASE 4 < i /\ i <= 4 + n
    <3>1. PICK j \in 1..n : i = 4 + j
      <4>1. i - 4 \in 1..n /\ i = 4 + (i - 4)
        BY <2>5
      <4> QED
        BY <4>1
    <3>2. Stands(i, <<"frame", j>>, n)
      BY <3>1 DEF Stands
    <3> QED
      BY <1>6, <1>12, <3>1, <3>2
  <2>6. CASE 4 + n < i
    <3>1. PICK j \in 1..m : i = 4 + n + j
      <4>1. i - (4 + n) \in 1..m /\ i = 4 + n + (i - (4 + n))
        BY <2>6
      <4> QED
        BY <4>1
    <3>2. Stands(i, <<"wait", q[j].at>>, n)
      BY <1>2, <1>3, <3>1 DEF Stands
    <3> QED
      BY <1>7, <1>12, <3>1, <3>2
  <2> QED
    BY <2>1, <2>2, <2>3, <2>4, <2>5, <2>6
<1> QED
  BY <1>11, <1>12

(* Every site that holds a byte has its place.                             *)
LEMMA WaitingStands ==
  ASSUME Layout, Settled(lx, read, gone), NEW H,
         H = Hold(lx.line, lx.stack, Waits(lx.queue, lx.cursor), read, gone),
         NEW n \in Nat, NEW m \in Nat, Sized(n, m), NEW t \in Sites, NEW x \in H[t]
  PROVE  \E i : Stands(i, t, n)
<1>1. lx \in Lexer
  BY DEF Settled
<1>2. PICK q \in Seq(LineRec), s \in Seq(FrameRec), c \in 1..Len(Lines) + 1,
           W \in {Waits(lx.queue, lx.cursor)} :
        q = lx.queue /\ s = lx.stack /\ c = lx.cursor /\ W = Waits(q, c)
  BY <1>1, LexerIs
<1>3. /\ \A i \in Nat : H[<<"frame", i>>] = FrameSpan(s, i)
      /\ \A i \in Nat : H[<<"wait", i>>] = WaitSpan(s, W, i)
  BY <1>2, HoldIs
<1>4. CASE t = <<"read", 0>> \/ t = <<"gone", 0>> \/ t = <<"line", 0>>
  BY <1>4 DEF Stands
<1>5. ASSUME NEW j \in Nat, t = <<"frame", j>> PROVE \E i : Stands(i, t, n)
  <2>1. x \in FrameSpan(s, j)
    BY <1>3, <1>5
  <2>2. j \in 1..n
    BY <1>2, <2>1 DEF FrameSpan, Sized
  <2> QED
    BY <1>5, <2>2 DEF Stands
<1>6. ASSUME NEW j \in Nat, t = <<"wait", j>> PROVE \E i : Stands(i, t, n)
  <2>1. x \in WaitSpan(s, W, j)
    BY <1>3, <1>6
  <2>2. PICK w \in W : w.at = j
    BY <2>1 DEF WaitSpan
  <2>3. \/ \E i \in 1..Len(q) : w = Entry(q[i])
        \/ w.at \in c..Len(Lines)
    BY <1>2, <2>2, WaitsIs
  <2>4. CASE j \in c..Len(Lines)
    BY <1>2, <1>6, <2>4 DEF Stands
  <2>5. ASSUME NEW i \in 1..Len(q), w = Entry(q[i]) PROVE \E k : Stands(k, t, n)
    <3>1. w.at = q[i].at
      BY <2>5 DEF Entry
    <3>2. t = <<"wait", q[i].at>>
      BY <1>6, <2>2, <3>1
    <3> QED
      BY <1>2, <3>2 DEF Stands
  <2> QED
    BY <2>2, <2>3, <2>4, <2>5
<1> QED
  BY <1>4, <1>5, <1>6, SiteKinds

(* The invariant has every byte in exactly one place.                      *)
LEMMA GoodDelivery ==
  ASSUME TextsAssumption, NoneAssumption, IInv
  PROVE  OneDelivery
<1> SUFFICES ASSUME ~lx.ahead, NEW x \in Positions
             PROVE  Cardinality({i \in DOMAIN Places : x \in Places[i]}) = 1
  BY DEF OneDelivery
<1>1. text \in Texts /\ Settled(lx, read, gone)
  BY DEF IInv, Good
<1>2. Layout
  BY <1>1, TextLaidOut
<1>3. lx \in Lexer /\ lx.queue \in Seq(LineRec) /\ lx.stack \in Seq(FrameRec)
  BY <1>1, LexerIs DEF Settled
<1>4. PICK n \in Nat, m \in Nat : Sized(n, m)
  BY <1>3 DEF Sized
<1>5. PlacesHold(n, m)
  BY <1>3, <1>4, PlacesAre DEF Sized
<1>6. PICK H : H = Hold(lx.line, lx.stack, Waits(lx.queue, lx.cursor), read, gone)
  OBVIOUS
<1>7. PICK t \in Sites : \A u \in Sites : x \in H[u] <=> u = t
  BY <1>1, <1>6 DEF Settled, Lies, Partition
<1>8. PICK k : Stands(k, t, n)
  BY <1>1, <1>2, <1>4, <1>6, <1>7, WaitingStands
<1>9. /\ \A i, u : Stands(i, u, n) => i \in 1..4 + n + m /\ u \in Sites /\ H[u] \subseteq Places[i]
      /\ \A i \in 1..4 + n + m : \A y \in Places[i] : \E u \in Sites : Stands(i, u, n) /\ y \in H[u]
  BY <1>1, <1>2, <1>4, <1>5, <1>6, StandsFor
<1>10. DOMAIN Places = 1..4 + n + m
  BY <1>5 DEF PlacesHold
<1>11. k \in DOMAIN Places /\ x \in Places[k]
  BY <1>7, <1>8, <1>9, <1>10
<1>12. ASSUME NEW i \in DOMAIN Places, x \in Places[i] PROVE i = k
  <2>1. Stands(i, t, n)
    BY <1>7, <1>9, <1>10, <1>12
  <2> QED
    BY <1>1, <1>2, <1>8, <2>1, StandsOnce
<1>13. {i \in DOMAIN Places : x \in Places[i]} = {k}
  BY <1>11, <1>12
<1> QED
  BY <1>13, FS_Singleton

-----------------------------------------------------------------------------
(* The invariant holds of every reachable state, whatever the text: the    *)
(* lexer is settled between scans, and a scan in progress can be dropped   *)
(* back to such a state.                                                   *)
THEOREM InvariantHolds == SourceSpec => []IInv
<1>1. SourceInit => IInv
  BY TextsAssumption, NoneAssumption, InitGood
<1>2. IInv /\ [SourceNext]_sourceVars => IInv'
  BY TextsAssumption, NoneAssumption, StepGood
<1> QED
  BY <1>1, <1>2, PTL DEF SourceSpec

(* Of every text, however its bodies and heredocs nest and whatever was    *)
(* peeked at: every byte that next_line, push_context and pop_context hand *)
(* around is in one place at every moment between scans, so none is        *)
(* delivered twice and none is lost.                                       *)
THEOREM DeliversOnce == SourceSpec => []OneDelivery
<1>1. IInv => OneDelivery
  BY TextsAssumption, NoneAssumption, GoodDelivery
<1> QED
  BY <1>1, InvariantHolds, PTL

(* No line of any text reaches past the bound of the frame it is read      *)
(* under, and no line a heredoc's search captures has its cursor past the  *)
(* end of its view.                                                        *)
THEOREM KeepsBounds == SourceSpec => []BoundKept
<1>1. IInv => BoundKept
  BY TextsAssumption, NoneAssumption, GoodBound
<1> QED
  BY <1>1, InvariantHolds, PTL

(* A lookahead that was dropped leaves the current line, the frames and    *)
(* the lines to come as they were, in every text and from every state.     *)
THEOREM PeeksLeaveNoTrace == SourceSpec => []PeekLeavesNoTrace
<1>1. IInv => PeekLeavesNoTrace
  BY TextsAssumption, NoneAssumption, GoodTrace
<1> QED
  BY <1>1, InvariantHolds, PTL
=============================================================================
