----------------------------- MODULE SourceLines -----------------------------
(***************************************************************************)
(* Line delivery below the lexer (perl-parser, source.rs): the current     *)
(* line, the lines queued for replay, the frames of heredoc and delimited  *)
(* bodies with their bounds, and the lookahead that finds where a body     *)
(* ends.  The lexer is a caller that reads bytes, loads a line when it     *)
(* runs out of them, opens bodies, peeks ahead and abandons lines.         *)
(*                                                                         *)
(* A text is a sequence of lines of characters: "<" introduces a heredoc   *)
(* that ends at a line "T", "~" an indented one that ends at "U", "(" and  *)
(* ")" delimit a body, a backslash protects the next character, " "        *)
(* indents.  A position is the offset of a byte, newlines included; since  *)
(* offsets are only compared, every line starts at a multiple of Width.    *)
(***************************************************************************)
EXTENDS Naturals, Sequences, FiniteSets, SequencesExt

CONSTANTS
  Texts,  \* [lines, closed]: what is lexed, and whether a newline ends it
  Width,  \* more than the longest line has bytes
  None    \* no line

ASSUME TextsAssumption ==
  /\ Texts \subseteq [lines : Seq(Seq(STRING)), closed : BOOLEAN]
  /\ Width \in Nat /\ \A t \in Texts : \A i \in DOMAIN t.lines : Len(t.lines[i]) + 1 < Width

ASSUME NoneAssumption ==
  None \notin [at : Nat, pos : Nat, len : Nat, term : BOOLEAN, indent : Nat, number : Nat]

VARIABLES
  text,   \* the text
  lx,     \* the fields of Parser that deliver lines
  scan,   \* the lookahead under way
  read,   \* positions of the bytes the lexer has consumed
  gone,   \* positions nobody is to read: closes, terminators, indents
  phase   \* "lexing", "done" or "error"

sourceVars == <<text, lx, scan, read, gone, phase>>

-----------------------------------------------------------------------------
(* The text.                                                               *)

Lines == text.lines
Full(i) == Len(Lines[i])
HasNewline(i) == i < Len(Lines) \/ text.closed
Offset(i) == i * Width
Extent(i) == Offset(i) + Full(i) + (IF HasNewline(i) THEN 1 ELSE 0)
Positions == UNION {Offset(i)..Extent(i) - 1 : i \in DOMAIN Lines}
NoBound == Offset(Len(Lines) + 1)  \* real end of file

-----------------------------------------------------------------------------
(* A LexerLine: pos is the cursor, len and term are the effective view.    *)

Fresh(i) ==
  [at |-> i, pos |-> 0, len |-> Full(i), term |-> HasNewline(i), indent |-> 0, number |-> 0]

SetEof(l, bound) ==
  [l EXCEPT !.len = IF bound >= Extent(l.at) THEN Full(l.at)
                    ELSE IF bound < Offset(l.at) THEN 0 ELSE bound - Offset(l.at),
            !.term = bound >= Extent(l.at) /\ HasNewline(l.at)]

(* What the view has left, and the positions of it.                        *)
Rest(l) == SubSeq(Lines[l.at], l.pos + 1, l.len)
Span(l) ==
  {Offset(l.at) + k : k \in {b \in l.pos..l.len : b < l.len \/ l.term}}

HasByte(l) == l # None /\ (l.pos < l.len \/ (l.pos = l.len /\ l.term))
Byte(l) == IF l.pos < l.len THEN Lines[l.at][l.pos + 1] ELSE "\n"
Here(l) == Offset(l.at) + l.pos

-----------------------------------------------------------------------------
(* Delivery.                                                               *)

Bound(p) == IF p.stack = <<>> THEN NoBound ELSE Last(p.stack).bound

(* install_line, where every line meets the bound of the top frame.        *)
Install(p, l) ==
  [p EXCEPT !.line = SetEof(l, Bound(p)),
            !.captured = IF p.ahead /\ p.line # None THEN Append(@, p.line) ELSE @]

NextStart(p) == Offset(IF p.queue # <<>> THEN Head(p.queue).at ELSE p.cursor)

HasNext(p) ==
  /\ NextStart(p) <= Bound(p)
  /\ p.queue # <<>> \/ p.cursor <= Len(Lines)

NextLine(p) ==
  LET l == IF p.queue # <<>> THEN Head(p.queue) ELSE Fresh(p.cursor)
      q == IF p.queue # <<>> THEN [p EXCEPT !.queue = Tail(@)] ELSE [p EXCEPT !.cursor = @ + 1]
  IN  Install([q EXCEPT !.count = @ + 1], [l EXCEPT !.number = p.count])

Push(p, kind, parent, bound, own) ==
  [p EXCEPT !.stack = Append(@, [kind |-> kind, line |-> parent, bound |-> bound]), !.line = own]

Pop(p) ==
  LET below == [p EXCEPT !.stack = Front(@)] IN
  [below EXCEPT !.line = SetEof(Last(p.stack).line, Bound(below))]

-----------------------------------------------------------------------------
(* A lookahead: opened, perhaps with a ceiling for the top frame's bound,  *)
(* and dropped, which puts the entry line back and queues what was seen.   *)

NoScan == [kind |-> "none"]
Scanning(kind) == phase = "lexing" /\ scan.kind = kind

(* A peek is over; the lexer does not peek again before it moves on.       *)
Peeked(before) == [kind |-> "peeked", before |-> before]

Lookahead(p) == [p EXCEPT !.ahead = TRUE]

LookaheadTo(p, ceiling) ==
  [p EXCEPT !.ahead = TRUE,
            !.stack = IF @ = <<>> THEN @ ELSE [@ EXCEPT ![Len(@)].bound = ceiling]]

(* The entry line is installed while the lookahead still captures, which   *)
(* sweeps the line the scan ended on to the back of the captured ones.     *)
Rewound(p, s) ==
  LET own == [p EXCEPT !.stack = IF @ = <<>> THEN @ ELSE [@ EXCEPT ![Len(@)].bound = s.bound]]
  IN  IF p.captured = <<>> THEN Install([own EXCEPT !.line = None], [p.line EXCEPT !.pos = s.entry])
      ELSE Install([own EXCEPT !.captured = Tail(@)], [Head(p.captured) EXCEPT !.pos = s.entry])

Requeue(p, lines) ==
  [p EXCEPT !.queue = lines \o @, !.captured = <<>>, !.ahead = FALSE, !.count = p.line.number + 1]

\* Variant: previewed lines keep the cursor the scan left them with.
DropKeepingCursors(p, s) == LET back == Rewound(p, s) IN Requeue(back, back.captured)

Drop(p, s) ==
  LET back == Rewound(p, s) IN
  Requeue(back, [i \in DOMAIN back.captured |->
                   [back.captured[i] EXCEPT !.pos = back.captured[i].indent]])

-----------------------------------------------------------------------------
NothingRead ==
  /\ text \in Texts
  /\ lx = [line |-> None, queue |-> <<>>, cursor |-> 1, count |-> 1, stack |-> <<>>,
           captured |-> <<>>, ahead |-> FALSE]
  /\ scan = NoScan
  /\ read = {} /\ gone = {}

SourceInit == NothingRead /\ phase = "lexing"

-----------------------------------------------------------------------------
(* The lexer's own steps.                                                  *)

Idle == Scanning("none") \/ Scanning("peeked")

Step(n) == lx' = [lx EXCEPT !.line.pos = @ + n]

(* Whatever the byte is, the lexer may take it for content.                *)
Consume ==
  /\ Idle /\ HasByte(lx.line)
  /\ Step(1)
  /\ scan' = NoScan
  /\ read' = read \cup {Here(lx.line)}
  /\ UNCHANGED <<text, gone, phase>>

(* peek_byte, when the current line is exhausted.                          *)
Load ==
  /\ Idle /\ ~HasByte(lx.line) /\ HasNext(lx)
  /\ lx' = NextLine(lx)
  /\ scan' = NoScan
  /\ UNCHANGED <<text, read, gone, phase>>

(* The rest of a line is skipped: a comment, pod, a format.                *)
Abandon ==
  /\ Idle /\ HasByte(lx.line)
  /\ lx' = [lx EXCEPT !.line = None]
  /\ scan' = NoScan
  /\ gone' = gone \cup Span(lx.line)
  /\ UNCHANGED <<text, read, phase>>

(* The end of a body is the frame's bound.                                 *)
PopContext ==
  /\ Idle /\ ~HasByte(lx.line) /\ ~HasNext(lx) /\ lx.stack # <<>>
  /\ lx' = Pop(lx)
  /\ scan' = NoScan
  /\ UNCHANGED <<text, read, gone, phase>>

Finish ==
  /\ Idle /\ ~HasByte(lx.line) /\ ~HasNext(lx) /\ lx.stack = <<>>
  /\ phase' = "done"
  /\ scan' = NoScan
  /\ UNCHANGED <<text, lx, read, gone>>

-----------------------------------------------------------------------------
(* at_fat_comma, which looks over blank and comment lines and lets go.     *)

Peek ==
  /\ Scanning("none") /\ HasByte(lx.line)
  /\ lx' = Lookahead(lx)
  /\ scan' = [kind |-> "peek", entry |-> lx.line.pos, bound |-> Bound(lx), before |-> lx]
  /\ UNCHANGED <<text, read, gone, phase>>

PeekByte ==
  /\ Scanning("peek") /\ HasByte(lx.line)
  /\ Step(1)
  /\ UNCHANGED <<text, scan, read, gone, phase>>

PeekLine ==
  /\ Scanning("peek") /\ HasNext(lx)
  /\ lx' = NextLine(lx)
  /\ UNCHANGED <<text, scan, read, gone, phase>>

PeekEnds ==
  /\ Scanning("peek")
  /\ lx' = Drop(lx, scan)
  /\ scan' = Peeked(scan.before)
  /\ UNCHANGED <<text, read, gone, phase>>

-----------------------------------------------------------------------------
(* start_delimited_body: a walk to the matching close, byte by byte, that  *)
(* leaves a frame bounded at the close and resumes the parent behind it.   *)

StartBody ==
  /\ Idle /\ HasByte(lx.line) /\ Byte(lx.line) = "("
  /\ lx' = Lookahead([lx EXCEPT !.line.pos = @ + 1])
  /\ scan' = [kind |-> "body", entry |-> lx.line.pos + 1, bound |-> Bound(lx), depth |-> 0]
  /\ read' = read \cup {Here(lx.line)}
  /\ UNCHANGED <<text, gone, phase>>

ScanByte ==
  /\ Scanning("body") /\ HasByte(lx.line)
  /\ LET b == Byte(lx.line) IN
     \/ /\ b = "\\"
        /\ Step(2) /\ scan' = scan
     \/ /\ b = "("
        /\ Step(1) /\ scan' = [scan EXCEPT !.depth = @ + 1]
     \/ /\ b = ")" /\ scan.depth > 0
        /\ Step(1) /\ scan' = [scan EXCEPT !.depth = @ - 1]
     \/ /\ b \notin {"\\", "(", ")"}
        /\ Step(1) /\ scan' = scan
  /\ UNCHANGED <<text, read, gone, phase>>

ScanLine ==
  /\ Scanning("body") /\ ~HasByte(lx.line) /\ HasNext(lx)
  /\ lx' = NextLine(lx)
  /\ UNCHANGED <<text, scan, read, gone, phase>>

\* Variants: the parent resumes on the close; the live line is not narrowed.
CloseUnread ==
  /\ Scanning("body") /\ HasByte(lx.line) /\ Byte(lx.line) = ")" /\ scan.depth = 0
  /\ LET back == Drop(lx, scan)
         bound == Here(lx.line)
     IN  lx' = Push(back, "body", lx.line, bound, SetEof(back.line, bound))
  /\ scan' = NoScan
  /\ gone' = gone \cup {Here(lx.line)}
  /\ UNCHANGED <<text, read, phase>>

CloseWide ==
  /\ Scanning("body") /\ HasByte(lx.line) /\ Byte(lx.line) = ")" /\ scan.depth = 0
  /\ LET back == Drop(lx, scan)
         parent == [lx.line EXCEPT !.pos = @ + 1]
     IN  lx' = Push(back, "body", parent, Here(lx.line), back.line)
  /\ scan' = NoScan
  /\ gone' = gone \cup {Here(lx.line)}
  /\ UNCHANGED <<text, read, phase>>

CloseFound ==
  /\ Scanning("body") /\ HasByte(lx.line) /\ Byte(lx.line) = ")" /\ scan.depth = 0
  /\ LET back == Drop(lx, scan)
         parent == [lx.line EXCEPT !.pos = @ + 1]
         bound == Here(lx.line)
     IN  lx' = Push(back, "body", parent, bound, SetEof(back.line, bound))
  /\ scan' = NoScan
  /\ gone' = gone \cup {Here(lx.line)}
  /\ UNCHANGED <<text, read, phase>>

-----------------------------------------------------------------------------
(* start_heredoc: the body is found below the nearest frame whose current  *)
(* line ends in a newline, and delivered before the rest of that line.     *)

Ceiling(p) ==
  LET line(i) == IF i = Len(p.stack) THEN p.line ELSE p.stack[i + 1].line
      hosts == {i \in 0..Len(p.stack) : line(i).term}
      bound(i) == IF i = 0 THEN NoBound ELSE p.stack[i].bound
  IN  IF hosts = {} THEN NoBound
      ELSE bound(CHOOSE i \in hosts : \A j \in hosts : j <= i)

StartHeredoc ==
  /\ Idle /\ HasByte(lx.line) /\ Byte(lx.line) \in {"<", "~"}
  /\ LET p == [lx EXCEPT !.line.pos = @ + 1] IN lx' = LookaheadTo(p, Ceiling(p))
  /\ scan' = [kind |-> "heredoc", entry |-> lx.line.pos + 1, bound |-> Bound(lx),
              indented |-> (Byte(lx.line) = "~")]
  /\ read' = read \cup {Here(lx.line)}
  /\ UNCHANGED <<text, gone, phase>>

(* How many blanks a line begins with.                                     *)
Blanks(s) == SelectInSeq(s \o <<"x">>, LAMBDA c : c # " ") - 1

(* terminator_matches.                                                     *)
Terminates(l, indented) ==
  LET rest == Rest(l)
      blanks == IF indented THEN Blanks(rest) ELSE 0
      tag == IF indented THEN "U" ELSE "T"
  IN  SubSeq(rest, blanks + 1, Len(rest)) = <<tag>>

(* stamp_heredoc_indent.                                                   *)
Blank(l) == Rest(l) = <<>>
Stamps(lines, n) == \A i \in DOMAIN lines : Blank(lines[i]) \/ Blanks(Rest(lines[i])) >= n
Stamp(l, n) == IF Blank(l) THEN l ELSE [l EXCEPT !.pos = @ + n, !.indent = l.pos + n]
Stripped(l, n) == Span(l) \ Span(Stamp(l, n))

SeekTerminator ==
  /\ Scanning("heredoc") /\ HasNext(lx)
  /\ ~Terminates(NextLine(lx).line, scan.indented)
  /\ lx' = NextLine(lx)
  /\ UNCHANGED <<text, scan, read, gone, phase>>

TerminatorFound ==
  /\ Scanning("heredoc") /\ HasNext(lx)
  /\ LET p == NextLine(lx)
         n == IF scan.indented THEN Blanks(Rest(p.line)) ELSE 0
         body == Tail(p.captured)
         stamped == [i \in DOMAIN body |-> Stamp(body[i], n)]
         back == Drop([p EXCEPT !.captured = <<Head(@)>> \o stamped, !.line = None], scan)
     IN  /\ Terminates(p.line, scan.indented) /\ Stamps(body, n)
         /\ lx' = Push(back, "heredoc", back.line, Offset(p.line.at), None)
         /\ gone' = gone \cup Span(p.line) \cup UNION {Stripped(body[i], n) : i \in DOMAIN body}
  /\ scan' = NoScan
  /\ UNCHANGED <<text, read, phase>>

Misindented ==
  /\ Scanning("heredoc") /\ scan.indented /\ HasNext(lx)
  /\ LET p == NextLine(lx) IN
     /\ Terminates(p.line, TRUE)
     /\ ~Stamps(Tail(p.captured), Blanks(Rest(p.line)))
  /\ phase' = "error"
  /\ UNCHANGED <<text, lx, scan, read, gone>>

\* Variant: a heredoc scan at the end of the text is not given up.
UnterminatedBody ==
  /\ Scanning("body") /\ ~HasByte(lx.line)
  /\ ~HasNext(lx)
  /\ phase' = "error"
  /\ UNCHANGED <<text, lx, scan, read, gone>>

Unterminated ==
  /\ Scanning("heredoc") \/ (Scanning("body") /\ ~HasByte(lx.line))
  /\ ~HasNext(lx)
  /\ phase' = "error"
  /\ UNCHANGED <<text, lx, scan, read, gone>>

-----------------------------------------------------------------------------
SourceNext ==
  \/ Consume \/ Load \/ Abandon \/ PopContext \/ Finish
  \/ Peek \/ PeekByte \/ PeekLine \/ PeekEnds
  \/ StartBody \/ ScanByte \/ ScanLine \/ CloseFound
  \/ StartHeredoc \/ SeekTerminator \/ TerminatorFound \/ Misindented \/ Unterminated

SourceSpec == SourceInit /\ [][SourceNext]_sourceVars /\ WF_sourceVars(SourceNext)

-----------------------------------------------------------------------------
(* Where the bytes nobody has read yet wait: in the current line, in the   *)
(* suspended lines of the frames, in the queue, in the source.  A queued   *)
(* line on which a body closes will be cut there.                          *)
Cut(l) ==
  LET bounds == {lx.stack[i].bound : i \in DOMAIN lx.stack}
      below == {b \in bounds : b >= Offset(l.at)}
  IN  IF below = {} THEN l ELSE SetEof(l, CHOOSE b \in below : \A c \in below : b <= c)

Places ==
  <<read, gone, UNION {Offset(i)..Extent(i) - 1 : i \in lx.cursor..Len(Lines)},
    IF lx.line = None THEN {} ELSE Span(lx.line)>>
  \o [i \in DOMAIN lx.stack |-> Span(lx.stack[i].line)]
  \o [i \in DOMAIN lx.queue |-> Span(Cut(lx.queue[i]))]

(* Every byte of the text is in one place at every moment between scans:   *)
(* none is delivered twice, and none is lost, whatever bodies nest and     *)
(* whatever was peeked at.                                                 *)
OneDelivery ==
  ~lx.ahead =>
    LET places == Places IN
    \A x \in Positions : Cardinality({i \in DOMAIN places : x \in places[i]}) = 1

(* No delivered line reaches past the bound of the frame it is read under: *)
(* what closes a body, and what follows it, is never the body's.  Nor does *)
(* a cursor pass the end of its view, where the search for a terminator    *)
(* would slice and panic.                                                  *)
BoundKept ==
  /\ ~lx.ahead /\ lx.line # None => \A x \in Span(lx.line) : x < Bound(lx)
  /\ Scanning("heredoc") /\ HasNext(lx) =>
       LET p == NextLine(lx) IN
       \A l \in {p.line} \cup ToSet(Tail(p.captured)) : l.pos <= l.len

(* The lines a parser would be given from here on, and from where in each. *)
Ahead(p) ==
  [i \in DOMAIN p.queue |-> [at |-> p.queue[i].at, pos |-> p.queue[i].pos]]
  \o [i \in 1..Len(Lines) + 1 - p.cursor |-> [at |-> p.cursor + i - 1, pos |-> 0]]

(* A lookahead that was let go leaves the current line, the frames and the *)
(* lines to come as they were, and holds no line back.  The line counter   *)
(* it may leave elsewhere.                                                 *)
PeekLeavesNoTrace ==
  /\ scan.kind = "peeked" =>
       /\ lx.line = scan.before.line /\ lx.stack = scan.before.stack
       /\ Ahead(lx) = Ahead(scan.before)
  /\ ~lx.ahead => lx.captured = <<>>

(* Lexing ends: no nesting of bodies and scans keeps delivering lines.     *)
LexingEnds == <>(phase # "lexing")

(* What source.rs says of a line's number.  It is violated: the terminator *)
(* of a heredoc is dropped by a scan that rewinds the counter, and nothing *)
(* counts it again.                                                        *)
NumberInSource == lx.line # None => lx.line.number = lx.line.at
=============================================================================
