------------------------------ MODULE Expressions ------------------------------
(***************************************************************************)
(* The expression parser of perl-parser/src/parser.rs (parse_expr) and the *)
(* pass of ast.rs that stamps every node with its evaluation context.      *)
(*                                                                         *)
(* parse_expr reads prefix operators and openers onto a stack of frames    *)
(* until a leaf is reached, runs the infix loop at the current precedence, *)
(* then applies the frames one by one.  The operand of an infix operator,  *)
(* a subscript and the argument of a call are parsed by a recursive call.  *)
(* Here both live on one stack: an item whose kind is "frame" is an        *)
(* ExprFrame, any other item is the caller waiting for a recursive call.   *)
(* Tokens are chosen as they are read, so the runs cover every input of at *)
(* most MaxTokens tokens over each of the Alphabets.                       *)
(***************************************************************************)
EXTENDS Integers, Sequences, SequencesExt, FiniteSets

CONSTANTS Alphabets,   \* sets of tokens; an input is written in one of them
          MaxTokens    \* tokens read freely before only closers may follow

ExpressionsAssumption == MaxTokens \in Nat \ {0} /\ IsFiniteSet(Alphabets)

VARIABLES alphabet, \* the alphabet of this input
          toks,     \* the tokens lexed so far; the last one is self.tok
          mode,     \* "term", "post" (a subscript may follow), "open" (its bracket
                    \* follows), "list" (at its head), "oper", "done", "error"
          prec,     \* current_prec, the least binding power the infix loop accepts
          stack,    \* frames and waiting callers, the innermost last
          left      \* the expression built so far at this level

vars == <<alphabet, toks, mode, prec, stack, left>>

Low == 0
ListItem == 501          \* PREC_COMMA + 1: one element of a list
NamedUnary == 1600

(* op_info_for_token: one token stands for each row of the table. *)
Infix(t) ==
  CASE t = "or"  -> [prec |-> 100,  assoc |-> "left"]
    [] t = "and" -> [prec |-> 200,  assoc |-> "left"]
    [] t = ","   -> [prec |-> 500,  assoc |-> "left"]
    [] t = "="   -> [prec |-> 600,  assoc |-> "right"]
    [] t = "?"   -> [prec |-> 700,  assoc |-> "right"]
    [] t = ".."  -> [prec |-> 800,  assoc |-> "non"]
    [] t = "//"  -> [prec |-> 900,  assoc |-> "left"]
    [] t = "&&"  -> [prec |-> 1000, assoc |-> "left"]
    [] t = "=="  -> [prec |-> 1300, assoc |-> "chain"]
    [] t = "<=>" -> [prec |-> 1300, assoc |-> "non"]
    [] t = "<"   -> [prec |-> 1400, assoc |-> "chain"]
    [] t = "isa" -> [prec |-> 1500, assoc |-> "non"]
    [] t = "<<"  -> [prec |-> 1700, assoc |-> "left"]
    [] t = "-"   -> [prec |-> 1800, assoc |-> "left"]
    [] t = "=~"  -> [prec |-> 2000, assoc |-> "left"]
    [] t = "**"  -> [prec |-> 2200, assoc |-> "right"]
    [] t = "++"  -> [prec |-> 2300, assoc |-> "non"]
    [] t \in {"->[", "->m"} -> [prec |-> 2400, assoc |-> "left"]
    [] OTHER     -> [prec |-> -1,   assoc |-> "none"]

RightPrecAlike(t) == Infix(t).prec       \* variant: every operator groups rightwards
RightPrec(t) == IF Infix(t).assoc = "right" THEN Infix(t).prec ELSE Infix(t).prec + 1

Leaves == {"$x", "@a", "1", "//"}        \* "//" where a term is due is an empty regex
Closer(t) == CASE t = "(" -> ")" [] t = "[" -> "]" [] t = "@{" -> "}" [] OTHER -> "none"
Openers == {"(", "[", "@{"}
Closers == {")", "]", "}", ":", ";"}
ArgsEnd == {";", ")", "]", "}"}          \* at_args_end, the statement modifiers left out

(* The operators of try_prefix and what they demand of their operand. *)
PrefixOps == {"!", "-", "\\", "local", "not", "++", "return"}
InnerPrec(t) == CASE t \in {"!", "-", "\\", "local"} -> 2100 [] t = "not" -> 300
                  [] t = "++" -> 2300 [] t = "return" -> 500

Calls == {"lc", "join"}                  \* a named unary and a list operator

------------------------------------------------------------------------------
(* Nodes.  `at' is the place of the node's own token in the input.         *)
Node(op, at, kids) == [op |-> op, at |-> at, ctx |-> "none", kids |-> kids]
Nothing == Node("nothing", 0, <<>>)

UnwrapParen(e) == IF e.op = "paren" THEN e.kids[1] ELSE e
ListLiterals == {"paren", "()", "slice"}

RECURSIVE IsLvalue(_)
IsLvalue(e) ==
  \/ e.op \in {"$x", "@a", "()", "elem", "@slice", "@{", "local"}
  \/ e.op \in {"paren", ","} /\ \A i \in DOMAIN e.kids : IsLvalue(e.kids[i])

RECURSIVE IsAggregate(_)
IsAggregate(e) == \/ e.op \in {"@a", "@slice", "@{", ",", "()"}
                  \/ e.op = "local" /\ IsAggregate(e.kids[1])

(* Context imposed on the i-th child of a node whose own context is c;     *)
(* "deferred" children were stamped when the node was built.               *)
TruthTested(c) == CASE c \in {"Void", "Boolean"} -> "Boolean"
                    [] c \in {"Scalar", "List"} -> "Scalar"
                    [] OTHER -> "RuntimeTruthTested"
ChildContext(op, c, i, n) ==
  CASE op \in {"=", "ref"} -> "deferred"
    [] op \in {"pre!", "prenot"} -> "Boolean"
    [] op \in {"local", "paren"} -> c
    [] op \in {"&&", "//", "and", "or"} -> IF i = 1 THEN TruthTested(c) ELSE c
    [] op = "?" -> IF i = 1 THEN "Boolean" ELSE c
    [] op \in {"slice", "array", "join", "lc"} -> "List"
    [] op = "@slice" -> IF i = 1 THEN "Scalar" ELSE "List"
    [] op = "return" -> "Runtime"
    [] op = "," -> IF c = "List" THEN "List" ELSE IF i < n THEN "Void" ELSE c
    [] OTHER -> "Scalar"

(* save_context: the first writer of a node's context wins, and a node that *)
(* already has one is not entered.                                         *)
RECURSIVE SaveContext(_, _)
SaveContext(e, c) ==
  IF e.ctx # "none" THEN e ELSE
  LET n == Len(e.kids) IN
  [e EXCEPT !.ctx = c,
            !.kids = [i \in 1..n |-> LET cc == ChildContext(e.op, c, i, n)
                                     IN IF cc = "deferred" THEN e.kids[i]
                                        ELSE SaveContext(e.kids[i], cc)]]

(* The Ref frame and the = arm stamp what the descent leaves alone. *)
Reference(at, operand) ==
  Node("ref", at, <<SaveContext(UnwrapParen(operand),
                                IF operand.op = "paren" THEN "List" ELSE "Scalar")>>)
AssignUnwrapped(at, lhs, rhs) ==         \* variant: unwraps the operand first
  LET c == IF IsAggregate(UnwrapParen(lhs)) THEN "List" ELSE "Scalar"
  IN Node("=", at, <<SaveContext(UnwrapParen(lhs), c), SaveContext(rhs, c)>>)
Assign(at, lhs, rhs) ==
  LET c == IF lhs.op = "paren" \/ IsAggregate(UnwrapParen(lhs)) THEN "List" ELSE "Scalar"
  IN Node("=", at, <<SaveContext(UnwrapParen(lhs), c), SaveContext(rhs, c)>>)

Flat(e) == IF e.op = "," THEN e.kids ELSE <<e>>
Comma(at, a, b) == Node(",", at, Flat(a) \o Flat(b))

------------------------------------------------------------------------------
tok == toks[Len(toks)]
Here == Len(toks)
Following == IF Len(toks) < MaxTokens THEN alphabet ELSE alphabet \cap Closers

Item(kind, op, at, args) == [kind |-> kind, op |-> op, at |-> at, prec |-> prec, args |-> args]
Top == stack[Len(stack)]
Under == SubSeq(stack, 1, Len(stack) - 1)

Fail == mode' = "error" /\ UNCHANGED <<alphabet, toks, prec, stack, left>>

(* self.tok = self.lex_token() *)
Advance == \E t \in Following : toks' = Append(toks, t)

(* Leave an item behind and parse an operand that binds at least as p. *)
Descend(below, item, p) ==
  /\ stack' = Append(below, item) /\ prec' = p /\ mode' = "term" /\ left' = Nothing
  /\ UNCHANGED alphabet

(* The same, for a list: its head decides whether an element follows. *)
OpenList(item, p) ==
  /\ stack' = Append(stack, item) /\ prec' = p /\ mode' = "list" /\ left' = Nothing
  /\ UNCHANGED alphabet
NextItem(args) ==
  /\ stack' = Append(Under, [Top EXCEPT !.args = args])
  /\ prec' = ListItem /\ mode' = "list" /\ left' = Nothing /\ UNCHANGED alphabet

(* An expression of the current level is complete up to this token. *)
Yield(below, e, p, m) ==
  /\ stack' = below /\ left' = e /\ prec' = p /\ mode' = m /\ UNCHANGED alphabet

Init == /\ alphabet \in Alphabets /\ \E t \in alphabet \ Closers : toks = <<t>>
        /\ mode = "term" /\ prec = Low /\ stack = <<>> /\ left = Nothing

------------------------------------------------------------------------------
(* The forward phase. *)
TryPrefix ==
  /\ mode = "term" /\ tok \in PrefixOps
  /\ Advance
  /\ IF tok = "return" /\ toks'[Here + 1] \in {";", "}"}
     THEN Yield(stack, Node("return", Here, <<>>), prec, "oper")
     ELSE Descend(stack, Item("frame", tok, Here, <<>>), InnerPrec(tok))

TryOpener ==
  /\ mode = "term" /\ tok \in Openers
  /\ Advance
  /\ IF tok = "@{" THEN Descend(stack, Item("frame", tok, Here, <<>>), Low)
     ELSE OpenList(Item("frame", tok, Here, <<>>), IF tok = "[" THEN ListItem ELSE Low)

ParseTerm ==
  /\ mode = "term" /\ tok \in Leaves
  /\ Advance
  /\ LET leaf == Node(IF tok = "//" THEN "regex" ELSE tok, Here, <<>>)
     IN IF tok = "@a" /\ toks'[Here + 1] = "["
        THEN Yield(stack, leaf, prec, "open")
        ELSE Yield(stack, leaf, prec, IF tok = "$x" THEN "post" ELSE "oper")

ParseCall ==
  /\ mode = "term" /\ tok \in Calls
  /\ Advance
  /\ LET t == toks'[Here + 1]
         call == Node(tok, Here, <<>>)
         item == Item("call", tok, Here, <<>>)
     IN CASE t = "(" -> Yield(stack, call, prec, "open")
          [] t # "(" /\ tok = "join" -> OpenList(item, ListItem)
          [] t # "(" /\ tok # "join" /\ (t \in ArgsEnd \/ (tok = "lc" /\ t \in {",", "and", "or"})) ->
               Yield(stack, call, prec, "oper")
          [] OTHER -> Descend(stack, item, NamedUnary)

(* The bracket after `@a' or after a call's name belongs to it. *)
EnterBrackets ==
  /\ mode = "open"
  /\ Advance
  /\ CASE left.op = "@a" -> OpenList(Item("index", "@slice", left.at, <<left>>), ListItem)
       [] left.op = "lc" -> Descend(stack, Item("args", "lc", left.at, <<>>), Low)
       [] OTHER -> OpenList(Item("args", left.op, left.at, <<>>), ListItem)

(* The head of a list: what may end it ends it, a trailing comma included. *)
ListHead ==
  /\ mode = "list"
  /\ LET kids == Top.args
         Close(op, m) == Advance /\ Yield(Under, Node(op, Top.at, kids), Top.prec, m)
     IN CASE Top.op = "(" /\ tok = ")" -> Close("()", "post")
          [] Top.op = "[" /\ tok = "]" -> Close("array", "oper")
          [] Top.op = "@slice" /\ tok = "]" -> Close("@slice", "oper")
          [] Top.kind = "args" /\ tok = ")" -> Close(Top.op, "oper")
          [] Top.kind = "call" /\ tok \in ArgsEnd ->
               UNCHANGED toks /\ Yield(Under, Node("join", Top.at, kids), Top.prec, "oper")
          [] OTHER -> mode' = "term" /\ UNCHANGED <<alphabet, toks, prec, stack, left>>

NotATerm == mode = "term" /\ tok \notin PrefixOps \cup Openers \cup Leaves \cup Calls /\ Fail

------------------------------------------------------------------------------
(* maybe_postfix_subscript. *)
Subscript ==
  /\ mode = "post" /\ tok = "["
  /\ Advance
  /\ LET listed == left.op \in ListLiterals
     IN Descend(stack, Item("index", IF listed THEN "slice" ELSE "elem", Here,
                            <<IF listed THEN UnwrapParen(left) ELSE left>>), Low)

AtOperator == mode = "oper" \/ (mode = "post" /\ tok # "[")
Binds == Infix(tok).prec >= prec

(* parse_operator: the operator binds here. *)
ParseOperator ==
  /\ AtOperator /\ Binds
  /\ LET lhs == UnwrapParen(left)
     IN CASE tok = "++" ->
               IF ~IsLvalue(lhs) THEN Fail
               ELSE Advance /\ Yield(stack, Node("post++", Here, <<lhs>>), prec, "oper")
          [] tok = "->m" ->
               Advance /\ Yield(stack, Node("->m", Here, <<lhs>>), prec, "oper")
          [] tok = "->[" ->
               Advance /\ Descend(stack, Item("index", "elem", Here, <<lhs>>), Low)
          [] tok = "=" ->
               IF ~IsLvalue(lhs) THEN Fail
               ELSE Advance /\ Descend(stack, Item("rhs", "=", Here, <<left>>), RightPrec("="))
          [] tok = "?" ->
               Advance /\ Descend(stack, Item("rhs", "?", Here, <<lhs>>), Low)
          [] tok = "," ->
               \E t \in Following :
                 /\ toks' = Append(toks, t)
                 /\ IF t \in ArgsEnd THEN Yield(stack, lhs, prec, "oper")
                    ELSE Descend(stack, Item("rhs", ",", Here, <<lhs>>), RightPrec(","))
          [] OTHER -> Advance /\ Descend(stack, Item("rhs", tok, Here, <<lhs>>), RightPrec(tok))

SameLevel(t, op) == Infix(t).prec = Infix(op).prec

(* The right operand is complete: combine it, or refuse a chain. *)
FinishOperator ==
  /\ AtOperator /\ ~Binds /\ stack # <<>> /\ Top.kind = "rhs"
  /\ LET op == Top.op
         rhs == UnwrapParen(left)
         all == Append(Top.args, rhs)
         assoc == Infix(op).assoc
         Done(e) == Yield(Under, e, Top.prec, "oper") /\ UNCHANGED toks
     IN CASE op = "?" ->
               IF tok # ":" THEN Fail
               ELSE Advance /\ Descend(Under, [Top EXCEPT !.op = ":", !.args = all],
                                       RightPrec("?"))
          [] op = ":" -> Done(Node("?", Top.at, all))
          [] op = "=" -> Done(Assign(Top.at, Top.args[1], rhs))
          [] op = "," -> Done(Comma(Top.at, Top.args[1], rhs))
          [] assoc \in {"non", "chain"} /\ SameLevel(tok, op) ->
               IF assoc = "non" \/ Infix(tok).assoc # "chain" THEN Fail
               ELSE Advance /\ Descend(Under, [Top EXCEPT !.args = all], RightPrec(op))
          [] OTHER -> Done(Node(op, Top.at, all))

(* A subscript or a list of arguments is complete. *)
FinishIndex ==
  /\ AtOperator /\ ~Binds /\ stack # <<>> /\ Top.kind = "index"
  /\ LET idx == UnwrapParen(left)
         args == Top.args \o (IF Top.op = "slice" THEN Flat(idx) ELSE <<idx>>)
     IN CASE tok = "," /\ Top.op = "@slice" -> Advance /\ NextItem(args)
          [] tok = "]" ->
               /\ Advance
               /\ Yield(Under, Node(Top.op, Top.at, args), Top.prec,
                        IF Top.op = "@slice" THEN "oper" ELSE "post")
          [] OTHER -> Fail

FinishCall ==
  /\ AtOperator /\ ~Binds /\ stack # <<>> /\ Top.kind = "call"
  /\ LET args == Append(Top.args, UnwrapParen(left))
     IN IF Top.op = "join" /\ tok = "," THEN Advance /\ NextItem(args)
        ELSE UNCHANGED toks /\ Yield(Under, Node(Top.op, Top.at, args), Top.prec, "oper")

FinishArgs ==
  /\ AtOperator /\ ~Binds /\ stack # <<>> /\ Top.kind = "args"
  /\ LET args == Append(Top.args, UnwrapParen(left))
     IN CASE tok = "," /\ Top.op # "lc" -> Advance /\ NextItem(args)
          [] tok = ")" -> Advance /\ Yield(Under, Node(Top.op, Top.at, args), Top.prec, "oper")
          [] OTHER -> Fail

------------------------------------------------------------------------------
(* apply_expr_frame. *)
ApplyFrame ==
  /\ AtOperator /\ ~Binds /\ stack # <<>> /\ Top.kind = "frame" /\ Top.op \in PrefixOps
  /\ LET e == UnwrapParen(left)
         Done(n) == Yield(Under, n, Top.prec, "oper") /\ UNCHANGED toks
     IN CASE Top.op = "++" -> IF IsLvalue(e) THEN Done(Node("pre++", Top.at, <<e>>)) ELSE Fail
          [] Top.op = "\\" -> Done(Reference(Top.at, left))
          [] Top.op \in {"local", "return"} -> Done(Node(Top.op, Top.at, <<e>>))
          [] OTHER -> Done(Node("pre" \o Top.op, Top.at, <<e>>))

CloseGroup ==
  /\ AtOperator /\ ~Binds /\ stack # <<>> /\ Top.kind = "frame" /\ Top.op \in Openers
  /\ LET e == UnwrapParen(left)
         elems == Append(Top.args, e)
         node == CASE Top.op = "(" -> Node("paren", Top.at, <<e>>)
                   [] Top.op = "[" -> Node("array", Top.at, elems)
                   [] Top.op = "@{" -> Node("@{", Top.at, <<e>>)
     IN CASE tok = Closer(Top.op) ->
               Advance /\ Yield(Under, node, Top.prec, IF Top.op = "(" THEN "post" ELSE "oper")
          [] tok = "," /\ Top.op = "[" -> Advance /\ NextItem(elems)
          [] OTHER -> Fail

(* The statement's expression ends; its value is the program's value. *)
EndStatement ==
  /\ AtOperator /\ ~Binds /\ stack = <<>>
  /\ IF tok = ";" THEN UNCHANGED toks
                       /\ Yield(<<>>, SaveContext(UnwrapParen(left), "Runtime"), prec, "done")
     ELSE Fail

Next == \/ TryPrefix \/ TryOpener \/ ParseTerm \/ ParseCall \/ NotATerm
        \/ EnterBrackets \/ ListHead
        \/ Subscript \/ ParseOperator \/ FinishOperator \/ FinishIndex \/ FinishCall \/ FinishArgs
        \/ ApplyFrame \/ CloseGroup \/ EndStatement

Spec == Init /\ [][Next]_vars

------------------------------------------------------------------------------
(* What the text says, read without the parser. *)
Opening == {"(", "[", "@{", "->[", "?"}
Closing == {")", "]", "}", ":"}
Depth(i) == Cardinality({j \in 1..(i - 1) : toks[j] \in Opening})
          - Cardinality({j \in 1..(i - 1) : toks[j] \in Closing})
(* The opener whose brackets hold token i, 0 when none does. *)
Group(i) == LET around == {o \in 1..(i - 1) : /\ toks[o] \in Opening
                                              /\ \A j \in (o + 1)..i : Depth(j) > Depth(o)}
            IN CHOOSE o \in around \cup {0} : \A p \in around : p <= o
CloseOf(o) == CHOOSE c \in (o + 1)..Len(toks) : toks[c] \in Closing /\ Group(c) = o

Operands == Leaves \ {"//"}
RECURSIVE LeafPlaces(_)
LeafPlaces(e) == IF e.op \in Operands THEN <<e.at>>
                 ELSE FlattenSeq([i \in DOMAIN e.kids |-> LeafPlaces(e.kids[i])])
RECURSIVE Places(_)
Places(e) == {e.at} \cup UNION {Places(e.kids[i]) : i \in DOMAIN e.kids}

(* The binding power of a node's operator, and the least an operator may   *)
(* have that its rightmost operand swallows; none is -1.                   *)
Level(e) == CASE e.op \in {"elem", "slice"} -> IF toks[e.at] = "[" THEN 2500 ELSE 2400
              [] e.op = "post++" -> 2300
              [] OTHER -> Infix(e.op).prec
OpenTo(e) ==
  CASE e.op \in {"pre!", "pre-", "ref", "local"} -> 2100
    [] e.op = "pre++" -> 2300
    [] e.op = "prenot" -> 300
    [] e.op = "return" /\ e.kids # <<>> -> 500
    [] e.op \in {"lc", "join"} /\ e.kids # <<>> /\ toks[e.at + 1] # "(" ->
         IF e.op = "lc" THEN NamedUnary ELSE 500
    [] Infix(e.op).prec >= 0 /\ e.op \notin {"->m", "->["} ->
         Infix(e.op).prec + (IF Infix(e.op).assoc = "right" THEN 0 ELSE 1)
    [] OTHER -> -1

(* The operators an operand shows on its right, and on its left. *)
RECURSIVE RightEdge(_, _)
RightEdge(e, g) == IF Group(e.at) # g \/ OpenTo(e) < 0 THEN {}
                   ELSE {e} \cup RightEdge(e.kids[Len(e.kids)], g)
RECURSIVE LeftEdge(_, _)
LeftEdge(e, g) == IF Group(e.at) # g \/ Level(e) < 0 THEN {}
                  ELSE {e} \cup LeftEdge(e.kids[1], g)

Refuses(p, d) == Level(p) = Level(d) /\ "non" \in {Infix(p.op).assoc, Infix(d.op).assoc}

RECURSIVE Obeys(_)
Obeys(e) ==
  LET g == Group(e.at)
      n == Len(e.kids)
      infix == Level(e) >= 0
      From(i) == IF i = 1 THEN {} ELSE LeftEdge(e.kids[i], g)
      Upto(i) == IF i = n /\ n > 1 THEN {} ELSE RightEdge(e.kids[i], g)
  IN /\ infix => \A i \in 1..n :
                   /\ \A d \in Upto(i) : OpenTo(d) > Level(e) /\ ~Refuses(e, d)
                   /\ \A d \in From(i) : Level(d) >= OpenTo(e) /\ ~Refuses(e, d)
     /\ ~infix /\ OpenTo(e) >= 0 => \A d \in LeftEdge(e.kids[n], g) : Level(d) >= OpenTo(e)
     /\ \A i \in 1..n : Obeys(e.kids[i])

(* The finished tree is the one the operator table gives the text: no     *)
(* operand shows an edge that its operator should have taken or left, no  *)
(* two operators of one non-associative level meet outside brackets, and  *)
(* every operand of the text is in the tree once, in order (parse_expr,      *)
(* apply_expr_frame, parse_operator with op_info_for_token).              *)
TreeObeysTable ==
  mode = "done" =>
    /\ Obeys(left)
    /\ LeafPlaces(left) = SelectSeq([i \in DOMAIN toks |-> i], LAMBDA i : toks[i] \in Operands)

(* Is the operand between these parentheses, with nothing after them? *)
LeftParenthesized(e) == LET c == e.at - 1 IN
  toks[c] = ")" /\ \A p \in Places(e.kids[1]) : Group(c) < p
OperandParenthesized(e) ==
  /\ toks[e.at + 1] = "("
  /\ \A p \in Places(e.kids[1]) : e.at + 1 < p /\ p < CloseOf(e.at + 1)

Demanded(e, c, i) ==
  CASE e.op = "=" -> IF LeftParenthesized(e) \/ IsAggregate(e.kids[1]) THEN "List" ELSE "Scalar"
    [] e.op = "ref" -> IF OperandParenthesized(e) THEN "List" ELSE "Scalar"
    [] OTHER -> ChildContext(e.op, c, i, Len(e.kids))

RECURSIVE Placed(_, _)
Placed(e, c) == e.ctx = c /\ e.op # "paren"
                /\ \A i \in DOMAIN e.kids : Placed(e.kids[i], Demanded(e, c, i))

(* Every node carries the context its place in the text demands, although  *)
(* the parentheses that decide an assignment or a reference are gone from  *)
(* the tree and the stamps were written at different times: some when a    *)
(* node was built, the rest by the pass over the whole statement, the      *)
(* first one kept (the Ref frame, the = arm, save_context).                *)
ContextsAsWritten == mode = "done" => Placed(left, "Runtime")
==============================================================================
