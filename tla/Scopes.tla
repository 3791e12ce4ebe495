--------------------------------- MODULE Scopes ---------------------------------
(***************************************************************************)
(* The statements of perl-parser/src/parser.rs that change what the names  *)
(* after them mean: use and no, package, sub, and the blocks whose end     *)
(* takes pragmas and package back.  The parser holds one token ahead, so a *)
(* handler ends by lexing the first word of the next statement; the lexer  *)
(* has copies of its own of the pragmas.                                   *)
(***************************************************************************)
EXTENDS Symbols, Pragmas

CONSTANTS Minors,         \* the minors of the versions used
          FeatureArgs,    \* what `use feature' is given
          MaxStatements, MaxDepth

ScopesAssumption == /\ SymbolsAssumption
                    /\ "error" \notin SubNames
                    /\ Minors \subseteq 0..999 /\ MaxStatements \in Nat /\ MaxDepth \in Nat

VARIABLES pragmas,     \* Parser.pragmas: features and utf8
          lexer,       \* Parser.features and Parser.utf8_mode, the lexer's copies
          package,     \* current_package
          scopes,      \* what parse_scoped_block and its callers saved, innermost last
          ahead,         \* the token ahead: its word, the pragmas it was lexed under,
                       \* and whether a closing brace stands before it
          texts,       \* the scopes as a reader of the text sees them, and ...
          decls,       \* ... the subs declared so far, in the order of the text
          reading,     \* what the last name was read as, and what the text makes of it
          count

parserVars == <<pragmas, lexer, package, scopes, ahead>>
textVars == <<texts, decls, reading, count>>
vars == <<parserVars, textVars, subs, imports>>

Words == {"use", "no", "package", "sub", "{", "}", "eof"} \cup SubNames
Text == Last(texts)

(* lex_token: the next word, lexed under the lexer's copies.               *)
LexNext == \E w \in Words : ahead' = [word |-> w, under |-> lexer', afterBrace |-> FALSE]
Statement(w) == ahead.word = w /\ count < MaxStatements /\ count' = count + 1

ScopesInit ==
  /\ pragmas = [features |-> Default, utf8 |-> FALSE]
  /\ lexer = pragmas /\ package = "main" /\ scopes = <<>>
  /\ \E w \in Words : ahead = [word |-> w, under |-> pragmas, afterBrace |-> FALSE]
  /\ texts = <<[pragmas |-> pragmas, package |-> "main", sub |-> <<>>]>>
  /\ decls = <<>> /\ reading = <<>> /\ count = 0
  /\ Init

(* parse_use_decl: the pragmas change, the lexer's copies follow before    *)
(* the ";" is consumed.                                                    *)
Used(p) == /\ pragmas' = p /\ lexer' = p /\ LexNext
           /\ UNCHANGED <<package, scopes, decls, reading, subs, imports>>
TextUses(p) == texts' = Front(texts) \o <<[Text EXCEPT !.pragmas = p]>>

(* The features of version 5.minor, as perlfeature tells them: from which  *)
(* version on a feature is in the bundle, and until which.                 *)
InBundles ==
  {<<"switch", 10, 36>>, <<"indirect", 0, 36>>, <<"multidimensional", 0, 36>>,
   <<"bareword_filehandles", 0, 38>>,
   <<"apostrophe_as_package_separator", 0, 42>>, <<"smartmatch", 0, 42>>,
   <<"say", 10, 1000>>, <<"state", 10, 1000>>, <<"unicode_strings", 12, 1000>>,
   <<"current_sub", 16, 1000>>, <<"evalbytes", 16, 1000>>, <<"fc", 16, 1000>>,
   <<"unicode_eval", 16, 1000>>, <<"postderef_qq", 24, 1000>>, <<"bitwise", 28, 1000>>,
   <<"isa", 36, 1000>>, <<"signatures", 36, 1000>>, <<"module_true", 38, 1000>>,
   <<"try", 40, 1000>>}
InForce(minor) == {b[1] : b \in {c \in InBundles : c[2] <= minor /\ minor < c[3]}}

UseVersion ==
  \E no \in BOOLEAN, spelling \in Spellings, minor \in Minors, patch \in 0..1 :
    LET pair == VersionOf(spelling, minor, patch)
        to == VersionBundle(pair[1], pair[2])
        features == IF ~ no THEN to
                    ELSE IF spelling = "alias" THEN pragmas.features \ to ELSE pragmas.features
        told == IF ~ no THEN InForce(minor)
                ELSE IF spelling = "alias" THEN Text.pragmas.features \ InForce(minor)
                ELSE Text.pragmas.features
    IN /\ Statement(IF no THEN "no" ELSE "use")
       /\ Used([pragmas EXCEPT !.features = features])
       /\ TextUses([Text.pragmas EXCEPT !.features = told])

UseFeature ==
  \E no \in BOOLEAN, names \in FeatureArgs :
    /\ Statement(IF no THEN "no" ELSE "use")
    /\ Used([pragmas EXCEPT !.features = ApplyFeature(@, no, names)])
    /\ TextUses([Text.pragmas EXCEPT !.features = ApplyFeature(@, no, names)])

UseUtf8 ==
  \E no \in BOOLEAN :
    /\ Statement(IF no THEN "no" ELSE "use")
    /\ Used([pragmas EXCEPT !.utf8 = ~ no])
    /\ TextUses([Text.pragmas EXCEPT !.utf8 = ~ no])

(* use subs: the names are forward declarations, made after the next token *)
(* was lexed.                                                              *)
UseSubs ==
  \E n \in SubNames :
    /\ Statement("use") /\ UNCHANGED lexer /\ LexNext
    /\ Declare(package, n, "plain")
    /\ decls' = Append(decls, <<Text.package, n, "plain">>)
    /\ UNCHANGED <<pragmas, package, scopes, texts, reading, imports>>

------------------------------------------------------------------------------
(* The prototype a declaration gives its sub: with signatures on, the      *)
(* parentheses after the name are a signature and only the attribute is a  *)
(* prototype.                                                              *)
What(features, paren, attribute) ==
  IF attribute \/ (paren /\ "signatures" \notin features) THEN "proto" ELSE "plain"

SubForward ==
  \E n \in SubNames, paren, attribute \in BOOLEAN :
    /\ Statement("sub")
    /\ Declare(package, n, What(pragmas.features, paren, attribute))
    /\ decls' = Append(decls, <<Text.package, n, What(Text.pragmas.features, paren, attribute)>>)
    /\ UNCHANGED lexer /\ LexNext
    /\ UNCHANGED <<pragmas, package, scopes, texts, reading, imports>>

(* A block opens.  For a sub the caller waits with what it will declare,   *)
(* for a package block with the package to go back to.                     *)
Open(p, then, sub) ==
  /\ Len(scopes) < MaxDepth
  /\ package' = p
  /\ scopes' = Append(scopes, [pragmas |-> pragmas, package |-> p, then |-> then])
  /\ texts' = Append(texts, [Text EXCEPT !.package = IF then[1] = "package" THEN p ELSE @,
                                         !.sub = sub])
  /\ UNCHANGED lexer /\ LexNext
  /\ UNCHANGED <<pragmas, decls, reading, subs, imports>>

SubBody ==
  \E n \in SubNames, paren, attribute \in BOOLEAN :
    /\ Statement("sub")
    /\ Open(package, <<"declare", n, What(pragmas.features, paren, attribute)>>,
            <<n, What(Text.pragmas.features, paren, attribute)>>)

(* Every other block: bare, of a condition, a loop, a phaser, try, given,  *)
(* class, method or an anonymous sub, and the body of s///e.               *)
Block == Statement("{") /\ Open(package, <<"go on">>, <<>>)

PackageBlock == \E p \in Packages : Statement("package") /\ Open(p, <<"package", package>>, <<>>)

PackageStatement ==
  \E p \in Packages :
    /\ Statement("package")
    /\ package' = p /\ UNCHANGED lexer /\ LexNext
    /\ texts' = Front(texts) \o <<[Text EXCEPT !.package = p]>>
    /\ UNCHANGED <<pragmas, scopes, decls, reading, subs, imports>>

(* parse_block_inner lexes the token after the brace; only then does       *)
(* parse_scoped_block restore, and its caller goes on.                     *)
CloseThen(restored) ==
  LET scope == Last(scopes) IN
  /\ Statement("}") /\ scopes # <<>>
  /\ \E w \in Words : ahead' = [word |-> w, under |-> lexer, afterBrace |-> TRUE]
  /\ pragmas' = scope.pragmas /\ lexer' = restored
  /\ package' = IF scope.then[1] = "package" THEN scope.then[2] ELSE scope.package
  /\ scopes' = Front(scopes)
  /\ IF scope.then[1] = "declare"
     THEN Declare(scope.package, scope.then[2], scope.then[3])
     ELSE UNCHANGED subs
  /\ texts' = Front(texts)
  /\ decls' = IF Text.sub = <<>> THEN decls
              ELSE Append(decls, <<texts[Len(texts) - 1].package, Text.sub[1], Text.sub[2]>>)
  /\ UNCHANGED <<reading, imports>>
CloseUnsynced == CloseThen(lexer)              \* variant: the lexer's copies stay
CloseBlock == CloseThen(Last(scopes).pragmas)

(* A name where a statement begins, no parenthesis after it.  "fc" is a    *)
(* keyword when it was lexed with its feature on, and a weak one: a sub    *)
(* of that name goes first (parse_term, parse_ident_term).                 *)
ReadAs(found, builtin) ==
  IF found # "none" THEN found ELSE IF builtin THEN "builtin" ELSE "bareword"
LastDeclared(p, n) ==
  LET of == {i \in DOMAIN decls : decls[i][1] = p /\ decls[i][2] = n}
  IN IF of = {} THEN "none" ELSE decls[Max(of)][3]

ReadName ==
  \E n \in SubNames, qualifier \in {""} \cup Packages :
    /\ Statement(n)
    /\ LET builtin(ps) == n = "fc" /\ qualifier = "" /\ "fc" \in ps.features
       IN reading' = [as |-> ReadAs(Lookup(qualifier, n, package), builtin(ahead.under)),
                      told |-> ReadAs(LastDeclared(IF qualifier = "" THEN Text.package
                                                   ELSE qualifier, n),
                                      builtin(ahead.under))]
    /\ UNCHANGED lexer /\ LexNext
    /\ UNCHANGED <<pragmas, package, scopes, texts, decls, subs, imports>>

(* The end of the source: in a block it is an error, which leaves through  *)
(* every open block; a package block does not take its own switch back.    *)
EndOfSource ==
  /\ ahead.word = "eof" /\ scopes # <<>>
  /\ pragmas' = scopes[1].pragmas /\ lexer' = scopes[1].pragmas /\ package' = scopes[1].package
  /\ scopes' = <<>> /\ texts' = SubSeq(texts, 1, 1)
  /\ ahead' = [ahead EXCEPT !.word = "error"]
  /\ UNCHANGED <<decls, reading, count, subs, imports>>

ScopesNext ==
  \/ UseVersion \/ UseFeature \/ UseUtf8 \/ UseSubs
  \/ SubForward \/ SubBody \/ Block \/ PackageBlock \/ PackageStatement
  \/ CloseBlock \/ ReadName \/ EndOfSource

ScopesSpec == ScopesInit /\ [][ScopesNext]_vars

------------------------------------------------------------------------------
(* Where the next statement begins, the pragmas, the lexer's copies of     *)
(* them and the package are those a reader of the text sees there, and the *)
(* token ahead was lexed under them unless it stands behind a brace        *)
(* (parser.rs:1778).  After an error the package is left out.              *)
ScopesNest ==
  /\ pragmas = Text.pragmas /\ lexer = Text.pragmas
  /\ ahead.word = "error" \/ package = Text.package
  /\ ahead.afterBrace \/ ahead.word = "error" \/ ahead.under = Text.pragmas

(* A name is read as the last declaration before it in its package makes   *)
(* it: an earlier one, one of another package or one inside a sub that is  *)
(* not closed yet do not count (symbol.rs:291, parser.rs:2552).            *)
NamesAsDeclared == reading # <<>> => reading.as = reading.told

(* What a block uses does not leak out of it: no token is lexed under      *)
(* pragmas that are not in force where it stands (parser.rs:1776).         *)
NothingLeaks == ahead.word \notin {"error", "eof"} => ahead.under = Text.pragmas
==============================================================================
