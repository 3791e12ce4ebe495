-------------------------------- MODULE MCParser --------------------------------
(* The parser in six kinds of behaviours: expressions, statements that     *)
(* change scopes, versions in every spelling, the symbol table with        *)
(* imports, which no statement makes yet, prototypes, and the lines that   *)
(* its lexer takes from the source, in bodies and heredocs.                *)
EXTENDS Scopes, Prototypes, MCSourceLines

CONSTANTS Alphabets, MaxTokens

VARIABLES kind, alphabet, toks, mode, prec, stack, left

(* Every operator meets every other it can be taken for: the same level,   *)
(* the levels around it, its prefix namesake, the brackets that end it.    *)
MCAlphabets ==
  {{"$x", "1", "-", "**", "==", "<=>", "(", ")", ";"},
   {"$x", "@a", "=", ",", "(", ")", "\\", "local", "[", "]", ";"},
   {"$x", "@a", "=", "?", ":", "and", "not", "return", "(", ")", ";"},
   {"$x", "1", "lc", "join", ",", "(", ")", "//", "isa", "<", ";"},
   {"$x", "++", "!", "..", "->[", "->m", "]", "@{", "}", "=~", ";"},
   {"$x", "&&", "or", "<<", "..", "not", "==", ";"}}

MCFeatureArgs == {<<"fc">>, <<"signatures">>}
ManyFeatureArgs == {<<>>, <<"fc">>, <<":default", "any">>, <<"try", ":all">>, <<"nonsense">>}

E == INSTANCE Expressions
V == INSTANCE Scopes WITH Minors <- 0..50, FeatureArgs <- ManyFeatureArgs, MaxStatements <- 2

ASSUME TablesAssumption == /\ E!ExpressionsAssumption /\ PrototypesAssumption
                           /\ ScopesAssumption /\ V!ScopesAssumption

exprVars == <<alphabet, toks, mode, prec, stack, left>>
scopeVars == <<parserVars, textVars>>
tableVars == <<subs, imports>>

NoExpression == /\ alphabet = {} /\ toks = <<>> /\ mode = "error" /\ prec = 0
                /\ stack = <<>> /\ left = E!Nothing
NoScopes == /\ pragmas = [features |-> {}, utf8 |-> FALSE] /\ lexer = pragmas
            /\ package = "main" /\ scopes = <<>>
            /\ ahead = [word |-> "eof", under |-> pragmas, afterBrace |-> FALSE]
            /\ texts = <<[pragmas |-> pragmas, package |-> "main", sub |-> <<>>]>>
            /\ decls = <<>> /\ reading = <<>> /\ count = 0

MCInit ==
  /\ kind \in {"expression", "scopes", "versions", "table", "prototype", "lines"}
  /\ IF kind = "expression" THEN E!Init ELSE NoExpression
  /\ IF kind \in {"scopes", "versions"} THEN ScopesInit ELSE NoScopes /\ Init
  /\ ProtoInit
  /\ NothingRead /\ IF kind = "lines" THEN phase = "lexing" ELSE phase = "done" /\ text = MCShort

LinesNext ==
  /\ kind = "lines" /\ SourceNext
  /\ UNCHANGED <<kind, exprVars, scopeVars, tableVars, protoVars>>

MCNext ==
  /\ UNCHANGED kind
  /\ \/ /\ UNCHANGED sourceVars
        /\ \/ kind = "expression" /\ E!Next /\ UNCHANGED <<scopeVars, tableVars, protoVars>>
           \/ kind = "scopes" /\ ScopesNext /\ UNCHANGED <<exprVars, protoVars>>
           \/ kind = "versions" /\ V!ScopesNext /\ UNCHANGED <<exprVars, protoVars>>
           \/ kind = "table" /\ Next /\ UNCHANGED <<exprVars, scopeVars, protoVars>>
           \/ kind = "prototype" /\ ProtoNext /\ UNCHANGED <<exprVars, scopeVars, tableVars>>
     \/ LinesNext

(* A lexer that is not done is called again: it alone is fair here.        *)
MCSpec ==
  /\ MCInit /\ [][MCNext]_<<kind, exprVars, scopeVars, tableVars, protoVars, sourceVars>>
  /\ WF_sourceVars(LinesNext)

(* The properties of Expressions, stated there, of the expressions here.   *)
TreeObeysTable == E!TreeObeysTable
ContextsAsWritten == E!ContextsAsWritten
================================================================================
