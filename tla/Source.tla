------------------------------- MODULE Source -------------------------------
(***************************************************************************)
(* From bytes to trees: the lexer reads standard input, and the parser     *)
(* takes the expression statement that the tokens begin with.              *)
(***************************************************************************)
EXTENDS Lexer, Parser

VARIABLE tree      \* what p_expr_stmt returned

vars == <<lexer, tree>>

NoTree == [ok |-> FALSE, e |-> Error, ts |-> <<>>]

Parse == Over /\ tree' = p_expr_stmt(toks)

Next == (Lex /\ UNCHANGED tree) \/ Parse

Init == tree = NoTree /\ LexInit

Spec == Init /\ [][Next]_vars

-----------------------------------------------------------------------------
G == INSTANCE CGrammar WITH
       MostArgs    <- MAX_FUNC_PARAMS,
       LiteralTy   <- LitTy,
       Identifiers <- [t \in {u \in DOMAIN Syms : Syms[u].kind # "other"} |->
                         CASE Syms[t].kind = "const" -> Node("Num", no_ty, <<>>, Syms[t].val)
                           [] Syms[t].kind = "func"  -> Named(Node("Func", no_ty, <<>>, 0), t)
                           [] OTHER                  -> Named(Node("Var", no_ty, <<>>, 0), t)]

\* The parser nests commas to the right, the grammar to the left: the same to
\* C.  Here to the left.
RECURSIVE LeftCommas(_)
LeftCommas(e) ==
    LET d == [e EXCEPT !.subs = [i \in DOMAIN e.subs |-> LeftCommas(e.subs[i])]]
        b == d.subs[2]
    IN  IF e.k = "Comma" /\ b.k = "Comma"
        THEN [d EXCEPT !.subs = <<LeftCommas(Node("Comma", no_ty, <<d.subs[1], b.subs[1]>>, 0)),
                                  b.subs[2]>>]
        ELSE d

\* Does the tree assign to lvalues only?  elab_expr refuses all others.
RECURSIVE TargetsOk(_)
TargetsOk(e) == /\ e.k = "Assign" => is_lvalue(e.subs[1])
                /\ \A i \in DOMAIN e.subs : TargetsOk(e.subs[i])

Statement == LET ends == {i \in DOMAIN toks : toks[i].kind = "sym" /\ toks[i].str = ";"}
             IN  IF ends = {} THEN <<>> ELSE SubSeq(toks, 1, Min(ends) - 1)

\* What C's grammar derives up to the semicolon is accepted, as the one tree
\* that C has for it; and nothing else is accepted, but for assignments to what
\* is no lvalue, which the analysis refuses.
TreeAsGrammar ==
    mode = "parsed" =>
      LET trees == G!DerivedAs(G!expression, Statement)
      IN  IF trees # {} THEN tree.ok /\ {LeftCommas(tree.e)} = {LeftCommas(t) : t \in trees}
          ELSE tree.ok => ~TargetsOk(tree.e)
=============================================================================
