----------------------------- MODULE MCStmtGen ------------------------------
(***************************************************************************)
(* Files of two functions.  The first has every kind of statement inside   *)
(* every kind of loop, two loops deep, and something after it; the second  *)
(* may have a break of its own, inside a loop or outside of one.           *)
(***************************************************************************)
EXTENDS StmtGen

X(e)           == Src("Expr", e, <<>>)
Block(ss)      == Src("Block", None, ss)
IfThen(e, a)   == Src("If", e, <<a>>)
IfOr(e, a, b)  == Src("If", e, <<a, b>>)
While(e, s)    == Src("While", e, <<s>>)
For(i, e, t, s) == Src("For", e, <<i, t, s>>)
Ret(e)         == Src("Return", e, <<>>)
Brk            == Src("Break", None, <<>>)
Cont           == Src("Continue", None, <<>>)
Decl(inits)    == Src("Decl", None, inits)

Leaves == {Brk, Cont, Ret("r"), Ret(None), Nop, X("a"), Decl(<<X("d"), Nop, X("e")>>), Decl(<<>>)}
Small  == {Brk, Cont, Ret("r"), X("a")}
Bodies == Leaves \cup {IfThen("c", s) : s \in Leaves}
          \cup {IfOr("c", s, t) : s \in Leaves, t \in Small}
          \cup {Block(<<s, t>>) : s \in Leaves, t \in Small}
          \cup {IfOr("c", IfThen("g", s), t) : s \in Small, t \in Small}
          \cup {IfThen("c", IfOr("g", s, t)) : s \in Small, t \in Small}

\* A loop without a condition has a step, so that it does not spin in silence.
Fors(s) == {For(i, e, X("s"), s) : i \in {Nop, X("i"), Decl(<<X("i"), X("j")>>)}, e \in {"l", None}}
           \cup {For(X("i"), "l", Nop, s), While("l", s)}
Inner   == {While("m", s) : s \in Bodies}
           \cup {For(Decl(<<X("n")>>), e, X("t"), s) : e \in {"m", None}, s \in Small}
Nested  == UNION { Fors(Block(<<inner, IfThen("k", s)>>)) : inner \in Inner, s \in {Brk, Cont} }
Seconds == {While("w", Brk), Block(<<X("y"), Cont>>), IfThen("w", While("v", IfThen("u", Cont)))}

MCFiles ==
    { <<Block(<<s, X("z")>>), t>> : s \in Bodies \cup UNION {Fors(b) : b \in Bodies}, t \in Seconds }
    \cup { <<Block(<<s, X("z")>>), While("w", Brk)>> : s \in Nested }
=============================================================================
