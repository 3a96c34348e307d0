------------------------------ MODULE MCSource ------------------------------
(***************************************************************************)
(* Texts for module Source.  An unsigned long goes to 255 (ByteBits is 1), *)
(* the buffer holds 2 bytes and a token 3 characters.                      *)
(***************************************************************************)
EXTENDS Source

Chars(s) == [i \in 1 .. Len(s) |-> SubSeq(s, i, i)]

\* Every short text of the characters that the lexer tells apart, and longer
\* ones about numbers at their limit, literals, comments and whole statements.
Alphabet == {"1", "u", "l", "x", "'", "\"", "\\", "n", "-", ">", "=", ".", "/", "#",
             " ", "\n", "0xFF", "&", "+"}
Longer == {"255", "256", "259", "999", "1234", "25u", "25ul", "1lu", "1UL2", "01", "x12", "x123",
           "u255", "....", "x...", ".. .", "..x", "<<=", ">>>=", "--->", "a---b", "&&&", "!==", "|||",
           "'\\n'", "'\\''", "'\\\\'", "'\\q'", "'xx'", "'\\", "'", "''", "'\"'", "\"\"", "\"'\"",
           "\"\\\"\"", "\"\\\\\"", "\"\\\\\\\"", "\"\\a\\0\"", "\"\\b\\f\\r\"", "\"\\t\\v?\"",
           "\"x\ny\"", "\"wxyz\"", "\"wxy\"", "\"\\x\"", "\"\\0",
           "x//y\nz", "x#y\n z", "x\n\n y", "/ /", "///\n/", "#\"\n'x'",
           "x=y;", "x-->1;", "f(x,1);", "p->m++;", "x=-1u;", "(int)x;", "!x&&k;", "p[1];;", "*p=k"}
MCTexts == BoundedSeq(Alphabet, 3) \cup {Chars(s) : s \in Longer}

-----------------------------------------------------------------------------
\* Token sequences that the lexer makes of texts too long to spell out here.
Here    == [line |-> 1, col |-> 1]
Keyword == {"sizeof", "int", "char", "long", "void", "unsigned", "const",
            "va_arg", "va_start", "va_end"}
Tok(t)  == CASE t \in Letters \cup Keyword -> Token("wrd", t, Here, NoVal)
             [] t \in Digits -> Token("num", t, Here, [NoVal EXCEPT !.n = Value(t)])
             [] t = "\""     -> Token("str", "", Here, [NoVal EXCEPT !.n = 1, !.str = <<"a">>])
             [] t = "'"      -> Token("chr", "", Here, [NoVal EXCEPT !.n = 1, !.str = <<"a">>])
             [] OTHER        -> Token("sym", t, Here, NoVal)

Small   == {"x", "f", "1", "(", ")", "*", "-", ",", "=", "?", ":", "[", "]", "int", "sizeof"}
Binary2 == {o.str : o \in Infix}
Before  == {<<>>} \cup {<<t>> : t \in DOMAIN Prefix} \cup
           { <<"(", "int", ")">>, <<"(", "char", "*", ")">>, <<"sizeof", "(", "int", ")">>,
             <<"sizeof">>, <<"++">>, <<"(", "void", ")">> }
Behind2 == { <<>>, <<"++">>, <<"--">>, <<"[", "x", "]">>, <<".", "m">>, <<"->", "m">>, <<"(", ")">>,
             <<"(", "x", ",", "y", "=", "1", ")">>, <<"(", "x", ",", "y", ",", "x", ")">>,
             <<"(", "(", "x", ",", "y", ")", ")">>, <<"[", "x", ",", "y", "]">>, <<"?", "x", ":", "y">> }
Specs   == BoundedSeq({"const", "unsigned", "int", "void"}, 2) \cup
           { <<"long", "*", "*">>, <<"int", "*", "[", "2", "]">>, <<"int", "[", "0", "]">>, <<"f">> }
Sandwich(as, bs, cs) == {a \o b \o c : a \in as, b \in bs, c \in cs}
X == {<<"x">>}

Shapes ==
    BoundedSeq(Small, 3)
    \cup {<<"x", a, "y", b, "1">> : a \in Binary2, b \in Binary2}
    \cup {<<"x", a, "(", "y", b, "1", ")">> : a \in Binary2, b \in Binary2}
    \cup {<<"x", a, "y", "?", "1", b, "x", ":", "y", c, "x">> :
             a \in {",", "=", "||"}, b \in Binary2, c \in {",", "=", "||", "*"}}
    \cup {<<"x", "?", "y", ":", "x", "?", "y", ":", "1">>, <<"x", "?", "x", "?", "1", ":", "1", ":", "y">>}
    \cup Sandwich(Sandwich(Before, Before, X), Behind2, Behind2)
    \cup Sandwich(Before, {<<"(", "x">>, <<"(", "int", ")", "(", "x">>}, {<<")">> \o b : b \in Behind2})
    \cup Sandwich(Sandwich({<<"(">>, <<"sizeof", "(">>, <<"va_arg", "(", "x", ",">>}, Specs, {<<")">>}),
                  {<<>>, <<"x">>, <<"-", "x">>, <<"*", "x">>}, {<<>>, <<"+", "\"">>})
    \cup Sandwich({<<v, "(">> : v \in {"va_start", "va_end"}},
                  {<<"x">>, <<"x", ",", "y">>, <<"x", "=", "y", ",", "'">>, <<>>}, {<<")">>, <<>>})
MCLexed ==
    LET shapes == Shapes
        tokens == [t \in UNION {Range(s) : s \in shapes} \cup {";"} |-> Tok(t)]
    IN  {[i \in 1 .. Len(s) + 1 |-> tokens[Append(s, ";")[i]]] : s \in shapes}

MCSyms  == [x |-> [kind |-> "local"],  y |-> [kind |-> "global"], p |-> [kind |-> "local"],
            f |-> [kind |-> "func"],   k |-> [kind |-> "const", val |-> 5],
            z |-> [kind |-> "other"]]
MCSymTy == [x |-> int_ty, y |-> mk_ptr_ty(int_ty), p |-> mk_ptr_ty(int_ty), k |-> int_ty,
            f |-> mk_func_ty(int_ty, <<int_ty>>)]

=============================================================================
