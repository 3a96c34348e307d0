----------------------------- MODULE MCMachine ------------------------------
(***************************************************************************)
(* Expressions and memories for module Machine.  A byte has two bits, so   *)
(* that char is -2 .. 1, int -128 .. 127 and long -2^15 .. 2^15 - 1.       *)
(***************************************************************************)
EXTENDS Machine

\* A frame with one object of each type, and globals around it.
S == mk_struct_ty([c |-> [ty |-> char_ty, offs |-> 0],
                   n |-> [ty |-> int_ty,  offs |-> 4]], 8, 4)
F == mk_func_ty(int_ty, <<int_ty, long_ty, uchar_ty>>)

IntPtr == mk_ptr_ty(int_ty)

\* The functions defined, with their parameters and locals; the last three are
\* variadic, with six saved registers, with one and with none.
G     == mk_func_ty(int_ty, <<char_ty, long_ty, IntPtr>>)
Rec   == mk_func_ty(int_ty, <<int_ty, uchar_ty>>)
Low   == mk_func_ty(char_ty, <<long_ty>>)
Walk  == mk_func_ty(int_ty, <<mk_ptr_ty(va_list_ty), int_ty>>)
Six   == mk_va_func_ty(long_ty, <<uchar_ty, int_ty>>)
One   == mk_va_func_ty(int_ty, <<char_ty, uchar_ty, int_ty, uint_ty, long_ty, ulong_ty, int_ty>>)
Zero  == mk_va_func_ty(long_ty, <<int_ty, long_ty, int_ty, char_ty, long_ty, int_ty, uchar_ty, int_ty>>)
OwnTy == [gc |-> char_ty, gl |-> long_ty, gp |-> IntPtr, gx |-> int_ty, gy |-> uchar_ty,
          rn |-> int_ty, rk |-> uchar_ty, hl |-> long_ty,
          wp |-> mk_ptr_ty(va_list_ty), wk |-> int_ty,
          vc |-> uchar_ty, vn |-> int_ty, vt |-> char_ty, vap |-> va_list_ty, vl |-> long_ty,
          k1 |-> char_ty, k2 |-> uchar_ty, k3 |-> int_ty, k4 |-> uint_ty, k5 |-> long_ty,
          k6 |-> ulong_ty, k7 |-> int_ty, kap |-> va_list_ty,
          e1 |-> int_ty, e2 |-> long_ty, e3 |-> int_ty, e4 |-> char_ty, e5 |-> long_ty,
          e6 |-> int_ty, e7 |-> uchar_ty, e8 |-> int_ty, eap |-> va_list_ty]

MCSymTy == [c |-> char_ty, u |-> uchar_ty, i |-> int_ty, j |-> uint_ty,
            l |-> long_ty, m |-> ulong_ty, p |-> IntPtr, q |-> IntPtr,
            a |-> mk_arr_ty(int_ty, 2), s |-> S, t |-> S, r |-> mk_ptr_ty(S),
            str |-> mk_arr_ty(char_ty, 3),
            f |-> F, g |-> G, rec |-> Rec, low |-> Low, walk |-> Walk,
            six |-> Six, one |-> One, zero |-> Zero] @@ OwnTy
MCSymAt == [c |-> 16, u |-> 17, i |-> 20, j |-> 24, l |-> 32, m |-> 40,
            p |-> 48, q |-> 592, a |-> 568, s |-> 576, t |-> 584, r |-> 600, str |-> 608,
            f |-> 1, g |-> 2, rec |-> 3, low |-> 4, walk |-> 5, six |-> 6, one |-> 7, zero |-> 8,
            gc |-> 16, gl |-> 24, gp |-> 32, gx |-> 40, gy |-> 44, rn |-> 16, rk |-> 20, hl |-> 16,
            wp |-> 16, wk |-> 24, vc |-> 16, vn |-> 20, vt |-> 72, vap |-> 80, vl |-> 112,
            k1 |-> 16, k2 |-> 17, k3 |-> 20, k4 |-> 24, k5 |-> 32, k6 |-> 40, k7 |-> 48, kap |-> 64,
            e1 |-> 16, e2 |-> 24, e3 |-> 32, e4 |-> 36, e5 |-> 40, e6 |-> 48, e7 |-> 52, e8 |-> 56,
            eap |-> 64]
MCFrame   == {"c", "u", "i", "j", "l", "m", "p"} \cup DOMAIN OwnTy
MCForeign == {"q", "t"}
MCFP      == 512     \* and the stack below it

\* Memory with the given values in it, and something in every other byte.
Addrs == 528 .. 611
Filled(vals) ==
    LET m0 == [b \in Addrs |-> (b * 7) % 4]
    IN  FoldLeft(LAMBDA m, v : C!Stored(MCSymTy[v[1]], SymAddr[v[1]], v[2], m), m0, vals)
Ptrs == <<<<"p", 572>>, <<"q", 568>>, <<"r", 584>>>>
MCMems == { Filled(Ptrs \o << <<"c", 1>>, <<"u", 3>>, <<"i", -5>>, <<"j", 200>>,
                              <<"l", 300>>, <<"m", 40000>> >>),
            Filled(Ptrs \o << <<"c", -2>>, <<"u", 2>>, <<"i", 127>>, <<"j", 3>>,
                              <<"l", -256>>, <<"m", 5>> >>),
            Filled(Ptrs \o << <<"c", -1>>, <<"u", 0>>, <<"i", 0>>, <<"j", 0>>,
                              <<"l", 0>>, <<"m", 256>> >>) }

\* Trees as the parser makes them.
Num(n)          == Node("Num", LitTy(n, FALSE, FALSE), <<>>, n)
Ident(s)        == Named(Node("Var", no_ty, <<>>, 0), s)
Unary(k, e)     == Node(k, no_ty, <<e>>, 0)
Binary(k, d, e) == Node(k, no_ty, <<d, e>>, 0)
As(t, e)        == Node("Cast", t, <<e>>, 0)

Ints    == {char_ty, uchar_ty, int_ty, uint_ty, long_ty, ulong_ty}
IntVars == {Ident(s) : s \in {"c", "u", "i", "j", "l", "m"}}
Wide    == {Ident(s) : s \in {"i", "j", "l", "m"}}
Nums    == {Num(n) : n \in {0, 1, 3, 16, 127, 128, 240, 255, 300, 4096}}

ArithKinds  == {"Add", "Sub", "Mul", "Div", "Mod", "BitAnd", "BitXor", "BitOr"}
ShiftKinds  == {"Shl", "Shr"}
CmpKinds    == {"Eq", "Ne", "Lt", "Le"}

\* No narrow operand, for smolcc also a character constant, beside one wider
\* than int: integer_promo_ty makes both int.  The deviations have these.
Agree(d, e) ==
    LET T(z) == IF z.k = "Chr" THEN char_ty ELSE C!TypeOf(z)
    IN  T(d).width < 4 => T(e).width < 4 \/ T(e) = int_ty

ArithExprs ==
    { Binary(k, d, e) : k \in ArithKinds \cup CmpKinds, d \in IntVars, e \in IntVars \cup Nums }
ShiftExprs == { Binary(k, d, e) : k \in ShiftKinds, d \in Wide, e \in IntVars \cup Nums }
UnaryExprs == { Unary(k, d) : k \in {"Neg", "BitNot"}, d \in Wide \cup Nums }
CastExprs  == { As(t, As(w, d)) : t \in Ints, w \in Ints, d \in IntVars \cup {Unary("Neg", Num(3))} }
AssignExprs == { Binary("Assign", d, e) : d \in IntVars, e \in IntVars \cup Nums }

MCArith == {e \in ArithExprs : Agree(e.subs[1], e.subs[2]) /\ Agree(e.subs[2], e.subs[1])}
           \cup ShiftExprs \cup UnaryExprs \cup CastExprs \cup AssignExprs

\* Constant expressions: what eval folds, and the code would compute.
Consts == {Num(n) : n \in {0, 1, 3, 16, 128}} \cup {Unary("Neg", Num(2)), As(uint_ty, Num(200)),
                                                   Node("Chr", no_ty, <<>>, -1)}
Folded == {Binary(k, d, e) : k \in {"Add", "Sub", "Mul", "BitAnd", "BitXor", "BitOr"},
                             d \in Consts, e \in Consts}
          \cup {Binary(k, d, e) : k \in ShiftKinds, d \in Consts \ {Node("Chr", no_ty, <<>>, -1)},
                                  e \in {Num(n) : n \in {0, 1, 3, 7}}}
MCFold == {As(t, e) : t \in Ints, e \in {z \in Folded : Agree(z.subs[1], z.subs[2])
                                                       /\ Agree(z.subs[2], z.subs[1])}}

-----------------------------------------------------------------------------
\* Nested operands with effects: what is skipped, what is saved on the stack.
Cond(d, e, g) == Node("Cond", no_ty, <<d, e, g>>, 0)
Func(name)    == Named(Node("Func", no_ty, <<>>, 0), name)
CallTo(name, args) == Node("Call", no_ty, <<Func(name)>> \o args, 0)
Call(args)    == CallTo("f", args)
Inner == { Ident("i"), Num(0), Unary("PostInc", Ident("i")), Unary("PostDec", Ident("c")),
           Binary("Assign", Ident("i"), Binary("Sub", Ident("i"), Num(1))),
           Call(<<Ident("i"), Ident("l"), Num(300)>>),
           Binary("And", Ident("i"), Ident("l")),
           Cond(Ident("l"), Ident("i"), Unary("PostInc", Ident("j"))) }
Pairs  == { Binary(k, d, e) : k \in {"Add", "Mod", "BitXor", "And", "Or", "Comma", "Le"},
                              d \in Inner, e \in Inner }
MCNest == { b \in Pairs : Agree(b.subs[1], b.subs[2]) /\ Agree(b.subs[2], b.subs[1]) }
          \cup { Binary("Assign", v, e) : v \in {Ident("u"), Ident("l")}, e \in Inner }
          \cup { Cond(d, b.subs[1], b.subs[2]) :
                   d \in Inner, b \in {z \in Pairs : z.k = "Add" /\ Agree(z.subs[1], z.subs[2])
                                                    /\ Agree(z.subs[2], z.subs[1])} }
          \cup { Call(<<d, e, g>>) : d \in Inner, e \in Inner, g \in Inner }
          \cup { Unary("Not", d) : d \in Inner }

-----------------------------------------------------------------------------
\* Pointers, arrays and structs.
Deref(e)     == Unary("Deref", e)
Index(e, n)  == Deref(Binary("Add", e, n))
AddrOf(e)    == Unary("Addr", e)
Member(e, n) == Named(Unary("Member", e), n)
Arrow(e, n)  == Member(Deref(e), n)
Struct(a, b) == Binary("Assign", a, b)
PtrVals == { Ident("p"), Ident("q"), Ident("a"), Num(0), AddrOf(Ident("j")),
             AddrOf(Ident("i")), Binary("Add", Ident("p"), Num(1)),
             Binary("Sub", Ident("p"), Ident("u")), Unary("PostInc", Ident("p")),
             Unary("PostDec", Ident("q")), AddrOf(Index(Ident("a"), Num(1))),
             Binary("Assign", Ident("q"), Ident("a")),
             As(mk_ptr_ty(void_ty), Ident("p")) }
Structs == { Ident("s"), Ident("t"), Deref(Ident("r")), Struct(Ident("s"), Ident("t")),
             Struct(Deref(Ident("r")), Ident("s")) }
MCPtr == { Binary(k, d, e) : k \in {"Eq", "Ne", "Lt", "Le", "Sub"}, d \in PtrVals, e \in PtrVals }
         \cup { Binary("Assign", Ident("p"), e) : e \in PtrVals }
         \cup { Deref(e) : e \in PtrVals }
         \cup { Binary("Assign", Deref(e), d) : e \in PtrVals, d \in {Ident("i"), Ident("l")} }
         \cup { Unary("PostInc", Deref(e)) : e \in PtrVals }
         \cup { Index(Ident("a"), n) : n \in {Num(0), Num(1), Ident("u"), Num(200)} }
         \cup { Cond(Ident("i"), d, e) : d \in PtrVals, e \in PtrVals }
         \cup { Struct(d, e) : d \in Structs, e \in Structs }
         \cup { Member(e, n) : e \in Structs, n \in {"c", "n"} }
         \cup { Binary("Assign", Member(d, "n"), Member(e, "c")) : d \in Structs, e \in Structs }
         \cup { Binary("Comma", d, Ident("s")) : d \in Structs }
         \cup { Member(Binary("Comma", Ident("i"), d), "n") : d \in Structs }
         \cup { Binary("And", Ident("p"), Arrow(Ident("r"), "n")),
                As(long_ty, Ident("p")), As(mk_ptr_ty(int_ty), Ident("l")),
                Ident("a"), Func("f"), Binary("Sub", Ident("p"), Num(1)),
                Binary("Add", Num(1), Ident("p")) }

-----------------------------------------------------------------------------
\* Calls of the functions defined: through a pointer into the caller's frame,
\* with themselves and each other, with every place an argument may be in.
Str          == Named(Node("Str", no_ty, <<>>, 0), "str")
VaStart(n, e) == Binary("VaStart", Ident(n), Ident(e))
NextArg(e, t) == Node("VaArg", t, <<e>>, 0)
VaEnd(n)     == Unary("VaEnd", Ident(n))
Set(n, e)    == Binary("Assign", Ident(n), e)
Plus(d, e)   == Binary("Add", d, e)
InTurn(seq)  == FoldLeft(LAMBDA d, e : Binary("Comma", d, e), seq[1], Tail(seq))

Defined(params, locals, body) == [params |-> params, locals |-> locals, body |-> body]
MCFuncs ==
    [g |-> Defined(<<"gc", "gl", "gp">>, <<"gx", "gy">>,
             InTurn(<<Set("gx", Deref(Ident("gp"))), Set("gy", Ident("gx")),
                      Binary("Assign", Deref(Ident("gp")), Call(<<Ident("gc"), Ident("gl"), Ident("gx")>>)),
                      Plus(Deref(Ident("gp")), Ident("gy"))>>)),
     rec |-> Defined(<<"rn", "rk">>, <<>>,
             Cond(Ident("rn"),
                  Plus(Ident("rn"), CallTo("rec", <<Binary("Sub", Ident("rn"), Num(1)), Ident("rk")>>)),
                  Ident("rk"))),
     low |-> Defined(<<"hl">>, <<>>, Unary("PostInc", Ident("hl"))),
     walk |-> Defined(<<"wp", "wk">>, <<>>,
             Cond(Ident("wk"), NextArg(Deref(Ident("wp")), int_ty), Num(0))),
     six |-> Defined(<<"vc", "vn">>, <<"vt", "vap", "vl">>,
             InTurn(<<VaStart("vap", "vn"), Set("vt", NextArg(Ident("vap"), int_ty)),
                      Set("vl", NextArg(Ident("vap"), long_ty)),
                      Set("vn", CallTo("walk", <<AddrOf(Ident("vap")), Ident("vn")>>)),
                      VaEnd("vap"),
                      Plus(Plus(Ident("vl"), Ident("vn")), Plus(Ident("vt"), Num(0)))>>)),
     one |-> Defined(<<"k1", "k2", "k3", "k4", "k5", "k6", "k7">>, <<"kap">>,
             InTurn(<<VaStart("kap", "k7"), Unary("PostInc", Deref(NextArg(Ident("kap"), IntPtr))), VaEnd("kap"),
                      Call(<<Plus(Ident("k1"), Ident("k7")), Plus(Ident("k3"), Ident("k5")), Ident("k2")>>)>>)),
     zero |-> Defined(<<"e1", "e2", "e3", "e4", "e5", "e6", "e7", "e8">>, <<"eap">>,
             InTurn(<<VaStart("eap", "e8"), VaEnd("eap"), Unary("PostDec", Ident("e7")),
                      Plus(Plus(Ident("e1"), Binary("Mul", Ident("e3"), Ident("e4"))),
                           Plus(Ident("e5"), Plus(Ident("e8"), Ident("e7"))))>>))]

Args == { Ident("i"), Ident("l"), Num(5), CallTo("low", <<Ident("l")>>),
          CallTo("rec", <<Num(2), Ident("c")>>), Unary("PostInc", Ident("u")) }
Few == { CallTo("rec", <<Num(2), Ident("c")>>), Unary("PostInc", Ident("u")) }
GCall(d, e)  == CallTo("g", <<d, e, AddrOf(Ident("i"))>>)
MCCalls ==
    { GCall(d, e) : d \in Args, e \in Args }
    \cup { CallTo("rec", <<Num(n), e>>) : n \in 0 .. 3, e \in Args }
    \cup { Plus(Ident("i"), GCall(Ident("i"), d)) : d \in Args }
    \cup { CallTo("low", <<d>>) : d \in Args }
    \cup { CallTo("six", <<Ident("c"), Num(1), d, Ident("l"), e>>) : d \in Args, e \in Args }
    \cup { CallTo("six", <<d, Num(0), Ident("u"), As(long_ty, e)>>) : d \in Args, e \in Few }
    \cup { CallTo("six", <<Num(1), Num(1), Ident("c"), Ident("l"), Ident("u"), d, GCall(d, d)>>) : d \in Args }
    \cup { CallTo("one", <<d, e, Ident("i"), Ident("j"), Ident("l"), Ident("m"), d, AddrOf(Ident("i"))>>) :
             d \in Args, e \in Few }
    \cup { CallTo("zero", <<d, Num(1), e, d, Num(2), Ident("i"), e, Num(3)>>) : d \in Args, e \in Few }
    \cup { Deref(Str), Index(Str, Ident("u")), AddrOf(Str), Str, Set("c", Index(Str, Num(1))) }
    \cup { CallTo("rec", <<Num(1)>>), CallTo("rec", <<Num(1), Num(1), Num(1)>>), CallTo("six", <<Num(1)>>),
           CallTo("six", <<Num(1), Num(1), Ident("s")>>), CallTo("walk", <<Ident("p"), Num(1)>>),
           CallTo("walk", <<Num(0), Num(1)>>), CallTo("walk", <<Num(0), Num(0)>>),
           NextArg(Ident("i"), int_ty), VaEnd("i"), VaStart("i", "j") }

-----------------------------------------------------------------------------
MCExprs == MCArith \cup MCFold \cup MCNest \cup MCPtr \cup MCCalls

\* Expressions that C defines and the compiler gets wrong (README.md): narrow
\* beside wide operands, a negative index, ! of a wide operand, a wide operand
\* that decides ||, - of a narrow operand, a struct from a comma expression.
MCNarrowWide  == {e \in ArithExprs : ~Agree(e.subs[1], e.subs[2])}
MCNegIndex    == {Index(Ident("p"), Unary("Neg", Num(1)))}
MCNotWide     == {Unary("Not", d) : d \in Wide}
MCOrWide      == {Binary("Or", d, e) : d \in Wide, e \in Wide}
MCNarrowUnary == {As(int_ty, Unary("Neg", Ident("c")))}
MCStructComma == {Struct(Ident("s"), Binary("Comma", Ident("i"), Ident("t")))}

MCDeviations == MCNarrowWide \cup MCNegIndex \cup MCNotWide \cup MCOrWide
                \cup MCNarrowUnary \cup MCStructComma
=============================================================================
