------------------------------- MODULE Parser -------------------------------
(***************************************************************************)
(* The expression parser (compiler/smolcc1.c: at, eat, expect, p_expr,     *)
(* p_ident, and p_decl as p_tyname calls it) on tokens.  An operator gets  *)
(* the tokens from the one at hand on and returns what it parsed and the   *)
(* tokens left.  An error of the lexer is a token that nothing accepts:    *)
(* the compiler stops when it gets there, whichever part asked for it.     *)
(***************************************************************************)
EXTENDS Elab

CONSTANTS Syms,              \* identifiers in scope, with their kinds and values
          MAX_FUNC_PARAMS

ASSUME ParserAssumption == MAX_FUNC_PARAMS \in Nat

\* What was parsed; err_at at the token at hand.
Got(e, ts)  == [ok |-> TRUE, e |-> e, ts |-> ts]
Refused(ts) == [ok |-> FALSE, e |-> Error, ts |-> ts]

at(t, ts)         == ts[1].str = t
expect(t, r)      == IF ~r.ok THEN r
                     ELSE IF at(t, r.ts) THEN [r EXCEPT !.ts = Tail(@)] ELSE Refused(r.ts)
OnResult(r, F(_)) == IF r.ok THEN [r EXCEPT !.e = F(r.e)] ELSE r
Then(r, F(_))     == IF r.ok THEN F(r) ELSE r
opened(ts)        == expect("(", Got(Error, ts))

Unary(k, e)     == Node(k, no_ty, <<e>>, 0)
Binary(k, a, b) == Node(k, no_ty, <<a, b>>, 0)

-----------------------------------------------------------------------------
BaseTypes == {"void", "char", "int", "long", "va_list", "struct", "enum"}
at_decl(ts) == ts[1].str \in BaseTypes \cup {"unsigned", "const", "static", "extern"}

Prec_Comma == 1
Prec_Assign == 2
Prec_Cond == 3
Prec_Unary == 14
Prec_Postfix == 15

\* Operators of two operands: what follows is parsed with the level `right`,
\* and takes the left place if `swap`.
Op(t, prec, right, k, swap) ==
    [str |-> t, prec |-> prec, right |-> right, k |-> k, swap |-> swap]
LeftOp_right(t, prec, k) == Op(t, prec, prec - 1, k, FALSE)     \* mutant: to the right
LeftOp(t, prec, k) == Op(t, prec, prec, k, FALSE)

Infix ==
    {Op(",", Prec_Comma, 0, "Comma", FALSE),
     Op("=", Prec_Assign, Prec_Assign - 1, "Assign", FALSE),
     LeftOp("||", 4, "Or"), LeftOp("&&", 5, "And"), LeftOp("|", 6, "BitOr"),
     LeftOp("^", 7, "BitXor"), LeftOp("&", 8, "BitAnd"),
     LeftOp("==", 9, "Eq"), LeftOp("!=", 9, "Ne"),
     LeftOp("<", 10, "Lt"), Op(">", 10, 10, "Lt", TRUE),
     LeftOp("<=", 10, "Le"), Op(">=", 10, 10, "Le", TRUE),
     LeftOp("<<", 11, "Shl"), LeftOp(">>", 11, "Shr"),
     LeftOp("+", 12, "Add"), LeftOp("-", 12, "Sub"),
     LeftOp("*", 13, "Mul"), LeftOp("/", 13, "Div"), LeftOp("%", 13, "Mod")}

Prefix == [t \in {"-", "~", "!", "&", "*"} |->
             CASE t = "-" -> "Neg" [] t = "~" -> "BitNot" [] t = "!" -> "Not"
               [] t = "&" -> "Addr" [] t = "*" -> "Deref"]

-----------------------------------------------------------------------------
RECURSIVE p_expr(_, _), led(_, _, _), p_args(_, _), p_stars(_, _), p_specs(_, _, _)

(***************************************************************************)
(* p_decl for the name of a type: specifiers, then stars, then the length  *)
(* of an array.  Tags, enumerations and parameters are not followed.       *)
(***************************************************************************)
NamedTy(t, unsigned) == CASE t = "void" -> void_ty
                          [] t = "char" -> IF unsigned THEN uchar_ty ELSE char_ty
                          [] t = "int"  -> IF unsigned THEN uint_ty ELSE int_ty
                          [] t = "long" -> IF unsigned THEN ulong_ty ELSE long_ty

p_specs(base, unsigned, ts) ==
    CASE at("const", ts) -> p_specs(base, unsigned, Tail(ts))
      [] base = no_ty /\ at("unsigned", ts) -> p_specs(base, TRUE, Tail(ts))
      [] base = no_ty /\ ts[1].str \in {"void", "char", "int", "long"} ->
           p_specs(NamedTy(ts[1].str, unsigned), unsigned, Tail(ts))
      [] OTHER -> IF base = no_ty \/ (unsigned /\ ~is_integer_ty(base)) THEN Refused(ts)
                  ELSE Got(base, ts)

p_stars(ty, ts) == IF at("*", ts) THEN p_stars(mk_ptr_ty(ty), Tail(ts)) ELSE Got(ty, ts)

Folded(n, ts) == IF n = NotConst THEN Refused(ts) ELSE Got(n, ts)
p_const_expr(ts) == Then(p_expr(Prec_Cond - 1, ts),
                         LAMBDA r : Folded(eval(elab_rvalue_expr(r.e, NoParam)), r.ts))

p_dim(r) == IF at("[", r.ts)
            THEN expect("]", OnResult(p_const_expr(Tail(r.ts)), LAMBDA n : mk_arr_ty(r.e, n)))
            ELSE r
p_tyname(ts) == Then(p_specs(no_ty, FALSE, ts), LAMBDA r : p_dim(p_stars(r.e, r.ts)))

-----------------------------------------------------------------------------
\* Expressions: what stands first.
NameOf(t, s, ts) ==
    CASE s.kind = "const" -> Got(Node("Num", no_ty, <<>>, s.val), ts)
      [] s.kind \in {"local", "global"} -> Got(Named(Node("Var", no_ty, <<>>, 0), t), ts)
      [] s.kind = "func" -> Got(Named(Node("Func", no_ty, <<>>, 0), t), ts)
      [] OTHER -> Refused(ts)

Identifier(t, ts) == IF t \in DOMAIN Syms THEN NameOf(t, Syms[t], ts) ELSE Refused(ts)

Literal(kind, v) ==
    CASE kind = "num" -> Node("Num", LitTy(v.n, v.u, v.l), <<>>, v.n)
      [] kind = "str" -> Named(Node("Str", no_ty, <<>>, 0), v.str)
      [] kind = "chr" -> Named(Node("Chr", no_ty, <<>>, 0), v.str[1])

\* "(" has been eaten.
Parenthesised(ts) ==
    IF at_decl(ts)
    THEN Then(expect(")", p_tyname(ts)),
              LAMBDA ty : OnResult(p_expr(Prec_Unary, ty.ts),
                                   LAMBDA e : Node("Cast", ty.e, <<e>>, 0)))
    ELSE expect(")", p_expr(0, ts))

SizeOf(ts) ==
    Then(opened(ts), LAMBDA o : Then(expect(")", p_tyname(o.ts)),
         LAMBDA ty : IF ty_size(ty.e) <= 0 THEN Refused(ty.ts)
                     ELSE Got(Node("Num", no_ty, <<>>, ty_size(ty.e)), ty.ts)))

\* va_start, va_arg and va_end look like calls with fixed arguments.
VaFirst(ts) == Then(opened(ts), LAMBDA o : p_expr(Prec_Comma, o.ts))
VaForm(t, a) ==
    expect(")",
      CASE t = "va_end"   -> OnResult(a, LAMBDA e : Unary("VaEnd", e))
        [] t = "va_start" -> Then(expect(",", a), LAMBDA r :
                               OnResult(p_expr(Prec_Comma, r.ts),
                                        LAMBDA e : Binary("VaStart", r.e, e)))
        [] t = "va_arg"   -> Then(expect(",", a), LAMBDA r :
                               OnResult(p_tyname(r.ts),
                                        LAMBDA ty : Node("VaArg", ty, <<r.e>>, 0))))

nud(t, kind, ts) ==          \* ts: the tokens behind the first
    CASE t = "(" -> Parenthesised(ts)
      [] t \in DOMAIN Prefix -> OnResult(p_expr(Prec_Unary, ts), LAMBDA e : Unary(Prefix[t], e))
      [] t = "sizeof" -> SizeOf(ts)
      [] t \in {"va_start", "va_arg", "va_end"} -> VaForm(t, VaFirst(ts))
      [] kind = "wrd" /\ t \notin {"sizeof", "va_start", "va_arg", "va_end"} -> Identifier(t, ts)
      [] OTHER -> Refused(ts)

-----------------------------------------------------------------------------
\* Expressions: what follows.

\* The arguments of a call, those so far being in e.
p_args(e, ts) ==
    IF at(")", ts) THEN Got(e, Tail(ts))
    ELSE IF Len(e.subs) > MAX_FUNC_PARAMS THEN Refused(ts)
    ELSE Then(IF Len(e.subs) = 1 THEN Got(e, ts) ELSE expect(",", Got(e, ts)),
              LAMBDA r : Then(p_expr(Prec_Comma, r.ts),
                LAMBDA a : p_args([e EXCEPT !.subs = Append(@, a.e)], a.ts)))

p_field(e, ts) == IF ts[1].kind = "wrd" THEN Got(Named(Unary("Member", e), ts[1].str), Tail(ts))
                  ELSE Refused(ts)

PostfixOps == {"[", "(", ".", "->", "++", "--"}
p_suffix(t, acc, ts) ==
    CASE t = "["  -> expect("]", OnResult(p_expr(0, ts),
                                          LAMBDA i : Unary("Deref", Binary("Add", acc, i))))
      [] t = "("  -> p_args(Unary("Call", acc), ts)
      [] t = "."  -> p_field(acc, ts)
      [] t = "->" -> p_field(Unary("Deref", acc), ts)
      [] t = "++" -> Got(Unary("PostInc", acc), ts)
      [] t = "--" -> Got(Unary("PostDec", acc), ts)

p_cond(acc, ts) ==
    Then(expect(":", p_expr(0, ts)),
         LAMBDA a : OnResult(p_expr(Prec_Cond - 1, a.ts),
                             LAMBDA b : Node("Cond", no_ty, <<acc, a.e, b>>, 0)))

p_infix(o, acc, ts) ==
    OnResult(p_expr(o.right, ts),
             LAMBDA b : IF o.swap THEN Binary(o.k, b, acc) ELSE Binary(o.k, acc, b))

\* The operators that bind tighter than rbp.
Takes(rbp, t) == \/ \E o \in Infix : o.str = t /\ rbp < o.prec
                 \/ t = "?" /\ rbp < Prec_Cond
                 \/ t \in PostfixOps /\ rbp < Prec_Postfix
Taken(t, acc, ts) ==
    CASE t = "?" -> p_cond(acc, ts)
      [] t \in PostfixOps -> p_suffix(t, acc, ts)
      [] OTHER -> p_infix(CHOOSE o \in Infix : o.str = t, acc, ts)

led(rbp, acc, ts) ==
    IF Takes(rbp, ts[1].str)
    THEN Then(Taken(ts[1].str, acc, Tail(ts)), LAMBDA r : led(rbp, r.e, r.ts))
    ELSE Got(acc, ts)

p_expr(rbp, ts) ==
    Then(IF ts[1].kind \in {"num", "str", "chr"}
         THEN Got(Literal(ts[1].kind, ts[1].val), Tail(ts))
         ELSE nud(ts[1].str, ts[1].kind, Tail(ts)),
         LAMBDA r : led(rbp, r.e, r.ts))

\* p_stmt for an expression statement.
p_expr_stmt(ts) == expect(";", p_expr(0, ts))
=============================================================================
