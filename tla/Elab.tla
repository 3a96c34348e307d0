-------------------------------- MODULE Elab --------------------------------
(***************************************************************************)
(* Semantic analysis of expressions (compiler/smolcc1.c: eval to           *)
(* elab_init): the parser's tree goes in, the tree with a type on every    *)
(* node and every implicit conversion spelled out comes out, or Error.     *)
(* eval folds what is left of a constant expression.                       *)
(***************************************************************************)
EXTENDS CTypes, Bitwise, SequencesExt

CONSTANT SymTy       \* the type of each symbol

Error == Node("Error", no_ty, <<>>, 0)

-----------------------------------------------------------------------------
const_cast_unsigned(t, a) == Wrap(a, t.width)         \* mutant: no sign-extend

const_cast(t, a) == Reg(ValueOf(t, a))

NotConst == -1      \* err_at: the file is rejected

Minus(a)     == Reg(-a)
Complement(a) == 2 ^ (8 * ByteBits) - 1 - a
\* The host's shifts take the amount modulo the width of the register.
Amount(a)    == a % (8 * ByteBits)
Left(a, b)   == (a % 2 ^ (8 * ByteBits - Amount(b))) * 2 ^ Amount(b)
Times(a, b)  == Reg(Signed(a, 8) * Signed(b, 8))

RECURSIVE eval(_)
eval(e) ==
    LET a   == eval(e.subs[1])
        b   == eval(e.subs[2])
        One(r) == IF a = NotConst THEN NotConst ELSE const_cast(e.ty, r)
        Two(r) == IF NotConst \in {a, b} THEN NotConst ELSE const_cast(e.ty, r)
    IN  CASE e.k = "Num"    -> Reg(e.v)
          [] e.k = "Neg"    -> One(Minus(a))
          [] e.k = "BitNot" -> One(Complement(a))
          [] e.k = "Add"    -> Two(a + b)
          [] e.k = "Sub"    -> Two(a - b)
          [] e.k = "Mul"    -> Two(Times(a, b))
          [] e.k = "Shl"    -> Two(Left(a, b))
          [] e.k = "Shr" /\ e.ty.is_signed  -> Two(Signed(a, 8) \div 2 ^ Amount(b))
          [] e.k = "Shr" /\ ~e.ty.is_signed -> Two(a \div 2 ^ Amount(b))
          [] e.k = "BitAnd" -> Two(a & b)
          [] e.k = "BitXor" -> Two(a ^^ b)
          [] e.k = "BitOr"  -> Two(a | b)
          [] e.k = "Cast" /\ is_ptr_ty(e.ty) /\ is_null_ptr(e.subs[1]) -> 0
          [] e.k = "Cast" /\ is_integer_ty(e.ty)
                          /\ is_integer_ty(e.subs[1].ty) -> One(a)
          [] OTHER -> NotConst

-----------------------------------------------------------------------------
\* p_expr's type of a literal with its suffixes.
LitTy(n, u, l) ==
    IF u THEN IF l \/ n >= 2 ^ (4 * ByteBits) THEN ulong_ty ELSE uint_ty
         ELSE IF l \/ n >= 2 ^ (4 * ByteBits - 1) THEN long_ty ELSE int_ty

cast_to(t, e) == IF e.ty = t THEN e ELSE Node("Cast", t, <<e>>, 0)

integer_promo_ty(t1, t2) ==
    LET Rank(t) == t.width + IF t.is_signed THEN 0 ELSE 1
    IN  IF Rank(t1) < 4 \/ Rank(t2) < 4 THEN int_ty
        ELSE IF Rank(t1) > Rank(t2) THEN t1 ELSE t2

\* Error for an operand that is not accepted.
Unless(ok, e) == IF ok THEN e ELSE Error

BothInts(a, b) == is_integer_ty(a.ty) /\ is_integer_ty(b.ty)
BothPtrs(a, b) == is_ptr_ty(a.ty) /\ is_ptr_ty(b.ty)

apply_ua_conv(a, b) == LET t == integer_promo_ty(a.ty, b.ty)
                       IN  <<cast_to(t, a), cast_to(t, b)>>

apply_null_ptr_conv(a, b) ==
    IF is_null_ptr(a) /\ is_ptr_ty(b.ty)      THEN <<cast_to(b.ty, a), b>>
    ELSE IF is_null_ptr(b) /\ is_ptr_ty(a.ty) THEN <<a, cast_to(a.ty, b)>>
    ELSE <<a, b>>

\* The pair with the type that both get, or Error in both places.
unify_ptr_subs(a, b) ==
    LET t == IF is_void_ptr(a.ty) \/ is_void_ptr(b.ty) THEN mk_ptr_ty(void_ty)
             ELSE a.ty
    IN  IF is_void_ptr(t) \/ a.ty.base = b.ty.base
        THEN <<cast_to(t, a), cast_to(t, b)>> ELSE <<Error, Error>>

\* Both operands converted to one type: Eq, Ne and the arms of Cond.
Unified(a0, b0) ==
    LET p == apply_null_ptr_conv(a0, b0)
    IN  IF BothInts(p[1], p[2]) THEN apply_ua_conv(p[1], p[2])
        ELSE IF BothPtrs(p[1], p[2]) THEN unify_ptr_subs(p[1], p[2])
        ELSE <<Error, Error>>

apply_assign_conv(e, t) ==
    IF e.ty = t THEN e
    ELSE IF is_integer_ty(e.ty) /\ is_integer_ty(t) THEN cast_to(t, e)
    ELSE IF is_ptr_ty(t) /\ is_null_ptr(e) THEN cast_to(t, e)
    ELSE IF is_ptr_ty(t) /\ is_ptr_ty(e.ty)
         THEN Unless(t.base = e.ty.base \/ is_void_ptr(t) \/ is_void_ptr(e.ty),
                     cast_to(t, e))
    ELSE Error

ptr_decay(e) ==
    IF is_arr_ty(e.ty)
    THEN Node("Cast", mk_ptr_ty(e.ty.base),
              <<Node("Addr", mk_ptr_ty(e.ty), <<e>>, 0)>>, 0)
    ELSE IF is_func_ty(e.ty) THEN Node("Addr", mk_ptr_ty(e.ty), <<e>>, 0)
    ELSE e

-----------------------------------------------------------------------------
(***************************************************************************)
(* elab_expr, by kind of node: `e` is the node, its operands elaborated.   *)
(***************************************************************************)
\* The node with type t and operands s, unless an operand is refused.
Typed(e, t, s) == Unless(Error \notin {s[i] : i \in DOMAIN s},
                         [e EXCEPT !.ty = t, !.subs = s])

ElabArith(e) ==       \* Mul, Div, Mod, Add, Sub
    LET swap == e.k = "Add" /\ is_integer_ty(e.subs[1].ty) /\ is_ptr_ty(e.subs[2].ty)
        a    == IF swap THEN e.subs[2] ELSE e.subs[1]
        b    == IF swap THEN e.subs[1] ELSE e.subs[2]
    IN  IF e.k \in {"Add", "Sub"} /\ is_ptr_ty(a.ty) /\ is_integer_ty(b.ty)
        THEN Node(IF e.k = "Add" THEN "PtrAdd" ELSE "PtrSub", a.ty, <<a, b>>, 0)
        ELSE IF e.k = "Sub" /\ BothPtrs(a, b)
        THEN Unless(a.ty = b.ty, Node("PtrDiff", long_ty, <<a, b>>, 0))
        ELSE IF BothInts(a, b)
        THEN LET s == apply_ua_conv(a, b) IN Typed(e, s[1].ty, s)
        ELSE Error

ElabCompare(e) ==     \* Lt, Le
    LET a == e.subs[1]
        b == e.subs[2]
    IN  IF BothInts(a, b) THEN Typed(e, int_ty, apply_ua_conv(a, b))
        ELSE Unless(BothPtrs(a, b) /\ a.ty = b.ty, [e EXCEPT !.ty = int_ty])

ElabCond(e) ==
    LET arms == <<e.subs[2], e.subs[3]>>
        s    == IF is_void_ty(arms[1].ty) /\ is_void_ty(arms[2].ty)
                THEN arms ELSE Unified(arms[1], arms[2])
    IN  Typed(e, s[1].ty, <<e.subs[1]>> \o s)

\* A variadic argument is passed as it is, without a promotion.
ElabCall(e) ==
    LET callee == e.subs[1]
        direct == callee.k = "Addr" /\ callee.subs[1].k = "Func"
        func   == SymTy[callee.subs[1].s]
        n      == Len(e.subs) - 1
        Passed(i) == IF i <= Len(func.params) THEN apply_assign_conv(e.subs[i + 1], func.params[i])
                     ELSE Unless(is_scalar(e.subs[i + 1].ty), e.subs[i + 1])
    IN  IF ~direct \/ (n > Len(func.params) /\ ~func.is_va) \/ n < Len(func.params) THEN Error
        ELSE Typed(e, func.ret, <<callee>> \o [i \in 1 .. n |-> Passed(i)])

ElabMember(e) ==
    LET s == e.subs[1].ty
    IN  IF s.kind # "struct" \/ e.s \notin DOMAIN s.members THEN Error
        ELSE [e EXCEPT !.ty = s.members[e.s].ty]

\* last_param is that of curr_func, if that is variadic.
NoParam == "none"
ElabVaStart(e, last_param) ==
    Unless(/\ last_param # NoParam /\ e.subs[1].ty = va_list_ty
           /\ e.subs[2].k = "Var" /\ e.subs[2].s = last_param,
           [e EXCEPT !.ty = void_ty])

ElabNode(e, last_param) ==
    LET a == e.subs[1]
        b == e.subs[2]
    IN
    CASE e.k = "Num" -> IF e.ty = no_ty THEN [e EXCEPT !.ty = int_ty] ELSE e
      [] e.k = "Chr" -> Node("Num", char_ty, <<>>, e.v)
      [] e.k \in {"Var", "Func", "Str"} -> [e EXCEPT !.ty = SymTy[e.s]]
      [] e.k \in {"PostInc", "PostDec"} ->
           Unless(is_assignable(a) /\ is_scalar(a.ty), [e EXCEPT !.ty = a.ty])
      [] e.k = "Call" -> ElabCall(e)
      [] e.k = "Member" -> ElabMember(e)
      [] e.k = "Addr"  -> Unless(is_addressable(a), [e EXCEPT !.ty = mk_ptr_ty(a.ty)])
      [] e.k = "Deref" -> IF is_ptr_ty(a.ty) THEN [e EXCEPT !.ty = a.ty.base]
                          ELSE Error
      [] e.k \in {"Neg", "BitNot"} -> Unless(is_integer_ty(a.ty), [e EXCEPT !.ty = a.ty])
      [] e.k = "Not"   -> Unless(is_scalar(a.ty), [e EXCEPT !.ty = int_ty])
      [] e.k = "Cast"  -> Unless(is_scalar(e.ty) /\ is_scalar(a.ty), e)
      [] e.k \in {"Mul", "Div", "Mod", "Add", "Sub"} -> ElabArith(e)
      [] e.k \in {"Shl", "Shr"} -> Unless(BothInts(a, b), [e EXCEPT !.ty = a.ty])
      [] e.k \in {"Eq", "Ne"} -> Typed(e, int_ty, Unified(a, b))
      [] e.k \in {"Lt", "Le"} -> ElabCompare(e)
      [] e.k \in {"BitAnd", "BitXor", "BitOr"} ->
           IF BothInts(a, b) THEN LET s == apply_ua_conv(a, b) IN Typed(e, s[1].ty, s)
           ELSE Error
      [] e.k \in {"And", "Or"} ->
           Unless(is_scalar(a.ty) /\ is_scalar(b.ty), [e EXCEPT !.ty = int_ty])
      [] e.k = "Cond"   -> ElabCond(e)
      [] e.k = "Assign" ->
           IF is_assignable(a) THEN Typed(e, a.ty, <<a, apply_assign_conv(b, a.ty)>>)
           ELSE Error
      [] e.k = "Comma"  -> [e EXCEPT !.ty = b.ty]
      [] e.k = "VaStart" -> ElabVaStart(e, last_param)
      [] e.k = "VaEnd"  -> Unless(a.ty = va_list_ty, [e EXCEPT !.ty = void_ty])
      [] e.k = "VaArg"  -> Unless(a.ty = va_list_ty /\ is_scalar(e.ty), e)

RECURSIVE elab_expr(_, _)
elab_expr(e, last_param) ==
    LET subs == [i \in DOMAIN e.subs |->
                   LET s == elab_expr(e.subs[i], last_param)
                   IN  IF e.k = "Addr" THEN s ELSE ptr_decay(s)]
    IN  IF Error \in {subs[i] : i \in DOMAIN subs} THEN Error
        ELSE ElabNode([e EXCEPT !.subs = subs], last_param)

elab_rvalue_expr(e, last_param) == ptr_decay(elab_expr(e, last_param))
elab_expr_expect(e, last_param, t) == apply_assign_conv(elab_rvalue_expr(e, last_param), t)
=============================================================================
