------------------------------ MODULE Codegen ------------------------------
(***************************************************************************)
(* Code generation (compiler/smolcc1.c: emit_int_load to emit_expr, and    *)
(* emit_func): an elaborated tree becomes a sequence of instructions that  *)
(* leaves its value, or the address of a struct, in x0; a function gets a  *)
(* frame around it.                                                        *)
(*                                                                         *)
(* An instruction is a record: `w` is the width of the registers it names, *)
(* 4 (w) or 8 (x), `d` the register written, `a` and `b` those read, `imm` *)
(* an immediate.  A jump to one of the numbered labels is a jump over the  *)
(* instructions before the label.  Calls go to functions, to _memcpy and   *)
(* to _va_arg.                                                             *)
(***************************************************************************)
EXTENDS Elab

CONSTANTS SymAt,     \* a symbol's address, or its offset in its frame
          Frame,     \* the symbols that are locals
          Foreign,   \* the globals reached through the GOT
          Funcs      \* the functions defined: [params, locals, body]

Ins(op, w, d, a, b, imm) ==
    [op |-> op, w |-> w, d |-> d, a |-> a, b |-> b, imm |-> imm]

Alu(op, w, d, a, b) == <<Ins(op, w, d, a, b, 0)>>
Mov(w, d, a)        == <<Ins("mov", w, d, a, 0, 0)>>

\* Register class of a type.
X(t) == IF ty_size(t) = 8 THEN 8 ELSE 4

Die == <<Ins("die", 0, 0, 0, 0, 0)>>     \* die() and assert() stop the compiler

-----------------------------------------------------------------------------
(***************************************************************************)
(* emit_int_load: a mov with the lowest chunk of two bytes, then a movk    *)
(* for each further chunk that differs from what mov left there.           *)
(***************************************************************************)
ChunkVals == 2 ^ (2 * ByteBits)
Chunk(val, i)   == (val \div ChunkVals ^ i) % ChunkVals

Lowest(val) == Chunk(val, 0) - IF val < 0 THEN ChunkVals ELSE 0

emit_int_load(t, val, reg) ==
    LET default == IF val < 0 THEN ChunkVals - 1 ELSE 0
        Movk(i) == IF Chunk(val, i) = default THEN <<>>
                   ELSE <<Ins("movk", X(t), reg, 0, i, Chunk(val, i))>>
        further == [i \in 1 .. (ty_size(t) - 1) \div 2 |-> i]
    IN  <<Ins("movi", X(t), reg, 0, 0, Lowest(val))>>
        \o FoldLeft(LAMBDA c, i : c \o Movk(i), <<>>, further)

emit_push(reg) == <<Ins("push", 8, 0, reg, 0, 0)>>
emit_pop_peek(reg) == <<Ins("peek", 8, reg, 0, 0, 0)>>   \* mutant: sp stays
emit_pop(reg)  == <<Ins("pop", 8, reg, 0, 0, 0)>>

emit_load(t, dst, src) ==
    <<Ins(CASE t = char_ty  -> "ldrsb"
            [] t = uchar_ty -> "ldrb"
            [] OTHER        -> "ldr", X(t), dst, src, 0, 0)>>

emit_store(t, src, dst) ==
    <<Ins(IF t \in {char_ty, uchar_ty} THEN "strb" ELSE "str", X(t), 0, src, dst, 0)>>

emit_frame_addr(offs, reg) ==
    emit_int_load(long_ty, offs, reg) \o <<Ins("addfp", 8, reg, reg, 0, 0)>>

emit_frame_store(t, offs, reg) == emit_frame_addr(offs, 9) \o emit_store(t, reg, 9)

emit_sym(s) ==
    CASE s \in Frame   -> emit_frame_addr(SymAt[s], 0)
      [] s \in Foreign -> <<Ins("got", 8, 0, 0, 0, SymAt[s])>>
      [] OTHER         -> <<Ins("adr", 8, 0, 0, 0, SymAt[s])>>

Widening_zero(from) == IF ty_size(from) = 1 THEN "uxtb" ELSE "uxtw"   \* mutant
Widening(from) == IF ty_size(from) = 1
                  THEN IF from = char_ty THEN "sxtb" ELSE "uxtb"
                  ELSE IF from = int_ty  THEN "sxtw" ELSE "uxtw"

Truncate_nothing(w) == <<>>              \* mutant: the low half is good enough
Truncate(w)         == Mov(w, 0, 0)

\* A string is an object of its own in .rodata.
emit_str_load(s) == <<Ins("adr", 8, 0, 0, 0, SymAt[s])>>

\* Conversion of x0, by the sizes of the two types.
emit_cast(to, from) ==
    LET Ext(op) == <<Ins(op, X(to), 0, 0, 0, 0)>>
    IN  CASE ty_size(to) = 1 /\ ty_size(from) > 1 ->
                 Ext(IF to = char_ty THEN "sxtb" ELSE "uxtb")
          [] ty_size(to) = 4 /\ ty_size(from) > 4 -> Truncate(4)
          [] ty_size(from) \in {1, 4} /\ ty_size(to) > ty_size(from) ->
                 Ext(Widening(from))
          [] OTHER -> <<>>

-----------------------------------------------------------------------------
(***************************************************************************)
(* The frame of a function, as declare and p_decl lay it out: the frame    *)
(* record, the parameters, the registers that a variadic function saves,   *)
(* the locals.                                                             *)
(***************************************************************************)
MAX_FUNC_PARAMS == 8

align_up(n, align) == ((n + align - 1) \div align) * align

Declared(fr, s) ==
    LET at == align_up(fr.size, ty_align(SymTy[s]))
    IN  [fr EXCEPT !.offs = (s :> at) @@ @, !.size = at + ty_size(SymTy[s])]

FrameOf(f) ==
    LET named   == FoldLeft(Declared, [offs |-> <<>>, size |-> 16], Funcs[f].params)
        va_offs == align_up(named.size, 8)
        va_size == IF SymTy[f].is_va THEN 8 * (MAX_FUNC_PARAMS - Len(Funcs[f].params)) ELSE 0
        all     == FoldLeft(Declared, [named EXCEPT !.size = va_offs + va_size], Funcs[f].locals)
    IN  [offs |-> all.offs, va_offs |-> va_offs, va_size |-> va_size, size |-> align_up(all.size, 16)]

VaTop(fr)    == fr.va_offs + fr.va_size
SaveArea(n)  == [i \in 1 .. MAX_FUNC_PARAMS - n |-> n + i - 1]      \* registers
LastParam(f) == Last(Funcs[f].params)

-----------------------------------------------------------------------------
\* The instruction for a binary operator, by the signedness of the type.
ArithOp(k, is_signed) ==
    CASE k = "Add" -> "add" [] k = "Sub" -> "sub" [] k = "Mul" -> "mul"
      [] k = "BitAnd" -> "and" [] k = "BitXor" -> "eor" [] k = "BitOr" -> "orr"
      [] k = "Shl" -> "lsl"
      [] k = "Shr" -> IF is_signed THEN "asr" ELSE "lsr"
      [] k = "Div" -> IF is_signed THEN "sdiv" ELSE "udiv"

CondOp(k, is_signed) ==
    CASE k = "Eq" -> "eq" [] k = "Ne" -> "ne"
      [] k = "Lt" -> IF is_signed THEN "lt" ELSE "lo"
      [] k = "Le" -> IF is_signed THEN "le" ELSE "ls"

Cset(w, cond) == <<Ins(cond, w, 0, 0, 0, 0)>>
CmpZero(w)    == <<Ins("cmp0", w, 0, 0, 0, 0)>>

\* mk_ptr_ty leaves is_signed of a pointer type as it finds it on the stack.
VARIABLE ptr_is_signed
IsSigned(t) == IF is_ptr_ty(t) THEN ptr_is_signed ELSE t.is_signed

Scale(size, reg) == IF size = 1 THEN <<>>
                    ELSE emit_int_load(long_ty, size, reg)

ShortOn_swapped(k) == IF k = "And" THEN "cbnz" ELSE "cbz"     \* mutant
ShortOn(k)         == IF k = "And" THEN "cbz" ELSE "cbnz"

\* How many instructions a jump over a block of code skips.
Skip_one_more(block) == Len(block) + 1      \* mutant: a label one line too low
Skip(block)          == Len(block)

\* The i-th pop of n arguments goes to the register of the last one left.
ArgReg(n, i)          == n - i

\* What ++ and -- add; what an index is multiplied by.
StepOf(t)     == IF is_ptr_ty(t) THEN ty_size(t.base) ELSE 1
ElemSize(ptr)         == ty_size(ptr.ty.base)

RECURSIVE emit_expr(_), emit_place_expr(_), emit_assign_to_addr(_, _)

\* The first operand waits on the stack: the second may use every register.
emit_bin_subs(a, b) ==
    emit_expr(a) \o emit_push(0) \o emit_expr(b) \o Mov(X(a.ty), 1, 0) \o emit_pop(0)

emit_assign_to_addr(t, e) ==
    IF is_scalar(t)
    THEN emit_push(0) \o emit_expr(e) \o emit_pop(1) \o emit_store(t, 0, 1)
    ELSE emit_push(0)
         \o (CASE e.k = "Assign" ->
                    emit_place_expr(e.subs[1]) \o emit_assign_to_addr(e.ty, e.subs[2])
               [] e.k # "Assign" /\ is_addressable(e) -> emit_place_expr(e)
               [] OTHER -> Die)
         \o Mov(8, 1, 0) \o emit_pop(0)
         \o emit_int_load(long_ty, ty_size(t), 2)
         \o <<Ins("memcpy", 8, 0, 0, 1, 0)>>

emit_place_expr(e) ==
    CASE e.k \in {"Var", "Func"} -> emit_sym(e.s)
      [] e.k = "Member" ->
           emit_place_expr(e.subs[1])
           \o emit_int_load(long_ty, e.subs[1].ty.members[e.s].offs, 1)
           \o Alu("add", 8, 0, 0, 1)
      [] e.k \in {"Assign", "Comma"} -> emit_expr(e)
      [] e.k = "Deref" -> emit_expr(e.subs[1])
      [] e.k = "Str" -> emit_str_load(e.s)
      [] OTHER -> Die

emit_inc(e, op) ==
    LET t    == e.ty
    IN  emit_place_expr(e.subs[1]) \o Mov(8, 2, 0) \o emit_load(t, 0, 0)
        \o emit_int_load(t, StepOf(t), 1) \o Alu(op, X(t), 1, 0, 1) \o emit_store(t, 1, 2)

\* The second operand is skipped when the first one, as a register of its
\* own type, decides.
emit_logic(e) ==
    LET a == e.subs[1]
        b == emit_expr(e.subs[2])
        w == X(e.subs[2].ty)
    IN  emit_expr(a) \o <<Ins(ShortOn(e.k), X(a.ty), 0, 0, 0, Skip(b))>>
        \o b \o CmpZero(w) \o Cset(w, "ne")

emit_cond(e) ==
    LET then == emit_expr(e.subs[2])
        else == emit_expr(e.subs[3])
        Jump == <<Ins("b", 0, 0, 0, 0, Skip(else))>>
    IN  emit_expr(e.subs[1])
        \o <<Ins("cbz", X(e.subs[1].ty), 0, 0, 0, Skip(then \o Jump))>>
        \o then \o Jump \o else

\* Arguments are evaluated left to right and popped right to left.
emit_call(e) ==
    LET n == Len(e.subs) - 1
        func == e.subs[1].subs[1].s
    IN  FoldLeft(LAMBDA c, i : c \o emit_expr(e.subs[i + 1]) \o emit_push(0),
                 <<>>, [i \in 1 .. n |-> i])
        \o FoldLeft(LAMBDA c, i : c \o emit_pop(ArgReg(n, i)), <<>>, [i \in 1 .. n |-> i])
        \o <<Ins("bl", 8, 0, 0, 0, func)>>

\* va_start fills in the va_list: the stack arguments (there are none), the top
\* of the saved registers, and how far below it the next argument is.
FillVaList(fr) ==
    <<Ins("addfpi", 8, 1, 0, 0, 16)>> \o <<Ins("str", 8, 0, 1, 0, 0)>>
    \o emit_frame_addr(VaTop(fr), 1) \o <<Ins("stpz", 8, 0, 1, 0, 8)>>
    \o <<Ins("movi", 8, 1, 0, 0, -fr.va_size)>> \o <<Ins("stpz", 4, 0, 1, 0, 24)>>
emit_va_start(e) ==
    emit_place_expr(e.subs[1])
    \o FillVaList(FrameOf(CHOOSE f \in DOMAIN Funcs : LastParam(f) = e.subs[2].s))

emit_ptr_diff(e) ==
    LET size == ElemSize(e.subs[1])
    IN  emit_bin_subs(e.subs[1], e.subs[2]) \o Alu("sub", 8, 0, 0, 1)
        \o Scale(size, 1)
        \o (IF size = 1 THEN <<>> ELSE Alu("sdiv", 8, 0, 0, 1))

emit_ptr_add(e) ==
    LET size == ElemSize(e.subs[1])
    IN  emit_bin_subs(e.subs[1], e.subs[2])
        \o Scale(size, 2)
        \o (IF size = 1 THEN <<>> ELSE Alu("mul", 8, 1, 1, 2))
        \o Alu(IF e.k = "PtrAdd" THEN "add" ELSE "sub", 8, 0, 0, 1)

emit_expr(e) ==
    LET t == e.ty
        a == e.subs[1]
        b == e.subs[2]
    IN
    CASE is_lvalue(e) -> emit_place_expr(e)
                         \o (IF is_scalar(t) THEN emit_load(t, 0, 0) ELSE <<>>)
      [] e.k = "Num"     -> emit_int_load(t, e.v, 0)
      [] e.k = "PostInc" -> emit_inc(e, "add")
      [] e.k = "PostDec" -> emit_inc(e, "sub")
      [] e.k = "Addr"    -> emit_place_expr(a)
      [] e.k = "BitNot"  -> emit_expr(a) \o Alu("mvn", X(t), 0, 0, 0)
      [] e.k = "Neg"     -> emit_expr(a) \o Alu("neg", X(t), 0, 0, 0)
      [] e.k = "Not"     -> emit_expr(a) \o CmpZero(X(t)) \o Cset(X(t), "eq")
      [] e.k = "Cast"    -> emit_expr(a) \o emit_cast(t, a.ty)
      [] e.k = "Mod"     ->
           emit_bin_subs(a, b)
           \o Alu(ArithOp("Div", t.is_signed), X(t), 2, 0, 1)
           \o <<Ins("msub", X(t), 0, 2, 1, 0)>>
      [] e.k \in {"Add", "Sub", "Mul", "Div", "Shl", "Shr",
                  "BitAnd", "BitXor", "BitOr"} ->
           emit_bin_subs(a, b) \o Alu(ArithOp(e.k, IsSigned(t)), X(a.ty), 0, 0, 1)
      [] e.k \in {"Eq", "Ne", "Lt", "Le"} ->
           emit_bin_subs(a, b) \o <<Ins("cmp", X(a.ty), 0, 0, 1, 0)>>
           \o Cset(X(a.ty), CondOp(e.k, IsSigned(a.ty)))
      [] e.k \in {"And", "Or"} -> emit_logic(e)
      [] e.k \in {"PtrAdd", "PtrSub"} -> emit_ptr_add(e)
      [] e.k = "PtrDiff" -> emit_ptr_diff(e)
      [] e.k = "Cond"    -> emit_cond(e)
      [] e.k = "Assign"  -> emit_place_expr(a) \o emit_assign_to_addr(t, b)
      [] e.k = "Call"    -> emit_call(e)
      [] e.k = "Comma"   -> emit_expr(a) \o emit_expr(b)
      [] e.k = "Str"     -> emit_str_load(e.s)
      [] e.k = "VaStart" -> emit_va_start(e)
      [] e.k = "VaEnd"   -> <<>>
      [] e.k = "VaArg"   -> emit_place_expr(a) \o <<Ins("va_arg", 8, 0, 0, 0, 0)>> \o emit_load(t, 0, 0)
      [] OTHER -> Die

-----------------------------------------------------------------------------
(***************************************************************************)
(* emit_func, for a body that is one return statement (module StmtGen has  *)
(* the others).  Each register that may hold an argument is stored where   *)
(* p_decl has reserved room for it.                                        *)
(***************************************************************************)
PrologueStores(params, is_va, fr) ==
    LET n == Len(params)
    IN  FoldLeft(LAMBDA c, i : c \o emit_frame_store(SymTy[params[i]], fr.offs[params[i]], i - 1),
                 <<>>, [i \in 1 .. n |-> i])
        \o FoldLeft(LAMBDA c, i : c \o emit_frame_store(mk_ptr_ty(void_ty), fr.va_offs + (i - n) * 8, i),
                     <<>>, IF is_va THEN SaveArea(n) ELSE <<>>)

InFrame(f, fr, locals, body) ==
    <<Ins("label", 0, 0, 0, 0, f)>>
    \o locals \o Alu("subsp", 8, 0, 9, 0) \o Alu("pushfp", 8, 0, 0, 0) \o Alu("movfp", 8, 0, 0, 0)
    \o PrologueStores(Funcs[f].params, SymTy[f].is_va, fr)
    \o emit_expr(body)
    \o locals \o Alu("popfp", 8, 0, 0, 0) \o Alu("addsp", 8, 0, 9, 0) \o Alu("ret", 8, 0, 0, 0)

SizedFrame(f, fr, body) == InFrame(f, fr, emit_int_load(long_ty, fr.size - 16, 9), body)
emit_func(f, body) == SizedFrame(f, FrameOf(f), body)
=============================================================================
