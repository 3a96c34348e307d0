------------------------------ MODULE Machine -------------------------------
(***************************************************************************)
(* Compiled expressions at work: a tree, with the functions that it calls, *)
(* is elaborated (Elab), compiled (Codegen) and run by the part of an      *)
(* AArch64 core that smolcc's code uses, with the helpers _memcpy and      *)
(* _va_arg that the compiler appends to its output.  What comes out is     *)
(* held to C's meaning of the tree (CMeaning).                             *)
(***************************************************************************)
EXTENDS Codegen

CONSTANTS Exprs,     \* the trees that the parser may hand over
          Mems,      \* the contents of memory they may meet
          FP         \* x29 and sp, where the frame of the tree's function is

VARIABLES src,       \* the tree as parsed
          start,     \* memory before the code runs
          tree,      \* the tree elaborated
          code, pc,  \* the code, and the instruction that is next
          x,         \* registers x0 to x9, x29 and x30
          flags,     \* what the last cmp compared: two numbers of width w
          sp,
          mem,       \* memory: a function from addresses to bytes, from sp up
          phase      \* "parsed", "elaborated", "run", "done", "rejected",
                     \* "died", "trap"

vars == <<ptr_is_signed, src, start, tree, code, pc, x, flags, sp, mem, phase>>
cpu  == <<x, flags, sp, mem>>
unit == <<ptr_is_signed, src, start, tree, code>>

\* The offsets of the functions' objects are those that they were declared at.
ASSUME FramesAssumption == \A f \in DOMAIN Funcs : \A s \in DOMAIN FrameOf(f).offs :
                              SymAt[s] = FrameOf(f).offs[s]

SymAddr == [s \in DOMAIN SymAt |-> IF s \in Frame THEN FP + SymAt[s] ELSE SymAt[s]]

C == INSTANCE CMeaning

RegNums == (0 .. 9) \cup {29, 30}
Junk    == 2 ^ (8 * ByteBits) - 1     \* what a call leaves in a register

Init == /\ src \in Exprs /\ start \in Mems /\ ptr_is_signed \in BOOLEAN
        /\ tree = src /\ code = <<>> /\ pc = 1
        /\ x = [r \in RegNums |-> IF r = 29 THEN FP ELSE Junk] /\ flags = [a |-> 0, b |-> 0, w |-> 8]
        /\ sp = FP /\ mem = start
        /\ phase = "parsed"

-----------------------------------------------------------------------------
\* The functions that trees call, and those that these call.
RECURSIVE Callees(_)
Callees(e) == (IF e.k = "Func" THEN {e.s} \cap DOMAIN Funcs ELSE {})
              \cup UNION {Callees(e.subs[i]) : i \in DOMAIN e.subs}
RECURSIVE Linked(_)
Linked(fs) == LET more == fs \cup UNION {Callees(Funcs[f].body) : f \in fs}
              IN  IF more = fs THEN fs ELSE Linked(more)

\* return statements are elaborated for the type that their function returns.
Body(f) == elab_expr_expect(Funcs[f].body, IF SymTy[f].is_va THEN LastParam(f) ELSE NoParam, SymTy[f].ret)

Elaborate ==
    /\ phase = "parsed"
    /\ tree' = elab_rvalue_expr(src, NoParam)
    /\ phase' = IF tree' = Error \/ \E f \in Linked(Callees(src)) : Body(f) = Error
                THEN "rejected" ELSE "elaborated"
    /\ UNCHANGED <<ptr_is_signed, src, start, code, pc, cpu>>

\* Where the code of a function begins.
Entry(c, f) == CHOOSE i \in DOMAIN c : c[i].op = "label" /\ c[i].imm = f

\* The functions come before the tree's own code, which has no name.
Emit ==
    /\ phase = "elaborated"
    /\ LET fs == SetToSeq(Linked(Callees(src)))
       IN  code' = FlattenSeq([i \in DOMAIN fs |-> emit_func(fs[i], Body(fs[i]))])
                   \o <<Ins("label", 0, 0, 0, 0, "")>> \o emit_expr(tree)
    /\ pc' = Entry(code', "") + 1
    /\ phase' = IF \E i \in DOMAIN code' : code'[i].op = "die" THEN "died" ELSE "run"
    /\ UNCHANGED <<ptr_is_signed, src, start, tree, cpu>>

Running(ops) == phase = "run" /\ pc <= Len(code) /\ code[pc].op \in ops
ins          == code[pc]

SetReg(r, w, v) == x' = [x EXCEPT ![r] = Wrap(v, w)]
Next1           == pc' = pc + 1

-----------------------------------------------------------------------------
(***************************************************************************)
(* Instructions on registers.  A w-register is the low half; writing it    *)
(* clears the high half.                                                   *)
(***************************************************************************)
\* The amount of a shift counts modulo the width; division by 0 gives 0.
AluResult(op, w, a, b) ==
    LET n == b % (w * ByteBits)
        u == Wrap(a, w)
        v == Wrap(b, w)
    IN  CASE op = "add" -> a + b
          [] op = "sub" -> a - b
          [] op = "mul" -> Signed(a, w) * Signed(b, w)
          [] op = "and" -> u & v
          [] op = "orr" -> u | v
          [] op = "eor" -> u ^^ v
          [] op = "lsl" -> (u % 2 ^ (w * ByteBits - n)) * 2 ^ n
          [] op = "lsr" -> u \div 2 ^ n
          [] op = "asr" -> Signed(a, w) \div 2 ^ n
          [] op = "udiv" -> IF v = 0 THEN 0 ELSE u \div v
          [] op = "sdiv" -> IF v = 0 THEN 0
                            ELSE C!Quotient(Signed(a, w), Signed(b, w))
          [] op = "mvn" -> -1 - a
          [] op = "neg" -> -a

AluOps == {"add", "sub", "mul", "and", "orr", "eor", "lsl", "lsr", "asr",
           "udiv", "sdiv", "mvn", "neg"}

Compute ==
    /\ Running(AluOps)
    /\ SetReg(ins.d, ins.w, AluResult(ins.op, ins.w, x[ins.a], x[ins.b]))
    /\ Next1 /\ UNCHANGED <<unit, flags, sp, mem, phase>>

\* msub w0, w2, w1, w0
MultiplySubtract ==
    /\ Running({"msub"})
    /\ SetReg(ins.d, ins.w, x[0] - Signed(x[ins.a], ins.w) * Signed(x[ins.b], ins.w))
    /\ Next1 /\ UNCHANGED <<unit, flags, sp, mem, phase>>

MovkResult(old, i, chunk) ==
    LET unit_i == ChunkVals ^ i
    IN  old + (chunk - ((old \div unit_i) % ChunkVals)) * unit_i

MoveResult ==
    CASE ins.op = "mov"   -> x[ins.a]
      [] ins.op = "movi"  -> ins.imm
      [] ins.op = "movk"  -> MovkResult(x[ins.d], ins.b, ins.imm)
      [] ins.op = "addfp" -> x[29] + x[ins.a]
      [] ins.op = "addfpi" -> x[29] + ins.imm
      [] ins.op \in {"adr", "got"} -> ins.imm
      [] ins.op = "sxtb"  -> Signed(x[ins.a], 1)
      [] ins.op = "uxtb"  -> Wrap(x[ins.a], 1)
      [] ins.op = "sxtw"  -> Signed(x[ins.a], 4)
      [] ins.op = "uxtw"  -> Wrap(x[ins.a], 4)

Move ==
    /\ Running({"mov", "movi", "movk", "addfp", "addfpi", "adr", "got",
                "sxtb", "uxtb", "sxtw", "uxtw"})
    /\ SetReg(ins.d, ins.w, MoveResult)
    /\ Next1 /\ UNCHANGED <<unit, flags, sp, mem, phase>>

Compare ==
    /\ Running({"cmp", "cmp0"})
    /\ flags' = [a |-> Wrap(x[ins.a], ins.w), w |-> ins.w,
                 b |-> IF ins.op = "cmp0" THEN 0 ELSE Wrap(x[ins.b], ins.w)]
    /\ Next1 /\ UNCHANGED <<unit, x, sp, mem, phase>>

Condition(op) ==
    LET a == flags.a
        b == flags.b
    IN  CASE op = "eq" -> a = b  [] op = "ne" -> a # b
          [] op = "lo" -> a < b  [] op = "ls" -> a <= b
          [] op = "lt" -> Signed(a, flags.w) < Signed(b, flags.w)
          [] op = "le" -> Signed(a, flags.w) <= Signed(b, flags.w)

SetCondition ==
    /\ Running({"eq", "ne", "lo", "ls", "lt", "le"})
    /\ SetReg(ins.d, ins.w, IF Condition(ins.op) THEN 1 ELSE 0)
    /\ Next1 /\ UNCHANGED <<unit, flags, sp, mem, phase>>

Branch ==
    /\ Running({"b", "cbz", "cbnz"})
    /\ LET zero  == Wrap(x[ins.a], ins.w) = 0
           taken == ins.op = "b" \/ (ins.op = "cbz") = zero
       IN  pc' = pc + 1 + IF taken THEN ins.imm ELSE 0
    /\ UNCHANGED <<unit, cpu, phase>>

-----------------------------------------------------------------------------
(***************************************************************************)
(* The stack: memory begins at sp, and a byte that comes into use holds 1, *)
(* for what the last use of it left there.  A push takes 16 bytes.         *)
(***************************************************************************)
AtSp(top, m)       == [a \in (top .. FP - 1) \cup DOMAIN start |-> IF a \in DOMAIN m THEN m[a] ELSE 1]
Word(a, v, m)      == C!Stored(ulong_ty, a, v, m)
WordAt(a)          == C!Fetch(ulong_ty, a, mem)
Pushed(v)          == sp' = sp - 16 /\ mem' = Word(sp - 16, v, AtSp(sp - 16, mem))
Popped             == sp' = sp + 16 /\ mem' = AtSp(sp + 16, mem)

Push == /\ Running({"push"})
        /\ Pushed(x[ins.a])
        /\ Next1 /\ UNCHANGED <<unit, x, flags, phase>>

Pop == /\ Running({"pop", "peek"})
       /\ sp < FP
       /\ x' = [x EXCEPT ![ins.d] = WordAt(sp)]
       /\ IF ins.op = "peek" THEN UNCHANGED <<sp, mem>> ELSE Popped
       /\ Next1 /\ UNCHANGED <<unit, flags, phase>>

\* stp x29, x30, [sp, #-16]!  and  mov x29, sp
PushFrame == /\ Running({"pushfp"})
             /\ sp' = sp - 16
             /\ mem' = Word(sp - 8, x[30], Word(sp - 16, x[29], AtSp(sp - 16, mem)))
             /\ Next1 /\ UNCHANGED <<unit, x, flags, phase>>

EnterFrame == /\ Running({"movfp"})
              /\ SetReg(29, 8, sp)
              /\ Next1 /\ UNCHANGED <<unit, flags, sp, mem, phase>>

\* ldp x29, x30, [sp], #16
PopFrame == /\ Running({"popfp"})
            /\ x' = [x EXCEPT ![29] = WordAt(sp), ![30] = WordAt(sp + 8)]
            /\ Popped
            /\ Next1 /\ UNCHANGED <<unit, flags, phase>>

MoveSp == /\ Running({"subsp", "addsp"})
          /\ sp' = IF ins.op = "subsp" THEN sp - x[ins.a] ELSE sp + x[ins.a]
          /\ mem' = AtSp(sp', mem)
          /\ Next1 /\ UNCHANGED <<unit, x, flags, phase>>

\* The type that a load or store instruction moves.
Moved(i) == CASE i.op = "ldrsb" -> char_ty
              [] i.op \in {"ldrb", "strb"} -> uchar_ty
              [] i.op \in {"ldr", "str"} -> IF i.w = 8 THEN ulong_ty ELSE uint_ty

PairType(i) == mk_arr_ty(IF i.w = 8 THEN ulong_ty ELSE uint_ty, 2)
Object(n)   == mk_arr_ty(uchar_ty, n)

\* The bytes that an instruction, or a helper, loads and stores.
Loads   == {"ldr", "ldrb", "ldrsb"}
Stores  == {"str", "strb"}
MemOps  == Loads \cup Stores \cup {"stpz", "memcpy", "va_arg"}
Touched(i) ==
    CASE i.op \in Loads   -> C!Bytes(Moved(i), x[i.a])
      [] i.op \in Stores  -> C!Bytes(Moved(i), x[i.b])
      [] i.op = "stpz"    -> C!Bytes(PairType(i), x[i.b] + i.imm)
      [] i.op = "memcpy"  -> C!Bytes(Object(x[2]), x[0]) \cup C!Bytes(Object(x[2]), x[1])
      [] i.op = "va_arg"  -> C!Bytes(va_list_ty, x[0])
Accessible == Touched(ins) \subseteq DOMAIN mem

LoadMem ==
    /\ Running(Loads) /\ Accessible
    /\ SetReg(ins.d, ins.w, C!Fetch(Moved(ins), x[ins.a], mem))
    /\ Next1 /\ UNCHANGED <<unit, flags, sp, mem, phase>>

StoreMem ==
    /\ Running(Stores) /\ Accessible
    /\ mem' = C!Stored(Moved(ins), x[ins.b], x[ins.a], mem)
    /\ Next1 /\ UNCHANGED <<unit, x, flags, sp, phase>>

\* stp x1, xzr, [x0, #8]  and the like
StorePair ==
    /\ Running({"stpz"}) /\ Accessible
    /\ LET t == PairType(ins).base
           a == x[ins.b] + ins.imm
       IN  mem' = C!Stored(t, a + ins.w, 0, C!Stored(t, a, x[ins.a], mem))
    /\ Next1 /\ UNCHANGED <<unit, x, flags, sp, phase>>

\* The loop of _memcpy copies byte by byte, upwards; x0 keeps its value.
CopyRange(to, from, n) ==
    FoldLeft(LAMBDA m, i : [m EXCEPT ![to + i - 1] = m[from + i - 1]],
             mem, [i \in 1 .. n |-> i])

MemCopy ==
    /\ Running({"memcpy"}) /\ Accessible
    /\ mem' = CopyRange(x[0], x[1], x[2])
    /\ x' = [r \in RegNums |-> IF r \in 1 .. 4 THEN Junk ELSE IF r = 30 THEN pc + 1 ELSE x[r]]
    /\ Next1 /\ UNCHANGED <<unit, flags, sp, phase>>

\* _va_arg takes a va_list in x0 and answers where the argument is.
GrTop(ap)  == C!Fetch(ulong_ty, ap + 8, mem)
GrOffs(ap) == C!Fetch(int_ty, ap + 24, mem)
VaArg ==
    /\ Running({"va_arg"}) /\ Accessible
    /\ LET here == Wrap(GrTop(x[0]) + GrOffs(x[0]), 8)
       IN  x' = [r \in RegNums |-> IF r \in {0, 3} THEN here
                                   ELSE IF r = 1 THEN Wrap(GrOffs(x[0]) + 8, 4)
                                   ELSE IF r = 2 THEN GrTop(x[0])
                                   ELSE IF r = 30 THEN pc + 1 ELSE x[r]]
    /\ mem' = C!Stored(int_ty, x[0] + 24, GrOffs(x[0]) + 8, mem)
    /\ Next1 /\ UNCHANGED <<unit, flags, sp, phase>>

Trap ==
    /\ Running(MemOps) /\ ~Accessible
    /\ phase' = "trap"
    /\ UNCHANGED <<unit, pc, cpu>>

\* bl to a function of this file, and its return
CallFunc == /\ Running({"bl"}) /\ ins.imm \in DOMAIN Funcs
            /\ x' = [x EXCEPT ![30] = pc + 1]
            /\ pc' = Entry(code, ins.imm) + 1
            /\ UNCHANGED <<unit, flags, sp, mem, phase>>

Return == /\ Running({"ret"})
          /\ pc' = x[30]
          /\ UNCHANGED <<unit, cpu, phase>>

\* One of another file takes its arguments from x0 on by the types of its
\* parameters, and may leave anything in the registers but its result in x0.
CallForeign ==
    /\ Running({"bl"}) /\ ins.imm \notin DOMAIN Funcs
    /\ LET func == SymTy[ins.imm]
           args == [i \in DOMAIN func.params |-> ValueOf(func.params[i], x[i - 1])]
       IN  x' = [r \in RegNums |-> IF r = 0 THEN Wrap(C!Called(func, args), X(func.ret))
                                   ELSE IF r = 29 THEN x[r] ELSE Junk]
    /\ Next1 /\ UNCHANGED <<unit, flags, sp, mem, phase>>

Finish ==
    /\ phase = "run" /\ pc > Len(code)
    /\ phase' = "done"
    /\ UNCHANGED <<unit, pc, cpu>>

Next == \/ Elaborate \/ Emit \/ Compute \/ MultiplySubtract \/ Move \/ Compare
        \/ SetCondition \/ Branch \/ Push \/ Pop \/ LoadMem \/ StoreMem \/ StorePair
        \/ PushFrame \/ EnterFrame \/ PopFrame \/ MoveSp
        \/ MemCopy \/ VaArg \/ Trap \/ CallFunc \/ Return \/ CallForeign \/ Finish

Spec == Init /\ [][Next]_vars

-----------------------------------------------------------------------------
\* Registers hold 8 bytes, memory holds bytes, jumps stay in the code.
TypeOK ==
    /\ \A r \in RegNums : x[r] \in 0 .. Junk
    /\ \A a \in DOMAIN mem : mem[a] \in 0 .. 2 ^ ByteBits - 1
    /\ DOMAIN mem = DOMAIN start \cup sp .. FP - 1
    /\ phase \in {"run", "done"} => pc \in 1 .. Len(code) + 1

Meaning == C!ValueIn(src, C!State(start, TRUE))
CType   == C!Decayed(C!TypeOf(src))

\* Whenever C defines the expression and elab accepts it, there is code for it;
\* the code runs to its end and leaves the expression's value in x0, or the
\* address of the struct that it is.
Leaves(m) == m.s.ok => /\ phase = "done"
                       /\ is_scalar(CType) => ValueOf(CType, x[0]) = m.v
                       /\ CType.kind = "struct" => x[0] = m.v
ResultIsMeaning == phase \in {"done", "trap", "died"} => Leaves(Meaning)

\* Whenever C defines the expression, the code changes memory as the
\* expression does: the right object, all of it, nothing else, and no operand
\* that && || ?: must skip.
Changed(m) == m.s.ok => mem = m.s.mem
EffectsAsMeant == phase = "done" => Changed(Meaning)

\* Every path through the code pops what it pushed and nothing more, and every
\* function what is in its frame, so that its caller finds its own again; sp
\* always is a multiple of 16, or loads and stores through it trap.
StackBalanced ==
    /\ phase = "done" => sp = FP /\ x[29] = FP
    /\ Running({"pop"}) => sp < FP
    /\ sp % 16 = 0

\* What eval makes of a constant expression is what the code would have
\* computed: an array's length does not depend on where it is computed.
FoldAgrees ==
    phase = "done" /\ is_integer_ty(tree.ty) /\ eval(tree) # NotConst =>
        eval(tree) = Reg(ValueOf(tree.ty, x[0]))

\* A value that is narrower than a register leaves the rest of x0 clear.  The
\* test of && and || in the wider class of the second operand relies on it.
UpperHalfClear ==
    phase = "done" /\ is_scalar(tree.ty) /\ X(tree.ty) = 4 => x[0] = Wrap(x[0], 4)
=============================================================================
