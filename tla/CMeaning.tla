------------------------------ MODULE CMeaning ------------------------------
(***************************************************************************)
(* What C says an expression means, on the tree as it was written: its     *)
(* type, its value and its effect on memory.  This is the reference the    *)
(* compiled code is held to; it knows nothing of casts made explicit, of   *)
(* registers or of a stack.  Integers are numbers, not bit patterns;       *)
(* overflow wraps, and operands are evaluated from left to right (C leaves *)
(* both open, and smolcc does this).                                       *)
(***************************************************************************)
EXTENDS CTypes, SequencesExt, Bitwise

CONSTANTS SymTy, SymAddr,
          Funcs       \* the functions defined: [params, locals, body]

\* A state of the abstract machine: memory, and whether all was defined so far.
\* Of the calls in progress each has objects of its own (`own`, by addresses
\* that no memory has) and arguments without a name (`rest`); `fn` is the
\* function that runs and `at` where its objects begin.
OwnBase        == 50000
State(mem, ok) == [mem |-> mem, ok |-> ok, own |-> <<>>, fn |-> "", at |-> OwnBase, rest |-> <<>>]
Undefined(s)   == [s EXCEPT !.ok = FALSE]
Val(v, s)      == [v |-> v, s |-> s]

Decayed(t) == IF is_arr_ty(t) THEN mk_ptr_ty(t.base)
              ELSE IF is_func_ty(t) THEN mk_ptr_ty(t) ELSE t

Promoted(t) == IF is_integer_ty(t) /\ t.width < 4 THEN int_ty ELSE t

\* The usual arithmetic conversions (C11 6.3.1.8).
Usual(t1, t2) ==
    LET a == Promoted(t1)
        b == Promoted(t2)
    IN  IF a.width # b.width THEN IF a.width > b.width THEN a ELSE b
        ELSE IF a.is_signed THEN b ELSE a

IsNull(e) == is_null_ptr(e)

RECURSIVE TypeOf(_)
TypeOf(e) ==
    LET T(i) == Decayed(TypeOf(e.subs[i]))
    IN  CASE e.k \in {"Num", "Cast"} -> e.ty
          [] e.k = "Chr" -> int_ty
          [] e.k \in {"Var", "Func", "Str"} -> SymTy[e.s]
          [] e.k = "VaArg" -> e.ty
          [] e.k \in {"VaStart", "VaEnd"} -> void_ty
          [] e.k \in {"PostInc", "PostDec", "Assign"} -> T(1)
          [] e.k = "Comma"  -> T(2)
          [] e.k = "Call"   -> T(1).base.ret
          [] e.k = "Member" -> T(1).members[e.s].ty
          [] e.k = "Addr"   -> mk_ptr_ty(TypeOf(e.subs[1]))
          [] e.k = "Deref"  -> T(1).base
          [] e.k \in {"Neg", "BitNot", "Shl", "Shr"} -> Promoted(T(1))
          [] e.k \in {"Not", "And", "Or", "Eq", "Ne", "Lt", "Le"} -> int_ty
          [] e.k \in {"Add", "Sub"} /\ is_ptr_ty(T(1)) ->
               IF is_ptr_ty(T(2)) THEN long_ty ELSE T(1)
          [] e.k = "Add" /\ is_ptr_ty(T(2)) -> T(2)
          [] e.k = "Cond" ->
               IF is_integer_ty(T(2)) /\ is_integer_ty(T(3)) THEN Usual(T(2), T(3))
               ELSE IF is_ptr_ty(T(2)) /\ ~IsNull(e.subs[2]) THEN T(2) ELSE T(3)
          [] OTHER -> Usual(T(1), T(2))

-----------------------------------------------------------------------------
\* Little-endian objects in memory.
Bytes(t, a) == {a + i : i \in 0 .. ty_size(t) - 1}
There(t, a, s) == Bytes(t, a) \subseteq DOMAIN s.mem

Fetch(t, a, mem) ==
    ValueOf(t, FoldLeft(LAMBDA n, i : n * 2 ^ ByteBits + mem[a + ty_size(t) - i],
                        0, [i \in 1 .. ty_size(t) |-> i]))
Stored(t, a, v, mem) ==
    [c \in DOMAIN mem |->
       IF c \in Bytes(t, a) THEN (v \div 2 ^ (ByteBits * (c - a))) % 2 ^ ByteBits
       ELSE mem[c]]

Load(t, a, s)     == IF a \in DOMAIN s.own THEN Val(s.own[a], s)
                     ELSE IF There(t, a, s) THEN Val(Fetch(t, a, s.mem), s)
                     ELSE Val(0, Undefined(s))
Store(t, a, v, s) == IF a >= OwnBase
                     THEN Val(ValueOf(t, v), [s EXCEPT !.own = (a :> ValueOf(t, v)) @@ @])
                     ELSE IF There(t, a, s)
                     THEN Val(ValueOf(t, v), [s EXCEPT !.mem = Stored(t, a, v, @)])
                     ELSE Val(0, Undefined(s))

\* An object copied whole.
Copied(t, to, from, s) ==
    IF There(t, to, s) /\ There(t, from, s)
    THEN Val(to, [s EXCEPT !.mem = [c \in DOMAIN s.mem |->
                                      IF c \in Bytes(t, to) THEN s.mem[from + (c - to)]
                                      ELSE s.mem[c]]])
    ELSE Val(0, Undefined(s))

-----------------------------------------------------------------------------
Abs(n) == IF n < 0 THEN -n ELSE n
Quotient(x, y) == IF (x < 0) = (y < 0) THEN Abs(x) \div Abs(y)
                  ELSE -(Abs(x) \div Abs(y))

\* x op y for two numbers of type t, and when that is defined.
Arith(k, t, x, y) ==
    LET size  == ty_size(t)
        bx    == Wrap(x, size)
        by    == Wrap(y, size)
    IN  ValueOf(t, CASE k = "Add" -> x + y
                     [] k = "Sub" -> x - y
                     [] k = "Mul" -> Signed(x, size) * Signed(y, size)
                     [] k = "Div" -> Quotient(x, y)
                     [] k = "Mod" -> x - y * Quotient(x, y)
                     [] k = "Shl" -> Signed(x, size) * 2 ^ y
                     [] k = "Shr" -> x \div 2 ^ y
                     [] k = "BitAnd" -> bx & by
                     [] k = "BitOr"  -> bx | by
                     [] k = "BitXor" -> bx ^^ by)

ArithOk(k, t, y) ==
    /\ k \in {"Div", "Mod"} => y # 0
    /\ k \in {"Shl", "Shr"} => y >= 0 /\ y < ty_size(t) * ByteBits

Holds(k, x, y) == CASE k = "Eq" -> x = y [] k = "Ne" -> x # y
                    [] k = "Lt" -> x < y [] k = "Le" -> x <= y
Truth(b) == IF b THEN 1 ELSE 0

\* A foreign function: a result that depends on every argument and its place.
Called(func, args) ==
    ValueOf(func.ret, FoldLeft(LAMBDA n, i : n + (2 * i - 1) * args[i], 0,
                               [i \in DOMAIN args |-> i]))

\* Pointers to void, which have no size, are not counted with.
Counted(size, n, s) == IF size = 0 THEN Val(0, Undefined(s)) ELSE Val(n, s)

\* k of two numbers of type t, the second the value b converted to n2.
Numbers(k, t, n1, b, n2) ==
    CASE k \in {"Eq", "Ne", "Lt", "Le"} -> Val(Truth(Holds(k, n1, n2)), b.s)
      [] ArithOk(k, t, n2) -> Val(Arith(k, t, n1, n2), b.s)
      [] OTHER -> Val(0, Undefined(b.s))

\* Both operands of a binary operator put together: n1 of type t1 and then the
\* value b of type t2.
Combined(k, t1, t2, n1, b) ==
    CASE is_ptr_ty(t1) /\ is_integer_ty(t2) /\ k \in {"Add", "Sub"} ->
           LET step == IF k = "Add" THEN ty_size(t1.base) ELSE -ty_size(t1.base)
           IN  Counted(step, Reg(n1 + b.v * step), b.s)
      [] is_integer_ty(t1) /\ is_ptr_ty(t2) /\ k = "Add" ->
           Counted(ty_size(t2.base), Reg(b.v + n1 * ty_size(t2.base)), b.s)
      [] is_ptr_ty(t1) /\ is_ptr_ty(t2) /\ k = "Sub" ->
           Counted(ty_size(t1.base), Quotient(n1 - b.v, ty_size(t1.base)), b.s)
      [] (is_ptr_ty(t1) \/ is_ptr_ty(t2)) /\ k \in {"Eq", "Ne", "Lt", "Le"} ->
           Val(Truth(Holds(k, n1, b.v)), b.s)
      [] k \in {"Shl", "Shr"} -> Numbers(k, Promoted(t1), ValueOf(Promoted(t1), n1), b, b.v)
      [] OTHER -> LET t == Usual(t1, t2)
                  IN  Numbers(k, t, ValueOf(t, n1), b, ValueOf(t, b.v))

\* The value of an object of type t in the place p; a struct is its address.
Held(t, p) == IF is_scalar(t) THEN Load(t, p.v, p.s) ELSE p

\* v into the place p, which was found before v was computed.
Assigned(t, p, v) == IF is_scalar(t) THEN Store(t, p.v, v.v, v.s)
                     ELSE Copied(t, p.v, v.v, v.s)

\* The old value of type t from the place p, where now old + step is.
Stepped(t, p, old, step) == Val(old.v, Store(t, p.v, old.v + step, old.s).s)

UnaryOp(k, t, n) == CASE k = "Cast"   -> ValueOf(t, n)
                      [] k = "Neg"    -> ValueOf(t, -n)
                      [] k = "BitNot" -> ValueOf(t, -1 - n)
                      [] k = "Not"    -> Truth(n = 0)

AsTruth(a) == Val(Truth(a.v # 0), a.s)
AsType(t, a) == Val(IF is_void_ty(t) THEN 0 ELSE ValueOf(t, a.v), a.s)

\* The objects of a function, in order, and where the one of s's call is.
Own(f)            == IF f \in DOMAIN Funcs THEN Funcs[f].params \o Funcs[f].locals ELSE <<>>
OwnPlace(s, name) == s.at + (CHOOSE i \in DOMAIN Own(s.fn) : Own(s.fn)[i] = name)
Place(s, name)    == IF Contains(Own(s.fn), name) THEN OwnPlace(s, name) ELSE SymAddr[name]

\* The next argument without a name, which must be of the type asked for.
VaNext(t, a, s) ==
    IF a \in DOMAIN s.own /\ s.own[a] # <<>> /\ s.own[a][1].ty = t
    THEN Val(s.own[a][1].v, [s EXCEPT !.own[a] = Tail(@)])
    ELSE Val(0, Undefined(s))

\* The type an argument of type t is passed as: its parameter's, or its own,
\* promoted.
PassedAs(params, i, t)   == IF i <= Len(params) THEN params[i] ELSE Promoted(Decayed(t))
Passed(t, v)             == [ty |-> t, v |-> ValueOf(t, v)]
Prepended(arg, rest)     == Val(<<arg>> \o rest.v, rest.s)

RECURSIVE ValueIn(_, _), PlaceIn(_, _), ArgsIn(_, _, _), ArgsAfter(_, _, _), After(_, _)

PlaceIn(e, s) ==
    CASE e.k \in {"Var", "Func", "Str"} -> Val(Place(s, e.s), s)
      [] e.k = "Member" ->
           LET p == PlaceIn(e.subs[1], s)
           IN  Val(p.v + TypeOf(e.subs[1]).members[e.s].offs, p.s)
      [] OTHER -> ValueIn(IF e.k = "Deref" THEN e.subs[1] ELSE e, s)

\* The arguments from the i-th on, converted to the types of the parameters.
ArgsIn(e, i, s) == IF i >= Len(e.subs) THEN Val(<<>>, s)
                   ELSE ArgsAfter(e, i, ValueIn(e.subs[i + 1], s))
ArgsAfter(e, i, a) ==
    Prepended(Passed(PassedAs(SymTy[e.subs[1].s].params, i, TypeOf(e.subs[i + 1])), a.v),
              ArgsIn(e, i + 1, a.s))

\* What is left of e once its first operand has the value a.
After(e, a) ==
    CASE e.k \in {"Cast", "Neg", "BitNot", "Not"} -> Val(UnaryOp(e.k, TypeOf(e), a.v), a.s)
      [] e.k \in {"And", "Or"} -> AsTruth(IF (a.v # 0) = (e.k = "Or") THEN a
                                           ELSE ValueIn(e.subs[2], a.s))
      [] e.k = "Cond"  -> AsType(TypeOf(e), ValueIn(e.subs[IF a.v # 0 THEN 2 ELSE 3], a.s))
      [] e.k = "Comma" -> ValueIn(e.subs[2], a.s)
      [] OTHER -> Combined(e.k, Decayed(TypeOf(e.subs[1])), Decayed(TypeOf(e.subs[2])),
                           a.v, ValueIn(e.subs[2], a.s))

IncIn(e, t, p) ==
    LET size == IF is_ptr_ty(t) THEN ty_size(t.base) ELSE 1
    IN  Stepped(t, p, Load(t, p.v, p.s), IF e.k = "PostInc" THEN size ELSE -size)

\* A function that is defined is run on its own objects, which end with it.
OwnArgs(at, n, args) == [a \in at + 1 .. at + n |-> args[a - at].v]
Begun(f, at, args, n, s) ==
    [s EXCEPT !.own = OwnArgs(at, n, args) @@ @, !.fn = f, !.at = at,
              !.rest = SubSeq(args, n + 1, Len(args))]

Ended(s, t) ==
    [t EXCEPT !.own = [a \in {b \in DOMAIN @ : b <= t.at} |-> @[a]], !.fn = s.fn, !.at = s.at, !.rest = s.rest]

Returned(f, s, r) == Val(ValueOf(SymTy[f].ret, r.v), Ended(s, r.s))

RunIn(f, args, s) ==
    Returned(f, s, ValueIn(Funcs[f].body, Begun(f, s.at + Len(Own(s.fn)), args, Len(Funcs[f].params), s)))

CallIn(f, args) ==
    IF f \in DOMAIN Funcs THEN RunIn(f, args.v, args.s)
    ELSE Val(Called(SymTy[f], [i \in DOMAIN args.v |-> args.v[i].v]), args.s)

VaIn(e, p) ==
    CASE e.k = "VaStart" -> Val(0, [p.s EXCEPT !.own = (p.v :> p.s.rest) @@ @])
      [] e.k = "VaArg"   -> VaNext(e.ty, p.v, p.s)
      [] e.k = "VaEnd"   -> Val(0, [p.s EXCEPT !.own = [a \in DOMAIN @ \ {p.v} |-> @[a]]])

AssignIn(e, p) == Assigned(TypeOf(e.subs[1]), p, ValueIn(e.subs[2], p.s))

ValueIn(e, s) ==
    CASE is_lvalue(e) -> Held(TypeOf(e), PlaceIn(e, s))
      [] e.k \in {"Num", "Chr"} -> Val(e.v, s)
      [] e.k \in {"Addr", "Func", "Str"} -> PlaceIn(IF e.k = "Addr" THEN e.subs[1] ELSE e, s)
      [] e.k \in {"VaStart", "VaArg", "VaEnd"} -> VaIn(e, PlaceIn(e.subs[1], s))
      [] e.k = "Assign" -> AssignIn(e, PlaceIn(e.subs[1], s))
      [] e.k \in {"PostInc", "PostDec"} ->
           IncIn(e, TypeOf(e.subs[1]), PlaceIn(e.subs[1], s))
      [] e.k = "Call" -> CallIn(e.subs[1].s, ArgsIn(e, 1, s))
      [] OTHER -> After(e, ValueIn(e.subs[1], s))
=============================================================================
