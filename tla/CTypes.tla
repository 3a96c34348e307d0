------------------------------- MODULE CTypes -------------------------------
(***************************************************************************)
(* Types and two's complement arithmetic (compiler/smolcc1.c: struct ty,   *)
(* ty_size, the predicates, const_cast), and the nodes of expression       *)
(* trees.  A type is a record that is equal to another just if ty_eq says  *)
(* so, which is what interning makes of pointer equality.                  *)
(*                                                                         *)
(* Sizes are the program's: char 1, int 4, long and pointers 8 bytes.  A   *)
(* byte has ByteBits bits, 8 in the program, fewer when TLC is to see      *)
(* every boundary of every type.                                           *)
(***************************************************************************)
EXTENDS Integers, Sequences

CONSTANT ByteBits

ASSUME ByteBitsAssumption == ByteBits \in Nat \ {0}

Integer(width, is_signed) ==
    [kind |-> "integer", width |-> width, is_signed |-> is_signed]

char_ty  == Integer(1, TRUE)
uchar_ty == Integer(1, FALSE)
int_ty   == Integer(4, TRUE)
uint_ty  == Integer(4, FALSE)
long_ty  == Integer(8, TRUE)
ulong_ty == Integer(8, FALSE)
void_ty  == [kind |-> "void"]
va_list_ty == [kind |-> "va_list"]
no_ty    == [kind |-> "none"]      \* e->ty of a tree that is not elaborated

mk_ptr_ty(base)       == [kind |-> "ptr", base |-> base]
mk_arr_ty(base, n)    == [kind |-> "arr", base |-> base, len |-> n]
\* `members` maps the names of a defined struct to [ty, offs].
mk_struct_ty(members, size, align) ==
    [kind |-> "struct", members |-> members, size |-> size, align |-> align]
mk_func_ty(ret, params) ==
    [kind |-> "func", ret |-> ret, params |-> params, is_va |-> FALSE]
mk_va_func_ty(ret, params) == [mk_func_ty(ret, params) EXCEPT !.is_va = TRUE]

RECURSIVE ty_size(_)
ty_size(t) == CASE t.kind = "integer" -> t.width
                [] t.kind = "ptr"     -> 8
                [] t.kind = "arr"     -> ty_size(t.base) * t.len
                [] t.kind = "struct"  -> t.size
                [] t.kind = "va_list" -> 32
                [] OTHER              -> 0

RECURSIVE ty_align(_)
ty_align(t) == CASE t.kind = "arr"     -> ty_align(t.base)
                 [] t.kind = "struct"  -> t.align
                 [] t.kind = "va_list" -> 8
                 [] OTHER              -> ty_size(t)

is_integer_ty(t) == t.kind = "integer"
is_void_ty(t)    == t.kind = "void"
is_ptr_ty(t)     == t.kind = "ptr"
is_arr_ty(t)     == t.kind = "arr"
is_func_ty(t)    == t.kind = "func"
is_scalar(t)     == is_integer_ty(t) \/ is_ptr_ty(t)
is_void_ptr(t)   == is_ptr_ty(t) /\ is_void_ty(t.base)
is_obj_ty(t)     == ty_size(t) > 0

-----------------------------------------------------------------------------
\* The numbers that `width` bytes hold, as bit patterns and as two's
\* complement; a register holds 8 bytes.
Wrap(n, width)   == n % 2 ^ (width * ByteBits)
Signed(n, width) == LET m == 2 ^ (width * ByteBits)
                    IN  IF 2 * (n % m) >= m THEN (n % m) - m ELSE n % m
Reg(n)           == Wrap(n, 8)

\* The value of type t with bit pattern n.
ValueOf(t, n) == IF is_integer_ty(t) /\ t.is_signed
                 THEN Signed(n, t.width) ELSE Wrap(n, ty_size(t))

-----------------------------------------------------------------------------
\* A node: struct expr.  `v` is its number (Num, Chr), `s` its symbol (Var,
\* Func), its string's (Str) or its member's name (Member).
Node(k, ty, subs, v) == [k |-> k, ty |-> ty, subs |-> subs, v |-> v, s |-> ""]
Named(e, s)          == [e EXCEPT !.s = s]

is_lvalue(e)      == e.k \in {"Var", "Deref", "Member"}
is_addressable(e) == is_lvalue(e) \/ e.k \in {"Func", "Str"}
is_assignable(e)  == is_lvalue(e) /\ is_obj_ty(e.ty)

RECURSIVE is_null_ptr(_)
is_null_ptr(e) == \/ e.k = "Num" /\ e.v = 0
                  \/ e.k = "Cast" /\ is_void_ptr(e.ty) /\ is_null_ptr(e.subs[1])
=============================================================================
