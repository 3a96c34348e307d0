------------------------------- MODULE Layout -------------------------------
(***************************************************************************)
(* Where objects live (compiler/smolcc1.c: declare, p_struct, the parts of *)
(* p_decl that build a function's frame, emit_func).  A struct tag and a   *)
(* function are both "owners": symbols with a running size and align to    *)
(* which declare adds one member (field, parameter or local) at a time.    *)
(* The parser is recursive: while the body of one struct is being parsed,  *)
(* other struct bodies open and close inside it.                           *)
(*                                                                         *)
(* Names are left out (module Linkage has them): every member is new.      *)
(***************************************************************************)
EXTENDS Integers, Sequences, FiniteSets

CONSTANTS Tags,       \* struct tags
          Func,       \* the function whose frame is being laid out
          Widths,     \* widths of the scalars the program uses
          ArrLens,    \* array lengths of the program, as p_const_expr gives them
          MaxMembers  \* bound on the members of each owner

ASSUME FuncAssumption == Func \notin Tags
ASSUME WidthsAssumption == Widths \subseteq {1, 4, 8}
ASSUME LensAssumption == ArrLens \subseteq Int

MAX_FUNC_PARAMS == 8

VARIABLES size, align,     \* sym->size and sym->align of every owner
          is_defined,      \* sym->is_defined of every tag
          declared,        \* tags already in the symbol table
          members,         \* what sym->scope holds, in order of declaration
          open,            \* struct bodies being parsed, innermost last
          phase,           \* where the parser is in the function
          n_params, va_offs, va_size,
          status           \* "ok", "rejected" by err_at, or "trap"

vars == <<size, align, is_defined, declared, members, open, phase,
          n_params, va_offs, va_size, status>>

Owners == Tags \cup {Func}

-----------------------------------------------------------------------------
(***************************************************************************)
(* Types.  Pointers and integers differ here only by their width.          *)
(***************************************************************************)
Scalars == [kind : {"scalar"}, width : Widths]
VaList  == [kind |-> "va_list"]
Structs == [kind : {"struct"}, tag : Tags]
Elems   == Scalars \cup {VaList} \cup Structs
Arrays  == [kind : {"arr"}, base : Elems, arr_len : ArrLens]
Types   == Elems \cup Arrays

ElemSize(t) == IF t.kind = "scalar" THEN t.width
               ELSE IF t.kind = "va_list" THEN 32
               ELSE IF is_defined[t.tag] THEN size[t.tag] ELSE 0

ElemAlign(t) == IF t.kind = "scalar" THEN t.width
                ELSE IF t.kind = "va_list" THEN 8
                ELSE IF is_defined[t.tag] THEN align[t.tag] ELSE 0

ElemOf(t) == IF t.kind = "arr" THEN t.base ELSE t

ty_size(t)  == IF t.kind = "arr" THEN ElemSize(t.base) * t.arr_len
                                 ELSE ElemSize(t)
ty_align(t) == ElemAlign(ElemOf(t))

is_obj_ty(t) == ty_size(t) > 0

align_up_floor(n, a) == (n \div a) * a    \* mutant: rounds down
align_up(n, a)       == ((n + a - 1) \div a) * a

Max2(a, b) == IF a < b THEN b ELSE a

-----------------------------------------------------------------------------
(***************************************************************************)
(* declare(), for a member: reserve ty_size bytes at the next aligned      *)
(* offset of the owner.  The member remembers the size and alignment that  *)
(* declare used, and whether its type was still being parsed.              *)
(***************************************************************************)
OffsFor_packed(o, t) == size[o]            \* mutant: offset not aligned
OffsFor(o, t)        == align_up(size[o], ty_align(t))

SizeAfter_lost(o, t) == OffsFor(o, t)      \* mutant: size not reserved
SizeAfter(o, t)      == OffsFor(o, t) + ty_size(t)

BeingParsed(t) == /\ ElemOf(t).kind = "struct"
                  /\ \E i \in 1 .. Len(open) : open[i] = ElemOf(t).tag

NewMember(o, t) == [offs |-> OffsFor(o, t), sz |-> ty_size(t),
                    al |-> ty_align(t), ty |-> t, early |-> BeingParsed(t)]

declare(o, t) ==
    /\ Len(members[o]) < MaxMembers[o]
    /\ members' = [members EXCEPT ![o] = Append(@, NewMember(o, t))]
    /\ size'    = [size EXCEPT ![o] = SizeAfter(o, t)]
    /\ align'   = [align EXCEPT ![o] = Max2(@, ty_align(t))]

Reject == /\ status' = "rejected"
          /\ UNCHANGED <<size, align, is_defined, declared, members, open,
                         phase, n_params, va_offs, va_size>>

Init == /\ size = [o \in Owners |-> 0]
        /\ align = [o \in Owners |-> 0]
        /\ is_defined = [s \in Tags |-> FALSE]
        /\ declared = {}
        /\ members = [o \in Owners |-> <<>>]
        /\ open = <<>>
        /\ phase = "none"
        /\ n_params = 0 /\ va_offs = 0 /\ va_size = 0
        /\ status = "ok"

-----------------------------------------------------------------------------
(***************************************************************************)
(* Structs.                                                                *)
(***************************************************************************)
Running == status = "ok" /\ phase \notin {"params", "emitted"}

Redefines_never(s) == FALSE      \* mutant: the conflict test is missing
Redefines(s)       == s \in declared /\ is_defined[s]

\* `struct s` where s is unknown: declare with is_def = 0.
ForwardStruct(s) ==
    /\ Running
    /\ s \notin declared
    /\ declared' = declared \cup {s}
    /\ UNCHANGED <<size, align, is_defined, members, open, phase,
                   n_params, va_offs, va_size, status>>

\* `struct s {`: declare with is_def = 1 and an empty scope.  An unknown tag is
\* defined at once; one declared before becomes defined only at its `}`.
OpenStruct(s) ==
    /\ Running
    /\ ~Redefines(s)
    /\ Len(open) < Cardinality(Tags)
    /\ is_defined' = [is_defined EXCEPT ![s] = @ \/ s \notin declared]
    /\ declared' = declared \cup {s}
    /\ members' = [members EXCEPT ![s] = <<>>]
    /\ open' = Append(open, s)
    /\ UNCHANGED <<size, align, phase, n_params, va_offs, va_size, status>>

RedefineStruct(s) == Running /\ Redefines(s) /\ Reject

Innermost == open[Len(open)]

DeclareField(t) ==
    /\ Running
    /\ open # <<>>
    /\ is_obj_ty(t)
    /\ declare(Innermost, t)
    /\ UNCHANGED <<is_defined, declared, open, phase,
                   n_params, va_offs, va_size, status>>

RejectField(t) == Running /\ open # <<>> /\ ~is_obj_ty(t) /\ Reject

ClosedSize(s) == align_up(size[s], align[s])

\* `}`: the struct is complete and padded to its alignment.
CloseStruct ==
    /\ Running
    /\ open # <<>>
    /\ LET s == Innermost
       IN  /\ align[s] # 0
           /\ is_defined' = [is_defined EXCEPT ![s] = TRUE]
           /\ size' = [size EXCEPT ![s] = ClosedSize(s)]
    /\ open' = SubSeq(open, 1, Len(open) - 1)
    /\ UNCHANGED <<align, declared, members, phase,
                   n_params, va_offs, va_size, status>>

\* `struct s {}`: align_up(0, 0) divides by zero.  AArch64's sdiv gives 0 and
\* the struct has size 0; on x86 the compiler is killed by the trap.
CloseEmptyStruct ==
    /\ Running
    /\ open # <<>>
    /\ align[Innermost] = 0
    /\ \/ /\ is_defined' = [is_defined EXCEPT ![Innermost] = TRUE]
          /\ size' = [size EXCEPT ![Innermost] = 0]
          /\ open' = SubSeq(open, 1, Len(open) - 1)
          /\ UNCHANGED status
       \/ /\ status' = "trap"
          /\ UNCHANGED <<is_defined, size, open>>
    /\ UNCHANGED <<align, declared, members, phase, n_params, va_offs, va_size>>

-----------------------------------------------------------------------------
(***************************************************************************)
(* A function's frame.  The first 16 bytes are the frame record (x29 and   *)
(* x30); then come the parameters, the save area of the variadic argument  *)
(* registers, and the locals of all blocks.                                *)
(***************************************************************************)
FrameRecord      == 16

OpenFunc ==
    /\ status = "ok" /\ phase = "none" /\ open = <<>>
    /\ phase' = "params"
    /\ size' = [size EXCEPT ![Func] = FrameRecord]
    /\ UNCHANGED <<align, is_defined, declared, members, open,
                   n_params, va_offs, va_size, status>>

DeclareParam(t) ==
    /\ status = "ok" /\ phase = "params"
    /\ n_params < MAX_FUNC_PARAMS
    /\ declare(Func, t)
    /\ n_params' = n_params + 1
    /\ UNCHANGED <<is_defined, declared, open, phase, va_offs, va_size, status>>

\* mutant: subtraction swapped
VaSize_swapped(is_va) == IF is_va THEN 8 * (n_params - MAX_FUNC_PARAMS) ELSE 0
VaSize(is_va) == IF is_va THEN 8 * (MAX_FUNC_PARAMS - n_params) ELSE 0

VaEnd_short(is_va) == align_up(size[Func], 8)     \* mutant: area not reserved
VaEnd(is_va)       == align_up(size[Func], 8) + VaSize(is_va)

\* A `...` needs a parameter before it, and fails as the ninth (p_decl counts
\* it as a parameter before it looks for the dots).
EnterBody(is_va) ==
    /\ status = "ok" /\ phase = "params"
    /\ is_va => n_params \in 1 .. MAX_FUNC_PARAMS - 1
    /\ va_offs' = align_up(size[Func], 8)
    /\ va_size' = VaSize(is_va)
    /\ size' = [size EXCEPT ![Func] = VaEnd(is_va)]
    /\ phase' = "body"
    /\ UNCHANGED <<align, is_defined, declared, members, open, n_params, status>>

DeclareLocal(t) ==
    /\ status = "ok" /\ phase = "body" /\ open = <<>>
    /\ is_obj_ty(t)
    /\ declare(Func, t)
    /\ UNCHANGED <<is_defined, declared, open, phase,
                   n_params, va_offs, va_size, status>>

RejectLocal(t) ==
    /\ status = "ok" /\ phase = "body" /\ open = <<>>
    /\ ~is_obj_ty(t)
    /\ Reject

FrameSize           == align_up(size[Func], 16)

\* emit_func, after the whole file is parsed.
EmitFunc ==
    /\ status = "ok" /\ phase = "body" /\ open = <<>>
    /\ size' = [size EXCEPT ![Func] = FrameSize]
    /\ phase' = "emitted"
    /\ UNCHANGED <<align, is_defined, declared, members, open,
                   n_params, va_offs, va_size, status>>

Next == \/ \E s \in Tags : ForwardStruct(s) \/ OpenStruct(s) \/ RedefineStruct(s)
        \/ \E t \in Types : DeclareField(t) \/ RejectField(t)
        \/ CloseStruct \/ CloseEmptyStruct
        \/ OpenFunc
        \/ \E t \in Scalars : DeclareParam(t)
        \/ \E is_va \in BOOLEAN : EnterBody(is_va)
        \/ \E t \in Types : DeclareLocal(t) \/ RejectLocal(t)
        \/ EmitFunc

Spec == Init /\ [][Next]_vars

-----------------------------------------------------------------------------
Member == [offs : Nat, sz : Nat \ {0}, al : {1, 4, 8}, ty : Types,
           early : BOOLEAN]

\* Every variable has its type.
TypeOK == /\ size \in [Owners -> Nat]
          /\ align \in [Owners -> {0, 1, 4, 8}]
          /\ is_defined \in [Tags -> BOOLEAN]
          /\ declared \subseteq Tags
          /\ members \in [Owners -> Seq(Member)]
          /\ open \in Seq(Tags)
          /\ phase \in {"none", "params", "body", "emitted"}
          /\ n_params \in 0 .. MAX_FUNC_PARAMS
          /\ va_offs \in Nat /\ va_size \in Nat
          /\ status \in {"ok", "rejected", "trap"}

Idx(o) == 1 .. Len(members[o])

\* The bytes that declare reserves for two members of a struct or of a frame
\* never overlap and lie inside the owner, however bodies nest.
MembersApart ==
    \A o \in Owners :
        /\ \A i \in Idx(o) : members[o][i].offs + members[o][i].sz <= size[o]
        /\ \A i, j \in Idx(o) :
             i < j => members[o][i].offs + members[o][i].sz <= members[o][j].offs

\* Every member is aligned in its owner, and the owner at least as strictly, so
\* that loads and stores of the generated code are aligned at every address an
\* owner can have (array elements included: see PaddedSizes).
MembersAligned ==
    \A o \in Owners : \A i \in Idx(o) :
        LET m == members[o][i]
        IN  m.offs % m.al = 0 /\ align[o] % m.al = 0

\* A complete struct's size is a multiple of its alignment, so the second
\* element of an array of structs is aligned like the first.
PaddedSizes ==
    \A s \in Tags :
        is_defined[s] /\ (\A i \in 1 .. Len(open) : open[i] # s) /\ align[s] # 0
            => size[s] % align[s] = 0

\* Both together: no load or store of a member is misaligned.
LayoutAligned == MembersAligned /\ PaddedSizes

\* Nothing is laid over the saved x29/x30, the register save area that va_start
\* hands out lies between parameters and locals, and sp stays 16-byte aligned.
FrameSound ==
    LET area == va_offs .. va_offs + va_size - 1
    IN  /\ \A i \in Idx(Func) : members[Func][i].offs >= 16
        /\ phase \in {"body", "emitted"} =>
             /\ va_offs >= 16 /\ va_offs % 8 = 0
             /\ va_offs + va_size <= size[Func]
             /\ \A i \in Idx(Func) :
                  LET m == members[Func][i]
                  IN  m.offs + m.sz <= va_offs \/ va_offs + va_size <= m.offs
        /\ phase = "emitted" => size[Func] % 16 = 0

\* The size reserved for a member is still the size of its type whenever no
\* body is open, provided its type was not being parsed when it was declared.
\* So every local and every field of a complete type has room for its value.
ReservedSizesFinal ==
    open = <<>> =>
        \A o \in Owners : \A i \in Idx(o) :
            LET m == members[o][i]
            IN  ~m.early => m.sz = ty_size(m.ty)
=============================================================================
