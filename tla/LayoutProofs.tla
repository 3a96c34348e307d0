---------------------------- MODULE LayoutProofs ----------------------------
(***************************************************************************)
(* For every set of tags, every array length and any number of members:    *)
(* the members of a struct or of a frame are disjoint, aligned and inside  *)
(* their owner, and the frame record and the register save area are free   *)
(* of them.                                                                *)
(***************************************************************************)
EXTENDS Layout, SequenceTheorems, TLAPS

-----------------------------------------------------------------------------
(***************************************************************************)
(* The inductive invariant.  An owner that has bytes has an alignment      *)
(* (Aligned), which is what makes declare's division safe, and the largest *)
(* alignment of its members is its own (Covers); FramePhases ties the      *)
(* frame's members to the phase the parser is in.                          *)
(***************************************************************************)
Aligned == \A s \in Tags : align[s] = 0 => size[s] = 0

Covers == \A o \in Owners : \A i \in Idx(o) : members[o][i].al <= align[o]

FramePhases == /\ phase = "none" => members[Func] = <<>>
               /\ phase # "none" => size[Func] >= 16

IInv == /\ TypeOK
        /\ Aligned
        /\ Covers
        /\ MembersApart
        /\ MembersAligned
        /\ PaddedSizes
        /\ FramePhases
        /\ FrameSound

\* align_up, for each alignment the compiler uses.
LEMMA AlignUp ==
    ASSUME NEW n \in Nat, NEW a \in {1, 4, 8, 16}
    PROVE  /\ align_up(n, a) \in Nat
           /\ n <= align_up(n, a)
           /\ align_up(n, a) % a = 0
  <1>1. CASE a = 1
    BY <1>1 DEF align_up
  <1>2. CASE a = 4
    BY <1>2 DEF align_up
  <1>3. CASE a = 8
    BY <1>3 DEF align_up
  <1>4. CASE a = 16
    BY <1>4 DEF align_up
  <1> QED BY <1>1, <1>2, <1>3, <1>4

\* An element type with bytes has an alignment.
LEMMA ElemSizes ==
    ASSUME TypeOK, Aligned, NEW t \in Elems
    PROVE  /\ ElemSize(t) \in Nat /\ ElemAlign(t) \in {0, 1, 4, 8}
           /\ ElemSize(t) # 0 => ElemAlign(t) \in {1, 4, 8}
  <1>1. CASE t \in Scalars
    <2>1. t.kind = "scalar" /\ t.width \in {1, 4, 8}
      BY <1>1, WidthsAssumption DEF Scalars
    <2> QED BY <2>1 DEF ElemSize, ElemAlign
  <1>2. CASE t = VaList
    BY <1>2 DEF VaList, ElemSize, ElemAlign
  <1>3. CASE t \in Structs
    <2>1. t.kind = "struct" /\ t.tag \in Tags
      BY <1>3 DEF Structs
    <2>2. size[t.tag] \in Nat /\ align[t.tag] \in {0, 1, 4, 8}
      BY <2>1 DEF TypeOK, Owners
    <2> QED BY <2>1, <2>2 DEF Aligned, ElemSize, ElemAlign
  <1> QED BY <1>1, <1>2, <1>3 DEF Elems

\* So does an object type: what is_obj_ty promises declare.
LEMMA ObjectTypes ==
    ASSUME TypeOK, Aligned, NEW t \in Types, is_obj_ty(t)
    PROVE  ty_size(t) \in Nat \ {0} /\ ty_align(t) \in {1, 4, 8}
  <1>1. CASE t \in Elems
    <2>1. t.kind # "arr"
      BY <1>1 DEF Elems, Scalars, VaList, Structs
    <2>2. ty_size(t) = ElemSize(t) /\ ty_align(t) = ElemAlign(t)
      BY <2>1 DEF ty_size, ty_align, ElemOf
    <2> QED BY <1>1, <2>2, ElemSizes DEF is_obj_ty
  <1>2. CASE t \in Arrays
    <2>1. t.kind = "arr" /\ t.base \in Elems /\ t.arr_len \in Int
      BY <1>2, LensAssumption DEF Arrays
    <2>2. ty_size(t) = ElemSize(t.base) * t.arr_len
      BY <2>1 DEF ty_size
    <2>3. ty_align(t) = ElemAlign(t.base)
      BY <2>1 DEF ty_align, ElemOf
    <2>4. ElemSize(t.base) \in Nat
      BY <2>1, ElemSizes
    <2>5. ty_size(t) \in Int
      BY <2>1, <2>2, <2>4
    <2>6. ElemSize(t.base) # 0
      <3>1. 0 * t.arr_len = 0
        BY <2>1
      <3> QED BY <2>2, <3>1 DEF is_obj_ty
    <2>7. ty_align(t) \in {1, 4, 8}
      BY <2>1, <2>3, <2>6, ElemSizes
    <2>8. ty_size(t) > 0
      BY DEF is_obj_ty
    <2> QED BY <2>5, <2>7, <2>8
  <1> QED BY <1>1, <1>2 DEF Types

\* Parameters are scalars, so declare needs no test for them.
LEMMA ScalarsAreObjects ==
    ASSUME NEW t \in Scalars
    PROVE  t \in Types /\ is_obj_ty(t)
  <1>1. t.kind = "scalar" /\ t.width \in {1, 4, 8}
    BY WidthsAssumption DEF Scalars
  <1>2. ty_size(t) = t.width
    BY <1>1 DEF ty_size, ElemSize
  <1> QED BY <1>1, <1>2 DEF Types, Elems, is_obj_ty

-----------------------------------------------------------------------------
(***************************************************************************)
(* One call of declare for a member.                                       *)
(***************************************************************************)
LEMMA DeclareStep ==
    ASSUME IInv, NEW o \in Owners, NEW t \in Types, is_obj_ty(t), declare(o, t)
    PROVE  /\ size' \in [Owners -> Nat] /\ align' \in [Owners -> {0, 1, 4, 8}]
           /\ members' \in [Owners -> Seq(Member)]
           /\ \A p \in Owners : p # o => /\ size'[p] = size[p]
                                         /\ align'[p] = align[p]
                                         /\ members'[p] = members[p]
           /\ align'[o] # 0
           /\ size[o] <= size'[o]
           /\ MembersApart'
           /\ MembersAligned'
           /\ Covers'
           /\ Len(members'[o]) = Len(members[o]) + 1
           /\ \A i \in Idx(o) : members'[o][i] = members[o][i]
           /\ members'[o][Len(members[o]) + 1].offs >= size[o]
           /\ members'[o][Len(members[o]) + 1].offs \in Nat
           /\ members'[o][Len(members[o]) + 1].sz \in Nat
  <1> DEFINE m == NewMember(o, t)
             k == Len(members[o])
  <1>1. /\ size \in [Owners -> Nat] /\ align \in [Owners -> {0, 1, 4, 8}]
        /\ members \in [Owners -> Seq(Member)] /\ TypeOK /\ Aligned
    BY DEF IInv, TypeOK
  <1>2. ty_size(t) \in Nat \ {0} /\ ty_align(t) \in {1, 4, 8}
    BY <1>1, ObjectTypes
  <1>3. /\ OffsFor(o, t) \in Nat /\ size[o] <= OffsFor(o, t)
        /\ OffsFor(o, t) % ty_align(t) = 0
    <2>1. size[o] \in Nat /\ ty_align(t) \in {1, 4, 8, 16}
      BY <1>1, <1>2
    <2> QED BY <2>1, AlignUp DEF OffsFor
  <1>4. /\ m \in Member /\ m.offs = OffsFor(o, t) /\ m.sz = ty_size(t)
        /\ m.al = ty_align(t)
    BY <1>2, <1>3 DEF NewMember, Member, BeingParsed
  <1>5. SizeAfter(o, t) \in Nat /\ SizeAfter(o, t) = m.offs + m.sz
    BY <1>2, <1>3, <1>4 DEF SizeAfter
  <1>6. /\ members' = [members EXCEPT ![o] = Append(members[o], m)]
        /\ size' = [size EXCEPT ![o] = m.offs + m.sz]
        /\ align' = [align EXCEPT ![o] = Max2(align[o], m.al)]
    BY <1>4, <1>5 DEF declare
  <1>7. Max2(align[o], m.al) \in {1, 4, 8} /\ align[o] \in {0, 1, 4, 8}
    BY <1>1, <1>2, <1>4 DEF Max2
  <1> HIDE DEF m
  <1>8. size' \in [Owners -> Nat]
    BY <1>1, <1>4, <1>5, <1>6
  <1>9. align' \in [Owners -> {0, 1, 4, 8}]
    BY <1>1, <1>6, <1>7
  <1>10. members[o] \in Seq(Member) /\ k \in Nat
    BY <1>1
  <1>11. members' \in [Owners -> Seq(Member)]
    <2>1. Append(members[o], m) \in Seq(Member)
      BY <1>4, <1>10
    <2> QED BY <1>1, <1>6, <2>1
  <1>12. \A p \in Owners : p # o => /\ size'[p] = size[p]
                                    /\ align'[p] = align[p]
                                    /\ members'[p] = members[p]
    BY <1>1, <1>6
  <1>13. members'[o] = Append(members[o], m) /\ size'[o] = m.offs + m.sz
         /\ align'[o] = Max2(align[o], m.al)
    BY <1>1, <1>6
  <1>14. /\ Len(members'[o]) = k + 1
         /\ \A i \in 1 .. k : members'[o][i] = members[o][i]
         /\ members'[o][k + 1] = m
    BY <1>10, <1>13
  <1>15. size[o] \in Nat /\ m.offs \in Nat /\ m.sz \in Nat /\ size[o] <= m.offs
    BY <1>1, <1>2, <1>3, <1>4
  <1>16. \A i \in 1 .. k : /\ members[o][i] \in Member
                           /\ members[o][i].offs \in Nat
                           /\ members[o][i].sz \in Nat
                           /\ members[o][i].offs + members[o][i].sz <= size[o]
    <2> SUFFICES ASSUME NEW i \in 1 .. k
                 PROVE  /\ members[o][i] \in Member
                        /\ members[o][i].offs \in Nat
                        /\ members[o][i].sz \in Nat
                        /\ members[o][i].offs + members[o][i].sz <= size[o]
      OBVIOUS
    <2>1. members[o][i] \in Member
      BY <1>10
    <2>2. members[o][i].offs \in Nat /\ members[o][i].sz \in Nat
      BY <2>1 DEF Member
    <2> QED BY <2>1, <2>2 DEF IInv, MembersApart, Idx
  <1>17. MembersApart'
    <2>1. ASSUME NEW i \in 1 .. k + 1
          PROVE  members'[o][i].offs + members'[o][i].sz <= size'[o]
      <3>1. CASE i = k + 1
        BY <1>13, <1>14, <1>15, <3>1
      <3>2. CASE i \in 1 .. k
        BY <1>13, <1>14, <1>15, <1>16, <3>2, SMTT(40)
      <3> QED BY <1>10, <3>1, <3>2
    <2>2. ASSUME NEW i \in 1 .. k + 1, NEW j \in 1 .. k + 1, i < j
          PROVE  members'[o][i].offs + members'[o][i].sz <= members'[o][j].offs
      <3>1. i \in 1 .. k
        BY <1>10, <2>2
      <3>2. CASE j = k + 1
        <4>1. members'[o][i] = members[o][i] /\ members'[o][j] = m
          BY <1>14, <3>1, <3>2
        <4>2. /\ members[o][i].offs \in Nat /\ members[o][i].sz \in Nat
              /\ members[o][i].offs + members[o][i].sz <= size[o]
          BY <1>16, <3>1
        <4> QED BY <1>15, <4>1, <4>2
      <3>3. CASE j \in 1 .. k
        BY <1>14, <2>2, <3>1, <3>3 DEF IInv, MembersApart, Idx
      <3> QED BY <1>10, <3>2, <3>3
    <2> QED BY <1>12, <1>14, <2>1, <2>2 DEF IInv, MembersApart, Idx
  <1>18. Covers'
    <2>1. ASSUME NEW i \in 1 .. k + 1
          PROVE  members'[o][i].al <= align'[o]
      <3>1. CASE i = k + 1
        BY <1>2, <1>4, <1>7, <1>13, <1>14, <3>1 DEF Max2
      <3>2. CASE i \in 1 .. k
        <4>1. members[o][i].al <= align[o] /\ members[o][i].al \in {1, 4, 8}
          BY <1>16, <3>2 DEF IInv, Covers, Idx, Member
        <4>2. align[o] <= Max2(align[o], m.al)
          BY <1>2, <1>4, <1>7 DEF Max2
        <4> QED BY <1>7, <1>13, <1>14, <3>2, <4>1, <4>2
      <3> QED BY <1>10, <3>1, <3>2
    <2> QED BY <1>12, <1>14, <2>1 DEF IInv, Covers, Idx
  <1>19. MembersAligned'
    <2>1. ASSUME NEW i \in 1 .. k + 1
          PROVE  members'[o][i].offs % members'[o][i].al = 0
      <3>1. CASE i = k + 1
        BY <1>3, <1>4, <1>14, <3>1
      <3>2. CASE i \in 1 .. k
        BY <1>14, <3>2 DEF IInv, MembersAligned, Idx
      <3> QED BY <1>10, <3>1, <3>2
    <2>2. ASSUME NEW i \in 1 .. k + 1
          PROVE  align'[o] % members'[o][i].al = 0
      <3>1. members'[o][i] \in Member
        BY <1>11, <1>14
      <3>2. members'[o][i].al \in {1, 4, 8}
        BY <3>1 DEF Member
      <3>3. members'[o][i].al <= align'[o]
        BY <1>14, <1>18 DEF Covers, Idx
      <3> QED BY <1>7, <1>13, <3>2, <3>3
    <2> QED BY <1>12, <1>14, <2>1, <2>2 DEF IInv, MembersAligned, Idx
  <1> QED BY <1>7, <1>8, <1>9, <1>11, <1>12, <1>13, <1>14, <1>15, <1>17, <1>18, <1>19
          DEF Idx

\* What every declaration of a member leaves in order besides the layout.
LEMMA DeclareKeeps ==
    ASSUME IInv, NEW o \in Owners, NEW t \in Types, is_obj_ty(t), declare(o, t),
           UNCHANGED <<is_defined, declared, open, phase, va_offs, va_size, status>>,
           n_params' \in 0 .. MAX_FUNC_PARAMS
    PROVE  TypeOK' /\ Aligned' /\ Covers' /\ MembersApart' /\ MembersAligned'
  <1>1. TypeOK'
    BY DeclareStep DEF IInv, TypeOK
  <1>2. Aligned'
    BY DeclareStep DEF IInv, Aligned, Owners
  <1> QED BY <1>1, <1>2, DeclareStep

LEMMA FieldIInv ==
    ASSUME IInv, NEW t \in Types, DeclareField(t)
    PROVE  IInv'
  <1> DEFINE s == Innermost
  <1>1. /\ s \in Tags /\ s \in Owners /\ s # Func
        /\ Len(open) \in 1 .. Len(open) /\ open[Len(open)] = s
    <2>1. open \in Seq(Tags) /\ open # <<>>
      BY DEF IInv, TypeOK, DeclareField
    <2> QED BY <2>1, FuncAssumption DEF Innermost, Owners
  <1>2. is_obj_ty(t) /\ declare(s, t)
        /\ UNCHANGED <<is_defined, declared, open, phase,
                       n_params, va_offs, va_size, status>>
    BY DEF DeclareField
  <1>3. n_params' \in 0 .. MAX_FUNC_PARAMS
    BY <1>2 DEF IInv, TypeOK
  <1> HIDE DEF s
  <1>4. TypeOK' /\ Aligned' /\ Covers' /\ MembersApart' /\ MembersAligned'
    BY <1>1, <1>2, <1>3, DeclareKeeps
  <1>5. \A p \in Owners : p # s => /\ size'[p] = size[p] /\ align'[p] = align[p]
                                   /\ members'[p] = members[p]
    BY <1>1, <1>2, DeclareStep
  <1>6. PaddedSizes'
    BY <1>1, <1>2, <1>5 DEF IInv, PaddedSizes, Owners
  <1>7. size'[Func] = size[Func] /\ members'[Func] = members[Func]
    BY <1>1, <1>5 DEF Owners
  <1>8. FramePhases' /\ FrameSound'
    BY <1>2, <1>7 DEF IInv, FramePhases, FrameSound, Idx
  <1> QED BY <1>4, <1>6, <1>8 DEF IInv

LEMMA PaddedIfTagsSame ==
    ASSUME IInv, UNCHANGED <<is_defined, open>>,
           \A s \in Tags : size'[s] = size[s] /\ align'[s] = align[s]
    PROVE  PaddedSizes'
  BY DEF IInv, PaddedSizes

LEMMA ParamIInv ==
    ASSUME IInv, NEW t \in Scalars, DeclareParam(t)
    PROVE  IInv'
  <1>1. Func \in Owners
    BY DEF Owners
  <1>2. /\ t \in Types /\ is_obj_ty(t) /\ declare(Func, t) /\ phase = "params"
        /\ n_params' = n_params + 1 /\ n_params < MAX_FUNC_PARAMS
        /\ UNCHANGED <<is_defined, declared, open, phase, va_offs, va_size, status>>
    BY ScalarsAreObjects DEF DeclareParam
  <1>3. n_params' \in 0 .. MAX_FUNC_PARAMS
    BY <1>2 DEF IInv, TypeOK, MAX_FUNC_PARAMS
  <1>4. TypeOK' /\ Aligned' /\ Covers' /\ MembersApart' /\ MembersAligned'
    BY <1>1, <1>2, <1>3, DeclareKeeps
  <1>5. PaddedSizes'
    <2>1. \A s \in Tags : s \in Owners /\ s # Func
      BY FuncAssumption DEF Owners
    <2>2. \A s \in Tags : size'[s] = size[s] /\ align'[s] = align[s]
      BY <1>1, <1>2, <2>1, DeclareStep
    <2> QED BY <1>2, <2>2, PaddedIfTagsSame
  <1>6. size[Func] \in Nat /\ size'[Func] \in Nat /\ size[Func] >= 16
        /\ size[Func] <= size'[Func]
    BY <1>1, <1>2, <1>4, DeclareStep DEF IInv, TypeOK, FramePhases
  <1>7. FramePhases'
    BY <1>2, <1>6 DEF FramePhases
  <1>8. \A i \in Idx(Func)' : members'[Func][i].offs >= 16
    <2> DEFINE k == Len(members[Func])
    <2>1. k \in Nat
      BY <1>1 DEF IInv, TypeOK
    <2>2. \A i \in 1 .. k : members'[Func][i].offs >= 16
      BY <1>1, <1>2, DeclareStep DEF IInv, FrameSound, Idx
    <2>3. members'[Func][k + 1].offs >= 16
      BY <1>1, <1>2, <1>6, DeclareStep
    <2>4. Len(members'[Func]) = k + 1
      BY <1>1, <1>2, DeclareStep
    <2> QED BY <2>1, <2>2, <2>3, <2>4 DEF Idx
  <1>9. FrameSound'
    BY <1>2, <1>8 DEF FrameSound, Idx
  <1> QED BY <1>4, <1>5, <1>7, <1>9 DEF IInv

LEMMA LocalIInv ==
    ASSUME IInv, NEW t \in Types, DeclareLocal(t)
    PROVE  IInv'
  <1>1. Func \in Owners
    BY DEF Owners
  <1>2. /\ is_obj_ty(t) /\ declare(Func, t) /\ phase = "body"
        /\ UNCHANGED <<is_defined, declared, open, phase,
                       n_params, va_offs, va_size, status>>
    BY DEF DeclareLocal
  <1>3. n_params' \in 0 .. MAX_FUNC_PARAMS
    BY <1>2 DEF IInv, TypeOK
  <1>4. TypeOK' /\ Aligned' /\ Covers' /\ MembersApart' /\ MembersAligned'
    BY <1>1, <1>2, <1>3, DeclareKeeps
  <1>5. PaddedSizes'
    <2>1. \A s \in Tags : s \in Owners /\ s # Func
      BY FuncAssumption DEF Owners
    <2>2. \A s \in Tags : size'[s] = size[s] /\ align'[s] = align[s]
      BY <1>1, <1>2, <2>1, DeclareStep
    <2> QED BY <1>2, <2>2, PaddedIfTagsSame
  <1>6. size[Func] \in Nat /\ size'[Func] \in Nat /\ size[Func] >= 16
        /\ size[Func] <= size'[Func]
    BY <1>1, <1>2, <1>4, DeclareStep DEF IInv, TypeOK, FramePhases
  <1>7. FramePhases'
    BY <1>2, <1>6 DEF FramePhases
  <1> DEFINE k == Len(members[Func])
  <1>8. k \in Nat /\ Len(members'[Func]) = k + 1
    BY <1>1, <1>2, DeclareStep DEF IInv, TypeOK
  <1>9. /\ va_offs \in Nat /\ va_size \in Nat
        /\ va_offs >= 16 /\ va_offs % 8 = 0 /\ va_offs + va_size <= size[Func]
    BY <1>2 DEF IInv, TypeOK, FrameSound
  <1>10. ASSUME NEW i \in 1 .. k
         PROVE  /\ members'[Func][i].offs >= 16
                /\ \/ members'[Func][i].offs + members'[Func][i].sz <= va_offs
                   \/ va_offs + va_size <= members'[Func][i].offs
    <2>1. members'[Func][i] = members[Func][i]
      BY <1>1, <1>2, DeclareStep DEF Idx
    <2> QED BY <1>2, <2>1 DEF IInv, FrameSound, Idx
  <1>11. /\ members'[Func][k + 1].offs >= 16
         /\ va_offs + va_size <= members'[Func][k + 1].offs
    BY <1>1, <1>2, <1>6, <1>9, DeclareStep
  <1>12. FrameSound'
    <2>1. va_offs + va_size <= size'[Func]
      BY <1>6, <1>9
    <2>2. \A i \in 1 .. k + 1 :
            /\ members'[Func][i].offs >= 16
            /\ \/ members'[Func][i].offs + members'[Func][i].sz <= va_offs
               \/ va_offs + va_size <= members'[Func][i].offs
      BY <1>8, <1>10, <1>11
    <2> QED BY <1>2, <1>8, <1>9, <2>1, <2>2 DEF FrameSound, Idx
  <1> QED BY <1>4, <1>5, <1>7, <1>12 DEF IInv

-----------------------------------------------------------------------------
(***************************************************************************)
(* The steps that declare no member.                                       *)
(***************************************************************************)
LEMMA InitIInv == Init => IInv
  <1> SUFFICES ASSUME Init PROVE IInv
    OBVIOUS
  <1>1. TypeOK
    BY DEF Init, TypeOK, MAX_FUNC_PARAMS
  <1>2. Func \in Owners /\ \A o \in Owners : Len(members[o]) = 0
    BY DEF Init, Owners
  <1>3. Aligned /\ PaddedSizes /\ FramePhases
    BY DEF Init, Aligned, PaddedSizes, FramePhases, Owners
  <1>4. Covers /\ MembersApart /\ MembersAligned
    BY <1>2 DEF Covers, MembersApart, MembersAligned, Idx
  <1>5. FrameSound
    BY <1>2 DEF Init, FrameSound, Idx
  <1> QED BY <1>1, <1>3, <1>4, <1>5 DEF IInv

\* Padding an owner disturbs neither its members nor anyone else's.
LEMMA Padding ==
    ASSUME IInv, NEW o \in Owners, NEW n \in Nat, size[o] <= n,
           size' = [size EXCEPT ![o] = n], UNCHANGED <<align, members>>
    PROVE  /\ size' \in [Owners -> Nat]
           /\ size'[o] = n
           /\ \A p \in Owners : p # o => size'[p] = size[p]
           /\ MembersApart' /\ MembersAligned' /\ Covers'
  <1>1. size \in [Owners -> Nat] /\ members \in [Owners -> Seq(Member)]
    BY DEF IInv, TypeOK
  <1>2. \A p \in Owners : size[p] \in Nat /\ size'[p] \in Nat /\ size[p] <= size'[p]
    BY <1>1
  <1>3. ASSUME NEW p \in Owners, NEW i \in Idx(p)
        PROVE  members[p][i].offs + members[p][i].sz \in Nat
    <2>1. members[p][i] \in Member
      BY <1>1, <1>3 DEF Idx
    <2> QED BY <2>1 DEF Member
  <1>4. MembersApart'
    <2>1. ASSUME NEW p \in Owners, NEW i \in Idx(p)
          PROVE  members[p][i].offs + members[p][i].sz <= size'[p]
      BY <1>2, <1>3, <2>1 DEF IInv, MembersApart
    <2> QED BY <2>1 DEF IInv, MembersApart, Idx
  <1>5. MembersAligned' /\ Covers'
    BY DEF IInv, MembersAligned, Covers, Idx
  <1> QED BY <1>1, <1>4, <1>5

LEMMA OpenIInv ==
    ASSUME IInv, NEW s \in Tags, OpenStruct(s)
    PROVE  IInv'
  <1>1. s \in Owners /\ s # Func
    BY FuncAssumption DEF Owners
  <1>2. /\ is_defined' = [is_defined EXCEPT ![s] = is_defined[s] \/ s \notin declared]
        /\ declared' = declared \cup {s}
        /\ members' = [members EXCEPT ![s] = <<>>]
        /\ open' = Append(open, s)
        /\ UNCHANGED <<size, align, phase, n_params, va_offs, va_size, status>>
    BY DEF OpenStruct
  <1>3. open \in Seq(Tags) /\ members \in [Owners -> Seq(Member)]
        /\ is_defined \in [Tags -> BOOLEAN]
    BY DEF IInv, TypeOK
  <1>4. /\ Len(open') = Len(open) + 1 /\ Len(open) \in Nat /\ open'[Len(open) + 1] = s
        /\ \A i \in 1 .. Len(open) : open'[i] = open[i]
    BY <1>2, <1>3
  <1>5. TypeOK'
    <2>1. is_defined' \in [Tags -> BOOLEAN]
      BY <1>2, <1>3
    <2>2. members' \in [Owners -> Seq(Member)]
      <3>1. <<>> \in Seq(Member)
        OBVIOUS
      <3> QED BY <1>2, <1>3, <3>1
    <2>3. open' \in Seq(Tags)
      BY <1>2, <1>3
    <2> QED BY <1>2, <2>1, <2>2, <2>3 DEF IInv, TypeOK
  <1>6. /\ Len(members'[s]) = 0
        /\ \A p \in Owners : p # s => members'[p] = members[p]
    BY <1>1, <1>2, <1>3
  <1>7. Aligned'
    BY <1>2 DEF IInv, Aligned
  <1>8. Covers' /\ MembersApart' /\ MembersAligned'
    BY <1>2, <1>6 DEF IInv, Covers, MembersApart, MembersAligned, Idx
  <1>9. PaddedSizes'
    <2> SUFFICES ASSUME NEW r \in Tags, is_defined'[r],
                        \A i \in 1 .. Len(open') : open'[i] # r,
                        align'[r] # 0
                 PROVE  size'[r] % align'[r] = 0
      BY DEF PaddedSizes
    <2>1. r # s /\ \A i \in 1 .. Len(open) : open[i] # r
      BY <1>4
    <2>2. is_defined[r]
      BY <1>2, <1>3, <2>1
    <2> QED BY <1>2, <2>1, <2>2 DEF IInv, PaddedSizes
  <1>10. members'[Func] = members[Func]
    BY <1>1, <1>6 DEF Owners
  <1>11. FramePhases' /\ FrameSound'
    BY <1>2, <1>10 DEF IInv, FramePhases, FrameSound, Idx
  <1> QED BY <1>5, <1>7, <1>8, <1>9, <1>11 DEF IInv

\* Leaving the innermost body.
LEMMA Popped ==
    ASSUME open \in Seq(Tags), open # <<>>, open' = SubSeq(open, 1, Len(open) - 1)
    PROVE  /\ open' \in Seq(Tags) /\ Len(open') = Len(open) - 1
           /\ \A i \in 1 .. Len(open) - 1 : open'[i] = open[i]
  <1> DEFINE k == Len(open) - 1
  <1>1. k \in Nat /\ k <= Len(open) /\ open' = SubSeq(open, 1, k)
    <2>1. Len(open) \in Nat \ {0}
      OBVIOUS
    <2> QED BY <2>1
  <1>2. open' = [i \in 1 .. k |-> open[i]]
    BY <1>1
  <1>3. Len(open') = k
    <2>1. 1 \in Int /\ k \in Int /\ \A i \in 1 .. k : open[i] \in Tags
      BY <1>1
    <2>2. Len(SubSeq(open, 1, k)) = IF 1 <= k THEN k - 1 + 1 ELSE 0
      BY <2>1, SubSeqProperties
    <2> HIDE DEF k
    <2>3. (IF 1 <= k THEN k - 1 + 1 ELSE 0) = k
      BY <1>1
    <2> QED BY <1>1, <2>2, <2>3
  <1>4. open' \in Seq(Tags)
    BY <1>1
  <1> QED BY <1>2, <1>3, <1>4

\* Both ways of closing a struct: it becomes defined, its size is rounded up
\* to its alignment, and it leaves the stack of open bodies.
LEMMA CloseIInv ==
    ASSUME IInv, open # <<>>, NEW n \in Nat, size[Innermost] <= n,
           align[Innermost] # 0 => n % align[Innermost] = 0,
           align[Innermost] = 0 => n = 0,
           is_defined' = [is_defined EXCEPT ![Innermost] = TRUE],
           size' = [size EXCEPT ![Innermost] = n],
           open' = SubSeq(open, 1, Len(open) - 1),
           UNCHANGED <<align, declared, members, phase,
                       n_params, va_offs, va_size, status>>
    PROVE  IInv'
  <1> DEFINE s == Innermost
  <1>1. open \in Seq(Tags) /\ is_defined \in [Tags -> BOOLEAN]
    BY DEF IInv, TypeOK
  <1>2. /\ s \in Tags /\ s \in Owners /\ s # Func /\ open[Len(open)] = s
        /\ Len(open) \in Nat \ {0}
    BY <1>1, FuncAssumption DEF Innermost, Owners
  <1>3. /\ open' \in Seq(Tags) /\ Len(open') = Len(open) - 1
        /\ \A i \in 1 .. Len(open) - 1 : open'[i] = open[i]
    BY <1>1, Popped
  <1> HIDE DEF s
  <1>4. /\ size' \in [Owners -> Nat] /\ size'[s] = n
        /\ \A p \in Owners : p # s => size'[p] = size[p]
        /\ MembersApart' /\ MembersAligned' /\ Covers'
    BY <1>2, Padding DEF s
  <1>5. TypeOK'
    BY <1>1, <1>3, <1>4 DEF IInv, TypeOK
  <1>6. Aligned'
    BY <1>2, <1>4 DEF IInv, Aligned, Owners, s
  <1>7. PaddedSizes'
    <2> SUFFICES ASSUME NEW r \in Tags, is_defined'[r],
                        \A i \in 1 .. Len(open') : open'[i] # r,
                        align'[r] # 0
                 PROVE  size'[r] % align'[r] = 0
      BY DEF PaddedSizes
    <2>1. CASE r = s
      BY <1>4, <2>1 DEF s
    <2>2. CASE r # s
      <3>1. is_defined[r]
        BY <1>1, <2>2 DEF s
      <3>2. \A i \in 1 .. Len(open) : open[i] # r
        BY <1>2, <1>3, <2>2
      <3>3. size'[r] = size[r]
        BY <1>4, <2>2 DEF Owners
      <3> QED BY <3>1, <3>2, <3>3 DEF IInv, PaddedSizes
    <2> QED BY <2>1, <2>2
  <1>8. size'[Func] = size[Func]
    BY <1>2, <1>4 DEF Owners
  <1>9. FramePhases' /\ FrameSound'
    BY <1>8 DEF IInv, FramePhases, FrameSound, Idx
  <1> QED BY <1>4, <1>5, <1>6, <1>7, <1>9 DEF IInv

LEMMA CloseStructIInv == IInv /\ CloseStruct => IInv'
  <1> SUFFICES ASSUME IInv, CloseStruct PROVE IInv'
    OBVIOUS
  <1> DEFINE s == Innermost
  <1>1. s \in Owners /\ open # <<>> /\ align[s] # 0
    BY DEF IInv, TypeOK, CloseStruct, Innermost, Owners
  <1>2. size[s] \in Nat /\ align[s] \in {1, 4, 8}
    BY <1>1 DEF IInv, TypeOK
  <1>3. /\ ClosedSize(s) \in Nat /\ size[s] <= ClosedSize(s)
        /\ ClosedSize(s) % align[s] = 0
    BY <1>2, AlignUp DEF ClosedSize
  <1> QED BY <1>1, <1>3, CloseIInv DEF CloseStruct

LEMMA CloseEmptyIInv == IInv /\ CloseEmptyStruct => IInv'
  <1> SUFFICES ASSUME IInv, CloseEmptyStruct PROVE IInv'
    OBVIOUS
  <1>1. open # <<>> /\ align[Innermost] = 0 /\ size[Innermost] = 0
    BY DEF IInv, TypeOK, Aligned, CloseEmptyStruct, Innermost
  <1>2. CASE status' = "trap" /\ UNCHANGED <<is_defined, size, open>>
    BY <1>2 DEF CloseEmptyStruct, IInv, TypeOK, Aligned, Covers, MembersApart,
                MembersAligned, PaddedSizes, FramePhases, FrameSound, Idx
  <1>3. CASE /\ is_defined' = [is_defined EXCEPT ![Innermost] = TRUE]
             /\ size' = [size EXCEPT ![Innermost] = 0]
             /\ open' = SubSeq(open, 1, Len(open) - 1)
             /\ UNCHANGED status
    <2>1. UNCHANGED <<align, declared, members, phase,
                      n_params, va_offs, va_size, status>>
      BY <1>3 DEF CloseEmptyStruct
    <2>2. /\ 0 \in Nat /\ size[Innermost] <= 0
          /\ align[Innermost] # 0 => 0 % align[Innermost] = 0
      BY <1>1
    <2> QED BY <1>1, <1>3, <2>1, <2>2, CloseIInv
  <1> QED BY <1>2, <1>3 DEF CloseEmptyStruct

LEMMA OpenFuncIInv == IInv /\ OpenFunc => IInv'
  <1> SUFFICES ASSUME IInv, OpenFunc PROVE IInv'
    OBVIOUS
  <1>1. /\ phase = "none" /\ phase' = "params"
        /\ size' = [size EXCEPT ![Func] = 16]
        /\ UNCHANGED <<align, is_defined, declared, members, open,
                       n_params, va_offs, va_size, status>>
    BY DEF OpenFunc, FrameRecord
  <1>2. Func \in Owners /\ \A s \in Tags : s \in Owners /\ s # Func
    BY FuncAssumption DEF Owners
  <1>3. size \in [Owners -> Nat] /\ members[Func] = <<>>
    BY <1>1 DEF IInv, TypeOK, FramePhases
  <1>4. /\ size' \in [Owners -> Nat] /\ size'[Func] = 16
        /\ \A p \in Owners : p # Func => size'[p] = size[p]
    BY <1>1, <1>2, <1>3
  <1>5. TypeOK'
    BY <1>1, <1>4 DEF IInv, TypeOK
  <1>6. Aligned' /\ Covers' /\ MembersAligned'
    BY <1>1, <1>2, <1>4 DEF IInv, Aligned, Covers, MembersAligned, Idx
  <1>7. MembersApart'
    <2>1. Len(members[Func]) = 0
      BY <1>3
    <2> QED BY <1>1, <1>4, <2>1 DEF IInv, MembersApart, Idx
  <1>8. PaddedSizes'
    BY <1>1, <1>2, <1>4, PaddedIfTagsSame
  <1>9. FramePhases' /\ FrameSound'
    BY <1>1, <1>3, <1>4 DEF FramePhases, FrameSound, Idx
  <1> QED BY <1>5, <1>6, <1>7, <1>8, <1>9 DEF IInv

LEMMA EnterBodyIInv ==
    ASSUME IInv, NEW is_va \in BOOLEAN, EnterBody(is_va)
    PROVE  IInv'
  <1>1. /\ phase = "params" /\ phase' = "body"
        /\ va_offs' = align_up(size[Func], 8) /\ va_size' = VaSize(is_va)
        /\ size' = [size EXCEPT ![Func] = va_offs' + va_size']
        /\ UNCHANGED <<align, is_defined, declared, members, open, n_params, status>>
    BY DEF EnterBody, VaEnd
  <1>2. Func \in Owners /\ \A s \in Tags : s \in Owners /\ s # Func
    BY FuncAssumption DEF Owners
  <1>3. size[Func] \in Nat /\ size[Func] >= 16 /\ n_params \in 0 .. 8
    BY <1>1, <1>2 DEF IInv, TypeOK, FramePhases, MAX_FUNC_PARAMS
  <1>4. va_offs' \in Nat /\ size[Func] <= va_offs' /\ va_offs' % 8 = 0
    BY <1>1, <1>3, AlignUp
  <1>5. va_size' \in Nat
    BY <1>1, <1>3 DEF VaSize, MAX_FUNC_PARAMS
  <1>6. va_offs' + va_size' \in Nat /\ size[Func] <= va_offs' + va_size'
    <2>1. \A x, y, z \in Nat : x <= y => y + z \in Nat /\ x <= y + z
      OBVIOUS
    <2> QED BY <1>3, <1>4, <1>5, <2>1
  <1>7. /\ size' \in [Owners -> Nat] /\ size'[Func] = va_offs' + va_size'
        /\ \A p \in Owners : p # Func => size'[p] = size[p]
        /\ MembersApart' /\ MembersAligned' /\ Covers'
    BY <1>1, <1>2, <1>6, Padding
  <1>8. TypeOK'
    BY <1>1, <1>4, <1>5, <1>7 DEF IInv, TypeOK
  <1>9. Aligned'
    BY <1>1, <1>2, <1>7 DEF IInv, Aligned
  <1>10. PaddedSizes'
    BY <1>1, <1>2, <1>7, PaddedIfTagsSame
  <1>11. FramePhases'
    BY <1>1, <1>3, <1>6, <1>7 DEF FramePhases
  <1>12. ASSUME NEW i \in Idx(Func)
         PROVE  /\ members[Func][i].offs >= 16
                /\ members[Func][i].offs + members[Func][i].sz <= va_offs'
    <2>1. members[Func][i] \in Member
      BY <1>2, <1>12 DEF IInv, TypeOK, Idx
    <2>2. members[Func][i].offs + members[Func][i].sz \in Nat
      BY <2>1 DEF Member
    <2> QED BY <1>2, <1>3, <1>4, <1>12, <2>2 DEF IInv, MembersApart, FrameSound
  <1>13. FrameSound'
    <2>1. va_offs' >= 16 /\ va_offs' + va_size' <= size'[Func]
      BY <1>3, <1>4, <1>6, <1>7
    <2> QED BY <1>1, <1>4, <1>12, <2>1 DEF FrameSound, Idx
  <1> QED BY <1>7, <1>8, <1>9, <1>10, <1>11, <1>13 DEF IInv

LEMMA EmitFuncIInv == IInv /\ EmitFunc => IInv'
  <1> SUFFICES ASSUME IInv, EmitFunc PROVE IInv'
    OBVIOUS
  <1> DEFINE n == FrameSize
  <1>1. /\ phase = "body" /\ phase' = "emitted"
        /\ size' = [size EXCEPT ![Func] = n]
        /\ UNCHANGED <<align, is_defined, declared, members, open,
                       n_params, va_offs, va_size, status>>
    BY DEF EmitFunc
  <1>2. Func \in Owners /\ \A s \in Tags : s \in Owners /\ s # Func
    BY FuncAssumption DEF Owners
  <1>3. size[Func] \in Nat /\ size[Func] >= 16
    BY <1>1, <1>2 DEF IInv, TypeOK, FramePhases
  <1>4. n \in Nat /\ size[Func] <= n /\ n % 16 = 0
    BY <1>3, AlignUp DEF FrameSize
  <1> HIDE DEF n
  <1>5. /\ size' \in [Owners -> Nat] /\ size'[Func] = n
        /\ \A p \in Owners : p # Func => size'[p] = size[p]
        /\ MembersApart' /\ MembersAligned' /\ Covers'
    BY <1>1, <1>2, <1>4, Padding
  <1>6. TypeOK'
    BY <1>1, <1>5 DEF IInv, TypeOK
  <1>7. Aligned'
    BY <1>1, <1>2, <1>5 DEF IInv, Aligned
  <1>8. PaddedSizes'
    BY <1>1, <1>2, <1>5, PaddedIfTagsSame
  <1>9. FramePhases'
    BY <1>1, <1>3, <1>4, <1>5 DEF FramePhases
  <1>10. va_offs + va_size <= size'[Func]
    <2>1. va_offs \in Nat /\ va_size \in Nat /\ va_offs + va_size <= size[Func]
      BY <1>1 DEF IInv, TypeOK, FrameSound
    <2> QED BY <1>3, <1>4, <1>5, <2>1
  <1>11. FrameSound'
    BY <1>1, <1>4, <1>5, <1>10 DEF IInv, FrameSound, Idx
  <1> QED BY <1>5, <1>6, <1>7, <1>8, <1>9, <1>11 DEF IInv

\* A step that touches neither the layout nor the frame: err_at, or `struct s`.
LEMMA OtherIInv ==
    ASSUME IInv, declared' \subseteq Tags, status' \in {"ok", "rejected", "trap"},
           UNCHANGED <<size, align, is_defined, members, open, phase,
                       n_params, va_offs, va_size>>
    PROVE  IInv'
  <1>1. TypeOK'
    BY DEF IInv, TypeOK
  <1>2. Aligned' /\ Covers' /\ MembersApart' /\ MembersAligned' /\ PaddedSizes'
    BY DEF IInv, Aligned, Covers, MembersApart, MembersAligned, PaddedSizes, Idx
  <1>3. FramePhases' /\ FrameSound'
    BY DEF IInv, FramePhases, FrameSound, Idx
  <1> QED BY <1>1, <1>2, <1>3 DEF IInv

LEMMA NextIInv == IInv /\ [Next]_vars => IInv'
  <1> SUFFICES ASSUME IInv, [Next]_vars PROVE IInv'
    OBVIOUS
  <1>0. declared \subseteq Tags /\ status \in {"ok", "rejected", "trap"}
    BY DEF IInv, TypeOK
  <1>1. ASSUME Reject PROVE IInv'
    BY <1>0, <1>1, OtherIInv DEF Reject
  <1>2. ASSUME NEW s \in Tags, ForwardStruct(s) \/ OpenStruct(s) \/ RedefineStruct(s)
        PROVE  IInv'
    <2>1. CASE ForwardStruct(s)
      BY <1>0, <2>1, OtherIInv DEF ForwardStruct
    <2>2. CASE OpenStruct(s)
      BY <2>2, OpenIInv
    <2>3. CASE RedefineStruct(s)
      BY <1>1, <2>3 DEF RedefineStruct
    <2> QED BY <1>2, <2>1, <2>2, <2>3
  <1>3. ASSUME NEW t \in Types, DeclareField(t) \/ RejectField(t) PROVE IInv'
    <2>1. CASE DeclareField(t)
      BY <2>1, FieldIInv
    <2>2. CASE RejectField(t)
      BY <1>1, <2>2 DEF RejectField
    <2> QED BY <1>3, <2>1, <2>2
  <1>4. ASSUME NEW t \in Types, DeclareLocal(t) \/ RejectLocal(t) PROVE IInv'
    <2>1. CASE DeclareLocal(t)
      BY <2>1, LocalIInv
    <2>2. CASE RejectLocal(t)
      BY <1>1, <2>2 DEF RejectLocal
    <2> QED BY <1>4, <2>1, <2>2
  <1>5. ASSUME NEW t \in Scalars, DeclareParam(t) PROVE IInv'
    BY <1>5, ParamIInv
  <1>6. ASSUME NEW is_va \in BOOLEAN, EnterBody(is_va) PROVE IInv'
    BY <1>6, EnterBodyIInv
  <1>7. CASE UNCHANGED vars
    BY <1>0, <1>7, OtherIInv DEF vars
  <1> QED BY <1>2, <1>3, <1>4, <1>5, <1>6, <1>7, CloseStructIInv, CloseEmptyIInv,
             OpenFuncIInv, EmitFuncIInv DEF Next

LEMMA SpecIInv == Spec => []IInv
  <1>1. Init => IInv
    BY InitIInv
  <1>2. IInv /\ [Next]_vars => IInv'
    BY NextIInv
  <1> QED BY <1>1, <1>2, PTL DEF Spec

-----------------------------------------------------------------------------
(***************************************************************************)
(* Reserved sizes.  IInv speaks of the bytes declare reserved; that they   *)
(* remain enough needs the life of a struct tag.  A tag is complete when   *)
(* it is defined and none of its bodies is open.  A complete struct never  *)
(* changes again, for every `struct s {` is then a redefinition (Known),   *)
(* and every member that is not early has a complete type (Settled).       *)
(***************************************************************************)
Complete(s) == is_defined[s] /\ \A k \in 1 .. Len(open) : open[k] # s

\* Nothing about s that a size or an offset depends on changes in a step.
Untouched(s) == /\ size'[s] = size[s]
                /\ align'[s] = align[s]
                /\ members'[s] = members[s]

Known == /\ \A s \in Tags : is_defined[s] => s \in declared
         /\ \A k \in 1 .. Len(open) : open[k] \in declared

Final(t) == ElemOf(t).kind = "struct" => Complete(ElemOf(t).tag)

Settled == \A o \in Owners : \A i \in Idx(o) :
             LET m == members[o][i]
             IN  ~m.early => Final(m.ty) /\ m.sz = ty_size(m.ty)

LEMMA NextKnown == IInv /\ Known /\ [Next]_vars => Known'
  <1> SUFFICES ASSUME IInv, Known, [Next]_vars PROVE Known'
    OBVIOUS
  <1>1. open \in Seq(Tags) /\ is_defined \in [Tags -> BOOLEAN] /\ Len(open) \in Nat
    BY DEF IInv, TypeOK
  <1>2. ASSUME NEW s \in Tags, ForwardStruct(s) PROVE Known'
    BY <1>2 DEF ForwardStruct, Known
  <1>3. ASSUME NEW s \in Tags, OpenStruct(s) PROVE Known'
    <2>1. /\ is_defined' = [is_defined EXCEPT ![s] = is_defined[s] \/ s \notin declared]
          /\ declared' = declared \cup {s} /\ open' = Append(open, s)
      BY <1>3 DEF OpenStruct
    <2>2. \A r \in Tags : is_defined'[r] => r \in declared'
      BY <1>1, <2>1 DEF Known
    <2>3. /\ Len(open') = Len(open) + 1 /\ open'[Len(open) + 1] = s
          /\ \A k \in 1 .. Len(open) : open'[k] = open[k]
      BY <1>1, <2>1
    <2>4. \A k \in 1 .. Len(open) + 1 : open'[k] \in declared'
      BY <1>1, <2>1, <2>3 DEF Known
    <2> QED BY <2>2, <2>3, <2>4 DEF Known
  <1>4. ASSUME open # <<>>, open' = SubSeq(open, 1, Len(open) - 1),
               is_defined' = [is_defined EXCEPT ![Innermost] = TRUE],
               UNCHANGED declared
        PROVE  Known'
    <2>1. /\ Len(open') = Len(open) - 1
          /\ \A i \in 1 .. Len(open) - 1 : open'[i] = open[i]
      BY <1>1, <1>4, Popped
    <2>2. Len(open) \in 1 .. Len(open)
      BY <1>1, <1>4
    <2>3. Innermost \in declared
      BY <2>2 DEF Known, Innermost
    <2>4. \A r \in Tags : is_defined'[r] => r \in declared'
      BY <1>1, <1>4, <2>3 DEF Known
    <2>5. \A k \in 1 .. Len(open) - 1 : open'[k] \in declared'
      BY <1>1, <1>4, <2>1 DEF Known
    <2> QED BY <2>1, <2>4, <2>5 DEF Known
  <1>5. CASE UNCHANGED <<is_defined, declared, open>>
    BY <1>5 DEF Known
  <1>6. CASE CloseStruct
    BY <1>4, <1>6 DEF CloseStruct
  <1>7. CASE CloseEmptyStruct
    BY <1>4, <1>5, <1>7 DEF CloseEmptyStruct
  <1> QED BY <1>2, <1>3, <1>5, <1>6, <1>7
          DEF Next, vars, Reject, RedefineStruct, DeclareField, RejectField, OpenFunc,
              DeclareParam, EnterBody, DeclareLocal, RejectLocal, EmitFunc

\* A step that writes only the record of one other owner.
LEMMA OthersUntouched ==
    ASSUME IInv, NEW s \in Tags, NEW o \in Owners, o # s, NEW n, NEW a, NEW ms,
           size' = [size EXCEPT ![o] = n] \/ UNCHANGED size,
           align' = [align EXCEPT ![o] = a] \/ UNCHANGED align,
           members' = [members EXCEPT ![o] = ms] \/ UNCHANGED members
    PROVE  Untouched(s)
  <1>1. s \in Owners /\ size \in [Owners -> Nat] /\ align \in [Owners -> {0, 1, 4, 8}]
        /\ members \in [Owners -> Seq(Member)]
    BY DEF IInv, TypeOK, Owners
  <1> QED BY <1>1 DEF Untouched

LEMMA DeclareTouchesOne ==
    ASSUME IInv, NEW s \in Tags, NEW o \in Owners, o # s, NEW t, declare(o, t)
    PROVE  Untouched(s)
  BY OthersUntouched DEF declare

\* Once complete, a struct keeps its members, size and alignment, and stays so.
LEMMA CompleteStays ==
    ASSUME IInv, Known, [Next]_vars, NEW s \in Tags, Complete(s)
    PROVE  Complete(s)' /\ Untouched(s)
  <1>1. /\ open \in Seq(Tags) /\ is_defined \in [Tags -> BOOLEAN] /\ Len(open) \in Nat
        /\ s \in Owners /\ s # Func /\ Func \in Owners
    BY FuncAssumption DEF IInv, TypeOK, Owners
  <1>2. ASSUME open # <<>>
        PROVE  Innermost \in Owners /\ Innermost \in Tags /\ Innermost # s
    <2>1. Len(open) \in 1 .. Len(open)
      BY <1>1, <1>2
    <2> QED BY <1>1, <2>1 DEF Innermost, Complete, Owners
  <1>3. ASSUME UNCHANGED <<is_defined, open>> PROVE Complete(s)'
    BY <1>3 DEF Complete
  <1>4. ASSUME UNCHANGED <<size, align, members>> PROVE Untouched(s)
    BY <1>4 DEF Untouched
  <1>5. ASSUME NEW r \in Tags, ForwardStruct(r) PROVE Complete(s)' /\ Untouched(s)
    BY <1>3, <1>4, <1>5 DEF ForwardStruct
  <1>6. ASSUME NEW r \in Tags, OpenStruct(r) PROVE Complete(s)' /\ Untouched(s)
    <2>1. /\ is_defined' = [is_defined EXCEPT ![r] = is_defined[r] \/ r \notin declared]
          /\ members' = [members EXCEPT ![r] = <<>>] /\ open' = Append(open, r)
          /\ UNCHANGED <<size, align>>
      BY <1>6 DEF OpenStruct
    <2>2. r # s /\ r \in Owners
      BY <1>6 DEF OpenStruct, Redefines, Known, Complete, Owners
    <2>3. /\ Len(open') = Len(open) + 1 /\ open'[Len(open) + 1] = r
          /\ \A k \in 1 .. Len(open) : open'[k] = open[k]
      BY <1>1, <2>1
    <2>4. \A k \in 1 .. Len(open) + 1 : open'[k] # s
      BY <1>1, <2>2, <2>3 DEF Complete
    <2>5. is_defined'[s]
      BY <1>1, <2>1, <2>2 DEF Complete
    <2>6. Untouched(s)
      BY <2>1, <2>2, OthersUntouched
    <2> QED BY <2>3, <2>4, <2>5, <2>6 DEF Complete
  <1>7. ASSUME NEW t \in Types, DeclareField(t) PROVE Complete(s)' /\ Untouched(s)
    BY <1>2, <1>3, <1>7, DeclareTouchesOne DEF DeclareField
  <1>8. ASSUME NEW t, declare(Func, t), UNCHANGED <<is_defined, open>>
        PROVE  Complete(s)' /\ Untouched(s)
    BY <1>1, <1>3, <1>8, DeclareTouchesOne
  <1>9. ASSUME NEW n, open # <<>>, open' = SubSeq(open, 1, Len(open) - 1),
               is_defined' = [is_defined EXCEPT ![Innermost] = TRUE],
               size' = [size EXCEPT ![Innermost] = n],
               UNCHANGED <<align, members>>
        PROVE  Complete(s)' /\ Untouched(s)
    <2>1. /\ Len(open') = Len(open) - 1
          /\ \A i \in 1 .. Len(open) - 1 : open'[i] = open[i]
      BY <1>1, <1>9, Popped
    <2>2. is_defined'[s]
      BY <1>1, <1>2, <1>9 DEF Complete
    <2>3. \A k \in 1 .. Len(open) - 1 : open'[k] # s
      BY <1>1, <2>1 DEF Complete
    <2>4. Untouched(s)
      BY <1>2, <1>9, OthersUntouched
    <2> QED BY <2>1, <2>2, <2>3, <2>4 DEF Complete
  <1>10. CASE CloseStruct
    BY <1>9, <1>10 DEF CloseStruct
  <1>11. CASE CloseEmptyStruct
    BY <1>3, <1>4, <1>9, <1>11 DEF CloseEmptyStruct
  <1>12. ASSUME NEW n, size' = [size EXCEPT ![Func] = n],
                UNCHANGED <<align, members, is_defined, open>>
         PROVE  Complete(s)' /\ Untouched(s)
    BY <1>1, <1>3, <1>12, OthersUntouched
  <1>13. CASE OpenFunc
    BY <1>12, <1>13 DEF OpenFunc
  <1>14. ASSUME NEW is_va \in BOOLEAN, EnterBody(is_va)
         PROVE  Complete(s)' /\ Untouched(s)
    BY <1>12, <1>14 DEF EnterBody
  <1>15. CASE EmitFunc
    BY <1>12, <1>15 DEF EmitFunc
  <1>16. ASSUME NEW t, DeclareParam(t) \/ DeclareLocal(t)
         PROVE  Complete(s)' /\ Untouched(s)
    BY <1>8, <1>16 DEF DeclareParam, DeclareLocal
  <1>17. ASSUME Reject \/ UNCHANGED vars PROVE Complete(s)' /\ Untouched(s)
    BY <1>3, <1>4, <1>17 DEF Reject, vars
  <1> QED BY <1>5, <1>6, <1>7, <1>10, <1>11, <1>13, <1>14, <1>15, <1>16, <1>17
          DEF Next, RedefineStruct, RejectField, RejectLocal

\* Only a struct type names a tag, and it is one of Tags.
LEMMA ElemTags ==
    ASSUME NEW t \in Types
    PROVE  /\ ElemOf(t) \in Elems
           /\ ElemOf(t).kind = "struct" => ElemOf(t).tag \in Tags
           /\ ElemOf(t).kind \in {"scalar", "va_list", "struct"}
           /\ t.kind = "arr" => t.arr_len \in Int /\ ElemOf(t) = t.base
           /\ t.kind # "arr" => ElemOf(t) = t
  <1>1. \A e \in Elems : /\ e.kind = "struct" => e.tag \in Tags
                         /\ e.kind \in {"scalar", "va_list", "struct"}
    BY DEF Elems, Scalars, VaList, Structs
  <1>2. CASE t \in Elems
    <2>1. ElemOf(t) = t /\ t.kind # "arr"
      BY <1>1, <1>2 DEF ElemOf
    <2> QED BY <1>1, <1>2, <2>1
  <1>3. CASE t \in Arrays
    <2>1. t.kind = "arr" /\ t.base \in Elems /\ t.arr_len \in Int
      BY <1>3, LensAssumption DEF Arrays
    <2>2. ElemOf(t) = t.base
      BY <2>1 DEF ElemOf
    <2> QED BY <1>1, <2>1, <2>2
  <1> QED BY <1>2, <1>3 DEF Types

\* A final type keeps its size.
LEMMA FinalStays ==
    ASSUME IInv, Known, [Next]_vars, NEW t \in Types, Final(t)
    PROVE  Final(t)' /\ ty_size(t)' = ty_size(t)
  <1> DEFINE e == ElemOf(t)
  <1>1. /\ e.kind \in {"scalar", "va_list", "struct"}
        /\ e.kind = "struct" => e.tag \in Tags
        /\ t.kind = "arr" => e = t.base
        /\ t.kind # "arr" => e = t
    BY ElemTags
  <1>2. e.kind = "struct" => Complete(e.tag) /\ Complete(e.tag)' /\ size'[e.tag] = size[e.tag]
    BY <1>1, CompleteStays DEF Final, Untouched
  <1>3. Final(t)'
    BY <1>2 DEF Final
  <1> HIDE DEF e
  <1>4. ElemSize(e)' = ElemSize(e)
    BY <1>1, <1>2 DEF ElemSize, Complete
  <1>5. ty_size(t)' = ty_size(t)
    BY <1>1, <1>4 DEF ty_size
  <1> QED BY <1>3, <1>5

\* The size test of declare's callers is what makes a struct type final.
LEMMA ObjectsAreFinal ==
    ASSUME TypeOK, Aligned, NEW t \in Types, is_obj_ty(t), ~BeingParsed(t)
    PROVE  Final(t)
  <1> SUFFICES ASSUME ElemOf(t).kind = "struct" PROVE Complete(ElemOf(t).tag)
    BY DEF Final
  <1> DEFINE e == ElemOf(t)
  <1>1. \A k \in 1 .. Len(open) : open[k] # e.tag
    BY DEF BeingParsed
  <1>2. /\ t.kind = "arr" => t.arr_len \in Int /\ e = t.base
        /\ t.kind # "arr" => e = t
        /\ e \in Elems
    BY ElemTags
  <1> HIDE DEF e
  <1>3. ElemSize(e) # 0
    <2> SUFFICES ASSUME ElemSize(e) = 0 PROVE FALSE
      OBVIOUS
    <2>1. CASE t.kind = "arr"
      <3>1. ty_size(t) = 0 * t.arr_len
        BY <1>2, <2>1 DEF ty_size
      <3>2. ty_size(t) = 0
        BY <1>2, <2>1, <3>1
      <3> QED BY <3>2 DEF is_obj_ty
    <2>2. CASE t.kind # "arr"
      BY <1>2, <2>2 DEF ty_size, is_obj_ty
    <2> QED BY <2>1, <2>2
  <1>4. is_defined[e.tag]
    <2>1. e.kind = "struct"
      BY DEF e
    <2> QED BY <1>3, <2>1 DEF ElemSize
  <1> QED BY <1>1, <1>4 DEF Complete, e

\* A member of an owner was there before the step, or the step declared it.
LEMMA MembersStep ==
    ASSUME IInv, [Next]_vars, NEW o \in Owners, NEW i \in Idx(o)'
    PROVE  \/ i \in Idx(o) /\ members'[o][i] = members[o][i]
           \/ \E t \in Types : is_obj_ty(t) /\ members'[o][i] = NewMember(o, t)
  <1> DEFINE Old == i \in Idx(o) /\ members'[o][i] = members[o][i]
             New == \E t \in Types : is_obj_ty(t) /\ members'[o][i] = NewMember(o, t)
  <1>1. members \in [Owners -> Seq(Member)] /\ Func \in Owners /\ TypeOK /\ Aligned
    BY DEF IInv, TypeOK, Owners
  <1>2. ASSUME UNCHANGED members PROVE Old
    BY <1>2 DEF Idx
  <1>3. ASSUME NEW p \in Owners, NEW t \in Types, is_obj_ty(t), declare(p, t)
        PROVE  Old \/ New
    <2>1. CASE p # o
      <3>1. members'[o] = members[o]
        BY <1>3, <2>1, DeclareStep
      <3> QED BY <3>1 DEF Idx
    <2>2. CASE p = o
      <3>1. members' = [members EXCEPT ![o] = Append(members[o], NewMember(o, t))]
        BY <1>3, <2>2 DEF declare
      <3>2. members'[o] = Append(members[o], NewMember(o, t))
        BY <1>1, <3>1
      <3>3. members[o] \in Seq(Member) /\ Len(members[o]) \in Nat
        BY <1>1
      <3>4. /\ Len(members'[o]) = Len(members[o]) + 1
            /\ members'[o][Len(members[o]) + 1] = NewMember(o, t)
            /\ \A j \in 1 .. Len(members[o]) : members'[o][j] = members[o][j]
        BY <3>2, <3>3
      <3>5. i \in 1 .. Len(members[o]) + 1
        BY <3>4 DEF Idx
      <3>6. CASE i = Len(members[o]) + 1
        BY <1>3, <3>4, <3>6
      <3>7. CASE i \in 1 .. Len(members[o])
        BY <3>4, <3>7 DEF Idx
      <3> QED BY <3>3, <3>5, <3>6, <3>7
    <2> QED BY <2>1, <2>2
  <1>4. ASSUME NEW s \in Tags, OpenStruct(s) PROVE Old
    <2>1. members' = [members EXCEPT ![s] = <<>>] /\ s \in Owners
      BY <1>4 DEF OpenStruct, Owners
    <2>2. CASE s = o
      <3>1. Len(members'[o]) = 0
        BY <1>1, <2>1, <2>2
      <3> QED BY <3>1 DEF Idx
    <2>3. CASE s # o
      <3>1. members'[o] = members[o]
        BY <1>1, <2>1, <2>3
      <3> QED BY <3>1 DEF Idx
    <2> QED BY <2>2, <2>3
  <1>5. ASSUME NEW t \in Types, DeclareField(t) PROVE Old \/ New
    <2>1. Innermost \in Owners
      BY <1>5 DEF DeclareField, IInv, TypeOK, Innermost, Owners
    <2> QED BY <1>3, <1>5, <2>1 DEF DeclareField
  <1>6. ASSUME NEW t \in Scalars, DeclareParam(t) PROVE Old \/ New
    BY <1>1, <1>3, <1>6, ScalarsAreObjects DEF DeclareParam
  <1>7. ASSUME NEW t \in Types, DeclareLocal(t) PROVE Old \/ New
    BY <1>1, <1>3, <1>7 DEF DeclareLocal
  <1> HIDE DEF Old, New
  <1>8. Old \/ New
    BY <1>2, <1>4, <1>5, <1>6, <1>7
       DEF Next, vars, Reject, ForwardStruct, RedefineStruct, RejectField, RejectLocal,
           CloseStruct, CloseEmptyStruct, OpenFunc, EnterBody, EmitFunc
  <1> QED BY <1>8 DEF Old, New

LEMMA NextSettled == IInv /\ Known /\ Settled /\ [Next]_vars => Settled'
  <1> SUFFICES ASSUME IInv, Known, Settled, [Next]_vars,
                      NEW o \in Owners, NEW i \in Idx(o)', ~members'[o][i].early
               PROVE  /\ Final(members[o][i].ty)'
                      /\ (members[o][i].sz = ty_size(members[o][i].ty))'
    BY DEF Settled
  <1>1. members \in [Owners -> Seq(Member)] /\ TypeOK /\ Aligned
    BY DEF IInv, TypeOK
  <1> SUFFICES \E t \in Types : /\ members'[o][i].ty = t
                                /\ members'[o][i].sz = ty_size(t)
                                /\ Final(t)
    <2> SUFFICES ASSUME NEW t \in Types, members'[o][i].ty = t,
                        members'[o][i].sz = ty_size(t), Final(t)
                 PROVE  /\ Final(members[o][i].ty)'
                        /\ (members[o][i].sz = ty_size(members[o][i].ty))'
      OBVIOUS
    <2>1. Final(t)' /\ ty_size(t)' = ty_size(t)
      BY FinalStays
    <2>2. Final(members[o][i].ty)'
      BY <2>1 DEF Final, Complete, ElemOf
    <2>3. (ty_size(members[o][i].ty))' = ty_size(t)'
      BY DEF ty_size, ElemSize
    <2> QED BY <2>1, <2>2, <2>3
  <1>2. CASE i \in Idx(o) /\ members'[o][i] = members[o][i]
    <2>1. members[o][i] \in Member
      BY <1>1, <1>2 DEF Idx
    <2>2. members[o][i].ty \in Types
      BY <2>1 DEF Member
    <2> QED BY <1>2, <2>2 DEF Settled
  <1>3. CASE \E t \in Types : is_obj_ty(t) /\ members'[o][i] = NewMember(o, t)
    <2>1. PICK t \in Types : is_obj_ty(t) /\ members'[o][i] = NewMember(o, t)
      BY <1>3
    <2>2. /\ members'[o][i].ty = t /\ members'[o][i].sz = ty_size(t)
          /\ members'[o][i].early = BeingParsed(t)
      BY <2>1 DEF NewMember
    <2>3. Final(t)
      BY <1>1, <2>1, <2>2, ObjectsAreFinal
    <2> QED BY <2>2, <2>3
  <1> QED BY <1>2, <1>3, MembersStep

LEMMA SpecSettled == Spec => [](Known /\ Settled)
  <1>1. Init => Known /\ Settled
    <2> SUFFICES ASSUME Init PROVE Known /\ Settled
      OBVIOUS
    <2>1. Len(open) = 0 /\ \A o \in Owners : Len(members[o]) = 0
      BY DEF Init
    <2> QED BY <2>1 DEF Init, Known, Settled, Idx
  <1>2. IInv /\ Known /\ Settled /\ [Next]_vars => Known' /\ Settled'
    BY NextKnown, NextSettled
  <1> QED BY <1>1, <1>2, SpecIInv, PTL DEF Spec

-----------------------------------------------------------------------------

\* Sizes, alignments and offsets are what their types say; in particular no
\* member has an empty size or an alignment that would divide by zero.
THEOREM TypeCorrect == Spec => []TypeOK
  <1>1. IInv => TypeOK
    BY DEF IInv
  <1> QED BY <1>1, SpecIInv, PTL

\* declare never lets two fields, parameters or locals share a byte.
THEOREM MembersNeverOverlap == Spec => []MembersApart
  <1>1. IInv => MembersApart
    BY DEF IInv
  <1> QED BY <1>1, SpecIInv, PTL

\* Fields, parameters and locals are aligned wherever their owner may lie, and
\* so are the elements of arrays of structs.
THEOREM LayoutIsAligned == Spec => []LayoutAligned
  <1>1. IInv => LayoutAligned
    BY DEF IInv, LayoutAligned
  <1> QED BY <1>1, SpecIInv, PTL

\* The frame record and the register save area belong to no variable.
THEOREM FrameIsSound == Spec => []FrameSound
  <1>1. IInv => FrameSound
    BY DEF IInv
  <1> QED BY <1>1, SpecIInv, PTL

\* Whatever declare reserved for a field, a parameter or a local still has room
\* for a value of its type when no struct body is open, for a tag no
\* longer changes its size once a member of its complete type was laid out.
THEOREM SizesAreFinal == Spec => []ReservedSizesFinal
  <1>1. Settled => ReservedSizesFinal
    BY DEF Settled, ReservedSizesFinal
  <1> QED BY <1>1, SpecSettled, PTL

\* A complete struct is never reopened, and keeps the fields, the size and the
\* alignment that code already generated for it relies on.
THEOREM CompleteStructsStay ==
    Spec => [][\A s \in Tags : Complete(s) => Complete(s)' /\ Untouched(s)]_vars
  <1>1. IInv /\ Known /\ [Next]_vars
          => [\A s \in Tags : Complete(s) => Complete(s)' /\ Untouched(s)]_vars
    BY CompleteStays
  <1> QED BY <1>1, SpecIInv, SpecSettled, PTL DEF Spec
=============================================================================
