--------------------------- MODULE LinkageProofs ----------------------------
(***************************************************************************)
(* For any names, any nesting of scopes and any order of declarations: a   *)
(* name means one thing, code uses its own frame, no label is defined      *)
(* twice, what is addressed here is here, and, tentative definitions after *)
(* an extern declaration apart, the compiler does what CLinkage promises.  *)
(***************************************************************************)
EXTENDS Linkage, SequenceTheorems, WellFoundedInduction, TLAPS

AnyTy  == Tys \cup {IntTy, <<>>} \cup {FuncTy(n) : n \in Nat}
SymT   == [kind : SymKinds, name : Names, storage : Storages, ty : AnyTy,
           is_defined : BOOLEAN, func : Nat]
ParamT == [name : Names, ty : Tys]
ProtoT == [name : Names, storage : Storages, params : Seq(ParamT)]
LabelT == [name : Names, global : BOOLEAN]

\* Two symbols that lookup_in cannot tell apart.
Alike(a, b) == a.name = b.name /\ (a.kind = "struct") = (b.kind = "struct")

(***************************************************************************)
(* A table t and a chain of scopes sc that fit each other: entries are     *)
(* symbols, no two of a scope are alike, none is in two scopes, objects    *)
(* with linkage are in the file scope and places in a frame are not.       *)
(***************************************************************************)
OneIn(scope, t) == \A i, j \in 1 .. Len(scope) : Alike(t[scope[i]], t[scope[j]]) => i = j

Apart(sc) == \A d, e \in 1 .. Len(sc) :
                \A s \in ToSet(sc[d]) : s \in ToSet(sc[e]) => d = e

Placed(t, sc) ==
    /\ \A s \in 1 .. Len(t) : /\ t[s].func \in 0 .. Len(t)
                              /\ t[s].kind = "local" => t[s].is_defined
                              /\ t[s].kind = "global" => s \in ToSet(sc[1])
    /\ \A s \in ToSet(sc[1]) : t[s].kind # "local"

Chain(t, sc) == /\ sc \in Seq(Seq(Nat)) /\ Len(sc) >= 1
                /\ \A d \in 1 .. Len(sc) : sc[d] \in Seq(1 .. Len(t))

Table(t, sc) == /\ t \in Seq(SymT) /\ Chain(t, sc)
                /\ \A d \in 1 .. Len(sc) : OneIn(sc[d], t)
                /\ Apart(sc) /\ Placed(t, sc)

Types ==
    /\ curr_func \in 0 .. Len(syms)
    /\ proto \in Seq(ProtoT) /\ Len(proto) <= 1
    /\ phase \in {"parse", "emit", "done", "rejected"}
    /\ pos \in 1 .. Len(scopes[1]) + 1
    /\ out \in Seq(LabelT)
    /\ decls \subseteq C!Decls

\* How deep each construct is: a body's block is the third scope, a parameter
\* list is one scope more; nothing is open once the file has been read.
Open  == IF proto = <<>> THEN Depth ELSE Depth - 1
Shape ==
    /\ Open >= 1
    /\ curr_func = 0 => Open = 1
    /\ curr_func # 0 => Open >= 3
    /\ phase \in {"emit", "done"} => curr_func = 0 /\ proto = <<>>

\* The open scopes of a body hold places of its own frame.
Frames ==
    curr_func # 0 =>
        \A d \in 2 .. Open : \A s \in ToSet(scopes[d]) :
            syms[s].kind = "local" => syms[s].func = curr_func

\* The parameters read so far have names of their own.
ParamsApart ==
    proto # <<>> =>
        /\ \A i \in 1 .. Len(proto[1].params) :
             \E s \in ToSet(Top) : /\ syms[s].name = proto[1].params[i].name
                                   /\ syms[s].kind = "local"
        /\ \A i, j \in 1 .. Len(proto[1].params) :
             proto[1].params[i].name = proto[1].params[j].name => i = j

Resolved == \A r \in refs : /\ r.sym \in SymIds
                            /\ syms[r.sym].kind = "local" => syms[r.sym].func = r.func

\* Emitted and LabelOf, of a symbol.
Needs(sym) == \/ sym.kind = "func" /\ sym.is_defined
              \/ /\ sym.kind = "global"
                 /\ ~(sym.storage = "extern" /\ ~sym.is_defined)
LabelFor(sym) == [name |-> sym.name, global |-> sym.storage # "static"]

LEMMA EmittedIs == \A s : (Emitted(s) <=> Needs(syms[s])) /\ LabelOf(s) = LabelFor(syms[s])
  BY DEF Emitted, Needs, LabelOf, LabelFor

\* The labels are those of the symbols main has passed.
Emission ==
    /\ phase \in {"parse", "rejected"} => out = <<>> /\ pos = 1
    /\ phase = "done" => pos = Len(scopes[1]) + 1
    /\ \A i \in 1 .. Len(out) : \E p \in 1 .. pos - 1 :
         Needs(syms[scopes[1][p]]) /\ out[i] = LabelFor(syms[scopes[1][p]])
    /\ \A p \in 1 .. pos - 1 : Needs(syms[scopes[1][p]]) =>
         \E i \in 1 .. Len(out) : out[i] = LabelFor(syms[scopes[1][p]])

\* The file scope sums up the declarations: what the symbol is, whether it is
\* defined, whether its linkage is internal and whether it must be emitted.
KindOf(d) == IF d.kind = "object" THEN "global" ELSE "func"

SumsUp(sym, ds) ==
    sym.kind \in {"global", "func"} =>
        /\ sym.is_defined <=> \E d \in ds : d.name = sym.name /\ d.is_def
        /\ sym.storage = "static" <=>
             \E d \in ds : d.name = sym.name /\ d.storage = "static"
        /\ ~LateTentative => (Needs(sym) <=>
             \E d \in ds : /\ d.name = sym.name
                           /\ d.is_def \/ (d.kind = "object" /\ d.storage # "extern"))

AsDeclared ==
    /\ \A d \in decls : \E s \in ToSet(scopes[1]) :
         syms[s].name = d.name /\ syms[s].kind = KindOf(d)
    /\ \A s \in ToSet(scopes[1]) : SumsUp(syms[s], decls)

IInv == /\ Table(syms, scopes) /\ Types /\ Shape /\ Frames /\ ParamsApart
        /\ Resolved /\ LabelsUnique /\ Emission /\ AsDeclared
-----------------------------------------------------------------------------
(***************************************************************************)
(* Sequences.                                                              *)
(***************************************************************************)
LEMMA Members ==
    ASSUME NEW S, NEW s \in Seq(S)
    PROVE  /\ Len(s) \in Nat
           /\ \A i \in 1 .. Len(s) : s[i] \in ToSet(s) /\ s[i] \in S
           /\ \A x \in ToSet(s) : x \in S /\ \E i \in 1 .. Len(s) : x = s[i]
  BY LenProperties, ElementOfSeq DEF ToSet

LEMMA NoMembers == ToSet(<<>>) = {} /\ Len(<<>>) = 0
<1>1. <<>> \in Seq(Nat) /\ Len(<<>>) = 0
  BY EmptySeq
<1>2. DOMAIN <<>> = {}
  BY <1>1, LenProperties
<1> QED BY <1>1, <1>2 DEF ToSet

LEMMA MembersOfAppend ==
    ASSUME NEW S, NEW s \in Seq(S), NEW x \in S
    PROVE  ToSet(Append(s, x)) = ToSet(s) \cup {x}
<1> DEFINE t == Append(s, x)
<1>1. /\ t \in Seq(S) /\ Len(t) = Len(s) + 1
      /\ \A i \in 1 .. Len(s) : t[i] = s[i]
      /\ t[Len(s) + 1] = x
  BY AppendProperties
<1>2. /\ Len(s) \in Nat /\ DOMAIN t = 1 .. Len(s) + 1 /\ DOMAIN s = 1 .. Len(s)
  BY <1>1, LenProperties
<1> HIDE DEF t
<1> QED BY <1>1, <1>2 DEF ToSet

LEMMA FunctionIsSeq ==
    ASSUME NEW S, NEW n \in Nat, NEW f \in [1 .. n -> S]
    PROVE  f \in Seq(S) /\ Len(f) = n
<1>1. f \in Seq(S)
  BY SeqDef
<1>2. 1 .. Len(f) = 1 .. n /\ Len(f) \in Nat
  BY <1>1, LenProperties
<1> QED BY <1>1, <1>2

LEMMA FrontIs ==
    ASSUME NEW S, NEW s \in Seq(S), Len(s) >= 1
    PROVE  /\ Front(s) \in Seq(S) /\ Len(Front(s)) = Len(s) - 1
           /\ \A i \in 1 .. Len(s) - 1 : Front(s)[i] = s[i]
<1>1. Len(s) \in Nat /\ \A i \in 1 .. Len(s) - 1 : s[i] \in S
  BY LenProperties, ElementOfSeq
<1> DEFINE n == Len(s) - 1
           f == SubSeq(s, 1, n)
<1>2. n \in Int /\ \A i \in 1 .. n : s[i] \in S
  BY <1>1
<1> HIDE DEF n
<1>3. /\ f \in Seq(S)
      /\ Len(f) = IF 1 <= n THEN n - 1 + 1 ELSE 0
      /\ \A i \in 1 .. n - 1 + 1 : f[i] = s[1 + i - 1]
  BY <1>2, SubSeqProperties
<1> HIDE DEF f
<1>4. Len(f) = n /\ \A i \in 1 .. n : f[i] = s[i]
  <2>1. n \in Nat
    BY <1>1 DEF n
  <2>2. Len(f) = n
    BY <2>1, <1>3
  <2>3. ASSUME NEW i \in 1 .. n PROVE f[i] = s[i]
    <3>1. i \in 1 .. n - 1 + 1 /\ 1 + i - 1 = i
      BY <2>1
    <3> QED BY <1>3, <3>1
  <2> QED BY <2>2, <2>3
<1> QED BY <1>3, <1>4 DEF Front, n, f

-----------------------------------------------------------------------------
(***************************************************************************)
(* Tables and chains: opening and closing a scope.                         *)
(***************************************************************************)
LEMMA TablePushes ==
    ASSUME NEW t, NEW sc, Table(t, sc)
    PROVE  /\ Table(t, Append(sc, <<>>))
           /\ Len(Append(sc, <<>>)) = Len(sc) + 1
           /\ \A d \in 1 .. Len(sc) : Append(sc, <<>>)[d] = sc[d]
           /\ Append(sc, <<>>)[Len(sc) + 1] = <<>>
<1> DEFINE nc == Append(sc, <<>>)
<1>1. Len(sc) \in Nat /\ Len(t) \in Nat /\ Len(sc) >= 1
  BY LenProperties DEF Table, Chain
<1>2. <<>> \in Seq(Nat) /\ <<>> \in Seq(1 .. Len(t))
  BY EmptySeq
<1>3. /\ nc \in Seq(Seq(Nat)) /\ Len(nc) = Len(sc) + 1
      /\ \A d \in 1 .. Len(sc) : nc[d] = sc[d]
      /\ nc[Len(sc) + 1] = <<>>
  BY <1>2, AppendProperties DEF Table, Chain
<1> HIDE DEF nc
<1>4. ASSUME NEW d \in 1 .. Len(nc)
      PROVE  nc[d] = <<>> \/ (d \in 1 .. Len(sc) /\ nc[d] = sc[d])
  <2>1. CASE d = Len(sc) + 1
    BY <1>3, <2>1
  <2>2. CASE d # Len(sc) + 1
    <3>1. d \in 1 .. Len(sc)
      BY <1>1, <1>3, <2>2
    <3> QED BY <1>3, <3>1
  <2> QED BY <2>1, <2>2
<1>5. nc[1] = sc[1]
  BY <1>1, <1>3
<1>6. Chain(t, nc)
  <2>1. Len(nc) >= 1
    BY <1>1, <1>3
  <2>2. \A d \in 1 .. Len(sc) : sc[d] \in Seq(1 .. Len(t))
    BY DEF Table, Chain
  <2>3. \A d \in 1 .. Len(nc) : nc[d] \in Seq(1 .. Len(t))
    BY <1>2, <1>4, <2>2
  <2> QED BY <1>3, <2>1, <2>3 DEF Chain
<1>7. \A d \in 1 .. Len(nc) : OneIn(nc[d], t)
  BY <1>4, NoMembers DEF Table, OneIn
<1>8. Apart(nc)
  BY <1>4, NoMembers DEF Table, Apart
<1>9. Placed(t, nc)
  BY <1>5 DEF Table, Placed
<1> QED BY <1>3, <1>6, <1>7, <1>8, <1>9 DEF Table, nc

LEMMA TablePops ==
    ASSUME NEW t, NEW sc, Table(t, sc), Len(sc) > 1
    PROVE  /\ Table(t, Front(sc))
           /\ Len(Front(sc)) = Len(sc) - 1
           /\ \A d \in 1 .. Len(sc) - 1 : Front(sc)[d] = sc[d]
<1>1. Len(sc) \in Nat /\ Len(sc) >= 1 /\ sc \in Seq(Seq(Nat))
  BY LenProperties DEF Table, Chain
<1>2. /\ Front(sc) \in Seq(Seq(Nat)) /\ Len(Front(sc)) = Len(sc) - 1
      /\ \A d \in 1 .. Len(sc) - 1 : Front(sc)[d] = sc[d]
  BY <1>1, FrontIs
<1>3. /\ \A d \in 1 .. Len(Front(sc)) : d \in 1 .. Len(sc) /\ Front(sc)[d] = sc[d]
      /\ Front(sc)[1] = sc[1] /\ Len(Front(sc)) >= 1
  BY <1>1, <1>2
<1>4. Chain(t, Front(sc))
  BY <1>2, <1>3 DEF Table, Chain
<1>5. \A d \in 1 .. Len(Front(sc)) : OneIn(Front(sc)[d], t)
  BY <1>3 DEF Table
<1>6. Apart(Front(sc))
  BY <1>3 DEF Table, Apart
<1>7. Placed(t, Front(sc))
  BY <1>3 DEF Table, Placed
<1> QED BY <1>2, <1>4, <1>5, <1>6, <1>7 DEF Table

-----------------------------------------------------------------------------
(***************************************************************************)
(* What declare does to a scope: the name is new in it, or it means a      *)
(* symbol that the new declaration agrees with.                            *)
(***************************************************************************)
Fresh(t, x, scope, sym) ==
    /\ \A s \in ToSet(scope) : ~Alike(syms[s], sym)
    /\ t = Append(syms, sym) /\ x = Append(scope, Len(syms) + 1)

Again(t, x, scope, sym, o) ==
    /\ o \in ToSet(scope) /\ syms[o].name = sym.name /\ syms[o].kind = sym.kind
    /\ ~(sym.is_defined /\ syms[o].is_defined)
    /\ sym.kind = "global" => ~(syms[o].storage = "static" /\ sym.storage = "none")
    /\ sym.kind \in {"global", "func"} /\ sym.storage = "static" =>
         syms[o].storage = "static"
    /\ t \in Seq(SymT) /\ Len(t) = Len(syms) /\ x = scope
    /\ \A s \in SymIds : s # o => t[s] = syms[s]
    /\ t[o] = [syms[o] EXCEPT !.is_defined = @ \/ sym.is_defined]

LEMMA DeclaringIs ==
    ASSUME syms \in Seq(SymT), NEW scope \in Seq(SymIds), OneIn(scope, syms),
           NEW kind, NEW storage, NEW name, NEW ty, NEW is_def \in BOOLEAN, NEW func,
           ~Clashes(scope, kind, storage, name, ty, is_def)
    PROVE  LET sym == Sym(kind, name, storage, ty, is_def, func)
               t   == Declared(scope, kind, storage, name, ty, is_def, func)
               x   == Extended(scope, kind, name)
           IN  Fresh(t, x, scope, sym) \/ \E o \in SymIds : Again(t, x, scope, sym, o)
<1> DEFINE sym == Sym(kind, name, storage, ty, is_def, func)
           t   == Declared(scope, kind, storage, name, ty, is_def, func)
           x   == Extended(scope, kind, name)
           old == lookup_in(scope, kind = "struct", name)
<1>1. old = {s \in ToSet(scope) : Alike(syms[s], sym)}
  BY DEF lookup_in, In, Alike, Sym
<1>2. CASE old = {}
  <2>1. t = Append(syms, sym) /\ x = Append(scope, Len(syms) + 1)
    BY <1>2 DEF Declared, Extended
  <2>2. \A s \in ToSet(scope) : ~Alike(syms[s], sym)
    BY <1>1, <1>2
  <2> QED BY <2>1, <2>2 DEF Fresh
<1>3. CASE old # {}
  <2>1. PICK o \in ToSet(scope) : o \in old /\ Alike(syms[o], sym)
    BY <1>1, <1>3
  <2>2. o \in SymIds
    BY <2>1, Members
  <2>3. old = {o}
    <3>1. ASSUME NEW s \in old PROVE s = o
      <4>1. s \in ToSet(scope) /\ Alike(syms[s], syms[o])
        BY <1>1, <2>1, <3>1 DEF Alike
      <4>2. PICK i \in 1 .. Len(scope), j \in 1 .. Len(scope) : s = scope[i] /\ o = scope[j]
        BY <2>1, <4>1, Members
      <4> QED BY <4>1, <4>2 DEF OneIn
    <3> QED BY <2>1, <3>1
  <2>4. ~Conflicts(o, kind, storage, ty, is_def)
    BY <2>1 DEF Clashes
  <2>5. /\ syms[o].name = sym.name /\ syms[o].kind = sym.kind
        /\ ~(sym.is_defined /\ syms[o].is_defined)
        /\ sym.kind = "global" => ~(syms[o].storage = "static" /\ sym.storage = "none")
        /\ sym.kind \in {"global", "func"} /\ sym.storage = "static" =>
             syms[o].storage = "static"
    BY <2>1, <2>4 DEF Conflicts, Sym, Alike
  <2>6. DOMAIN syms = SymIds /\ Len(syms) \in Nat /\ \A s \in SymIds : syms[s] \in SymT
    BY LenProperties, ElementOfSeq DEF SymIds
  <2>7. t = [s \in SymIds |-> IF s = o THEN [syms[s] EXCEPT !.is_defined = @ \/ is_def]
                                       ELSE syms[s]]
    BY <1>3, <2>3, <2>6 DEF Declared
  <2>8. \A s \in SymIds : [syms[s] EXCEPT !.is_defined = @ \/ is_def] \in SymT
    BY <2>6 DEF SymT
  <2>9. t \in Seq(SymT) /\ Len(t) = Len(syms)
    <3>1. t \in [1 .. Len(syms) -> SymT]
      BY <2>6, <2>7, <2>8
    <3> HIDE DEF t
    <3> QED BY <2>6, <3>1, FunctionIsSeq
  <2>10. sym.is_defined = is_def
    BY DEF Sym
  <2>11. x = scope
    BY <1>3 DEF Extended
  <2> HIDE DEF t, x, sym
  <2>12. /\ \A s \in SymIds : s # o => t[s] = syms[s]
         /\ t[o] = [syms[o] EXCEPT !.is_defined = @ \/ is_def]
    BY <2>2, <2>7
  <2>13. Again(t, x, scope, sym, o)
    BY <2>1, <2>5, <2>9, <2>10, <2>11, <2>12 DEF Again
  <2> QED BY <2>2, <2>13 DEF t, x, sym
<1> QED BY <1>2, <1>3

\* What both cases have in common.
Same(a, b) == /\ a.kind = b.kind /\ a.name = b.name /\ a.storage = b.storage
              /\ a.func = b.func /\ (b.is_defined => a.is_defined)

Grown(t, x, scope, sym) ==
    /\ t \in Seq(SymT) /\ Len(t) >= Len(syms)
    /\ x \in Seq(1 .. Len(t)) /\ OneIn(x, t)
    /\ \A s \in SymIds : Same(t[s], syms[s])
    /\ \A s \in SymIds : (s \notin ToSet(scope) \/ syms[s].kind # sym.kind) =>
                            t[s] = syms[s]
    /\ \A s \in 1 .. Len(t) : s \in SymIds \/ (t[s] = sym /\ s \in ToSet(x))
    /\ ToSet(scope) \subseteq ToSet(x)
    /\ \A s \in ToSet(x) : s \in ToSet(scope) \/ (s \notin SymIds /\ t[s] = sym)
    /\ \E s \in ToSet(x) : t[s].name = sym.name /\ t[s].kind = sym.kind

LEMMA FreshGrows ==
    ASSUME syms \in Seq(SymT), NEW scope \in Seq(SymIds), OneIn(scope, syms),
           NEW t, NEW x, NEW sym \in SymT, Fresh(t, x, scope, sym)
    PROVE  Grown(t, x, scope, sym)
<1> DEFINE n == Len(syms)
           m == Len(scope)
<1>1. n \in Nat /\ m \in Nat /\ SymIds = 1 .. n
  BY LenProperties DEF SymIds
<1>2. /\ t \in Seq(SymT) /\ Len(t) = n + 1
      /\ \A i \in 1 .. n : t[i] = syms[i]
      /\ t[n + 1] = sym
  BY AppendProperties DEF Fresh
<1>3. scope \in Seq(1 .. n + 1) /\ n + 1 \in 1 .. n + 1
  <2>1. 1 .. n \subseteq 1 .. n + 1
    BY <1>1
  <2> QED BY <1>1, <2>1, SeqMonotonic
<1>4. /\ x \in Seq(1 .. n + 1) /\ Len(x) = m + 1
      /\ \A i \in 1 .. m : x[i] = scope[i]
      /\ x[m + 1] = n + 1
  BY <1>3, AppendProperties DEF Fresh
<1>5. ToSet(x) = ToSet(scope) \cup {n + 1}
  BY <1>3, MembersOfAppend DEF Fresh
<1>6. \A i \in 1 .. m : scope[i] \in 1 .. n /\ scope[i] \in ToSet(scope)
  BY <1>1, Members
<1>7. \A i \in 1 .. m : t[x[i]] = syms[scope[i]] /\ ~Alike(t[x[i]], sym)
  BY <1>2, <1>4, <1>6 DEF Fresh
<1>8. t[x[m + 1]] = sym
  BY <1>2, <1>4
<1> HIDE DEF n, m
<1>9. OneIn(x, t)
  <2> SUFFICES ASSUME NEW i \in 1 .. m + 1, NEW j \in 1 .. m + 1, Alike(t[x[i]], t[x[j]])
               PROVE  i = j
    BY <1>4 DEF OneIn
  <2>1. \A k \in 1 .. m + 1 : k \in 1 .. m \/ k = m + 1
    BY <1>1
  <2>2. Alike(t[x[j]], t[x[i]])
    BY DEF Alike
  <2>3. CASE i \in 1 .. m /\ j \in 1 .. m
    BY <1>7, <2>3 DEF OneIn, m
  <2>4. CASE i = m + 1 /\ j \in 1 .. m
    BY <1>7, <1>8, <2>2, <2>4
  <2>5. CASE j = m + 1 /\ i \in 1 .. m
    BY <1>7, <1>8, <2>5
  <2> QED BY <2>1, <2>3, <2>4, <2>5
<1>10. \A s \in 1 .. Len(t) : s \in 1 .. n \/ s = n + 1
  BY <1>1, <1>2
<1>11. n + 1 \notin 1 .. n
  BY <1>1
<1>12. \A s \in SymIds : t[s] = syms[s]
  BY <1>1, <1>2
<1>13. \A s \in SymIds : Same(t[s], syms[s])
  BY <1>12 DEF Same
<1>14. Len(t) >= Len(syms)
  BY <1>1, <1>2 DEF n
<1> QED BY <1>1, <1>2, <1>4, <1>5, <1>9, <1>10, <1>11, <1>12, <1>13, <1>14 DEF Grown

LEMMA AgainGrows ==
    ASSUME syms \in Seq(SymT), NEW scope \in Seq(SymIds), OneIn(scope, syms),
           NEW t, NEW x, NEW sym \in SymT, NEW o \in SymIds, Again(t, x, scope, sym, o)
    PROVE  Grown(t, x, scope, sym)
<1>1. Len(syms) \in Nat /\ \A s \in SymIds : syms[s] \in SymT
  BY LenProperties, ElementOfSeq DEF SymIds
<1>2. /\ t \in Seq(SymT) /\ Len(t) = Len(syms) /\ x = scope
      /\ \A s \in SymIds : s # o => t[s] = syms[s]
      /\ t[o] = [syms[o] EXCEPT !.is_defined = @ \/ sym.is_defined]
      /\ o \in ToSet(scope) /\ syms[o].name = sym.name /\ syms[o].kind = sym.kind
  BY DEF Again
<1>3. Same(t[o], syms[o])
  BY <1>1, <1>2 DEF Same, SymT
<1>4. \A s \in SymIds : Same(t[s], syms[s])
  BY <1>2, <1>3 DEF Same
<1>5. OneIn(x, t)
  <2>1. \A i \in 1 .. Len(scope) : Same(t[scope[i]], syms[scope[i]])
    BY <1>4, Members
  <2>2. \A i \in 1 .. Len(scope) : /\ t[scope[i]].name = syms[scope[i]].name
                                   /\ t[scope[i]].kind = syms[scope[i]].kind
    BY <2>1 DEF Same
  <2>3. \A i, j \in 1 .. Len(scope) : Alike(t[scope[i]], t[scope[j]]) => Alike(syms[scope[i]], syms[scope[j]])
    BY <2>2 DEF Alike
  <2> QED BY <1>2, <2>3 DEF OneIn
<1>6. t[o].name = sym.name /\ t[o].kind = sym.kind
  BY <1>2, <1>3 DEF Same
<1>7. 1 .. Len(t) = SymIds /\ x \in Seq(1 .. Len(t)) /\ Len(t) >= Len(syms)
  BY <1>1, <1>2 DEF SymIds
<1>8. \A s \in SymIds : (s \notin ToSet(scope) \/ syms[s].kind # sym.kind) => t[s] = syms[s]
  BY <1>2
<1>9. ToSet(x) = ToSet(scope)
  BY <1>2
<1> QED BY <1>2, <1>4, <1>5, <1>6, <1>7, <1>8, <1>9 DEF Grown

LEMMA Growing ==
    ASSUME syms \in Seq(SymT), NEW scope \in Seq(SymIds), OneIn(scope, syms),
           NEW kind, NEW storage, NEW name, NEW ty, NEW is_def \in BOOLEAN, NEW func,
           Sym(kind, name, storage, ty, is_def, func) \in SymT,
           ~Clashes(scope, kind, storage, name, ty, is_def)
    PROVE  Grown(Declared(scope, kind, storage, name, ty, is_def, func),
                 Extended(scope, kind, name), scope,
                 Sym(kind, name, storage, ty, is_def, func))
  BY DeclaringIs, FreshGrows, AgainGrows

\* Declaring in the last scope of a chain.
Put(sc, x) == [sc EXCEPT ![Len(sc)] = x]

Fits(sym, sc) == /\ sym \in SymT /\ sym.func \in 0 .. Len(syms)
                 /\ sym.kind = "local" => sym.is_defined /\ Len(sc) > 1
                 /\ sym.kind = "global" => Len(sc) = 1

Puts(t, x, sc, nc) ==
    /\ Table(t, nc) /\ Len(nc) = Len(sc) /\ nc[Len(sc)] = x
    /\ \A d \in 1 .. Len(sc) - 1 : nc[d] = sc[d]

LEMMA TableGrows ==
    ASSUME NEW sc, Table(syms, sc), NEW t, NEW x, NEW sym,
           Fits(sym, sc), Grown(t, x, sc[Len(sc)], sym)
    PROVE  Puts(t, x, sc, Put(sc, x))
<1> USE DEF Fits, Puts
<1> DEFINE nc == Put(sc, x)
           n  == Len(sc)
           scope == sc[Len(sc)]
<1>1. /\ n \in Nat /\ n \in 1 .. n /\ Len(syms) \in Nat /\ Len(t) \in Nat
      /\ Len(t) >= Len(syms) /\ SymIds = 1 .. Len(syms) /\ SymIds \subseteq 1 .. Len(t)
  BY LenProperties DEF Table, Chain, Grown, SymIds
<1>2. x \in Seq(1 .. Len(t)) /\ x \in Seq(Nat)
  <2>1. 1 .. Len(t) \subseteq Nat
    BY <1>1
  <2> QED BY <2>1, SeqMonotonic DEF Grown
<1>3. /\ nc \in Seq(Seq(Nat)) /\ Len(nc) = n
      /\ \A d \in 1 .. n : nc[d] = IF d = n THEN x ELSE sc[d]
  BY <1>1, <1>2, ExceptSeq DEF Table, Chain, Put
<1>4. /\ \A d \in 1 .. n : sc[d] \in Seq(SymIds) /\ sc[d] \in Seq(1 .. Len(t))
      /\ \A d \in 1 .. n : \A s \in ToSet(sc[d]) : s \in SymIds
  <2>1. \A d \in 1 .. n : sc[d] \in Seq(SymIds)
    BY <1>1 DEF Table, Chain
  <2> QED BY <1>1, <2>1, SeqMonotonic, Members
<1> HIDE DEF n, nc
<1>5. /\ \A s \in SymIds : Same(t[s], syms[s])
      /\ \A s \in 1 .. Len(t) : s \in SymIds \/ (t[s] = sym /\ s \in ToSet(x))
      /\ ToSet(scope) \subseteq ToSet(x)
      /\ \A s \in ToSet(x) : s \in ToSet(scope) \/ (s \notin SymIds /\ t[s] = sym)
  BY DEF Grown
<1>6. Chain(t, nc)
  <2>1. Len(nc) >= 1
    BY <1>1, <1>3
  <2>2. \A d \in 1 .. n : nc[d] \in Seq(1 .. Len(t))
    BY <1>2, <1>3, <1>4
  <2> QED BY <1>3, <2>1, <2>2 DEF Chain
<1>7. ASSUME NEW d \in 1 .. n PROVE OneIn(nc[d], t)
  <2>1. CASE d = n
    BY <1>3, <2>1 DEF Grown
  <2>2. CASE d # n
    <3>1. \A i \in 1 .. Len(sc[d]) : Same(t[sc[d][i]], syms[sc[d][i]])
      BY <1>4, <1>5, Members
    <3>2. OneIn(sc[d], syms)
      BY DEF Table, n
    <3>3. OneIn(sc[d], t)
      BY <3>1, <3>2, SMTT(40) DEF OneIn, Alike, Same
    <3>4. nc[d] = sc[d]
      BY <1>3, <2>2
    <3> QED BY <3>3, <3>4
  <2> QED BY <2>1, <2>2
<1>8. Apart(nc)
  <2>1. Apart(sc) /\ scope = sc[n]
    BY DEF Table, n
  <2>2. \A d \in 1 .. n : \A s \in ToSet(nc[d]) :
          s \in ToSet(sc[d]) \/ (d = n /\ s \notin SymIds)
    BY <1>3, <1>5, <2>1
  <2> SUFFICES ASSUME NEW d \in 1 .. n, NEW e \in 1 .. n, NEW s \in ToSet(nc[d]),
                      s \in ToSet(nc[e])
               PROVE  d = e
    BY <1>3 DEF Apart
  <2>3. CASE s \in ToSet(sc[d]) /\ s \in ToSet(sc[e])
    BY <2>1, <2>3 DEF Apart, n
  <2>4. CASE s \notin SymIds
    BY <1>4, <2>2, <2>4
  <2> QED BY <1>4, <2>2, <2>3, <2>4
<1>9. 1 \in 1 .. n
  BY <1>1
<1>10. /\ \A s \in ToSet(sc[1]) : s \in ToSet(nc[1]) /\ s \in SymIds
       /\ \A s \in ToSet(nc[1]) : s \in ToSet(sc[1]) \/ (n = 1 /\ t[s] = sym)
  BY <1>3, <1>4, <1>5, <1>9 DEF n
<1>11. Placed(t, nc)
  <2>1. Placed(syms, sc)
    BY DEF Table
  <2>2. ASSUME NEW s \in 1 .. Len(t)
        PROVE  /\ t[s].func \in 0 .. Len(t)
               /\ t[s].kind = "local" => t[s].is_defined
               /\ t[s].kind = "global" => s \in ToSet(nc[1])
    <3>1. CASE s \in SymIds
      <4>1. Same(t[s], syms[s]) /\ syms[s].func \in 0 .. Len(syms)
        BY <1>1, <1>5, <2>1, <3>1 DEF Placed
      <4>2. t[s].func \in 0 .. Len(t)
        BY <1>1, <4>1 DEF Same
      <4> QED BY <1>1, <1>10, <2>1, <3>1, <4>1, <4>2 DEF Placed, Same
    <3>2. CASE t[s] = sym /\ s \in ToSet(x)
      <4>1. sym.func \in 0 .. Len(t)
        BY <1>1
      <4>2. sym.kind = "global" => s \in ToSet(nc[1])
        BY <1>3, <1>9, <3>2 DEF n
      <4> QED BY <3>2, <4>1, <4>2
    <3> QED BY <1>5, <3>1, <3>2
  <2>3. ASSUME NEW s \in ToSet(nc[1]) PROVE t[s].kind # "local"
    <3>1. CASE s \in ToSet(sc[1])
      BY <1>5, <1>10, <2>1, <3>1 DEF Placed, Same
    <3>2. CASE n = 1 /\ t[s] = sym
      BY <3>2 DEF n
    <3> QED BY <1>10, <3>1, <3>2
  <2> QED BY <2>2, <2>3 DEF Placed
<1>12. \A d \in 1 .. n - 1 : nc[d] = sc[d]
  BY <1>1, <1>3
<1>13. nc[n] = x
  BY <1>1, <1>3
<1> QED BY <1>3, <1>6, <1>7, <1>8, <1>11, <1>12, <1>13 DEF Table, nc, n, Grown

\* A scope of new places: the parameters of a function, as its body sees them.
After(m, n) == [i \in 1 .. n |-> m + i]

Places(ps, n, t) ==
    /\ ps \in [1 .. n -> SymT]
    /\ \A i, j \in 1 .. n : ps[i].name = ps[j].name => i = j
    /\ \A i \in 1 .. n : /\ ps[i].kind = "local" /\ ps[i].is_defined
                         /\ ps[i].func \in 0 .. Len(t)

LEMMA TableParams ==
    ASSUME NEW t, NEW sc, Table(t, sc), NEW n \in Nat, NEW ps, Places(ps, n, t)
    PROVE  /\ Table(t \o ps, Append(sc, After(Len(t), n)))
           /\ Len(Append(sc, After(Len(t), n))) = Len(sc) + 1
           /\ Len(t \o ps) = Len(t) + n
           /\ \A s \in 1 .. Len(t) : (t \o ps)[s] = t[s]
           /\ \A i \in 1 .. n : (t \o ps)[Len(t) + i] = ps[i]
           /\ \A d \in 1 .. Len(sc) : Append(sc, After(Len(t), n))[d] = sc[d]
           /\ Append(sc, After(Len(t), n))[Len(sc) + 1] = After(Len(t), n)
<1> USE DEF After, Places
<1> DEFINE x  == After(Len(t), n)
           nc == Append(sc, x)
           u  == t \o ps
           m  == Len(t)
           k  == Len(sc)
<1>1. m \in Nat /\ k \in Nat /\ k >= 1 /\ t \in Seq(SymT) /\ sc \in Seq(Seq(Nat))
  BY LenProperties DEF Table, Chain
<1>2. ps \in Seq(SymT) /\ Len(ps) = n
  BY FunctionIsSeq
<1>3. /\ u \in Seq(SymT) /\ Len(u) = m + n
      /\ \A i \in 1 .. m + n : u[i] = IF i <= m THEN t[i] ELSE ps[i - m]
  <2>1. /\ u \in Seq(SymT) /\ Len(u) = m + Len(ps)
        /\ \A i \in 1 .. m + Len(ps) : u[i] = IF i <= m THEN t[i] ELSE ps[i - m]
    <3>1. \A a, b \in Seq(SymT) :
            /\ a \o b \in Seq(SymT)
            /\ Len(a \o b) = Len(a) + Len(b)
            /\ \A i \in 1 .. Len(a) + Len(b) :
                 (a \o b)[i] = IF i <= Len(a) THEN a[i] ELSE b[i - Len(a)]
      BY ConcatProperties
    <3> QED BY <1>1, <1>2, <3>1
  <2> HIDE DEF u, m
  <2> QED BY <1>2, <2>1
<1> HIDE DEF u
<1>4. \A s \in 1 .. m : u[s] = t[s]
  BY <1>1, <1>3
<1>5. ASSUME NEW i \in 1 .. n PROVE u[m + i] = ps[i]
  <2>1. m + i \in 1 .. m + n /\ ~(m + i <= m) /\ m + i - m = i
    BY <1>1
  <2> QED BY <1>3, <2>1
<1>6. x \in [1 .. n -> Nat] /\ x \in [1 .. n -> 1 .. m + n]
  BY <1>1
<1>7. \A i \in 1 .. n : x[i] = m + i
  OBVIOUS
<1> HIDE DEF x
<1>8. x \in Seq(Nat) /\ x \in Seq(1 .. m + n) /\ Len(x) = n
  BY <1>6, FunctionIsSeq
<1>9. /\ nc \in Seq(Seq(Nat)) /\ Len(nc) = k + 1
      /\ \A d \in 1 .. k : nc[d] = sc[d]
      /\ nc[k + 1] = x
  BY <1>1, <1>8, AppendProperties
<1> HIDE DEF nc, m, k
<1>10. \A d \in 1 .. k + 1 : d = k + 1 \/ d \in 1 .. k
  BY <1>1
<1>11. ASSUME NEW d \in 1 .. k
       PROVE  /\ nc[d] = sc[d] /\ sc[d] \in Seq(1 .. m) /\ sc[d] \in Seq(1 .. m + n)
              /\ OneIn(sc[d], t)
              /\ \A s \in ToSet(sc[d]) : s \in 1 .. m
  <2>1. sc[d] \in Seq(1 .. m) /\ OneIn(sc[d], t)
    BY DEF Table, Chain, m, k
  <2>2. 1 .. m \subseteq 1 .. m + n
    BY <1>1
  <2>3. sc[d] \in Seq(1 .. m + n)
    BY <2>1, <2>2, SeqMonotonic
  <2>4. \A s \in ToSet(sc[d]) : s \in 1 .. m
    BY <2>1, Members
  <2> QED BY <1>9, <2>1, <2>3, <2>4
<1>12. Chain(u, nc)
  <2>1. Len(nc) >= 1
    BY <1>1, <1>9
  <2> QED BY <1>3, <1>8, <1>9, <1>10, <1>11, <2>1 DEF Chain
<1>13. ASSUME NEW d \in 1 .. k + 1 PROVE OneIn(nc[d], u)
  <2>1. CASE d = k + 1
    <3> SUFFICES ASSUME NEW i \in 1 .. n, NEW j \in 1 .. n, Alike(u[x[i]], u[x[j]])
                 PROVE  i = j
      BY <1>8, <1>9, <2>1 DEF OneIn
    <3>1. u[x[i]] = ps[i] /\ u[x[j]] = ps[j]
      BY <1>5, <1>7
    <3> QED BY <3>1 DEF Alike
  <2>2. CASE d \in 1 .. k
    <3>1. \A i \in 1 .. Len(sc[d]) : u[sc[d][i]] = t[sc[d][i]]
      BY <1>4, <1>11, <2>2, Members
    <3> QED BY <1>11, <2>2, <3>1 DEF OneIn
  <2> QED BY <1>10, <2>1, <2>2
<1>14. Apart(nc)
  <2>1. \A s \in ToSet(x) : s \notin 1 .. m
    <3> SUFFICES ASSUME NEW i \in 1 .. n PROVE x[i] \notin 1 .. m
      BY <1>8, Members
    <3> QED BY <1>1, <1>7
  <2> SUFFICES ASSUME NEW d \in 1 .. k + 1, NEW e \in 1 .. k + 1, NEW s \in ToSet(nc[d]),
                      s \in ToSet(nc[e])
               PROVE  d = e
    BY <1>9 DEF Apart
  <2>2. CASE d \in 1 .. k /\ e \in 1 .. k
    BY <1>11, <2>2 DEF Apart, Table, k
  <2>3. CASE d = k + 1 \/ e = k + 1
    BY <1>9, <1>10, <1>11, <2>1, <2>3
  <2> QED BY <1>10, <2>2, <2>3
<1>15. Placed(u, nc)
  <2>1. Placed(t, sc)
    BY DEF Table
  <2>2. 1 \in 1 .. k
    BY <1>1
  <2>3. nc[1] = sc[1] /\ \A s \in ToSet(sc[1]) : s \in 1 .. m
    BY <1>11, <2>2
  <2>4. ASSUME NEW s \in 1 .. m + n
        PROVE  /\ u[s].func \in 0 .. m + n
               /\ u[s].kind = "local" => u[s].is_defined
               /\ u[s].kind = "global" => s \in ToSet(nc[1])
    <3>1. CASE s \in 1 .. m
      <4>1. u[s] = t[s] /\ t[s].func \in 0 .. m
        BY <1>4, <2>1, <3>1 DEF Placed, m
      <4>2. u[s].func \in 0 .. m + n
        BY <1>1, <4>1
      <4> QED BY <2>1, <2>3, <3>1, <4>1, <4>2 DEF Placed, m
    <3>2. CASE s \notin 1 .. m
      <4>1. s - m \in 1 .. n /\ s = m + (s - m)
        BY <1>1, <3>2
      <4>2. u[s] = ps[s - m]
        BY <1>5, <4>1
      <4>3. u[s].func \in 0 .. m
        BY <4>1, <4>2 DEF m
      <4>4. u[s].func \in 0 .. m + n
        BY <1>1, <4>3
      <4> QED BY <4>1, <4>2, <4>4
    <3> QED BY <3>1, <3>2
  <2> QED BY <1>3, <1>4, <2>1, <2>3, <2>4 DEF Placed
<1> QED BY <1>3, <1>4, <1>5, <1>9, <1>12, <1>13, <1>14, <1>15 DEF Table, nc, m, k, u, x
-----------------------------------------------------------------------------
(***************************************************************************)
(* The initial state, and what several steps share.                        *)
(***************************************************************************)
LEMMA Initially == Init => IInv
<1> SUFFICES ASSUME Init PROVE IInv
  OBVIOUS
<1> USE DEF Init
<1>1. <<>> \in Seq(SymT) /\ <<>> \in Seq(LabelT) /\ <<>> \in Seq(ProtoT) /\ Len(<<>>) = 0
  BY EmptySeq
<1>2. <<>> \in Seq(Nat) /\ <<>> \in Seq(1 .. 0)
  BY EmptySeq
<1>3. scopes \in Seq(Seq(Nat)) /\ Len(scopes) = 1 /\ scopes[1] = <<>>
  BY <1>2
<1>4. \A d \in 1 .. 1 : d = 1
  OBVIOUS
<1>5. Chain(syms, scopes)
  <2>1. \A d \in 1 .. Len(scopes) : scopes[d] \in Seq(1 .. Len(syms))
    BY <1>1, <1>2, <1>3, <1>4
  <2> QED BY <1>3, <2>1 DEF Chain
<1>6. Table(syms, scopes)
  BY <1>1, <1>3, <1>4, <1>5, NoMembers DEF Table, OneIn, Apart, Placed
<1>7. Types /\ Shape
  BY <1>1, <1>3 DEF Types, Shape, Open, Depth
<1>8. Frames /\ ParamsApart /\ Resolved
  BY DEF Frames, ParamsApart, Resolved
<1>9. LabelsUnique /\ Emission
  BY <1>1 DEF LabelsUnique, Emission
<1>10. AsDeclared
  BY <1>3, NoMembers DEF AsDeclared
<1> QED BY <1>6, <1>7, <1>8, <1>9, <1>10 DEF IInv

LEMMA FileScope ==
    ASSUME NEW t, NEW sc, Table(t, sc)
    PROVE  /\ Len(sc) \in Nat /\ Len(sc) >= 1 /\ Len(t) \in Nat
           /\ sc \in Seq(Seq(Nat)) /\ t \in Seq(SymT)
           /\ \A d \in 1 .. Len(sc) : /\ sc[d] \in Seq(1 .. Len(t))
                                      /\ \A s \in ToSet(sc[d]) : s \in 1 .. Len(t)
           /\ 1 \in 1 .. Len(sc) /\ Len(sc[1]) \in Nat
<1>1. /\ Len(sc) \in Nat /\ Len(sc) >= 1 /\ Len(t) \in Nat
      /\ sc \in Seq(Seq(Nat)) /\ t \in Seq(SymT)
      /\ \A d \in 1 .. Len(sc) : sc[d] \in Seq(1 .. Len(t))
  BY LenProperties DEF Table, Chain
<1>2. 1 \in 1 .. Len(sc)
  BY <1>1
<1>3. \A d \in 1 .. Len(sc) : \A s \in ToSet(sc[d]) : s \in 1 .. Len(t)
  BY <1>1, Members
<1> QED BY <1>1, <1>2, <1>3, LenProperties

LEMMA Scoping ==
    ASSUME IInv
    PROVE  /\ Depth \in Nat /\ Depth >= 1 /\ Len(syms) \in Nat /\ SymIds = 1 .. Len(syms)
           /\ 1 \in 1 .. Depth /\ Depth \in 1 .. Depth
           /\ \A d \in 1 .. Depth : /\ scopes[d] \in Seq(SymIds)
                                    /\ \A s \in ToSet(scopes[d]) : s \in SymIds
           /\ \A s \in SymIds : syms[s] \in SymT
<1>1. /\ Depth \in Nat /\ Depth >= 1 /\ Len(syms) \in Nat
      /\ \A d \in 1 .. Depth : /\ scopes[d] \in Seq(SymIds)
                               /\ \A s \in ToSet(scopes[d]) : s \in SymIds
  BY FileScope DEF IInv, Depth, SymIds
<1>2. syms \in Seq(SymT)
  BY FileScope DEF IInv
<1>3. \A s \in SymIds : syms[s] \in SymT
  BY <1>2, ElementOfSeq DEF SymIds
<1>4. 1 \in 1 .. Depth /\ Depth \in 1 .. Depth
  BY <1>1
<1> QED BY <1>1, <1>3, <1>4 DEF SymIds

\* While the file is read nothing has been emitted.
LEMMA StillParsing ==
    ASSUME IInv, phase = "parse", phase' \in {"parse", "emit", "rejected"},
           UNCHANGED <<pos, out>>, Table(syms, scopes)'
    PROVE  /\ LabelsUnique' /\ Emission'
           /\ phase' \in {"parse", "emit", "done", "rejected"}
           /\ pos' \in 1 .. Len(scopes'[1]) + 1 /\ out' \in Seq(LabelT)
<1>1. out' = <<>> /\ pos' = 1
  BY DEF IInv, Emission
<1>2. <<>> \in Seq(LabelT) /\ Len(<<>>) = 0
  BY EmptySeq
<1>3. Len(scopes'[1]) \in Nat
  BY FileScope
<1>4. pos' \in 1 .. Len(scopes'[1]) + 1
  BY <1>1, <1>3
<1>5. LabelsUnique'
  BY <1>1, <1>2 DEF LabelsUnique
<1>6. Emission'
  BY <1>1, <1>2 DEF Emission
<1> QED BY <1>1, <1>2, <1>4, <1>5, <1>6

\* Symbols only ever gain a definition.
Kept == \A s \in SymIds : s \in SymIds' /\ Same(syms'[s], syms[s])

LEMMA KeptWhenUnchanged == UNCHANGED syms => Kept
  BY DEF Kept, Same, SymIds

LEMMA ResolvedKept ==
    ASSUME IInv, Kept, UNCHANGED refs
    PROVE  Resolved'
  BY DEF IInv, Resolved, Kept, Same

\* The file scope still sums up the declarations when a step adds or changes
\* no object and no function in it.
FileSame ==
    /\ \A s \in ToSet(scopes[1]) :
         /\ s \in ToSet(scopes'[1])
         /\ syms'[s].kind = syms[s].kind /\ syms'[s].name = syms[s].name
    /\ \A s \in ToSet(scopes'[1]) :
         syms'[s].kind \in {"global", "func"} =>
            s \in ToSet(scopes[1]) /\ syms'[s] = syms[s]

LEMMA FileKept ==
    ASSUME AsDeclared, UNCHANGED decls, FileSame
    PROVE  AsDeclared'
<1>1. ASSUME NEW s \in ToSet(scopes'[1]) PROVE SumsUp(syms'[s], decls)
  <2>1. CASE syms'[s].kind \in {"global", "func"}
    BY <2>1 DEF AsDeclared, FileSame
  <2>2. CASE syms'[s].kind \notin {"global", "func"}
    BY <2>2 DEF SumsUp
  <2> QED BY <2>1, <2>2
<1>2. \A d \in decls : \E s \in ToSet(scopes'[1]) :
         syms'[s].name = d.name /\ syms'[s].kind = KindOf(d)
  BY DEF AsDeclared, FileSame
<1> QED BY <1>1, <1>2 DEF AsDeclared

LEMMA FileUntouched ==
    ASSUME \A s \in ToSet(scopes[1]) : syms'[s] = syms[s], scopes'[1] = scopes[1]
    PROVE  FileSame
  BY DEF FileSame
-----------------------------------------------------------------------------
(***************************************************************************)
(* declare, in the innermost scope.                                        *)
(***************************************************************************)
LEMMA Declaring ==
    ASSUME IInv, NEW kind \in SymKinds, NEW storage \in Storages, NEW name \in Names,
           NEW ty \in AnyTy, NEW is_def \in BOOLEAN, NEW func \in 0 .. Len(syms),
           declare(kind, storage, name, ty, is_def, func),
           kind = "local" => is_def /\ Depth > 1,
           kind = "global" => Depth = 1
    PROVE  LET sym == Sym(kind, name, storage, ty, is_def, func)
           IN  /\ Table(syms, scopes)' /\ Kept /\ Depth' = Depth
               /\ Len(syms') \in Nat /\ Len(syms') >= Len(syms)
               /\ Grown(syms', scopes'[Depth], Top, sym)
               /\ \A d \in 1 .. Depth - 1 : scopes'[d] = scopes[d]
               /\ \A d \in 1 .. Depth - 1 : \A s \in ToSet(scopes[d]) : syms'[s] = syms[s]
               /\ kind \notin {"global", "func"} => FileSame
<1> DEFINE sym == Sym(kind, name, storage, ty, is_def, func)
           x   == Extended(Top, kind, name)
<1>1. Table(syms, scopes)
  BY DEF IInv
<1>2. /\ Depth \in Nat /\ Depth >= 1 /\ Len(syms) \in Nat /\ Depth \in 1 .. Depth
      /\ \A d \in 1 .. Depth : /\ scopes[d] \in Seq(SymIds)
                               /\ \A s \in ToSet(scopes[d]) : s \in SymIds
  BY <1>1, FileScope DEF Depth, SymIds
<1>3. /\ ~Clashes(Top, kind, storage, name, ty, is_def)
      /\ syms' = Declared(Top, kind, storage, name, ty, is_def, func)
      /\ scopes' = [scopes EXCEPT ![Depth] = x]
  BY DEF declare
<1>4. /\ sym \in SymT /\ sym.func \in 0 .. Len(syms) /\ sym.kind = kind
      /\ sym.is_defined = is_def
  BY <1>2 DEF Sym, SymT
<1>5. syms \in Seq(SymT) /\ Top \in Seq(SymIds) /\ OneIn(Top, syms)
  BY <1>1, <1>2 DEF Table, Top, Depth
<1>6. Grown(syms', x, Top, sym)
  BY <1>3, <1>4, <1>5, Growing
<1> HIDE DEF sym, x
<1>7. /\ Table(syms', scopes') /\ Len(scopes') = Depth /\ scopes'[Depth] = x
      /\ \A d \in 1 .. Depth - 1 : scopes'[d] = scopes[d]
  <2>1. Grown(syms', x, scopes[Len(scopes)], sym)
    BY <1>6 DEF Top, Depth
  <2>2. Fits(sym, scopes)
    BY <1>4 DEF Fits, Depth
  <2>3. scopes' = Put(scopes, x)
    BY <1>3 DEF Depth, Put
  <2>4. Puts(syms', x, scopes, Put(scopes, x))
    BY <1>1, <2>1, <2>2, TableGrows
  <2> QED BY <2>3, <2>4 DEF Depth, Puts
<1>8. Len(syms') >= Len(syms) /\ Len(syms') \in Nat
  BY <1>6, <1>7, FileScope DEF Grown
<1>9. Kept
  BY <1>2, <1>6, <1>8 DEF Grown, Kept, SymIds
<1>10. ASSUME NEW d \in 1 .. Depth - 1, NEW s \in ToSet(scopes[d])
       PROVE  syms'[s] = syms[s]
  <2>1. d \in 1 .. Depth /\ d # Depth
    BY <1>2
  <2>2. s \in SymIds /\ s \notin ToSet(Top)
    BY <1>1, <1>2, <2>1 DEF Table, Apart, Top, Depth
  <2> QED BY <1>6, <2>2 DEF Grown
<1>11. ASSUME kind \notin {"global", "func"} PROVE FileSame
  <2>1. CASE Depth = 1
    <3>1. Top = scopes[1] /\ x = scopes'[1] /\ \A s \in ToSet(scopes[1]) : s \in SymIds
      BY <1>2, <1>7, <2>1 DEF Top
    <3>2. \A s \in ToSet(scopes[1]) : s \in ToSet(scopes'[1]) /\ Same(syms'[s], syms[s])
      BY <1>6, <3>1 DEF Grown
    <3>3. ASSUME NEW s \in ToSet(scopes'[1]), syms'[s].kind \in {"global", "func"}
          PROVE  s \in ToSet(scopes[1]) /\ syms'[s] = syms[s]
      <4>1. s \in ToSet(scopes[1])
        BY <1>4, <1>6, <1>11, <3>1, <3>3 DEF Grown
      <4>2. syms[s].kind # sym.kind
        BY <1>4, <1>11, <3>2, <3>3, <4>1 DEF Same
      <4> QED BY <1>6, <3>1, <4>1, <4>2 DEF Grown
    <3> QED BY <3>2, <3>3 DEF FileSame, Same
  <2>2. CASE Depth # 1
    <3>1. 1 \in 1 .. Depth - 1
      BY <1>2, <2>2
    <3> QED BY <1>7, <1>10, <3>1, FileUntouched
  <2> QED BY <2>1, <2>2
<1> QED BY <1>6, <1>7, <1>8, <1>9, <1>10, <1>11 DEF sym, Depth

\* What is declared with no linkage, in whatever scope.
LEMMA DeclaringInner ==
    ASSUME IInv, NEW kind \in {"const", "struct", "local"}, NEW name \in Names,
           NEW ty \in AnyTy, NEW is_def \in BOOLEAN, NEW func \in 0 .. Len(syms),
           Parsing, declare(kind, "none", name, ty, is_def, func),
           kind = "local" => is_def /\ Depth > 1,
           kind = "local" /\ proto = <<>> => func = curr_func,
           (proto' = <<>>) <=> (proto = <<>>),
           proto' \in Seq(ProtoT) /\ Len(proto') <= 1, ParamsApart',
           UNCHANGED <<curr_func, refs, phase, pos, out, decls>>
    PROVE  IInv'
<1> DEFINE sym == Sym(kind, name, "none", ty, is_def, func)
<1>1. /\ Table(syms, scopes)' /\ Kept /\ Depth' = Depth
      /\ Len(syms') \in Nat /\ Len(syms') >= Len(syms)
      /\ Grown(syms', scopes'[Depth], Top, sym)
      /\ \A d \in 1 .. Depth - 1 : scopes'[d] = scopes[d]
      /\ FileSame
  BY Declaring DEF SymKinds, Storages
<1>2. sym.kind = kind /\ sym.func = func
  BY DEF Sym
<1> HIDE DEF sym
<1>3. Depth \in Nat /\ Depth >= 1 /\ Len(syms) \in Nat
  BY FileScope DEF IInv, Depth
<1>4. LabelsUnique' /\ Emission' /\ pos' \in 1 .. Len(scopes'[1]) + 1 /\ out' \in Seq(LabelT)
      /\ phase' \in {"parse", "emit", "done", "rejected"}
  BY <1>1, StillParsing DEF Parsing
<1>5. curr_func' \in 0 .. Len(syms')
  BY <1>1, <1>3 DEF IInv, Types
<1>6. Types'
  BY <1>4, <1>5 DEF Types, IInv
<1>7. Open' = Open /\ Open \in Nat
  BY <1>1, <1>3 DEF Open, IInv, Shape
<1>8. Shape'
  BY <1>7 DEF Shape, IInv, Parsing
<1>9. Frames'
  <2> SUFFICES ASSUME curr_func # 0, NEW d \in 2 .. Open, NEW s \in ToSet(scopes'[d]),
                      syms'[s].kind = "local"
               PROVE  syms'[s].func = curr_func
    BY <1>7 DEF Frames
  <2>1. ASSUME s \in ToSet(scopes[d]) PROVE syms'[s].func = curr_func
    <3>1. d \in 1 .. Depth
      BY <1>3, <1>7 DEF Open
    <3>2. s \in SymIds
      BY <2>1, <3>1, FileScope DEF IInv, Depth, SymIds
    <3>3. syms[s].kind = "local"
      BY <1>1, <3>2 DEF Kept, Same
    <3>4. syms[s].func = curr_func
      BY <2>1, <3>3 DEF IInv, Frames
    <3> QED BY <1>1, <3>2, <3>4 DEF Kept, Same
  <2>2. CASE d \in 1 .. Depth - 1
    BY <1>1, <2>1, <2>2
  <2>3. CASE d \notin 1 .. Depth - 1
    <3>1. d = Depth /\ proto = <<>>
      BY <1>3, <1>7, <2>3 DEF Open
    <3>2. s \in ToSet(scopes[d]) \/ syms'[s] = sym
      BY <1>1, <3>1 DEF Grown, Top
    <3> QED BY <1>2, <2>1, <3>1, <3>2
  <2> QED BY <2>2, <2>3
<1>10. Resolved'
  BY <1>1, ResolvedKept
<1>11. AsDeclared'
  BY <1>1, FileKept DEF IInv
<1> QED BY <1>1, <1>4, <1>6, <1>8, <1>9, <1>10, <1>11 DEF IInv
-----------------------------------------------------------------------------
(***************************************************************************)
(* lookup finds a symbol of an open scope.                                 *)
(***************************************************************************)
LEMMA Innermost ==
    ASSUME NEW n \in Nat, NEW found \in SUBSET (1 .. n), found # {}
    PROVE  \E d \in found : \A e \in found : e <= d
<1> DEFINE T == {n - d : d \in found}
<1>1. \A d \in found : d \in Nat /\ n - d \in Nat
  OBVIOUS
<1>2. T \subseteq Nat /\ T # {}
  BY <1>1
<1> DEFINE R == {ss \in Nat \X Nat : ss[1] < ss[2]}
<1>3. PICK m \in T : \A k \in T : ~(<<k, m>> \in R)
  <2>1. IsWellFoundedOn(R, Nat)
    BY NatLessThanWellFounded DEF OpToRel
  <2> HIDE DEF T, R
  <2> QED BY <1>2, <2>1, WFMin
<1>4. \A k \in T : ~(k < m)
  BY <1>2, <1>3
<1>5. PICK d \in found : m = n - d
  BY <1>3
<1>6. ASSUME NEW e \in found PROVE e <= d
  <2>1. n - e \in T
    OBVIOUS
  <2>2. ~(n - e < n - d)
    BY <1>4, <1>5, <2>1
  <2> QED BY <1>1, <2>2
<1> QED BY <1>6

LEMMA LookupIs ==
    ASSUME NEW is_struct, NEW name, NEW s \in lookup(is_struct, name), Depth \in Nat
    PROVE  \E d \in 1 .. Depth : s \in In(scopes[d], is_struct, name, syms)
<1> DEFINE found == {d \in 1 .. Depth : In(scopes[d], is_struct, name, syms) # {}}
           last  == CHOOSE d \in found : \A e \in found : e <= d
<1>1. found # {} /\ s \in In(scopes[last], is_struct, name, syms)
  BY DEF lookup
<1>2. found \in SUBSET (1 .. Depth)
  OBVIOUS
<1>3. last \in found
  <2> HIDE DEF found
  <2>1. \E d \in found : \A e \in found : e <= d
    BY <1>1, <1>2, Innermost
  <2> QED BY <2>1
<1> HIDE DEF last
<1> QED BY <1>1, <1>2, <1>3
-----------------------------------------------------------------------------
(***************************************************************************)
(* One lemma for each step.  First the declarations without linkage.       *)
(***************************************************************************)
LEMMA ParamsKept ==
    ASSUME IInv, UNCHANGED proto, Kept, Depth' = Depth, ToSet(Top) \subseteq ToSet(scopes'[Depth])
    PROVE  ParamsApart'
<1>1. CASE proto = <<>>
  BY <1>1 DEF ParamsApart
<1>2. CASE proto # <<>>
  <2>1. \A s \in ToSet(Top) : s \in SymIds
    BY Scoping DEF Top
  <2>2. Top' = scopes'[Depth]
    BY DEF Top
  <2>3. \A s \in ToSet(Top) : /\ s \in ToSet(Top') /\ syms'[s].name = syms[s].name
                              /\ syms'[s].kind = syms[s].kind
    BY <2>1, <2>2 DEF Kept, Same
  <2> QED BY <1>2, <2>3 DEF ParamsApart, IInv
<1> QED BY <1>1, <1>2

LEMMA ConstKeeps == ASSUME IInv, NEW n \in Names, DeclareConst(n) PROVE IInv'
<1>1. Parsing /\ declare("const", "none", n, IntTy, TRUE, 0)
  BY DEF DeclareConst
<1>2. 0 \in 0 .. Len(syms) /\ IntTy \in AnyTy
  BY FileScope DEF IInv, AnyTy
<1>3. Kept /\ Depth' = Depth /\ ToSet(Top) \subseteq ToSet(scopes'[Depth])
  BY <1>1, <1>2, Declaring DEF SymKinds, Storages, Grown
<1>4. ParamsApart'
  BY <1>3, ParamsKept DEF DeclareConst
<1> QED BY <1>1, <1>2, <1>4, DeclaringInner DEF DeclareConst, IInv, Types

LEMMA TagKeeps ==
    ASSUME IInv, NEW n \in Names, NEW is_def \in BOOLEAN, DeclareTag(n, is_def)
    PROVE  IInv'
<1>1. Parsing /\ declare("struct", "none", n, <<>>, is_def, 0)
  BY DEF DeclareTag
<1>2. 0 \in 0 .. Len(syms) /\ <<>> \in AnyTy
  BY FileScope DEF IInv, AnyTy
<1>3. Kept /\ Depth' = Depth /\ ToSet(Top) \subseteq ToSet(scopes'[Depth])
  BY <1>1, <1>2, Declaring DEF SymKinds, Storages, Grown
<1>4. ParamsApart'
  BY <1>3, ParamsKept DEF DeclareTag
<1> QED BY <1>1, <1>2, <1>4, DeclaringInner DEF DeclareTag, IInv, Types

LEMMA LocalKeeps ==
    ASSUME IInv, NEW n \in Names, NEW t \in Tys, DeclareLocal(n, t)
    PROVE  IInv'
<1>1. InBody /\ declare("local", "none", n, t, TRUE, curr_func)
  BY DEF DeclareLocal
<1>2. curr_func \in 0 .. Len(syms) /\ t \in AnyTy
  BY DEF IInv, Types, AnyTy
<1>3. Depth > 1
  BY <1>1, FileScope DEF IInv, Shape, Open, InBody, Depth
<1>4. Kept /\ Depth' = Depth /\ ToSet(Top) \subseteq ToSet(scopes'[Depth])
  BY <1>1, <1>2, <1>3, Declaring DEF SymKinds, Storages, Grown
<1>5. ParamsApart'
  BY <1>4, ParamsKept DEF DeclareLocal
<1> QED BY <1>1, <1>2, <1>3, <1>5, DeclaringInner DEF DeclareLocal, InBody, IInv, Types

LEMMA ParamKeeps ==
    ASSUME IInv, NEW n \in Names, NEW t \in Tys, DeclareParam(n, t)
    PROVE  IInv'
<1> DEFINE p  == proto[1].params
           np == Append(p, [name |-> n, ty |-> t])
<1>1. /\ Parsing /\ proto # <<>> /\ declare("local", "none", n, t, TRUE, 0)
      /\ proto' = [proto EXCEPT ![1].params = np]
  BY DEF DeclareParam
<1>2. 0 \in 0 .. Len(syms) /\ t \in AnyTy
  BY FileScope DEF IInv, AnyTy
<1>3. Depth > 1
  BY <1>1, Scoping DEF IInv, Shape, Open
<1>4. /\ Kept /\ Depth' = Depth
      /\ Grown(syms', scopes'[Depth], Top, Sym("local", n, "none", t, TRUE, 0))
  BY <1>1, <1>2, <1>3, Declaring DEF SymKinds, Storages
<1>5. proto \in Seq(ProtoT) /\ Len(proto) = 1 /\ proto[1] \in ProtoT
  <2>1. proto \in Seq(ProtoT) /\ Len(proto) <= 1
    BY DEF IInv, Types
  <2>2. Len(proto) \in Nat \ {0}
    BY <1>1, <2>1, EmptySeq
  <2>3. \A x \in Nat \ {0} : x <= 1 => x = 1
    OBVIOUS
  <2>4. Len(proto) = 1
    BY <2>1, <2>2, <2>3
  <2> QED BY <2>1, <2>4, ElementOfSeq
<1>6. p \in Seq(ParamT) /\ [name |-> n, ty |-> t] \in ParamT
  BY <1>5 DEF ProtoT, ParamT
<1>7. /\ np \in Seq(ParamT) /\ Len(np) = Len(p) + 1 /\ Len(p) \in Nat
      /\ \A i \in 1 .. Len(p) : np[i] = p[i]
      /\ np[Len(p) + 1] = [name |-> n, ty |-> t]
  BY <1>6, AppendProperties, LenProperties
<1> HIDE DEF np
<1>8. /\ proto' \in Seq(ProtoT) /\ Len(proto') = 1 /\ proto'[1].params = np
  <2>1. [proto[1] EXCEPT !.params = np] \in ProtoT
    BY <1>5, <1>7 DEF ProtoT
  <2>2. proto' = [proto EXCEPT ![1] = [proto[1] EXCEPT !.params = np]]
    BY <1>1
  <2>3. 1 \in 1 .. Len(proto)
    BY <1>5
  <2>4. /\ proto' \in Seq(ProtoT) /\ Len(proto') = Len(proto)
        /\ proto'[1] = [proto[1] EXCEPT !.params = np]
    BY <1>5, <2>1, <2>2, <2>3, ExceptSeq
  <2>5. proto'[1].params = np
    BY <1>5, <2>4 DEF ProtoT
  <2> QED BY <1>5, <2>4, <2>5
<1>9. proto' # <<>>
  <2> SUFFICES ASSUME proto' = <<>> PROVE FALSE
    OBVIOUS
  <2>1. Len(proto') = 0
    BY NoMembers
  <2>2. 1 # 0
    OBVIOUS
  <2> QED BY <1>8, <2>1, <2>2
<1>10. ~\E s \in ToSet(Top) : syms[s].name = n /\ syms[s].kind = "local"
  <2> SUFFICES ASSUME NEW s \in ToSet(Top), syms[s].name = n, syms[s].kind = "local"
               PROVE  FALSE
    OBVIOUS
  <2>1. s \in SymIds
    BY Scoping DEF Top
  <2>2. syms[s].is_defined
    BY <2>1 DEF IInv, Table, Placed, SymIds
  <2>3. s \in lookup_in(Top, "local" = "struct", n)
    BY DEF lookup_in, In
  <2>4. Clashes(Top, "local", "none", n, t, TRUE)
    BY <2>2, <2>3 DEF Clashes, Conflicts
  <2> QED BY <1>1, <2>4 DEF declare
<1>11. ParamsApart'
  <2>1. /\ \A i \in 1 .. Len(p) : \E s \in ToSet(Top) :
             syms[s].name = p[i].name /\ syms[s].kind = "local"
        /\ \A i, j \in 1 .. Len(p) : p[i].name = p[j].name => i = j
    BY <1>1 DEF IInv, ParamsApart
  <2>2. \A i \in 1 .. Len(p) : p[i].name # n
    BY <1>10, <2>1
  <2>3. \A i \in 1 .. Len(np) : i \in 1 .. Len(p) \/ i = Len(p) + 1
    BY <1>7
  <2>4. \A i, j \in 1 .. Len(np) : np[i].name = np[j].name => i = j
    <3>1. \A i \in 1 .. Len(p) : np[i].name # n /\ np[i].name = p[i].name
      BY <1>7, <2>2
    <3>2. np[Len(p) + 1].name = n
      BY <1>7
    <3> HIDE DEF p
    <3> QED BY <2>1, <2>3, <3>1, <3>2
  <2>5. \A s \in ToSet(Top) : /\ s \in ToSet(scopes'[Depth])
                              /\ syms'[s].name = syms[s].name
                              /\ syms'[s].kind = syms[s].kind
    BY <1>4, Scoping DEF Kept, Same, Grown, Top
  <2>6. \E s \in ToSet(scopes'[Depth]) : syms'[s].name = n /\ syms'[s].kind = "local"
    BY <1>4 DEF Grown, Sym
  <2>7. ASSUME NEW i \in 1 .. Len(np)
        PROVE  \E s \in ToSet(scopes'[Depth]) :
                 syms'[s].name = np[i].name /\ syms'[s].kind = "local"
    <3>1. CASE i \in 1 .. Len(p)
      BY <1>7, <2>1, <2>5, <3>1
    <3>2. CASE i = Len(p) + 1
      <4>1. np[i].name = n
        BY <1>7, <3>2
      <4> QED BY <2>6, <4>1
    <3> QED BY <2>3, <3>1, <3>2
  <2>8. Top' = scopes'[Depth]
    BY <1>4 DEF Top
  <2> QED BY <1>8, <2>4, <2>7, <2>8 DEF ParamsApart
<1>12. UNCHANGED <<curr_func, refs, phase, pos, out, decls>>
  BY DEF DeclareParam
<1>13. Len(proto') <= 1 /\ 0 \in 0 .. Len(syms)
  BY <1>2, <1>8
<1> HIDE DEF np, p
<1> QED BY <1>1, <1>2, <1>3, <1>8, <1>9, <1>11, <1>12, <1>13, DeclaringInner
-----------------------------------------------------------------------------
(***************************************************************************)
(* The steps that leave the table alone.                                   *)
(***************************************************************************)
LEMMA RejectKeeps == ASSUME IInv, Parsing, Reject PROVE IInv'
<1>1. /\ phase = "parse" /\ phase' = "rejected"
      /\ UNCHANGED <<syms, scopes, curr_func, proto, refs, pos, out, decls>>
  BY DEF Parsing, Reject
<1>2. Table(syms, scopes)'
  BY <1>1 DEF IInv
<1>3. LabelsUnique' /\ Emission'
  BY <1>1, <1>2, StillParsing
<1>4. Types' /\ Shape'
  BY <1>1 DEF IInv, Types, Shape, Open, Depth
<1>5. Frames' /\ ParamsApart' /\ Resolved'
  BY <1>1 DEF IInv, Frames, ParamsApart, Resolved, Open, Depth, Top, SymIds
<1>6. AsDeclared'
  BY <1>1 DEF IInv, AsDeclared
<1> QED BY <1>2, <1>3, <1>4, <1>5, <1>6 DEF IInv

\* A scope is opened or closed.
LEMMA Rescoping ==
    ASSUME IInv, Parsing, Table(syms, scopes'), scopes'[1] = scopes[1],
           UNCHANGED <<syms, refs, phase, pos, out, decls>>,
           curr_func' \in {0, curr_func}, proto' \in Seq(ProtoT), Len(proto') <= 1,
           Open' >= 1, curr_func' = 0 => Open' = 1, curr_func' # 0 => Open' >= 3,
           Frames', ParamsApart'
    PROVE  IInv'
<1>1. phase = "parse" /\ Table(syms, scopes)'
  BY DEF Parsing
<1>2. /\ LabelsUnique' /\ Emission' /\ pos' \in 1 .. Len(scopes'[1]) + 1
      /\ out' \in Seq(LabelT) /\ phase' \in {"parse", "emit", "done", "rejected"}
  BY <1>1, StillParsing
<1>3. curr_func' \in 0 .. Len(syms')
  BY Scoping DEF IInv, Types
<1>4. Types' /\ Shape'
  BY <1>1, <1>2, <1>3 DEF IInv, Types, Shape
<1>5. Resolved'
  BY KeptWhenUnchanged, ResolvedKept
<1>6. AsDeclared'
  BY FileUntouched, FileKept DEF IInv
<1> QED BY <1>1, <1>2, <1>4, <1>5, <1>6 DEF IInv

LEMMA ProtoKeeps ==
    ASSUME IInv, NEW n \in Names, NEW st \in Storages, OpenProto(n, st)
    PROVE  IInv'
<1> DEFINE q == [name |-> n, storage |-> st, params |-> <<>>]
<1>1. /\ Parsing /\ proto = <<>>
      /\ scopes' = Append(scopes, <<>>) /\ proto' = <<q>>
      /\ UNCHANGED <<syms, curr_func, refs, phase, pos, out, decls>>
  BY DEF OpenProto, AtFileScope, InBody
<1>2. /\ Table(syms, scopes') /\ Len(scopes') = Len(scopes) + 1
      /\ \A d \in 1 .. Len(scopes) : scopes'[d] = scopes[d]
  BY <1>1, TablePushes DEF IInv
<1>3. <<>> \in Seq(ParamT) /\ Len(<<>>) = 0
  BY EmptySeq
<1>4. q \in ProtoT
  BY <1>3 DEF ProtoT
<1>5. proto' \in Seq(ProtoT) /\ Len(proto') = 1 /\ proto' # <<>> /\ proto'[1].params = <<>>
  <2>1. <<q>> \in Seq(ProtoT) /\ Len(<<q>>) = 1 /\ <<q>>[1] = q
    BY <1>4
  <2>2. <<q>> # <<>>
    BY <1>3, <2>1
  <2> QED BY <1>1, <2>1, <2>2
<1>6. Depth' = Depth + 1 /\ Open' = Open /\ Open = Depth
  BY <1>1, <1>2, <1>5, Scoping DEF Open, Depth
<1>7. scopes'[1] = scopes[1]
  BY <1>2, Scoping DEF Depth
<1>8. Frames'
  BY <1>1, <1>2, <1>6, Scoping DEF IInv, Frames, Depth
<1>9. ParamsApart'
  BY <1>3, <1>5 DEF ParamsApart
<1> QED BY <1>1, <1>2, <1>5, <1>6, <1>7, <1>8, <1>9, Rescoping DEF IInv, Shape

LEMMA PushKeeps == ASSUME IInv, PushBlock PROVE IInv'
<1>1. /\ Parsing /\ proto = <<>> /\ curr_func # 0 /\ scopes' = Append(scopes, <<>>)
      /\ UNCHANGED <<syms, curr_func, proto, refs, phase, pos, out, decls>>
  BY DEF PushBlock, InBody
<1>2. /\ Table(syms, scopes') /\ Len(scopes') = Len(scopes) + 1
      /\ \A d \in 1 .. Len(scopes) : scopes'[d] = scopes[d]
      /\ scopes'[Len(scopes) + 1] = <<>>
  BY <1>1, TablePushes DEF IInv
<1>3. Depth' = Depth + 1 /\ Open' = Open + 1 /\ Open = Depth
  BY <1>1, <1>2, Scoping DEF Open, Depth
<1>4. scopes'[1] = scopes[1]
  BY <1>2, Scoping DEF Depth
<1>5. Frames'
  <2> SUFFICES ASSUME NEW d \in 2 .. Depth + 1, NEW s \in ToSet(scopes'[d]),
                      syms[s].kind = "local"
               PROVE  syms[s].func = curr_func
    BY <1>1, <1>3 DEF Frames
  <2>1. CASE d = Depth + 1
    BY <1>2, <2>1, NoMembers DEF Depth
  <2>2. CASE d \in 2 .. Depth
    <3>1. d \in 1 .. Len(scopes)
      BY <2>2 DEF Depth
    <3> QED BY <1>1, <1>2, <1>3, <2>2, <3>1 DEF IInv, Frames
  <2> QED BY <2>1, <2>2, Scoping
<1>6. ParamsApart'
  BY <1>1 DEF ParamsApart
<1>7. /\ Open' >= 1 /\ curr_func' # 0 /\ Open' >= 3
      /\ proto' \in Seq(ProtoT) /\ Len(proto') <= 1
  BY <1>1, <1>3, Scoping DEF IInv, Shape, Types
<1> QED BY <1>1, <1>2, <1>4, <1>5, <1>6, <1>7, Rescoping

LEMMA PopKeeps == ASSUME IInv, PopBlock PROVE IInv'
<1>1. /\ Parsing /\ proto = <<>> /\ curr_func # 0 /\ Depth > 3 /\ scopes' = Front(scopes)
      /\ UNCHANGED <<syms, curr_func, proto, refs, phase, pos, out, decls>>
  BY DEF PopBlock, InBody
<1>2. /\ Table(syms, scopes') /\ Len(scopes') = Len(scopes) - 1
      /\ \A d \in 1 .. Len(scopes) - 1 : scopes'[d] = scopes[d]
  BY <1>1, Scoping, TablePops DEF IInv, Depth
<1>3. Depth' = Depth - 1 /\ Open' = Depth' /\ Open = Depth
  BY <1>1, <1>2 DEF Open, Depth
<1>4. scopes'[1] = scopes[1]
  <2>1. 1 \in 1 .. Depth - 1
    BY <1>1, Scoping
  <2> QED BY <1>2, <2>1 DEF Depth
<1>5. Frames'
  <2> SUFFICES ASSUME NEW d \in 2 .. Depth - 1, NEW s \in ToSet(scopes'[d]),
                      syms[s].kind = "local"
               PROVE  syms[s].func = curr_func
    BY <1>1, <1>3 DEF Frames
  <2>1. d \in 1 .. Depth - 1 /\ d \in 2 .. Depth
    BY Scoping
  <2>2. scopes'[d] = scopes[d]
    BY <1>2, <2>1 DEF Depth
  <2> QED BY <1>1, <1>3, <2>1, <2>2 DEF IInv, Frames
<1>6. ParamsApart'
  BY <1>1 DEF ParamsApart
<1>7. /\ Open' >= 1 /\ curr_func' # 0 /\ Open' >= 3
      /\ proto' \in Seq(ProtoT) /\ Len(proto') <= 1
  BY <1>1, <1>3, Scoping DEF IInv, Types
<1> QED BY <1>1, <1>2, <1>4, <1>5, <1>6, <1>7, Rescoping

LEMMA EndFuncKeeps == ASSUME IInv, EndFunc PROVE IInv'
<1>1. /\ Parsing /\ proto = <<>> /\ Depth = 3 /\ scopes' = Front(Front(scopes))
      /\ curr_func' = 0
      /\ UNCHANGED <<syms, proto, refs, phase, pos, out, decls>>
  BY DEF EndFunc, InBody
<1>2. /\ Table(syms, Front(scopes)) /\ Len(Front(scopes)) = Depth - 1
      /\ \A d \in 1 .. Depth - 1 : Front(scopes)[d] = scopes[d]
  <2>1. Depth > 1
    BY <1>1
  <2> QED BY <2>1, TablePops DEF IInv, Depth
<1>3. /\ Table(syms, scopes') /\ Len(scopes') = 1 /\ scopes'[1] = scopes[1]
  <2> DEFINE sc == Front(scopes)
  <2>1. Depth - 1 = 2 /\ 1 \in 1 .. 2 /\ 1 \in 1 .. 2 - 1
    BY <1>1
  <2>2. Table(syms, sc) /\ Len(sc) = 2 /\ sc[1] = scopes[1]
    BY <1>2, <2>1
  <2> HIDE DEF sc
  <2>3. Len(sc) > 1
    BY <2>2
  <2>4. /\ Table(syms, Front(sc)) /\ Len(Front(sc)) = Len(sc) - 1
        /\ \A d \in 1 .. Len(sc) - 1 : Front(sc)[d] = sc[d]
    BY <2>2, <2>3, TablePops
  <2>5. 2 - 1 = 1 /\ Front(sc) = scopes'
    BY <1>1 DEF sc
  <2> QED BY <2>1, <2>2, <2>4, <2>5
<1>4. Open' = 1
  BY <1>1, <1>3 DEF Open, Depth
<1>5. Frames' /\ ParamsApart'
  BY <1>1 DEF Frames, ParamsApart
<1> QED BY <1>1, <1>3, <1>4, <1>5, Rescoping DEF IInv, Types

LEMMA UseKeeps == ASSUME IInv, NEW n \in Names, Use(n) PROVE IInv'
<1>1. /\ Parsing /\ curr_func # 0 /\ proto = <<>>
      /\ UNCHANGED <<syms, scopes, curr_func, proto, phase, pos, out, decls>>
  BY DEF Use, InBody
<1>2. PICK s \in lookup(FALSE, n) :
         refs' \subseteq refs \cup {[func |-> curr_func, sym |-> s]}
  BY DEF Use
<1>3. PICK d \in 1 .. Depth : s \in ToSet(scopes[d])
  BY <1>2, Scoping, LookupIs DEF In
<1>4. s \in SymIds
  BY <1>3, Scoping
<1>5. syms[s].kind = "local" => syms[s].func = curr_func
  <2>1. CASE d = 1
    BY <1>3, <2>1 DEF IInv, Table, Placed
  <2>2. CASE d \in 2 .. Depth
    BY <1>1, <1>3, <2>2 DEF IInv, Frames, Open
  <2> QED BY <2>1, <2>2, Scoping
<1>6. Resolved'
  BY <1>1, <1>2, <1>4, <1>5 DEF IInv, Resolved, SymIds
<1>7. Types' /\ Shape' /\ Frames' /\ ParamsApart'
  BY <1>1 DEF IInv, Types, Shape, Frames, ParamsApart, Open, Depth, Top
<1>8. LabelsUnique' /\ Emission'
  BY <1>1, StillParsing DEF IInv, Parsing
<1>9. AsDeclared'
  BY <1>1 DEF IInv, AsDeclared
<1> QED BY <1>1, <1>6, <1>7, <1>8, <1>9 DEF IInv
-----------------------------------------------------------------------------
(***************************************************************************)
(* main's second pass.                                                     *)
(***************************************************************************)
LEMMA EndOfFileKeeps == ASSUME IInv, EndOfFile PROVE IInv'
<1>1. /\ phase = "parse" /\ curr_func = 0 /\ proto = <<>> /\ phase' = "emit"
      /\ UNCHANGED <<syms, scopes, curr_func, proto, refs, pos, out, decls>>
  BY DEF EndOfFile, AtFileScope, Parsing
<1>2. Table(syms, scopes)'
  BY <1>1 DEF IInv
<1>3. LabelsUnique' /\ Emission'
  BY <1>1, <1>2, StillParsing
<1>4. Types' /\ Shape'
  BY <1>1 DEF IInv, Types, Shape, Open, Depth
<1>5. Frames' /\ ParamsApart' /\ Resolved'
  BY <1>1 DEF IInv, Frames, ParamsApart, Resolved, Open, Depth, Top, SymIds
<1>6. AsDeclared'
  BY <1>1 DEF IInv, AsDeclared
<1> QED BY <1>2, <1>3, <1>4, <1>5, <1>6 DEF IInv

\* In the file scope a name that is no tag has one symbol.
LEMMA OneInFile ==
    ASSUME IInv, NEW p \in 1 .. Len(scopes[1]), NEW q \in 1 .. Len(scopes[1]),
           syms[scopes[1][p]].name = syms[scopes[1][q]].name,
           syms[scopes[1][p]].kind # "struct", syms[scopes[1][q]].kind # "struct"
    PROVE  p = q
<1>1. OneIn(scopes[1], syms)
  BY Scoping DEF IInv, Table, Depth
<1> QED BY <1>1 DEF OneIn, Alike

\* The names of labels and the symbols behind them.
LEMMA FileSymbols ==
    ASSUME IInv
    PROVE  /\ Len(scopes[1]) \in Nat
           /\ \A p \in 1 .. Len(scopes[1]) :
                scopes[1][p] \in SymIds /\ scopes[1][p] \in ToSet(scopes[1])
           /\ \A s \in ToSet(scopes[1]) : \E p \in 1 .. Len(scopes[1]) : s = scopes[1][p]
           /\ pos \in Nat /\ pos >= 1 /\ pos <= Len(scopes[1]) + 1
           /\ out \in Seq(LabelT) /\ Len(out) \in Nat
<1>1. scopes[1] \in Seq(SymIds)
  BY Scoping
<1>2. /\ Len(scopes[1]) \in Nat
      /\ \A p \in 1 .. Len(scopes[1]) :
           scopes[1][p] \in SymIds /\ scopes[1][p] \in ToSet(scopes[1])
      /\ \A s \in ToSet(scopes[1]) : \E p \in 1 .. Len(scopes[1]) : s = scopes[1][p]
  BY <1>1, Members
<1>3. pos \in 1 .. Len(scopes[1]) + 1 /\ out \in Seq(LabelT)
  BY DEF IInv, Types
<1>4. pos \in Nat /\ pos >= 1 /\ pos <= Len(scopes[1]) + 1
  BY <1>2, <1>3
<1> QED BY <1>2, <1>3, <1>4, LenProperties

\* A new label has a new name.
LEMMA NewLabel ==
    ASSUME IInv, pos <= Len(scopes[1]), Needs(syms[scopes[1][pos]]), NEW i \in 1 .. Len(out)
    PROVE  out[i].name # syms[scopes[1][pos]].name
<1>1. PICK p \in 1 .. pos - 1 :
         Needs(syms[scopes[1][p]]) /\ out[i] = LabelFor(syms[scopes[1][p]])
  BY DEF IInv, Emission
<1>2. p \in 1 .. Len(scopes[1]) /\ pos \in 1 .. Len(scopes[1]) /\ p # pos
  BY FileSymbols
<1>3. out[i].name = syms[scopes[1][p]].name
  BY <1>1 DEF LabelFor
<1>4. syms[scopes[1][p]].kind # "struct" /\ syms[scopes[1][pos]].kind # "struct"
  BY <1>1 DEF Needs
<1> QED BY <1>2, <1>3, <1>4, OneInFile

LEMMA EmitKeeps == ASSUME IInv, EmitSym PROVE IInv'
<1> DEFINE sym == syms[scopes[1][pos]]
<1>1. /\ phase = "emit" /\ pos <= Len(scopes[1]) /\ pos' = pos + 1
      /\ out' = IF Needs(sym) THEN Append(out, LabelFor(sym)) ELSE out
      /\ UNCHANGED <<syms, scopes, curr_func, proto, refs, phase, decls>>
  BY EmittedIs DEF EmitSym
<1>2. /\ pos \in Nat /\ pos >= 1 /\ pos - 1 \in Nat /\ pos' - 1 = pos
      /\ Len(scopes[1]) \in Nat /\ out \in Seq(LabelT) /\ Len(out) \in Nat
      /\ scopes[1][pos] \in SymIds
      /\ \A p \in 1 .. pos : p \in 1 .. pos - 1 \/ p = pos
      /\ \A p \in 1 .. pos - 1 : p \in 1 .. pos
      /\ pos \in 1 .. pos /\ pos' \in 1 .. Len(scopes[1]) + 1
  <2>1. /\ pos \in Nat /\ pos >= 1 /\ pos \in 1 .. Len(scopes[1])
        /\ Len(scopes[1]) \in Nat /\ out \in Seq(LabelT) /\ Len(out) \in Nat
    BY <1>1, FileSymbols
  <2>2. scopes[1][pos] \in SymIds
    BY <2>1, FileSymbols
  <2> QED BY <1>1, <2>1, <2>2
<1>3. LabelFor(sym) \in LabelT
  <2>1. sym \in SymT
    BY <1>2, Scoping
  <2> QED BY <2>1 DEF LabelFor, LabelT, SymT
<1>4. /\ \A i \in 1 .. Len(out) : \E p \in 1 .. pos - 1 :
           Needs(syms[scopes[1][p]]) /\ out[i] = LabelFor(syms[scopes[1][p]])
      /\ \A p \in 1 .. pos - 1 : Needs(syms[scopes[1][p]]) =>
           \E i \in 1 .. Len(out) : out[i] = LabelFor(syms[scopes[1][p]])
      /\ \A i, j \in 1 .. Len(out) : out[i].name = out[j].name => i = j
  BY DEF IInv, Emission, LabelsUnique
<1>5. phase' = "emit" /\ scopes' = scopes /\ syms' = syms /\ pos' - 1 = pos
  BY <1>1, <1>2
<1>6. ASSUME ~Needs(sym) PROVE Emission' /\ LabelsUnique' /\ out' \in Seq(LabelT)
  <2>1. out' = out
    BY <1>1, <1>6
  <2>2. Emission'
    <3>1. \A i \in 1 .. Len(out) : \E p \in 1 .. pos :
            Needs(syms[scopes[1][p]]) /\ out[i] = LabelFor(syms[scopes[1][p]])
      BY <1>2, <1>4
    <3>2. \A p \in 1 .. pos : Needs(syms[scopes[1][p]]) =>
            \E i \in 1 .. Len(out) : out[i] = LabelFor(syms[scopes[1][p]])
      <4> SUFFICES ASSUME NEW p \in 1 .. pos, Needs(syms[scopes[1][p]])
                   PROVE  \E i \in 1 .. Len(out) : out[i] = LabelFor(syms[scopes[1][p]])
        OBVIOUS
      <4>1. p # pos
        BY <1>6
      <4>2. p \in 1 .. pos - 1
        BY <1>2, <4>1
      <4> QED BY <1>4, <4>2
    <3> QED BY <1>5, <2>1, <3>1, <3>2 DEF Emission
  <2> QED BY <1>2, <1>4, <2>1, <2>2 DEF LabelsUnique, LabelT
<1>7. ASSUME Needs(sym) PROVE Emission' /\ LabelsUnique' /\ out' \in Seq(LabelT)
  <2> DEFINE n == Len(out)
  <2>1. /\ out' \in Seq(LabelT) /\ Len(out') = n + 1
        /\ \A i \in 1 .. n : out'[i] = out[i]
        /\ out'[n + 1] = LabelFor(sym)
    BY <1>1, <1>2, <1>3, <1>7, AppendProperties
  <2>2. /\ \A i \in 1 .. n + 1 : i \in 1 .. n \/ i = n + 1
        /\ \A i \in 1 .. n : i \in 1 .. n + 1
        /\ n + 1 \in 1 .. n + 1
    BY <1>2, SMTT(40)
  <2> HIDE DEF n
  <2>3. Emission'
    <3>1. ASSUME NEW i \in 1 .. n + 1
          PROVE  \E p \in 1 .. pos :
            Needs(syms[scopes[1][p]]) /\ out'[i] = LabelFor(syms[scopes[1][p]])
      <4>1. CASE i \in 1 .. n
        BY <1>2, <1>4, <2>1, <4>1 DEF n
      <4>2. CASE i = n + 1
        BY <1>2, <1>7, <2>1, <4>2
      <4> QED BY <2>2, <4>1, <4>2
    <3>2. ASSUME NEW p \in 1 .. pos, Needs(syms[scopes[1][p]])
          PROVE  \E i \in 1 .. n + 1 : out'[i] = LabelFor(syms[scopes[1][p]])
      <4>1. CASE p \in 1 .. pos - 1
        <5>1. PICK i \in 1 .. n : out[i] = LabelFor(syms[scopes[1][p]])
          BY <1>4, <3>2, <4>1 DEF n
        <5> QED BY <2>1, <2>2, <5>1
      <4>2. CASE p = pos
        BY <2>1, <2>2, <4>2
      <4> QED BY <1>2, <4>1, <4>2
    <3> QED BY <1>5, <2>1, <3>1, <3>2 DEF Emission
  <2>4. LabelsUnique'
    <3>1. \A i \in 1 .. n : out'[i].name # sym.name
      BY <1>1, <1>7, <2>1, NewLabel DEF n
    <3>2. out'[n + 1].name = sym.name
      BY <2>1 DEF LabelFor
    <3>3. \A i, j \in 1 .. n : out'[i].name = out'[j].name => i = j
      BY <1>4, <2>1 DEF n
    <3> HIDE DEF sym
    <3>4. ASSUME NEW i \in 1 .. n + 1, NEW j \in 1 .. n + 1, out'[i].name = out'[j].name
          PROVE  i = j
      <4>1. CASE i \in 1 .. n /\ j \in 1 .. n
        BY <3>3, <3>4, <4>1
      <4>2. CASE i = n + 1 /\ j \in 1 .. n
        BY <3>1, <3>2, <3>4, <4>2
      <4>3. CASE j = n + 1 /\ i \in 1 .. n
        BY <3>1, <3>2, <3>4, <4>3
      <4> QED BY <2>2, <4>1, <4>2, <4>3
    <3> QED BY <2>1, <3>4 DEF LabelsUnique
  <2> QED BY <2>1, <2>3, <2>4
<1>8. Emission' /\ LabelsUnique' /\ out' \in Seq(LabelT)
  BY <1>1, <1>2, <1>6, <1>7
<1>9. Types' /\ Shape'
  BY <1>1, <1>2, <1>8 DEF IInv, Types, Shape, Open, Depth
<1>10. Frames' /\ ParamsApart' /\ Resolved' /\ AsDeclared' /\ Table(syms, scopes)'
  BY <1>1 DEF IInv, Frames, ParamsApart, Resolved, AsDeclared, Open, Depth, Top, SymIds
<1> QED BY <1>8, <1>9, <1>10 DEF IInv

LEMMA EndOfScopeKeeps == ASSUME IInv, EndOfScope PROVE IInv'
<1>1. /\ phase = "emit" /\ pos > Len(scopes[1]) /\ phase' = "done"
      /\ UNCHANGED <<syms, scopes, curr_func, proto, refs, pos, out, decls>>
  BY DEF EndOfScope
<1>2. pos = Len(scopes[1]) + 1
  BY <1>1, FileSymbols
<1>3. Emission'
  BY <1>1, <1>2 DEF IInv, Emission
<1>4. Types' /\ Shape'
  BY <1>1 DEF IInv, Types, Shape, Open, Depth
<1>5. Frames' /\ ParamsApart' /\ Resolved' /\ AsDeclared' /\ LabelsUnique' /\ Table(syms, scopes)'
  BY <1>1 DEF IInv, Frames, ParamsApart, Resolved, AsDeclared, LabelsUnique, Open, Depth,
              Top, SymIds
<1> QED BY <1>3, <1>4, <1>5 DEF IInv
-----------------------------------------------------------------------------
(***************************************************************************)
(* A declaration at file scope joins those its symbol sums up.             *)
(***************************************************************************)
LEMMA SumsOther ==
    ASSUME NEW sym, NEW ds, NEW d, d.name # sym.name, SumsUp(sym, ds)
    PROVE  SumsUp(sym, ds \cup {d})
  BY DEF SumsUp

LEMMA SumsFirst ==
    ASSUME NEW kind, NEW name, NEW storage, NEW ty, NEW is_def \in BOOLEAN, NEW func,
           NEW ds, \A e \in ds : e.name # name,
           NEW dkind, kind = "global" <=> dkind = "object"
    PROVE  SumsUp(Sym(kind, name, storage, ty, is_def, func),
                  ds \cup {[name |-> name, kind |-> dkind, storage |-> storage,
                            is_def |-> is_def]})
<1> DEFINE d == [name |-> name, kind |-> dkind, storage |-> storage, is_def |-> is_def]
           sym == Sym(kind, name, storage, ty, is_def, func)
<1>1. /\ d.name = name /\ d.kind = dkind /\ d.storage = storage /\ d.is_def = is_def
      /\ sym.name = name /\ sym.kind = kind /\ sym.storage = storage
      /\ sym.is_defined = is_def
  BY DEF Sym
<1> HIDE DEF d, sym
<1>2. ASSUME kind \in {"global", "func"}
      PROVE  /\ sym.is_defined <=> \E e \in ds \cup {d} : e.name = name /\ e.is_def
             /\ sym.storage = "static" <=>
                  \E e \in ds \cup {d} : e.name = name /\ e.storage = "static"
             /\ Needs(sym) <=>
                  \E e \in ds \cup {d} : /\ e.name = name
                                         /\ e.is_def \/ (e.kind = "object" /\ e.storage # "extern")
  <2>1. Needs(sym) <=> is_def \/ (dkind = "object" /\ storage # "extern")
    BY <1>1, <1>2 DEF Needs
  <2> QED BY <1>1, <2>1
<1> QED BY <1>1, <1>2 DEF SumsUp, d, sym

LEMMA SumsAgain ==
    ASSUME NEW a, NEW b, NEW ds, NEW storage, NEW is_def \in BOOLEAN, NEW dkind,
           SumsUp(a, ds), a.is_defined \in BOOLEAN,
           a.kind = "global" <=> dkind = "object",
           b.kind = a.kind /\ b.name = a.name /\ b.storage = a.storage,
           b.is_defined <=> a.is_defined \/ is_def,
           storage = "static" => a.storage = "static",
           a.kind = "global" =>
             \/ LateTentative
             \/ ~(a.storage = "extern" /\ ~a.is_defined /\ storage = "none" /\ ~is_def),
           storage \in Storages
    PROVE  SumsUp(b, ds \cup {[name |-> a.name, kind |-> dkind, storage |-> storage,
                               is_def |-> is_def]})
<1> DEFINE d == [name |-> a.name, kind |-> dkind, storage |-> storage, is_def |-> is_def]
           Wanted(e) == e.is_def \/ (e.kind = "object" /\ e.storage # "extern")
<1>1. d.name = a.name /\ d.kind = dkind /\ d.storage = storage /\ d.is_def = is_def
  OBVIOUS
<1> HIDE DEF d
<1>2. SUFFICES ASSUME a.kind \in {"global", "func"}
               PROVE  /\ b.is_defined <=> \E e \in ds \cup {d} : e.name = a.name /\ e.is_def
                      /\ b.storage = "static" <=>
                           \E e \in ds \cup {d} : e.name = a.name /\ e.storage = "static"
                      /\ ~LateTentative => (Needs(b) <=>
                           \E e \in ds \cup {d} : e.name = a.name /\ Wanted(e))
  BY DEF SumsUp, d
<1>3. /\ a.is_defined <=> \E e \in ds : e.name = a.name /\ e.is_def
      /\ a.storage = "static" <=> \E e \in ds : e.name = a.name /\ e.storage = "static"
      /\ ~LateTentative => (Needs(a) <=> \E e \in ds : e.name = a.name /\ Wanted(e))
  BY <1>2 DEF SumsUp
<1>4. b.is_defined <=> \E e \in ds \cup {d} : e.name = a.name /\ e.is_def
  BY <1>1, <1>3
<1>5. b.storage = "static" <=> \E e \in ds \cup {d} : e.name = a.name /\ e.storage = "static"
  BY <1>1, <1>3
<1>6. ASSUME ~LateTentative
      PROVE  Needs(b) <=> \E e \in ds \cup {d} : e.name = a.name /\ Wanted(e)
  <2>1. Needs(b) <=> Needs(a) \/ Wanted(d)
    BY <1>1, <1>2, <1>6 DEF Needs, Storages
  <2>2. (\E e \in ds \cup {d} : e.name = a.name /\ Wanted(e)) <=>
          (\E e \in ds : e.name = a.name /\ Wanted(e)) \/ Wanted(d)
    BY <1>1
  <2> QED BY <1>3, <1>6, <2>1, <2>2
<1> QED BY <1>4, <1>5, <1>6

\* The new declaration agrees with those before it, as C demands.
Agreeing(dkind, name, storage, is_def) ==
    /\ \A e \in decls : e.name = name => e.kind = dkind
    /\ storage = "static" => \/ \A e \in decls : e.name # name
                             \/ \E e \in decls : e.name = name /\ e.storage = "static"
    /\ dkind = "object" /\ storage = "none" =>
         ~\E e \in decls : e.name = name /\ e.storage = "static"
    /\ is_def => ~\E e \in decls : e.name = name /\ e.is_def

LEMMA FileDeclares ==
    ASSUME IInv, NEW kind \in {"global", "func"}, NEW storage \in Storages,
           NEW name \in Names, NEW ty \in AnyTy, NEW is_def \in BOOLEAN,
           NEW dkind \in {"object", "function"}, kind = "global" <=> dkind = "object",
           ~Clashes(scopes[1], kind, storage, name, ty, is_def),
           kind = "global" =>
             LateTentative \/ ~(OnlyExtern(name) /\ storage = "none" /\ ~is_def),
           scopes'[1] = Extended(scopes[1], kind, name),
           \A s \in ToSet(scopes'[1]) :
             syms'[s] = Declared(scopes[1], kind, storage, name, ty, is_def, 0)[s],
           decls' = decls \cup {[name |-> name, kind |-> dkind, storage |-> storage,
                                 is_def |-> is_def]}
    PROVE  /\ AsDeclared' /\ decls' \subseteq C!Decls
           /\ Agreeing(dkind, name, storage, is_def)
<1> DEFINE sym   == Sym(kind, name, storage, ty, is_def, 0)
           scope == scopes[1]
           d     == [name |-> name, kind |-> dkind, storage |-> storage, is_def |-> is_def]
           t     == Declared(scope, kind, storage, name, ty, is_def, 0)
           x     == Extended(scope, kind, name)
<1>1. /\ syms \in Seq(SymT) /\ scope \in Seq(SymIds) /\ OneIn(scope, syms)
      /\ \A s \in ToSet(scope) : s \in SymIds /\ syms[s] \in SymT
  BY Scoping DEF IInv, Table, Depth
<1>2. Fresh(t, x, scope, sym) \/ \E o \in SymIds : Again(t, x, scope, sym, o)
  BY <1>1, DeclaringIs
<1>3. /\ \A e \in decls : \E s \in ToSet(scope) :
           syms[s].name = e.name /\ syms[s].kind = KindOf(e)
      /\ \A s \in ToSet(scope) : SumsUp(syms[s], decls)
      /\ decls \subseteq C!Decls
  BY DEF IInv, AsDeclared, Types
<1>4. decls' \subseteq C!Decls
  BY <1>3 DEF C!Decls, C!Kinds, C!Storages, Storages
<1>5. /\ sym.name = name /\ sym.kind = kind /\ sym.storage = storage
      /\ sym.is_defined = is_def
      /\ d.name = name /\ d.kind = dkind /\ KindOf(d) = kind /\ d.storage = storage
      /\ decls' = decls \cup {d}
      /\ scopes'[1] = x /\ \A s \in ToSet(x) : syms'[s] = t[s]
  BY DEF Sym, KindOf
<1>6. \A e \in decls : KindOf(e) # "struct" /\ (KindOf(e) = kind => e.kind = dkind)
  <2>1. \A e \in decls : e.kind \in {"object", "function"}
    BY <1>3 DEF C!Decls, C!Kinds
  <2> QED BY <2>1 DEF KindOf
<1>7. Len(syms) \in Nat /\ SymIds = 1 .. Len(syms)
  BY Scoping
<1> HIDE DEF sym, d, t, x
<1>8. CASE Fresh(t, x, scope, sym)
  <2>1. /\ \A s \in ToSet(scope) : ~Alike(syms[s], sym)
        /\ t = Append(syms, sym) /\ x = Append(scope, Len(syms) + 1)
    BY <1>8 DEF Fresh
  <2>2. \A s \in ToSet(scope) : syms[s].kind # "struct" => syms[s].name # name
    BY <1>5, <2>1 DEF Alike
  <2>3. \A e \in decls : e.name # name
    BY <1>3, <1>6, <2>2
  <2>4. ToSet(x) = ToSet(scope) \cup {Len(syms) + 1}
    <3>1. scope \in Seq(Nat) /\ Len(syms) + 1 \in Nat
      BY <1>1, <1>7, SeqMonotonic
    <3>2. ToSet(Append(scope, Len(syms) + 1)) = ToSet(scope) \cup {Len(syms) + 1}
      <4> HIDE DEF scope
      <4> QED BY <3>1, MembersOfAppend
    <3> QED BY <2>1, <3>2
  <2>5. /\ t[Len(syms) + 1] = sym /\ \A s \in SymIds : t[s] = syms[s]
    <3>1. sym \in SymT
      BY <1>7 DEF sym, Sym, SymT, SymKinds
    <3> QED BY <1>1, <1>7, <2>1, <3>1, AppendProperties
  <2>6. SumsUp(sym, decls \cup {d})
    BY <2>3, SumsFirst DEF sym, d
  <2>7. ASSUME NEW s \in ToSet(scope) PROVE SumsUp(syms[s], decls \cup {d})
    <3>1. CASE syms[s].kind \in {"global", "func"}
      <4>1. syms[s].name # name
        BY <2>2, <3>1
      <4> QED BY <1>3, <1>5, <4>1, SumsOther
    <3>2. CASE syms[s].kind \notin {"global", "func"}
      BY <3>2 DEF SumsUp
    <3> QED BY <3>1, <3>2
  <2>8. \A s \in ToSet(x) : SumsUp(syms'[s], decls \cup {d})
    BY <1>1, <1>5, <2>4, <2>5, <2>6, <2>7
  <2>9. \A e \in decls \cup {d} : \E s \in ToSet(x) :
           syms'[s].name = e.name /\ syms'[s].kind = KindOf(e)
    <3>1. \A s \in ToSet(scope) : s \in ToSet(x) /\ syms'[s] = syms[s]
      BY <1>1, <1>5, <2>4, <2>5
    <3>2. Len(syms) + 1 \in ToSet(x) /\ syms'[Len(syms) + 1] = sym
      BY <1>5, <2>4, <2>5
    <3> QED BY <1>3, <1>5, <3>1, <3>2
  <2>10. AsDeclared'
    BY <1>5, <2>8, <2>9 DEF AsDeclared
  <2>11. Agreeing(dkind, name, storage, is_def)
    BY <2>3 DEF Agreeing
  <2> QED BY <1>4, <2>10, <2>11
<1>9. ASSUME NEW o \in SymIds, Again(t, x, scope, sym, o)
      PROVE  AsDeclared' /\ Agreeing(dkind, name, storage, is_def)
  <2>1. /\ o \in ToSet(scope) /\ syms[o].name = name /\ syms[o].kind = kind
        /\ ~(is_def /\ syms[o].is_defined)
        /\ kind = "global" => ~(syms[o].storage = "static" /\ storage = "none")
        /\ storage = "static" => syms[o].storage = "static"
        /\ x = scope
        /\ \A s \in SymIds : s # o => t[s] = syms[s]
        /\ t[o] = [syms[o] EXCEPT !.is_defined = @ \/ is_def]
    BY <1>5, <1>9 DEF Again
  <2>2. /\ t[o].kind = kind /\ t[o].name = name /\ t[o].storage = syms[o].storage
        /\ t[o].is_defined <=> syms[o].is_defined \/ is_def
        /\ syms[o].is_defined \in BOOLEAN
    BY <1>1, <2>1 DEF SymT
  <2>3. ASSUME NEW s \in ToSet(scope), syms[s].name = name, syms[s].kind # "struct"
        PROVE  s = o
    <3>1. Alike(syms[s], syms[o])
      BY <2>1, <2>3 DEF Alike
    <3>2. PICK i \in 1 .. Len(scope), j \in 1 .. Len(scope) : s = scope[i] /\ o = scope[j]
      BY <1>1, <2>1, Members
    <3> QED BY <1>1, <3>1, <3>2 DEF OneIn
  <2>4. \A e \in decls : e.name = name => e.kind = dkind
    <3> SUFFICES ASSUME NEW e \in decls, e.name = name PROVE e.kind = dkind
      OBVIOUS
    <3>1. PICK s \in ToSet(scope) : syms[s].name = e.name /\ syms[s].kind = KindOf(e)
      BY <1>3
    <3>2. s = o
      BY <1>6, <2>3, <3>1
    <3> QED BY <1>6, <2>1, <3>1, <3>2
  <2>5. SumsUp(syms[o], decls)
    BY <1>3, <2>1
  <2>6. kind = "global" =>
          \/ LateTentative
          \/ ~(syms[o].storage = "extern" /\ ~syms[o].is_defined /\ storage = "none" /\ ~is_def)
    <3>1. kind = "global" => o \in lookup_in(scopes[1], FALSE, name)
      BY <2>1 DEF lookup_in, In
    <3> QED BY <3>1 DEF OnlyExtern
  <2>7. SumsUp(t[o], decls \cup {d})
    <3>1. d = [name |-> syms[o].name, kind |-> dkind, storage |-> storage,
               is_def |-> is_def]
      BY <2>1 DEF d
    <3>2. /\ t[o].kind = syms[o].kind /\ t[o].name = syms[o].name
          /\ t[o].storage = syms[o].storage
          /\ t[o].is_defined <=> syms[o].is_defined \/ is_def
          /\ syms[o].is_defined \in BOOLEAN
          /\ storage = "static" => syms[o].storage = "static"
      BY <2>1, <2>2
    <3>3. /\ syms[o].kind = "global" <=> dkind = "object"
          /\ syms[o].kind = "global" =>
               \/ LateTentative
               \/ ~(/\ syms[o].storage = "extern" /\ ~syms[o].is_defined
                    /\ storage = "none" /\ ~is_def)
      BY <2>1, <2>6
    <3> DEFINE a == syms[o]
               b == t[o]
    <3> HIDE DEF a, b
    <3>4. SumsUp(b, decls \cup {[name |-> a.name, kind |-> dkind, storage |-> storage,
                                is_def |-> is_def]})
      BY <2>5, <3>2, <3>3, SumsAgain DEF a, b
    <3> QED BY <3>1, <3>4 DEF a, b
  <2>8. ASSUME NEW s \in ToSet(scope) PROVE SumsUp(syms'[s], decls \cup {d})
    <3>1. CASE s = o
      BY <1>5, <2>1, <2>7, <3>1
    <3>2. CASE s # o /\ syms[s].kind # "struct"
      <4>1. syms[s].name # name
        BY <2>3, <3>2
      <4>2. SumsUp(syms[s], decls \cup {d})
        BY <1>3, <1>5, <4>1, SumsOther
      <4> QED BY <1>1, <1>5, <2>1, <3>2, <4>2
    <3>3. CASE s # o /\ syms[s].kind = "struct"
      <4>1. syms'[s].kind = "struct"
        BY <1>1, <1>5, <2>1, <3>3
      <4> QED BY <4>1 DEF SumsUp
    <3> QED BY <3>1, <3>2, <3>3
  <2>9. \A e \in decls \cup {d} : \E s \in ToSet(x) :
           syms'[s].name = e.name /\ syms'[s].kind = KindOf(e)
    <3>1. \A s \in ToSet(scope) : syms'[s].name = syms[s].name /\ syms'[s].kind = syms[s].kind
      <4> SUFFICES ASSUME NEW s \in ToSet(scope)
                   PROVE  syms'[s].name = syms[s].name /\ syms'[s].kind = syms[s].kind
        OBVIOUS
      <4>1. s \in SymIds /\ syms'[s] = t[s]
        BY <1>1, <1>5, <2>1
      <4>2. CASE s = o
        BY <2>1, <2>2, <4>1, <4>2
      <4>3. CASE s # o
        <5>1. t[s] = syms[s]
          BY <2>1, <4>1, <4>3
        <5> QED BY <4>1, <5>1
      <4> QED BY <4>2, <4>3
    <3> QED BY <1>3, <1>5, <2>1, <3>1
  <2>10. AsDeclared'
    BY <1>5, <2>1, <2>8, <2>9 DEF AsDeclared
  <2>11. Agreeing(dkind, name, storage, is_def)
    <3>1. /\ syms[o].is_defined <=> \E e \in decls : e.name = name /\ e.is_def
          /\ syms[o].storage = "static" <=>
               \E e \in decls : e.name = name /\ e.storage = "static"
      BY <2>1, <2>5 DEF SumsUp
    <3> QED BY <2>1, <2>4, <3>1 DEF Agreeing
  <2> QED BY <2>10, <2>11
<1> QED BY <1>2, <1>4, <1>8, <1>9
-----------------------------------------------------------------------------
(***************************************************************************)
(* Objects and functions at file scope.                                    *)
(***************************************************************************)
LEMMA ObjectKeeps ==
    ASSUME IInv, NEW n \in Names, NEW st \in Storages, NEW ty \in Tys,
           NEW init \in BOOLEAN, DeclareObject(n, st, ty, init)
    PROVE  IInv' /\ Agreeing("object", n, st, init)
<1>1. /\ phase = "parse" /\ curr_func = 0 /\ proto = <<>>
      /\ LateTentative \/ ~(OnlyExtern(n) /\ st = "none" /\ ~init)
      /\ declare("global", st, n, ty, init, 0)
      /\ decls' = decls \cup {[name |-> n, kind |-> "object", storage |-> st,
                               is_def |-> init]}
      /\ UNCHANGED <<curr_func, proto, refs, phase, pos, out>>
  BY DEF DeclareObject, AtFileScope, Parsing, FileDecl
<1>2. Depth = 1
  BY <1>1 DEF IInv, Shape, Open
<1>3. ty \in AnyTy /\ 0 \in 0 .. Len(syms)
  BY Scoping DEF AnyTy
<1>4. Table(syms, scopes)' /\ Kept /\ Depth' = Depth /\ Len(syms') \in Nat
  BY <1>1, <1>2, <1>3, Declaring DEF SymKinds
<1>5. /\ ~Clashes(scopes[1], "global", st, n, ty, init)
      /\ syms' = Declared(scopes[1], "global", st, n, ty, init, 0)
      /\ scopes' = [scopes EXCEPT ![1] = Extended(scopes[1], "global", n)]
  BY <1>1, <1>2 DEF declare, Top
<1>6. scopes'[1] = Extended(scopes[1], "global", n)
  <2>1. scopes \in Seq(Seq(Nat)) /\ 1 \in DOMAIN scopes
    BY Scoping, FileScope, LenProperties DEF IInv, Depth
  <2> QED BY <1>5, <2>1
<1>7. AsDeclared' /\ decls' \subseteq C!Decls /\ Agreeing("object", n, st, init)
  BY <1>1, <1>3, <1>5, <1>6, FileDeclares
<1>8. /\ LabelsUnique' /\ Emission' /\ pos' \in 1 .. Len(scopes'[1]) + 1
      /\ out' \in Seq(LabelT) /\ phase' \in {"parse", "emit", "done", "rejected"}
  BY <1>1, <1>4, StillParsing
<1>9. curr_func' \in 0 .. Len(syms')
  BY <1>1, <1>4
<1>10. Types' /\ Shape'
  <2>1. Types'
    BY <1>1, <1>7, <1>8, <1>9 DEF IInv, Types
  <2>2. Shape'
    BY <1>1, <1>2, <1>4 DEF IInv, Shape, Open
  <2> QED BY <2>1, <2>2
<1>11. Frames' /\ ParamsApart' /\ Resolved'
  BY <1>1, <1>4, ResolvedKept DEF Frames, ParamsApart
<1> QED BY <1>4, <1>7, <1>8, <1>10, <1>11 DEF IInv

\* Declaring in the last scope of a chain, all together.
Joined(t, x, sc, nc, sym) ==
    /\ Puts(t, x, sc, nc) /\ Grown(t, x, sc[Len(sc)], sym)
    /\ Len(t) \in Nat /\ Len(t) >= Len(syms)
    /\ \A s \in SymIds : s \in 1 .. Len(t) /\ Same(t[s], syms[s])
    /\ \A d \in 1 .. Len(sc) - 1 : \A s \in ToSet(sc[d]) : t[s] = syms[s]

LEMMA TableDeclares ==
    ASSUME NEW sc, Table(syms, sc), NEW kind \in SymKinds, NEW storage \in Storages,
           NEW name \in Names, NEW ty \in AnyTy, NEW is_def \in BOOLEAN,
           kind \notin {"local", "global"},
           NEW scope, scope = sc[Len(sc)],
           ~Clashes(scope, kind, storage, name, ty, is_def),
           NEW t, t = Declared(scope, kind, storage, name, ty, is_def, 0),
           NEW x, x = Extended(scope, kind, name),
           NEW nc, nc = Put(sc, x)
    PROVE  Joined(t, x, sc, nc, Sym(kind, name, storage, ty, is_def, 0))
<1> DEFINE sym == Sym(kind, name, storage, ty, is_def, 0)
<1>1. /\ Len(sc) \in Nat /\ Len(sc) >= 1 /\ Len(syms) \in Nat /\ SymIds = 1 .. Len(syms)
      /\ syms \in Seq(SymT)
      /\ \A d \in 1 .. Len(sc) : /\ sc[d] \in Seq(SymIds)
                                 /\ \A s \in ToSet(sc[d]) : s \in SymIds
  BY FileScope DEF SymIds
<1>2. /\ scope \in Seq(SymIds) /\ OneIn(scope, syms)
  <2>1. Len(sc) \in 1 .. Len(sc)
    BY <1>1
  <2> QED BY <1>1, <2>1 DEF Table
<1>3. sym \in SymT /\ sym.func \in 0 .. Len(syms) /\ sym.kind \notin {"local", "global"}
  BY <1>1 DEF Sym, SymT
<1>4. Grown(t, x, scope, sym)
  BY <1>1, <1>2, <1>3, Growing
<1> HIDE DEF sym
<1>5. /\ Table(t, nc) /\ Len(nc) = Len(sc) /\ nc[Len(sc)] = x
      /\ \A d \in 1 .. Len(sc) - 1 : nc[d] = sc[d]
  <2>1. Fits(sym, sc) /\ Grown(t, x, sc[Len(sc)], sym)
    BY <1>3, <1>4 DEF Fits
  <2>2. Puts(t, x, sc, Put(sc, x))
    BY <2>1, TableGrows
  <2> QED BY <2>2 DEF Puts
<1>6. Len(t) \in Nat /\ Len(t) >= Len(syms)
  BY <1>4, <1>5, FileScope DEF Grown
<1>7. \A s \in SymIds : s \in 1 .. Len(t) /\ Same(t[s], syms[s])
  BY <1>1, <1>4, <1>6 DEF Grown
<1>8. ASSUME NEW d \in 1 .. Len(sc) - 1, NEW s \in ToSet(sc[d])
      PROVE  t[s] = syms[s]
  <2>1. d \in 1 .. Len(sc) /\ d # Len(sc) /\ Len(sc) \in 1 .. Len(sc)
    BY <1>1
  <2>2. s \in SymIds /\ s \notin ToSet(scope)
    BY <1>1, <2>1 DEF Table, Apart
  <2> QED BY <1>4, <2>2 DEF Grown
<1> QED BY <1>4, <1>5, <1>6, <1>7, <1>8 DEF sym, Joined, Puts
\* The function declarator that has been read.
LEMMA Declarator ==
    ASSUME IInv, proto # <<>>
    PROVE  /\ proto[1].name \in Names /\ proto[1].storage \in Storages
           /\ proto[1].params \in Seq(ParamT) /\ Len(proto[1].params) \in Nat
           /\ \A i \in 1 .. Len(proto[1].params) : proto[1].params[i] \in ParamT
           /\ ProtoTy \in AnyTy
           /\ Depth \in Nat /\ Depth >= 2 /\ Open = Depth - 1
           /\ curr_func = 0 => Depth = 2
           /\ curr_func # 0 => Depth >= 4
           /\ Table(syms, Front(scopes)) /\ Len(Front(scopes)) = Depth - 1
           /\ \A d \in 1 .. Depth - 1 : Front(scopes)[d] = scopes[d]
           /\ Around = Front(scopes)[Depth - 1]
<1>1. proto \in Seq(ProtoT) /\ Len(proto) <= 1
  BY DEF IInv, Types
<1>2. proto[1] \in ProtoT
  <2>1. Len(proto) \in Nat \ {0}
    BY <1>1, EmptySeq
  <2> QED BY <1>1, <2>1, ElementOfSeq
<1>3. /\ proto[1].name \in Names /\ proto[1].storage \in Storages
      /\ proto[1].params \in Seq(ParamT)
  BY <1>2 DEF ProtoT
<1>4. /\ Len(proto[1].params) \in Nat
      /\ \A i \in 1 .. Len(proto[1].params) : proto[1].params[i] \in ParamT
  BY <1>3, LenProperties, ElementOfSeq
<1>5. ProtoTy \in AnyTy
  BY <1>4 DEF ProtoTy, AnyTy
<1>6. /\ Depth \in Nat /\ Depth >= 2 /\ Open = Depth - 1
      /\ curr_func = 0 => Depth = 2
      /\ curr_func # 0 => Depth >= 4
  BY Scoping DEF IInv, Shape, Open
<1>7. /\ Table(syms, Front(scopes)) /\ Len(Front(scopes)) = Depth - 1
      /\ \A d \in 1 .. Depth - 1 : Front(scopes)[d] = scopes[d]
  <2>1. Depth > 1
    BY <1>6
  <2> QED BY <2>1, TablePops DEF IInv, Depth
<1>8. Around = Front(scopes)[Depth - 1]
  BY <1>6, <1>7 DEF Around
<1> QED BY <1>3, <1>4, <1>5, <1>6, <1>7, <1>8

\* The function's own symbol, in the scope around the declarator.
FuncSym(is_def) == Sym("func", proto[1].name, proto[1].storage, ProtoTy, is_def, 0)

FuncTable(is_def) == Declared(Around, "func", proto[1].storage, proto[1].name,
                              ProtoTy, is_def, 0)
FuncScope == Extended(Around, "func", proto[1].name)
FuncChain == [Front(scopes) EXCEPT ![Depth - 1] = FuncScope]

LEMMA FuncDeclares ==
    ASSUME IInv, proto # <<>>, NEW is_def \in BOOLEAN,
           ~Clashes(Around, "func", proto[1].storage, proto[1].name, ProtoTy, is_def)
    PROVE  /\ Table(FuncTable(is_def), FuncChain)
           /\ Len(FuncChain) = Depth - 1 /\ FuncChain[Depth - 1] = FuncScope
           /\ \A d \in 1 .. Depth - 2 : FuncChain[d] = scopes[d]
           /\ Grown(FuncTable(is_def), FuncScope, Around, FuncSym(is_def))
           /\ Len(FuncTable(is_def)) \in Nat /\ Len(FuncTable(is_def)) >= Len(syms)
           /\ \A s \in SymIds : /\ s \in 1 .. Len(FuncTable(is_def))
                                /\ Same(FuncTable(is_def)[s], syms[s])
           /\ \A d \in 1 .. Depth - 2 : \A s \in ToSet(scopes[d]) :
                FuncTable(is_def)[s] = syms[s]
<1> DEFINE t == FuncTable(is_def)
           x == FuncScope
           nc == FuncChain
<1> DEFINE sc == Front(scopes)
<1>1. /\ proto[1].name \in Names /\ proto[1].storage \in Storages /\ ProtoTy \in AnyTy
      /\ Depth \in Nat /\ Table(syms, sc) /\ Len(sc) = Depth - 1
      /\ \A d \in 1 .. Depth - 1 : sc[d] = scopes[d]
      /\ Around = sc[Len(sc)]
  BY Declarator
<1>2. nc = Put(sc, x)
  BY <1>1 DEF Put, FuncChain
<1> HIDE DEF sc, t, x, nc
<1>3. "func" \in SymKinds /\ "func" \notin {"local", "global"}
  BY DEF SymKinds
<1>4. Joined(t, x, sc, nc, FuncSym(is_def))
  <2> DEFINE name == proto[1].name
             storage == proto[1].storage
             ty == ProtoTy
  <2>1. /\ name \in Names /\ storage \in Storages /\ ty \in AnyTy
        /\ ~Clashes(Around, "func", storage, name, ty, is_def)
        /\ t = Declared(Around, "func", storage, name, ty, is_def, 0)
        /\ x = Extended(Around, "func", name)
    BY <1>1 DEF t, x, FuncTable, FuncScope
  <2> HIDE DEF name, storage, ty
  <2>2. Joined(t, x, sc, nc, Sym("func", name, storage, ty, is_def, 0))
    BY <1>1, <1>2, <1>3, <2>1, TableDeclares
  <2> QED BY <2>2 DEF FuncSym, name, storage, ty
<1>5. /\ Len(sc) - 1 = Depth - 2
      /\ \A d \in 1 .. Depth - 2 : sc[d] = scopes[d]
  BY <1>1
<1> QED BY <1>1, <1>4, <1>5 DEF Joined, Puts, t, x, nc
LEMMA FuncKeeps ==
    ASSUME IInv, DeclareFunc
    PROVE  /\ IInv'
           /\ curr_func = 0 => Agreeing("function", proto[1].name, proto[1].storage, FALSE)
           /\ \A d \in 1 .. Depth - 2 :
                scopes'[d] = scopes[d] /\ \A s \in ToSet(scopes[d]) : syms'[s] = syms[s]
<1>1. /\ phase = "parse" /\ proto # <<>>
      /\ ~Clashes(Around, "func", proto[1].storage, proto[1].name, ProtoTy, FALSE)
      /\ syms' = FuncTable(FALSE) /\ scopes' = FuncChain
      /\ proto' = <<>>
      /\ curr_func = 0 =>
           decls' = decls \cup {[name |-> proto[1].name, kind |-> "function",
                                 storage |-> proto[1].storage, is_def |-> FALSE]}
      /\ curr_func # 0 => UNCHANGED decls
      /\ UNCHANGED <<curr_func, refs, phase, pos, out>>
  BY DEF DeclareFunc, Parsing, FileDecl, FuncTable, FuncChain, FuncScope
<1>2. /\ proto[1].name \in Names /\ proto[1].storage \in Storages /\ ProtoTy \in AnyTy
      /\ Depth \in Nat /\ Depth >= 2 /\ Open = Depth - 1
      /\ curr_func = 0 => Depth = 2
      /\ curr_func # 0 => Depth >= 4
  BY <1>1, Declarator
<1>3. /\ Table(syms, scopes)' /\ Len(scopes') = Depth - 1 /\ scopes'[Depth - 1] = FuncScope
      /\ \A d \in 1 .. Depth - 2 : scopes'[d] = scopes[d]
      /\ Grown(syms', FuncScope, Around, FuncSym(FALSE))
      /\ Len(syms') \in Nat /\ Len(syms') >= Len(syms)
      /\ \A s \in SymIds : s \in 1 .. Len(syms') /\ Same(syms'[s], syms[s])
      /\ \A d \in 1 .. Depth - 2 : \A s \in ToSet(scopes[d]) : syms'[s] = syms[s]
  BY <1>1, FuncDeclares
<1>4. Kept
  BY <1>3 DEF Kept, SymIds
<1>5. /\ LabelsUnique' /\ Emission' /\ pos' \in 1 .. Len(scopes'[1]) + 1
      /\ out' \in Seq(LabelT) /\ phase' \in {"parse", "emit", "done", "rejected"}
  BY <1>1, <1>3, StillParsing
<1>6. ASSUME curr_func = 0
      PROVE  /\ AsDeclared' /\ decls' \subseteq C!Decls
             /\ Agreeing("function", proto[1].name, proto[1].storage, FALSE)
  <2>1. Depth = 2 /\ Around = scopes[1] /\ scopes'[1] = FuncScope
    BY <1>2, <1>3, <1>6 DEF Around
  <2> DEFINE name == proto[1].name
             storage == proto[1].storage
  <2>2. /\ name \in Names /\ storage \in Storages
        /\ ~Clashes(scopes[1], "func", storage, name, ProtoTy, FALSE)
        /\ scopes'[1] = Extended(scopes[1], "func", name)
        /\ syms' = Declared(scopes[1], "func", storage, name, ProtoTy, FALSE, 0)
        /\ decls' = decls \cup {[name |-> name, kind |-> "function",
                                 storage |-> storage, is_def |-> FALSE]}
    BY <1>1, <1>2, <1>6, <2>1 DEF FuncTable, FuncScope
  <2> HIDE DEF name, storage
  <2>3. AsDeclared' /\ decls' \subseteq C!Decls /\ Agreeing("function", name, storage, FALSE)
    BY <1>2, <2>2, FileDeclares
  <2> QED BY <2>3 DEF name, storage
<1>7. ASSUME curr_func # 0 PROVE AsDeclared' /\ decls' \subseteq C!Decls
  <2>1. 1 \in 1 .. Depth - 2
    BY <1>2, <1>7
  <2>2. FileSame
    BY <1>3, <2>1, FileUntouched
  <2> QED BY <1>1, <1>7, <2>2, FileKept DEF IInv, Types
<1>8. Depth' = Depth - 1 /\ Open' = Open
  BY <1>1, <1>2, <1>3 DEF Open, Depth
<1>9. Types'
  <2>1. curr_func' \in 0 .. Len(syms')
    <3>1. curr_func \in 0 .. Len(syms) /\ Len(syms) \in Nat
      BY Scoping DEF IInv, Types
    <3>2. curr_func' = curr_func
      BY <1>1
    <3>3. Len(syms') \in Nat /\ Len(syms') >= Len(syms)
      BY <1>3
    <3> QED BY <3>1, <3>2, <3>3
  <2>2. proto' \in Seq(ProtoT) /\ Len(proto') <= 1
    BY <1>1, EmptySeq
  <2> QED BY <1>5, <1>6, <1>7, <2>1, <2>2 DEF Types
<1>10. Shape'
  BY <1>1, <1>8 DEF IInv, Shape
<1>11. Frames'
  <2> SUFFICES ASSUME curr_func # 0, NEW d \in 2 .. Depth - 1, NEW s \in ToSet(scopes'[d]),
                      syms'[s].kind = "local"
               PROVE  syms'[s].func = curr_func
    BY <1>1, <1>2, <1>8 DEF Frames
  <2>1. \A e \in 2 .. Depth - 1 : e \in 1 .. Depth - 2 \/ e = Depth - 1
    BY <1>2
  <2>2. ASSUME s \in ToSet(scopes[d]) PROVE syms'[s].func = curr_func
    <3>1. d \in 1 .. Depth
      BY <1>2
    <3>2. s \in SymIds
      BY <2>2, <3>1, Scoping
    <3>3. Same(syms'[s], syms[s]) /\ syms[s].kind = "local"
      BY <1>3, <3>2 DEF Same
    <3>4. syms[s].func = curr_func
      BY <1>2, <2>2, <3>3 DEF IInv, Frames
    <3> QED BY <3>3, <3>4 DEF Same
  <2>3. CASE d \in 1 .. Depth - 2
    BY <1>3, <2>2, <2>3
  <2>4. CASE d = Depth - 1
    <3>1. s \in ToSet(scopes[d]) \/ syms'[s] = FuncSym(FALSE)
      BY <1>3, <2>4 DEF Grown, Around
    <3>2. FuncSym(FALSE).kind = "func"
      BY DEF FuncSym, Sym
    <3> QED BY <2>2, <3>1, <3>2
  <2> QED BY <2>1, <2>3, <2>4
<1>12. ParamsApart' /\ Resolved'
  BY <1>1, <1>4, ResolvedKept DEF ParamsApart
<1> QED BY <1>3, <1>5, <1>6, <1>7, <1>9, <1>10, <1>11, <1>12 DEF IInv
\* Two scopes added to a chain, one after the other.
LEMMA TwoMore ==
    ASSUME NEW S, NEW sc \in Seq(S), NEW a \in S, NEW b \in S
    PROVE  sc \o <<a, b>> = Append(Append(sc, a), b)
<1>1. <<a>> \in Seq(S) /\ <<b>> \in Seq(S) /\ <<a, b>> = <<a>> \o <<b>>
  <2>1. /\ <<a>> \in Seq(S) /\ Len(<<a>>) = 1 /\ <<a>>[1] = a
        /\ <<b>> \in Seq(S) /\ Len(<<b>>) = 1 /\ <<b>>[1] = b
        /\ <<a, b>> \in Seq(S) /\ Len(<<a, b>>) = 2 /\ <<a, b>>[1] = a /\ <<a, b>>[2] = b
    OBVIOUS
  <2> DEFINE p == <<a>>
             q == <<b>>
             r == <<a, b>>
  <2> HIDE DEF p, q, r
  <2>2. p \in Seq(S) /\ Len(p) = 1 /\ p[1] = a /\ q = <<b>>
    BY <2>1 DEF p, q
  <2>3. p \o q = Append(p, b)
    BY <2>2, AppendIsConcat
  <2>4. /\ Append(p, b) \in Seq(S) /\ Len(Append(p, b)) = 2
        /\ Append(p, b)[1] = a /\ Append(p, b)[2] = b
    <3>1. 1 \in 1 .. Len(p) /\ Len(p) + 1 = 2
      BY <2>2
    <3>2. /\ Append(p, b) \in Seq(S) /\ Len(Append(p, b)) = Len(p) + 1
          /\ \A i \in 1 .. Len(p) : Append(p, b)[i] = p[i]
          /\ Append(p, b)[Len(p) + 1] = b
      BY <2>2, AppendProperties, ZenonT(60)
    <3> QED BY <2>2, <3>1, <3>2
  <2>5. r \in Seq(S) /\ Len(r) = 2 /\ r[1] = a /\ r[2] = b
    BY <2>1 DEF r
  <2>6. \A i \in 1 .. 2 : i = 1 \/ i = 2
    OBVIOUS
  <2>7. r = Append(p, b)
    BY <2>4, <2>5, <2>6, SeqEqual
  <2> QED BY <2>1, <2>3, <2>7 DEF p, q, r
<1>2. sc \o (<<a>> \o <<b>>) = (sc \o <<a>>) \o <<b>>
  BY <1>1, ConcatAssociative
<1>3. Append(sc, a) = sc \o <<a>> /\ Append(sc, a) \in Seq(S)
  BY AppendIsConcat, AppendProperties
<1>4. Append(Append(sc, a), b) = Append(sc, a) \o <<b>>
  BY <1>3, AppendIsConcat
<1> QED BY <1>1, <1>2, <1>3, <1>4

FuncNode == CHOOSE s \in ToSet(FuncScope) : /\ FuncTable(TRUE)[s].kind = "func"
                                            /\ FuncTable(TRUE)[s].name = proto[1].name
Params == [i \in 1 .. Len(proto[1].params) |->
             Sym("local", proto[1].params[i].name, "none", proto[1].params[i].ty, TRUE, FuncNode)]
ParamScope == [i \in 1 .. Len(proto[1].params) |-> Len(FuncTable(TRUE)) + i]

LEMMA DefineIs ==
    ASSUME DefineFunc
    PROVE  /\ phase = "parse" /\ proto # <<>> /\ curr_func = 0
           /\ ~Clashes(Around, "func", proto[1].storage, proto[1].name, ProtoTy, TRUE)
           /\ syms' = FuncTable(TRUE) \o Params
           /\ scopes' = FuncChain \o <<ParamScope, <<>>>>
           /\ curr_func' = FuncNode /\ proto' = <<>>
           /\ decls' = decls \cup {[name |-> proto[1].name, kind |-> "function",
                                    storage |-> proto[1].storage, is_def |-> TRUE]}
           /\ UNCHANGED <<refs, phase, pos, out>>
  BY DEF DefineFunc, Parsing, FileDecl, FuncTable, FuncChain, FuncScope, FuncNode, Params,
         ParamScope

LEMMA NodeIs ==
    ASSUME IInv, DefineFunc
    PROVE  FuncNode \in 1 .. Len(FuncTable(TRUE)) /\ FuncNode # 0
<1>1. /\ Grown(FuncTable(TRUE), FuncScope, Around, FuncSym(TRUE))
      /\ Len(FuncTable(TRUE)) \in Nat
  BY DefineIs, FuncDeclares
<1>2. FuncSym(TRUE).name = proto[1].name /\ FuncSym(TRUE).kind = "func"
  BY DEF FuncSym, Sym
<1>3. \E s \in ToSet(FuncScope) : /\ FuncTable(TRUE)[s].kind = "func"
                                  /\ FuncTable(TRUE)[s].name = proto[1].name
  BY <1>1, <1>2 DEF Grown
<1>4. FuncNode \in ToSet(FuncScope)
  BY <1>3 DEF FuncNode
<1>5. \A s \in ToSet(FuncScope) : s \in 1 .. Len(FuncTable(TRUE))
  BY <1>1, Members DEF Grown
<1>6. FuncNode \in 1 .. Len(FuncTable(TRUE))
  BY <1>4, <1>5
<1>7. FuncNode # 0
  BY <1>1, <1>6
<1> QED BY <1>6, <1>7

\* The table and the chain once the parameters have their places.
LEMMA DefineTable ==
    ASSUME IInv, DefineFunc
    PROVE  /\ Table(syms, scopes)' /\ Len(scopes') = 3
           /\ scopes'[1] = FuncScope /\ scopes'[2] = ParamScope /\ scopes'[3] = <<>>
           /\ Len(syms') = Len(FuncTable(TRUE)) + Len(proto[1].params)
           /\ \A s \in 1 .. Len(FuncTable(TRUE)) : syms'[s] = FuncTable(TRUE)[s]
           /\ \A i \in 1 .. Len(proto[1].params) :
                syms'[Len(FuncTable(TRUE)) + i] = Params[i]
<1> DEFINE t == FuncTable(TRUE)
           n == Len(proto[1].params)
           sc == FuncChain
           nc == Append(sc, ParamScope)
<1>1. Depth = 2 /\ n \in Nat /\ Around = scopes[1]
  BY DefineIs, Declarator DEF Around
<1>2. Table(t, sc) /\ Len(sc) = 1 /\ sc[1] = FuncScope /\ Len(t) \in Nat
  <2>1. /\ proto # <<>> /\ TRUE \in BOOLEAN
        /\ ~Clashes(Around, "func", proto[1].storage, proto[1].name, ProtoTy, TRUE)
    BY DefineIs
  <2>2. /\ Table(FuncTable(TRUE), FuncChain) /\ Len(FuncChain) = Depth - 1
        /\ FuncChain[Depth - 1] = FuncScope /\ Len(FuncTable(TRUE)) \in Nat
    BY <2>1, FuncDeclares
  <2>3. Depth - 1 = 1
    BY <1>1
  <2> QED BY <2>2, <2>3
<1>3. Params \in [1 .. n -> SymT]
  <2>1. FuncNode \in Nat
    BY <1>2, NodeIs
  <2> SUFFICES ASSUME NEW i \in 1 .. n
               PROVE  Sym("local", proto[1].params[i].name, "none", proto[1].params[i].ty,
                          TRUE, FuncNode) \in SymT
    BY DEF Params
  <2>2. proto[1].params[i] \in ParamT
    BY DefineIs, Declarator
  <2>3. proto[1].params[i].name \in Names /\ proto[1].params[i].ty \in AnyTy
    BY <2>2 DEF ParamT, AnyTy
  <2> QED BY <2>1, <2>3 DEF Sym, SymT, SymKinds, Storages
<1>4. \A i \in 1 .. n : /\ Params[i].kind = "local" /\ Params[i].is_defined
                        /\ Params[i].func = FuncNode
                        /\ Params[i].name = proto[1].params[i].name
  BY DEF Params, Sym
<1>5. \A i, j \in 1 .. n : Params[i].name = Params[j].name => i = j
  <2>1. \A i, j \in 1 .. n : proto[1].params[i].name = proto[1].params[j].name => i = j
    BY DefineIs DEF IInv, ParamsApart
  <2> HIDE DEF n
  <2> QED BY <1>4, <2>1
<1>6. FuncNode \in 0 .. Len(t)
  <2>1. FuncNode \in 1 .. Len(t)
    BY NodeIs
  <2> HIDE DEF t
  <2> QED BY <1>2, <2>1
<1>7. ParamScope = [i \in 1 .. n |-> Len(t) + i]
  BY DEF ParamScope
<1> HIDE DEF t, n, sc
<1>8. /\ Table(t \o Params, nc) /\ Len(nc) = Len(sc) + 1 /\ Len(t \o Params) = Len(t) + n
      /\ \A s \in 1 .. Len(t) : (t \o Params)[s] = t[s]
      /\ \A i \in 1 .. n : (t \o Params)[Len(t) + i] = Params[i]
      /\ \A d \in 1 .. Len(sc) : nc[d] = sc[d]
      /\ nc[Len(sc) + 1] = ParamScope
  <2>1. Places(Params, n, t)
    BY <1>3, <1>4, <1>5, <1>6 DEF Places
  <2>2. nc = Append(sc, After(Len(t), n)) /\ ParamScope = After(Len(t), n)
    BY <1>7 DEF nc, After
  <2> HIDE DEF nc
  <2>3. /\ Table(t \o Params, Append(sc, After(Len(t), n)))
        /\ Len(Append(sc, After(Len(t), n))) = Len(sc) + 1
        /\ Len(t \o Params) = Len(t) + n
        /\ \A s \in 1 .. Len(t) : (t \o Params)[s] = t[s]
        /\ \A i \in 1 .. n : (t \o Params)[Len(t) + i] = Params[i]
        /\ \A d \in 1 .. Len(sc) : Append(sc, After(Len(t), n))[d] = sc[d]
        /\ Append(sc, After(Len(t), n))[Len(sc) + 1] = After(Len(t), n)
    BY <1>1, <1>2, <2>1, TableParams, ZenonT(60)
  <2> QED BY <2>2, <2>3
<1>9. Len(nc) = 2 /\ nc[1] = FuncScope /\ nc[2] = ParamScope
  <2>1. Len(sc) + 1 = 2 /\ 1 \in 1 .. Len(sc)
    BY <1>2
  <2> QED BY <1>2, <1>8, <2>1
<1> HIDE DEF nc
<1>10. /\ Table(t \o Params, Append(nc, <<>>)) /\ Len(Append(nc, <<>>)) = Len(nc) + 1
       /\ \A d \in 1 .. Len(nc) : Append(nc, <<>>)[d] = nc[d]
       /\ Append(nc, <<>>)[Len(nc) + 1] = <<>>
  BY <1>8, TablePushes
<1>11. scopes' = Append(nc, <<>>) /\ syms' = t \o Params
  <2>1. sc \in Seq(Seq(Nat)) /\ nc \in Seq(Seq(Nat)) /\ <<>> \in Seq(Nat)
    BY <1>2, <1>8, FileScope, EmptySeq
  <2>2. ParamScope \in Seq(Nat)
    <3>1. 2 \in 1 .. Len(nc)
      BY <1>9
    <3> QED BY <1>9, <2>1, <3>1, ElementOfSeq
  <2>3. sc \o <<ParamScope, <<>>>> = Append(Append(sc, ParamScope), <<>>)
    <3> DEFINE e == <<>>
    <3>1. e \in Seq(Nat)
      BY <2>1
    <3> HIDE DEF e
    <3>2. sc \o <<ParamScope, e>> = Append(Append(sc, ParamScope), e)
      BY <2>1, <2>2, <3>1, TwoMore
    <3> QED BY <3>2 DEF e
  <2> QED BY <2>3, DefineIs DEF sc, nc, t
<1>12. /\ Len(Append(nc, <<>>)) = 3 /\ Append(nc, <<>>)[1] = FuncScope
       /\ Append(nc, <<>>)[2] = ParamScope /\ Append(nc, <<>>)[3] = <<>>
  <2>1. Len(nc) + 1 = 3 /\ 1 \in 1 .. Len(nc) /\ 2 \in 1 .. Len(nc)
    BY <1>9
  <2> QED BY <1>9, <1>10, <2>1
<1> QED BY <1>8, <1>10, <1>11, <1>12 DEF t, n
LEMMA DefineKeeps ==
    ASSUME IInv, DefineFunc
    PROVE  /\ IInv'
           /\ Agreeing("function", proto[1].name, proto[1].storage, TRUE)
<1> DEFINE t == FuncTable(TRUE)
           n == Len(proto[1].params)
<1>1. /\ phase = "parse" /\ proto # <<>> /\ curr_func = 0
      /\ ~Clashes(Around, "func", proto[1].storage, proto[1].name, ProtoTy, TRUE)
      /\ curr_func' = FuncNode /\ proto' = <<>>
      /\ decls' = decls \cup {[name |-> proto[1].name, kind |-> "function",
                               storage |-> proto[1].storage, is_def |-> TRUE]}
      /\ UNCHANGED <<refs, phase, pos, out>>
  BY DefineIs
<1>2. /\ proto[1].name \in Names /\ proto[1].storage \in Storages /\ ProtoTy \in AnyTy
      /\ n \in Nat /\ Depth = 2 /\ Around = scopes[1]
  BY <1>1, Declarator DEF Around
<1>3. /\ Table(syms, scopes)' /\ Len(scopes') = 3
      /\ scopes'[1] = FuncScope /\ scopes'[2] = ParamScope /\ scopes'[3] = <<>>
      /\ Len(syms') = Len(t) + n
      /\ \A s \in 1 .. Len(t) : syms'[s] = t[s]
      /\ \A i \in 1 .. n : syms'[Len(t) + i] = Params[i]
  BY DefineTable
<1>4. /\ Grown(t, FuncScope, Around, FuncSym(TRUE)) /\ Len(t) \in Nat
      /\ \A s \in SymIds : s \in 1 .. Len(t) /\ Same(t[s], syms[s])
  <2>1. TRUE \in BOOLEAN
    OBVIOUS
  <2> QED BY <1>1, <2>1, FuncDeclares
<1>5. FuncNode \in 1 .. Len(t) /\ FuncNode # 0
  BY NodeIs
<1>6. \A s \in ToSet(FuncScope) : s \in 1 .. Len(t)
  BY <1>4, Members DEF Grown
<1>7. AsDeclared' /\ decls' \subseteq C!Decls
      /\ Agreeing("function", proto[1].name, proto[1].storage, TRUE)
  <2> DEFINE name == proto[1].name
             storage == proto[1].storage
  <2>1. /\ name \in Names /\ storage \in Storages
        /\ ~Clashes(scopes[1], "func", storage, name, ProtoTy, TRUE)
        /\ scopes'[1] = Extended(scopes[1], "func", name)
        /\ t = Declared(scopes[1], "func", storage, name, ProtoTy, TRUE, 0)
        /\ decls' = decls \cup {[name |-> name, kind |-> "function",
                                 storage |-> storage, is_def |-> TRUE]}
    BY <1>1, <1>2, <1>3 DEF FuncTable, FuncScope
  <2>2. \A s \in ToSet(scopes'[1]) : syms'[s] = t[s]
    BY <1>3, <1>6
  <2> HIDE DEF name, storage, t
  <2>3. AsDeclared' /\ decls' \subseteq C!Decls /\ Agreeing("function", name, storage, TRUE)
    <3>1. \A s \in ToSet(scopes'[1]) :
            syms'[s] = Declared(scopes[1], "func", storage, name, ProtoTy, TRUE, 0)[s]
      BY <2>1, <2>2
    <3> QED BY <1>2, <2>1, <3>1, FileDeclares
  <2> QED BY <2>3 DEF name, storage
<1> HIDE DEF t, n
<1>8. Kept /\ Len(syms') \in Nat /\ SymIds' = 1 .. Len(syms')
  <2>1. Len(syms') \in Nat /\ SymIds' = 1 .. Len(syms')
    BY <1>2, <1>3, <1>4 DEF SymIds
  <2>2. \A s \in 1 .. Len(t) : s \in 1 .. Len(syms')
    BY <1>2, <1>3, <1>4
  <2>3. \A s \in SymIds : s \in 1 .. Len(syms') /\ Same(syms'[s], syms[s])
    BY <1>3, <1>4, <2>2
  <2> QED BY <2>1, <2>3 DEF Kept
<1>9. /\ LabelsUnique' /\ Emission' /\ pos' \in 1 .. Len(scopes'[1]) + 1
      /\ out' \in Seq(LabelT) /\ phase' \in {"parse", "emit", "done", "rejected"}
  BY <1>1, <1>3, StillParsing
<1>10. Types'
  <2>1. curr_func' \in 0 .. Len(syms')
    BY <1>1, <1>2, <1>3, <1>4, <1>5
  <2>2. proto' \in Seq(ProtoT) /\ Len(proto') <= 1
    BY <1>1, EmptySeq
  <2> QED BY <1>7, <1>9, <2>1, <2>2 DEF Types
<1>11. Open' = 3
  BY <1>1, <1>3 DEF Open, Depth
<1>12. Shape'
  BY <1>1, <1>5, <1>11 DEF Shape
<1>13. Frames'
  <2> SUFFICES ASSUME NEW d \in 2 .. 3, NEW s \in ToSet(scopes'[d])
               PROVE  syms'[s].func = FuncNode
    BY <1>1, <1>11 DEF Frames
  <2>1. CASE d = 2
    <3>1. ParamScope \in [1 .. n -> Nat] /\ \A i \in 1 .. n : ParamScope[i] = Len(t) + i
      <4>1. ParamScope = [i \in 1 .. n |-> Len(t) + i]
        BY DEF ParamScope, t, n
      <4>2. n \in Nat /\ Len(t) \in Nat
        BY <1>2, <1>4
      <4> QED BY <4>1, <4>2
    <3>2. ParamScope \in Seq(Nat) /\ Len(ParamScope) = n
      BY <1>2, <3>1, FunctionIsSeq
    <3>3. PICK i \in 1 .. n : s = Len(t) + i
      <4>1. s \in ToSet(ParamScope)
        BY <1>3, <2>1
      <4>2. PICK i \in 1 .. n : s = ParamScope[i]
        BY <3>2, <4>1, Members
      <4> QED BY <3>1, <4>2
    <3>4. Params[i].func = FuncNode
      BY DEF Params, Sym, n
    <3> QED BY <1>3, <3>3, <3>4
  <2>2. CASE d = 3
    BY <1>3, <2>2, NoMembers
  <2> QED BY <2>1, <2>2
<1>14. ParamsApart' /\ Resolved'
  BY <1>1, <1>8, ResolvedKept DEF ParamsApart
<1> QED BY <1>3, <1>7, <1>9, <1>10, <1>12, <1>13, <1>14 DEF IInv
-----------------------------------------------------------------------------
(***************************************************************************)
(* The invariant is inductive.                                             *)
(***************************************************************************)
LEMMA NextKeeps == ASSUME IInv, Next PROVE IInv'
<1>1. ASSUME NEW n \in Names, NEW st \in Written, NEW t \in Tys, NEW init \in BOOLEAN,
             DeclareObject(n, st, t, init) \/ RejectObject(n, st, t, init)
      PROVE  IInv'
  <2>1. st \in Storages
    BY WrittenAssumption
  <2>2. CASE DeclareObject(n, st, t, init)
    BY <2>1, <2>2, ObjectKeeps
  <2>3. CASE RejectObject(n, st, t, init)
    BY <2>3, RejectKeeps DEF RejectObject, AtFileScope
  <2> QED BY <1>1, <2>2, <2>3
<1>2. ASSUME NEW n \in Names, NEW st \in Written \cup {"none"}, OpenProto(n, st) PROVE IInv'
  <2>1. st \in Storages
    BY WrittenAssumption DEF Storages
  <2> QED BY <1>2, <2>1, ProtoKeeps
<1>3. ASSUME NEW n \in Names, NEW t \in Tys, DeclareParam(n, t) \/ RejectParam(n, t)
      PROVE  IInv'
  BY <1>3, ParamKeeps, RejectKeeps DEF RejectParam
<1>4. ASSUME NEW n \in Names, NEW t \in Tys, DeclareLocal(n, t) \/ RejectLocal(n, t)
      PROVE  IInv'
  BY <1>4, LocalKeeps, RejectKeeps DEF RejectLocal, InBody
<1>5. ASSUME DeclareFunc \/ DefineFunc \/ \E is_def \in BOOLEAN : RejectFunc(is_def)
      PROVE  IInv'
  BY <1>5, FuncKeeps, DefineKeeps, RejectKeeps DEF RejectFunc
<1>6. ASSUME NEW n \in Names, DeclareConst(n) \/ RejectConstOrTag(n) PROVE IInv'
  BY <1>6, ConstKeeps, RejectKeeps DEF RejectConstOrTag
<1>7. ASSUME NEW n \in Names, Use(n) \/ RejectUse(n) PROVE IInv'
  BY <1>7, UseKeeps, RejectKeeps DEF RejectUse
<1>8. ASSUME NEW n \in Names, NEW is_def \in BOOLEAN, DeclareTag(n, is_def) PROVE IInv'
  BY <1>8, TagKeeps
<1>9. ASSUME PushBlock \/ PopBlock \/ EndFunc PROVE IInv'
  BY <1>9, PushKeeps, PopKeeps, EndFuncKeeps
<1>10. ASSUME EndOfFile \/ EmitSym \/ EndOfScope PROVE IInv'
  BY <1>10, EndOfFileKeeps, EmitKeeps, EndOfScopeKeeps
<1> QED BY <1>1, <1>2, <1>3, <1>4, <1>5, <1>6, <1>7, <1>8, <1>9, <1>10 DEF Next

LEMMA Inductive == Spec => []IInv
<1>1. ASSUME IInv, UNCHANGED vars PROVE IInv'
  <2>1. /\ UNCHANGED <<syms, scopes, curr_func, proto, refs, phase, pos, out, decls>>
    BY <1>1 DEF vars
  <2>2. Table(syms, scopes)' /\ Types' /\ Shape'
    BY <1>1, <2>1 DEF IInv, Types, Shape, Open, Depth
  <2>3. Frames' /\ ParamsApart' /\ Resolved'
    BY <1>1, <2>1 DEF IInv, Frames, ParamsApart, Resolved, Open, Depth, Top, SymIds
  <2>4. LabelsUnique' /\ Emission' /\ AsDeclared'
    BY <1>1, <2>1 DEF IInv, LabelsUnique, Emission, AsDeclared
  <2> QED BY <2>2, <2>3, <2>4 DEF IInv
<1>2. IInv /\ [Next]_vars => IInv'
  BY <1>1, NextKeeps
<1> QED BY <1>2, Initially, PTL DEF Spec
-----------------------------------------------------------------------------
\* Every variable keeps its type; a function is being parsed exactly when more
\* than the file scope, and a parameter list, is open.
THEOREM TypeCorrect == Spec => []TypeOK
<1>1. IInv => TypeOK
  <2> SUFFICES ASSUME IInv PROVE TypeOK
    OBVIOUS
  <2>1. \A s \in SymIds : /\ syms[s].kind \in SymKinds
                          /\ syms[s].name \in Names
                          /\ syms[s].storage \in Storages
                          /\ syms[s].func \in 0 .. Len(syms)
    <3> SUFFICES ASSUME NEW s \in SymIds
                 PROVE  /\ syms[s].kind \in SymKinds
                        /\ syms[s].name \in Names
                        /\ syms[s].storage \in Storages
                        /\ syms[s].func \in 0 .. Len(syms)
      OBVIOUS
    <3>1. syms[s] \in SymT
      BY Scoping
    <3>2. syms[s].func \in 0 .. Len(syms)
      BY DEF IInv, Table, Placed, SymIds
    <3> QED BY <3>1, <3>2 DEF SymT
  <2>2. curr_func = 0 <=> Depth <= IF proto = <<>> THEN 1 ELSE 2
    <3>1. /\ Depth \in Nat
          /\ curr_func = 0 => Open = 1
          /\ curr_func # 0 => Open >= 3
          /\ Open = IF proto = <<>> THEN Depth ELSE Depth - 1
      BY Scoping DEF IInv, Shape, Open
    <3> QED BY <3>1
  <2>3. \A d \in 1 .. Depth : scopes[d] \in Seq(SymIds)
    BY Scoping
  <2> QED BY <2>1, <2>2, <2>3 DEF IInv, Types, TypeOK
<1> QED BY <1>1, Inductive, PTL

\* The linear search of lookup_in has one possible answer in every scope,
\* whatever was declared before and however often.
THEOREM NamesMeanOneThing == Spec => []OneMeaning
<1>1. IInv => OneMeaning
  BY DEF IInv, Table, OneIn, Alike, OneMeaning, Depth
<1> QED BY <1>1, Inductive, PTL

\* No function's code addresses a place in another function's frame, nor a
\* parameter of a mere prototype.
THEOREM LocalsStayInTheirFrame == Spec => []LocalsInOwnFrame
<1>1. IInv => LocalsInOwnFrame
  BY DEF IInv, Resolved, LocalsInOwnFrame
<1> QED BY <1>1, Inductive, PTL

\* main never emits a label twice.
THEOREM LabelsAreUnique == Spec => []LabelsUnique
<1>1. IInv => LabelsUnique
  BY DEF IInv
<1> QED BY <1>1, Inductive, PTL

\* emit_place_expr and main agree on what this object file defines.
THEOREM AddressesAlwaysResolve == Spec => []AddressesResolve
<1>1. IInv => AddressesResolve
  <2> SUFFICES ASSUME IInv, phase = "done", NEW r \in refs, syms[r.sym].kind = "global"
               PROVE  ~ViaGot(r.sym) <=>
                        \E i \in 1 .. Len(out) : out[i].name = syms[r.sym].name
    BY DEF AddressesResolve
  <2>1. r.sym \in ToSet(scopes[1])
    BY DEF IInv, Resolved, Table, Placed, SymIds
  <2>2. PICK p \in 1 .. Len(scopes[1]) : r.sym = scopes[1][p]
    BY <2>1, FileSymbols
  <2>3. pos - 1 = Len(scopes[1])
    BY FileSymbols DEF IInv, Emission
  <2>4. ~ViaGot(r.sym) <=> Needs(syms[r.sym])
    BY DEF ViaGot, Needs
  <2>5. ASSUME Needs(syms[r.sym])
        PROVE  \E i \in 1 .. Len(out) : out[i].name = syms[r.sym].name
    <3>1. PICK i \in 1 .. Len(out) : out[i] = LabelFor(syms[scopes[1][p]])
      BY <2>2, <2>3, <2>5 DEF IInv, Emission
    <3> QED BY <2>2, <3>1 DEF LabelFor
  <2>6. ASSUME NEW i \in 1 .. Len(out), out[i].name = syms[r.sym].name
        PROVE  Needs(syms[r.sym])
    <3>1. PICK q \in 1 .. Len(scopes[1]) :
             Needs(syms[scopes[1][q]]) /\ out[i] = LabelFor(syms[scopes[1][q]])
      BY <2>3 DEF IInv, Emission
    <3>2. /\ syms[scopes[1][q]].name = syms[scopes[1][p]].name
          /\ syms[scopes[1][q]].kind # "struct" /\ syms[scopes[1][p]].kind # "struct"
      BY <2>2, <2>6, <3>1 DEF LabelFor, Needs
    <3>3. p = q
      BY <3>2, OneInFile
    <3> QED BY <2>2, <3>1, <3>3
  <2> QED BY <2>4, <2>5, <2>6
<1> QED BY <1>1, Inductive, PTL
-----------------------------------------------------------------------------
(***************************************************************************)
(* What a step does to the scopes around the one it works in.              *)
(***************************************************************************)
Untouched(k) == \A d \in 1 .. k :
                  d <= Len(scopes') =>
                     /\ scopes'[d] = scopes[d]
                     /\ \A s \in ToSet(scopes[d]) : syms'[s] = syms[s]

LEMMA OuterKept == ASSUME IInv, Untouched(Depth - 1)
                   PROVE  \A d \in Enclosing :
                            d <= Len(scopes') =>
                               /\ scopes'[d] = scopes[d]
                               /\ \A s \in ToSet(scopes[d]) : syms'[s] = syms[s]
<1>1. \A d \in Enclosing : d \in 1 .. Depth - 1
  BY Scoping DEF Enclosing
<1> QED BY <1>1 DEF Untouched

LEMMA DeclareUntouched ==
    ASSUME IInv, NEW kind \in SymKinds, NEW name \in Names, NEW storage \in Storages,
           NEW ty \in AnyTy, NEW is_def \in BOOLEAN, NEW func \in 0 .. Len(syms),
           declare(kind, storage, name, ty, is_def, func),
           kind = "local" => is_def /\ Depth > 1, kind = "global" => Depth = 1
    PROVE  Untouched(Depth - 1)
  BY Declaring DEF Untouched

\* No step touches a scope around the one it works in.
LEMMA OuterStep ==
    ASSUME IInv, Next
    PROVE  \A d \in Enclosing :
             d <= Len(scopes') =>
                /\ scopes'[d] = scopes[d]
                /\ \A s \in ToSet(scopes[d]) : syms'[s] = syms[s]
<1>1. ASSUME UNCHANGED <<syms, scopes>> PROVE Untouched(Depth - 1)
  BY <1>1 DEF Untouched
<1>2. ASSUME NEW n \in Names, NEW st \in Storages, NEW t \in Tys, NEW init \in BOOLEAN,
             DeclareObject(n, st, t, init)
      PROVE  Untouched(Depth - 1)
  <2>1. Depth = 1 /\ declare("global", st, n, t, init, 0)
    <3>1. curr_func = 0 /\ proto = <<>> /\ declare("global", st, n, t, init, 0)
      BY <1>2 DEF DeclareObject, AtFileScope
    <3>2. Depth = 1
      <4>1. curr_func = 0 /\ proto = <<>>
        BY <3>1
      <4> QED BY <4>1 DEF IInv, Shape, Open
    <3> QED BY <3>1, <3>2
  <2>2. 0 \in 0 .. Len(syms)
    BY Scoping
  <2>3. t \in AnyTy /\ "global" \in SymKinds
    BY DEF AnyTy, SymKinds
  <2> QED BY <2>1, <2>2, <2>3, DeclareUntouched
<1>3. ASSUME NEW n \in Names, NEW t \in Tys, DeclareParam(n, t) PROVE Untouched(Depth - 1)
  <2>1. Depth > 1 /\ declare("local", "none", n, t, TRUE, 0)
    <3>1. proto # <<>> /\ declare("local", "none", n, t, TRUE, 0)
      BY <1>3 DEF DeclareParam
    <3>2. Depth \in Nat /\ Depth >= 2
      BY <3>1, Declarator
    <3>3. Depth > 1
      BY <3>2
    <3> QED BY <3>1, <3>3
  <2>2. t \in AnyTy /\ 0 \in 0 .. Len(syms) /\ "local" \in SymKinds /\ "none" \in Storages
    BY Scoping DEF AnyTy, SymKinds, Storages
  <2> QED BY <2>1, <2>2, DeclareUntouched
<1>4. ASSUME NEW n \in Names, NEW t \in Tys, DeclareLocal(n, t) PROVE Untouched(Depth - 1)
  <2>1. Depth > 1 /\ declare("local", "none", n, t, TRUE, curr_func)
    <3>1. curr_func # 0 /\ proto = <<>> /\ declare("local", "none", n, t, TRUE, curr_func)
      BY <1>4 DEF DeclareLocal, InBody
    <3>2. Depth > 1
      <4>1. curr_func # 0 /\ proto = <<>>
        BY <3>1
      <4> QED BY <4>1, Scoping DEF IInv, Shape, Open
    <3> QED BY <3>1, <3>2
  <2>2. t \in AnyTy /\ curr_func \in 0 .. Len(syms)
    BY DEF AnyTy, IInv, Types
  <2>3. "local" \in SymKinds /\ "none" \in Storages
    BY DEF SymKinds, Storages
  <2> QED BY <2>1, <2>2, <2>3, DeclareUntouched
<1>5. ASSUME NEW n \in Names, DeclareConst(n) PROVE Untouched(Depth - 1)
  <2>1. declare("const", "none", n, IntTy, TRUE, 0)
    BY <1>5 DEF DeclareConst
  <2>2. /\ IntTy \in AnyTy /\ 0 \in 0 .. Len(syms) /\ "const" \in SymKinds
        /\ "none" \in Storages
    BY Scoping DEF AnyTy, SymKinds, Storages
  <2> QED BY <2>1, <2>2, DeclareUntouched
<1>6. ASSUME NEW n \in Names, NEW is_def \in BOOLEAN, DeclareTag(n, is_def)
      PROVE  Untouched(Depth - 1)
  <2>1. declare("struct", "none", n, <<>>, is_def, 0)
    BY <1>6 DEF DeclareTag
  <2>2. /\ <<>> \in AnyTy /\ 0 \in 0 .. Len(syms) /\ "struct" \in SymKinds
        /\ "none" \in Storages
    BY Scoping DEF AnyTy, SymKinds, Storages
  <2> QED BY <2>1, <2>2, DeclareUntouched
<1>7. ASSUME scopes' = Append(scopes, <<>>), UNCHANGED syms PROVE Untouched(Depth - 1)
  <2>1. \A d \in 1 .. Depth : scopes'[d] = scopes[d]
    BY <1>7, TablePushes DEF IInv, Depth
  <2> QED BY <1>7, <2>1, Scoping DEF Untouched
<1>8. ASSUME PopBlock PROVE Untouched(Depth - 1)
  <2>1. Depth > 1 /\ scopes' = Front(scopes) /\ UNCHANGED syms
    BY <1>8, Scoping DEF PopBlock
  <2>2. \A d \in 1 .. Depth - 1 : scopes'[d] = scopes[d]
    BY <2>1, TablePops DEF IInv, Depth
  <2> QED BY <2>1, <2>2 DEF Untouched
<1>9. ASSUME EndFunc PROVE Untouched(Depth - 1)
  <2> DEFINE sc == Front(scopes)
  <2>1. Depth = 3 /\ scopes' = Front(sc) /\ UNCHANGED syms
    BY <1>9 DEF EndFunc
  <2>2. Table(syms, sc) /\ Len(sc) = 2 /\ sc[1] = scopes[1]
    <3>1. Depth > 1 /\ Depth - 1 = 2 /\ 1 \in 1 .. 2
      BY <2>1
    <3>2. /\ Table(syms, sc) /\ Len(sc) = Depth - 1
          /\ \A d \in 1 .. Depth - 1 : sc[d] = scopes[d]
      BY <3>1, TablePops DEF IInv, Depth
    <3> QED BY <3>1, <3>2
  <2> HIDE DEF sc
  <2>3. Len(scopes') = 1 /\ scopes'[1] = scopes[1]
    <3>1. Len(sc) > 1 /\ Len(sc) - 1 = 1 /\ 1 \in 1 .. 1
      BY <2>2
    <3>2. /\ Len(Front(sc)) = Len(sc) - 1
          /\ \A d \in 1 .. Len(sc) - 1 : Front(sc)[d] = sc[d]
      BY <2>2, <3>1, TablePops
    <3> QED BY <2>1, <2>2, <3>1, <3>2
  <2>4. \A d \in 1 .. Depth - 1 : d <= 1 => d = 1
    BY <2>1
  <2> QED BY <2>1, <2>3, <2>4 DEF Untouched
<1>10. ASSUME DeclareFunc \/ DefineFunc
       PROVE  Enclosing = 1 .. Depth - 2 /\ Untouched(Depth - 2)
  <2>1. Enclosing = 1 .. Depth - 2
    BY <1>10 DEF DeclareFunc, DefineFunc, Enclosing
  <2>2. CASE DeclareFunc
    BY <2>1, <2>2, FuncKeeps DEF Untouched
  <2>3. CASE DefineFunc
    <3>1. Depth = 2
      BY <2>3, DefineIs, Declarator
    <3>2. \A d \in 1 .. Depth - 2 : FALSE
      BY <3>1
    <3> QED BY <2>1, <3>2 DEF Untouched
  <2> QED BY <1>10, <2>2, <2>3
<1>11. ASSUME Untouched(Depth - 1)
       PROVE  \A d \in Enclosing :
                d <= Len(scopes') =>
                   /\ scopes'[d] = scopes[d]
                   /\ \A s \in ToSet(scopes[d]) : syms'[s] = syms[s]
  BY <1>11, OuterKept
<1>12. CASE UNCHANGED <<syms, scopes>>
  BY <1>1, <1>11, <1>12
<1>13. CASE \E n \in Names, st \in Written, t \in Tys, init \in BOOLEAN :
              DeclareObject(n, st, t, init)
  BY <1>2, <1>11, <1>13, WrittenAssumption
<1>14. CASE \E n \in Names, t \in Tys : DeclareParam(n, t) \/ DeclareLocal(n, t)
  BY <1>3, <1>4, <1>11, <1>14
<1>15. CASE \E n \in Names : DeclareConst(n) \/ \E is_def \in BOOLEAN : DeclareTag(n, is_def)
  BY <1>5, <1>6, <1>11, <1>15
<1>16. CASE PushBlock \/ \E n \in Names, st \in Written \cup {"none"} : OpenProto(n, st)
  BY <1>7, <1>11, <1>16 DEF PushBlock, OpenProto
<1>17. CASE PopBlock \/ EndFunc
  BY <1>8, <1>9, <1>11, <1>17
<1>18. CASE DeclareFunc \/ DefineFunc
  BY <1>10, <1>18 DEF Untouched
<1>19. \/ UNCHANGED <<syms, scopes>>
       \/ \E n \in Names, st \in Written, t \in Tys, init \in BOOLEAN :
            DeclareObject(n, st, t, init)
       \/ \E n \in Names, t \in Tys : DeclareParam(n, t) \/ DeclareLocal(n, t)
       \/ \E n \in Names : DeclareConst(n) \/ \E is_def \in BOOLEAN : DeclareTag(n, is_def)
       \/ PushBlock \/ \E n \in Names, st \in Written \cup {"none"} : OpenProto(n, st)
       \/ PopBlock \/ EndFunc \/ DeclareFunc \/ DefineFunc
  BY DEF Next, Reject, RejectObject, RejectParam, RejectLocal, RejectFunc, RejectConstOrTag,
         Use, RejectUse, EndOfFile, EmitSym, EndOfScope
<1> QED BY <1>12, <1>13, <1>14, <1>15, <1>16, <1>17, <1>18, <1>19

\* A declaration leaves every symbol of the enclosing scopes, and their order,
\* as they were: shadowing never overwrites.
THEOREM OuterScopesStay == Spec => OuterScopesUntouched
<1> DEFINE Body == \A d \in Enclosing :
                     d <= Len(scopes') =>
                        /\ scopes'[d] = scopes[d]
                        /\ \A s \in ToSet(scopes[d]) : syms'[s] = syms[s]
<1>1. IInv /\ [Next]_vars => [Body]_vars
  BY OuterStep
<1> QED BY <1>1, Inductive, PTL DEF Spec, OuterScopesUntouched
-----------------------------------------------------------------------------
(***************************************************************************)
(* The refinement: every step is one of CLinkage, or none.                 *)
(***************************************************************************)
Wanted(d) == d.is_def \/ (d.kind = "object" /\ d.storage # "extern")

\* Every declaration that agrees is one C allows.
LEMMA AgreeingIsC ==
    ASSUME NEW dkind, NEW name, NEW storage, NEW is_def, Agreeing(dkind, name, storage, is_def)
    PROVE  C!Agrees([name |-> name, kind |-> dkind, storage |-> storage, is_def |-> is_def])
<1> DEFINE d == [name |-> name, kind |-> dkind, storage |-> storage, is_def |-> is_def]
<1>1. d.name = name /\ d.kind = dkind /\ d.storage = storage /\ d.is_def = is_def
  OBVIOUS
<1> HIDE DEF d
<1>2. C!Of(d.name) = {e \in decls : e.name = name}
  BY <1>1 DEF C!Of
<1>3. C!Internal(d.name) <=> \E e \in decls : e.name = name /\ e.storage = "static"
  BY <1>2 DEF C!Internal
<1>4. C!Defined(d.name) <=> \E e \in decls : e.name = name /\ e.is_def
  BY <1>2 DEF C!Defined
<1>5. C!Agrees(d)
  BY <1>1, <1>2, <1>3, <1>4 DEF C!Agrees, Agreeing
<1> QED BY <1>5 DEF d

LEMMA NeededIs ==
    ASSUME NEW n
    PROVE  /\ n \in C!Needed <=> n \in Names /\ \E d \in decls : d.name = n /\ Wanted(d)
           /\ C!Internal(n) <=> \E d \in decls : d.name = n /\ d.storage = "static"
<1>1. C!Defined(n) <=> \E d \in decls : d.name = n /\ d.is_def
  BY DEF C!Defined, C!Of
<1>2. C!Tentative(n) <=> \E d \in decls : d.name = n /\ d.kind = "object" /\ d.storage # "extern"
  BY DEF C!Tentative, C!Of
<1>3. C!Internal(n) <=> \E d \in decls : d.name = n /\ d.storage = "static"
  BY DEF C!Internal, C!Of
<1>4. n \in C!Needed <=> n \in Names /\ (C!Defined(n) \/ C!Tentative(n))
  BY DEF C!Needed
<1> QED BY <1>1, <1>2, <1>3, <1>4 DEF Wanted

\* What the file scope says of a name is what its declarations say.
LEMMA SymbolIsC ==
    ASSUME IInv, ~LateTentative, NEW p \in 1 .. Len(scopes[1]), Needs(syms[scopes[1][p]])
    PROVE  /\ syms[scopes[1][p]].name \in C!Needed
           /\ (syms[scopes[1][p]].storage = "static") <=> C!Internal(syms[scopes[1][p]].name)
<1> DEFINE sym == syms[scopes[1][p]]
<1>1. scopes[1][p] \in SymIds /\ scopes[1][p] \in ToSet(scopes[1])
  BY FileSymbols
<1>2. sym.name \in Names
  BY <1>1, Scoping DEF SymT
<1>3. SumsUp(sym, decls) /\ sym.kind \in {"global", "func"}
  BY <1>1 DEF IInv, AsDeclared, Needs
<1>4. /\ sym.storage = "static" <=> \E d \in decls : d.name = sym.name /\ d.storage = "static"
      /\ \E d \in decls : d.name = sym.name /\ Wanted(d)
  BY <1>3 DEF SumsUp, Wanted
<1> HIDE DEF sym
<1>5. sym.name \in C!Needed /\ (sym.storage = "static" <=> C!Internal(sym.name))
  BY <1>2, <1>4, NeededIs
<1> QED BY <1>5 DEF sym

LEMMA NeededIsSymbol ==
    ASSUME IInv, ~LateTentative, NEW n \in C!Needed
    PROVE  \E p \in 1 .. Len(scopes[1]) :
             Needs(syms[scopes[1][p]]) /\ syms[scopes[1][p]].name = n
<1>1. PICK d \in decls : d.name = n /\ Wanted(d)
  BY NeededIs
<1>2. PICK s \in ToSet(scopes[1]) : syms[s].name = d.name /\ syms[s].kind = KindOf(d)
  BY DEF IInv, AsDeclared
<1>3. syms[s].kind \in {"global", "func"}
  BY <1>2 DEF KindOf
<1>4. Needs(syms[s])
  BY <1>1, <1>2, <1>3 DEF IInv, AsDeclared, SumsUp, Wanted
<1>5. PICK p \in 1 .. Len(scopes[1]) : s = scopes[1][p]
  BY FileSymbols
<1> QED BY <1>1, <1>2, <1>4, <1>5

\* A declaration at file scope.
LEMMA DeclareStep ==
    ASSUME IInv, phase = "parse", UNCHANGED <<phase, out>>, NEW name \in Names,
           NEW dkind \in {"object", "function"}, NEW storage \in Storages,
           NEW is_def \in BOOLEAN, Agreeing(dkind, name, storage, is_def),
           decls' = decls \cup {[name |-> name, kind |-> dkind, storage |-> storage,
                                 is_def |-> is_def]}
    PROVE  C!Next
<1> DEFINE d == [name |-> name, kind |-> dkind, storage |-> storage, is_def |-> is_def]
<1>1. d \in C!Decls
  BY DEF C!Decls, C!Kinds, C!Storages, Storages
<1>2. C!Agrees(d)
  BY AgreeingIsC
<1>3. out = <<>> /\ ToSet(out) = {}
  BY NoMembers DEF IInv, Emission
<1> HIDE DEF d
<1>4. C!Declare(d)
  BY <1>2, <1>3 DEF C!Declare, d
<1> QED BY <1>1, <1>4 DEF C!Next

\* main emits a label, or passes a symbol that needs none.
LEMMA LabelStep ==
    ASSUME IInv, ~LateTentative, EmitSym
    PROVE  C!Next \/ UNCHANGED <<decls, out, phase>>
<1> DEFINE sym == syms[scopes[1][pos]]
<1>1. /\ phase = "emit" /\ pos <= Len(scopes[1])
      /\ out' = IF Needs(sym) THEN Append(out, LabelFor(sym)) ELSE out
      /\ UNCHANGED <<decls, phase>>
  BY EmittedIs DEF EmitSym
<1>2. CASE ~Needs(sym)
  BY <1>1, <1>2
<1>3. CASE Needs(sym)
  <2>1. pos \in 1 .. Len(scopes[1])
    BY <1>1, FileSymbols
  <2>2. /\ sym.name \in C!Needed
        /\ (sym.storage = "static") <=> C!Internal(sym.name)
    BY <1>3, <2>1, SymbolIsC
  <2>3. \A l \in ToSet(out) : l.name # sym.name
    <3> SUFFICES ASSUME NEW l \in ToSet(out) PROVE l.name # sym.name
      OBVIOUS
    <3>1. PICK i \in 1 .. Len(out) : l = out[i]
      BY Members DEF IInv, Types
    <3> QED BY <1>1, <1>3, <3>1, NewLabel
  <2>4. sym \in SymT
    BY <2>1, FileSymbols, Scoping
  <2>5. LabelFor(sym) \in LabelT
    BY <2>4 DEF LabelFor, LabelT, SymT
  <2>6. ToSet(out') = ToSet(out) \cup {LabelFor(sym)}
    <3>1. out' = Append(out, LabelFor(sym)) /\ out \in Seq(LabelT)
      BY <1>1, <1>3 DEF IInv, Types
    <3> QED BY <2>5, <3>1, MembersOfAppend
  <2> HIDE DEF sym
  <2>7. LabelFor(sym) = [name |-> sym.name, global |-> ~C!Internal(sym.name)]
    BY <2>2 DEF LabelFor
  <2>8. C!Label(sym.name)
    BY <1>1, <2>2, <2>3, <2>6, <2>7 DEF C!Label
  <2>9. sym.name \in Names
    BY <2>4 DEF SymT
  <2> QED BY <2>8, <2>9 DEF C!Next
<1> QED BY <1>2, <1>3

\* The end of the file scope: exactly the needed names are defined.
LEMMA FinishStep ==
    ASSUME IInv, ~LateTentative, EndOfScope
    PROVE  C!Next
<1>1. /\ phase = "emit" /\ pos > Len(scopes[1]) /\ phase' = "done"
      /\ UNCHANGED <<decls, out>>
  BY DEF EndOfScope
<1>2. pos - 1 = Len(scopes[1])
  BY <1>1, FileSymbols
<1>3. /\ out \in Seq(LabelT)
      /\ \A i \in 1 .. Len(out) : \E p \in 1 .. Len(scopes[1]) :
           Needs(syms[scopes[1][p]]) /\ out[i] = LabelFor(syms[scopes[1][p]])
      /\ \A p \in 1 .. Len(scopes[1]) : Needs(syms[scopes[1][p]]) =>
           \E i \in 1 .. Len(out) : out[i] = LabelFor(syms[scopes[1][p]])
  BY <1>2 DEF IInv, Types, Emission
<1>4. ASSUME NEW l \in ToSet(out) PROVE l.name \in C!Needed
  <2>1. PICK i \in 1 .. Len(out) : l = out[i]
    BY <1>3, Members
  <2>2. PICK p \in 1 .. Len(scopes[1]) :
           Needs(syms[scopes[1][p]]) /\ out[i] = LabelFor(syms[scopes[1][p]])
    BY <1>3
  <2>3. l.name = syms[scopes[1][p]].name
    BY <2>1, <2>2 DEF LabelFor
  <2> QED BY <2>2, <2>3, SymbolIsC
<1>5. ASSUME NEW n \in C!Needed PROVE \E l \in ToSet(out) : l.name = n
  <2>1. PICK p \in 1 .. Len(scopes[1]) :
           Needs(syms[scopes[1][p]]) /\ syms[scopes[1][p]].name = n
    BY NeededIsSymbol
  <2>2. PICK i \in 1 .. Len(out) : out[i] = LabelFor(syms[scopes[1][p]])
    BY <1>3, <2>1
  <2>3. out[i] \in ToSet(out)
    BY <1>3, Members
  <2> QED BY <2>1, <2>2, <2>3 DEF LabelFor
<1>6. {l.name : l \in ToSet(out)} = C!Needed
  BY <1>4, <1>5
<1>7. C!Finish
  BY <1>1, <1>6 DEF C!Finish
<1> QED BY <1>7 DEF C!Next

LEMMA StepIsC ==
    ASSUME IInv, ~LateTentative, Next
    PROVE  [C!Next]_(C!vars)
<1>1. ASSUME UNCHANGED <<decls, out>>, phase' = phase \/ (phase = "parse" /\ phase' = "emit")
      PROVE  UNCHANGED C!vars
  BY <1>1 DEF C!vars
<1>2. ASSUME Parsing, Reject PROVE C!Next
  <2>1. C!Reject
    BY <1>2 DEF C!Reject, Reject, Parsing
  <2> QED BY <2>1 DEF C!Next
<1>3. CASE \E n \in Names, st \in Written, t \in Tys, init \in BOOLEAN :
              DeclareObject(n, st, t, init)
  <2>1. PICK n \in Names, st \in Written, t \in Tys, init \in BOOLEAN :
           DeclareObject(n, st, t, init)
    BY <1>3
  <2>2. st \in Storages /\ "object" \in {"object", "function"}
    BY WrittenAssumption
  <2>3. Agreeing("object", n, st, init)
    BY <2>1, <2>2, ObjectKeeps
  <2>4. /\ phase = "parse" /\ UNCHANGED <<phase, out>>
        /\ decls' = decls \cup {[name |-> n, kind |-> "object", storage |-> st,
                                 is_def |-> init]}
    BY <2>1 DEF DeclareObject, AtFileScope, Parsing, FileDecl
  <2> QED BY <2>2, <2>3, <2>4, DeclareStep
<1>4. CASE DeclareFunc /\ curr_func = 0
  <2>1. /\ phase = "parse" /\ proto # <<>> /\ UNCHANGED <<phase, out>>
        /\ decls' = decls \cup {[name |-> proto[1].name, kind |-> "function",
                                 storage |-> proto[1].storage, is_def |-> FALSE]}
    BY <1>4 DEF DeclareFunc, Parsing, FileDecl
  <2>2. /\ proto[1].name \in Names /\ proto[1].storage \in Storages
        /\ "function" \in {"object", "function"} /\ FALSE \in BOOLEAN
    BY <2>1, Declarator
  <2>3. Agreeing("function", proto[1].name, proto[1].storage, FALSE)
    BY <1>4, FuncKeeps
  <2> QED BY <2>1, <2>2, <2>3, DeclareStep
<1>5. CASE DefineFunc
  <2>1. /\ phase = "parse" /\ proto # <<>> /\ UNCHANGED <<phase, out>>
        /\ decls' = decls \cup {[name |-> proto[1].name, kind |-> "function",
                                 storage |-> proto[1].storage, is_def |-> TRUE]}
    BY <1>5, DefineIs
  <2>2. /\ proto[1].name \in Names /\ proto[1].storage \in Storages
        /\ "function" \in {"object", "function"} /\ TRUE \in BOOLEAN
    BY <2>1, Declarator
  <2>3. Agreeing("function", proto[1].name, proto[1].storage, TRUE)
    BY <1>5, DefineKeeps
  <2> QED BY <2>1, <2>2, <2>3, DeclareStep
<1>6. CASE EmitSym
  BY <1>1, <1>6, LabelStep
<1>7. CASE EndOfScope
  BY <1>7, FinishStep
<1>8. CASE Parsing /\ Reject
  BY <1>2, <1>8
<1>9. CASE UNCHANGED <<decls, out>> /\ (phase' = phase \/ (phase = "parse" /\ phase' = "emit"))
  BY <1>1, <1>9
<1>10. \/ \E n \in Names, st \in Written, t \in Tys, init \in BOOLEAN :
            DeclareObject(n, st, t, init)
       \/ DeclareFunc /\ curr_func = 0
       \/ DefineFunc \/ EmitSym \/ EndOfScope \/ (Parsing /\ Reject)
       \/ UNCHANGED <<decls, out>> /\ (phase' = phase \/ (phase = "parse" /\ phase' = "emit"))
  BY DEF Next, RejectObject, OpenProto, DeclareParam, RejectParam, DeclareFunc, RejectFunc,
         DeclareLocal, RejectLocal, DeclareConst, DeclareTag, RejectConstOrTag, PushBlock,
         PopBlock, EndFunc, Use, RejectUse, EndOfFile, AtFileScope, InBody, Parsing
<1> QED BY <1>3, <1>4, <1>5, <1>6, <1>7, <1>8, <1>9, <1>10

\* The compiler keeps C's promise: it accepts only agreeing declarations, and
\* its object file defines and exports exactly the names it must.  Files with
\* a tentative definition after an extern declaration are excepted: there the
\* code breaks the promise (run tentative).
THEOREM CompilerLinksAsC == ~LateTentative => (Spec => LinkageAsInC)
<1> SUFFICES ASSUME ~LateTentative PROVE Spec => LinkageAsInC
  OBVIOUS
<1>1. Init => C!Init
  BY NoMembers DEF Init, C!Init
<1>2. IInv /\ [Next]_vars => [C!Next]_(C!vars)
  <2>1. ASSUME UNCHANGED vars PROVE UNCHANGED C!vars
    BY <2>1 DEF vars, C!vars
  <2> QED BY <2>1, StepIsC
<1> QED BY <1>1, <1>2, Inductive, PTL DEF Spec, LinkageAsInC, C!Spec
=============================================================================
