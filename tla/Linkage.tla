------------------------------ MODULE Linkage -------------------------------
(***************************************************************************)
(* The symbol table and the linkage of names (compiler/smolcc1.c:          *)
(* push_scope to declare, p_struct, p_enum, p_decl, the identifier case of *)
(* p_expr, emit_place_expr and main).  One pass parses the whole file and  *)
(* resolves every identifier to a symbol; the second, in main, walks the   *)
(* file scope and decides which symbols become labels of the object file.  *)
(*                                                                         *)
(* The parser is free here: any order of declarations, blocks and uses.    *)
(* Layout of objects is in module Layout, expressions are in Elab.         *)
(***************************************************************************)
EXTENDS Integers, Sequences, SequencesExt

CONSTANTS Names,     \* identifiers
          Tys,       \* object types
          Written,   \* the storage classes written at file scope
          MaxSyms,   \* bound: symbols in one translation unit
          MaxDepth,  \* bound: scopes open at once
          MaxRefs,   \* bound: identifiers used in function bodies
          MaxDecls,  \* bound: different declarations at file scope
          LateTentative  \* may `int x;` follow `extern int x;` (see README)

Storages == {"none", "extern", "static"}

ASSUME WrittenAssumption == Written \subseteq Storages

VARIABLES syms,       \* every symbol, in order of creation
          scopes,     \* the chain of scopes, file scope first: symbols in order
          curr_func,  \* the function whose body is parsed, or 0
          proto,      \* the function declarator being parsed, or <<>>
          refs,       \* Expr_Var and Expr_Func nodes: [func, sym]
          phase,      \* "parse", "emit", "done" or "rejected"
          pos,        \* main's position in the file scope
          out,        \* labels of the object file, in order: [name, global]
          decls       \* history: the file-scope declarations, as in CLinkage

vars == <<syms, scopes, curr_func, proto, refs, phase, pos, out, decls>>

Sym(kind, name, storage, ty, is_def, func) ==
    [kind |-> kind, name |-> name, storage |-> storage, ty |-> ty,
     is_defined |-> is_def, func |-> func]

\* Types are sequences of words, so that any two of them can be compared.
IntTy        == <<"int">>
FuncTy(n)    == <<"func", "int", n>>

Depth == Len(scopes)
Top   == scopes[Depth]

Init == /\ syms = <<>> /\ scopes = << <<>> >>
        /\ curr_func = 0 /\ proto = <<>>
        /\ refs = {} /\ phase = "parse" /\ pos = 1 /\ out = <<>>
        /\ decls = {}

-----------------------------------------------------------------------------
(***************************************************************************)
(* lookup_in and lookup.  Struct tags have a name space of their own.      *)
(***************************************************************************)
In(scope, is_struct, name, table) ==
    {s \in ToSet(scope) : /\ (table[s].kind = "struct") = is_struct
                          /\ table[s].name = name}

lookup(is_struct, name) ==
    LET found == {d \in 1 .. Depth : In(scopes[d], is_struct, name, syms) # {}}
    IN  IF found = {} THEN {}
        ELSE In(scopes[CHOOSE d \in found : \A e \in found : e <= d],
                is_struct, name, syms)

\* Mutants: declare finds nothing; declare searches the outer scopes as well.
lookup_in_none(scope, is_struct, name)   == {}
lookup_in_outer(scope, is_struct, name)  == lookup(is_struct, name)

lookup_in(scope, is_struct, name) == In(scope, is_struct, name, syms)

(***************************************************************************)
(* declare, in the scope `scope` whose contents are given.                 *)
(***************************************************************************)
Conflicts_storage_free(s, kind, storage, ty, is_def) ==   \* mutant
    \/ syms[s].kind # kind
    \/ kind # "struct" /\ syms[s].ty # ty
    \/ is_def /\ syms[s].is_defined

Conflicts(s, kind, storage, ty, is_def) ==
    \/ syms[s].kind # kind
    \/ kind # "struct" /\ syms[s].ty # ty
    \/ is_def /\ syms[s].is_defined
    \/ kind = "global" /\ syms[s].storage = "static" /\ storage = "none"
    \/ /\ kind \in {"global", "func"}
       /\ syms[s].storage # "static" /\ storage = "static"

Clashes(scope, kind, storage, name, ty, is_def) ==
    \E s \in lookup_in(scope, kind = "struct", name) :
        Conflicts(s, kind, storage, ty, is_def)

\* The table after declaring, and the scope with the symbol in it.  (A tag
\* declared before becomes defined at its `}` only: module Layout.)
Declared(scope, kind, storage, name, ty, is_def, func) ==
    LET old == lookup_in(scope, kind = "struct", name)
    IN  IF old = {} THEN Append(syms, Sym(kind, name, storage, ty, is_def, func))
        ELSE [s \in DOMAIN syms |->
                IF s \in old THEN [syms[s] EXCEPT !.is_defined = @ \/ is_def]
                             ELSE syms[s]]

Extended(scope, kind, name) ==
    IF lookup_in(scope, kind = "struct", name) = {}
    THEN Append(scope, Len(syms) + 1) ELSE scope

Parsing == phase = "parse"

Reject == /\ phase' = "rejected"
          /\ UNCHANGED <<syms, scopes, curr_func, proto, refs, pos, out, decls>>

\* A declaration in the innermost scope, accepted or refused.
declare(kind, storage, name, ty, is_def, func) ==
    /\ ~Clashes(Top, kind, storage, name, ty, is_def)
    /\ Len(syms) < MaxSyms
    /\ syms' = Declared(Top, kind, storage, name, ty, is_def, func)
    /\ scopes' = [scopes EXCEPT ![Depth] = Extended(Top, kind, name)]

FileDecl(name, kind, storage, is_def) ==
    /\ decls' = decls \cup {[name |-> name, kind |-> kind, storage |-> storage,
                             is_def |-> is_def]}
    /\ Cardinality(decls') <= MaxDecls

-----------------------------------------------------------------------------
(***************************************************************************)
(* Objects and functions at file scope, parameters, locals, tags, enums.   *)
(***************************************************************************)
AtFileScope == Parsing /\ curr_func = 0 /\ proto = <<>>
InBody      == Parsing /\ curr_func # 0 /\ proto = <<>>

\* Does `name` have a symbol that was only declared extern?
OnlyExtern(name) == \E s \in lookup_in(scopes[1], FALSE, name) :
                        syms[s].storage = "extern" /\ ~syms[s].is_defined

DeclareObject(name, storage, ty, init) ==
    /\ AtFileScope
    /\ LateTentative \/ ~(OnlyExtern(name) /\ storage = "none" /\ ~init)
    /\ declare("global", storage, name, ty, init, 0)
    /\ FileDecl(name, "object", storage, init)
    /\ UNCHANGED <<curr_func, proto, refs, phase, pos, out>>

RejectObject(name, storage, ty, init) ==
    /\ AtFileScope
    /\ Clashes(Top, "global", storage, name, ty, init)
    /\ Reject

\* A function declarator: its parameters get a scope of their own, which goes
\* away before the function itself is declared.  No storage class in a block.
OpenProto(name, storage) ==
    /\ AtFileScope \/ (InBody /\ storage = "none")
    /\ Depth < MaxDepth
    /\ scopes' = Append(scopes, <<>>)
    /\ proto' = <<[name |-> name, storage |-> storage, params |-> <<>>]>>
    /\ UNCHANGED <<syms, curr_func, refs, phase, pos, out, decls>>

DeclareParam(name, ty) ==
    /\ Parsing /\ proto # <<>>
    /\ declare("local", "none", name, ty, TRUE, 0)
    /\ proto' = [proto EXCEPT ![1].params =
                    Append(@, [name |-> name, ty |-> ty])]
    /\ UNCHANGED <<curr_func, refs, phase, pos, out, decls>>

RejectParam(name, ty) ==
    /\ Parsing /\ proto # <<>>
    /\ Clashes(Top, "local", "none", name, ty, TRUE)
    /\ Reject

\* The scope that is current again once the declarator is read.
Around   == scopes[Depth - 1]
ProtoTy  == FuncTy(Len(proto[1].params))

DeclareFunc ==
    /\ Parsing /\ proto # <<>>
    /\ ~Clashes(Around, "func", proto[1].storage, proto[1].name, ProtoTy, FALSE)
    /\ Len(syms) < MaxSyms
    /\ syms' = Declared(Around, "func", proto[1].storage, proto[1].name,
                        ProtoTy, FALSE, 0)
    /\ scopes' = [Front(scopes) EXCEPT ![Depth - 1] =
                    Extended(Around, "func", proto[1].name)]
    /\ proto' = <<>>
    /\ IF curr_func = 0
       THEN FileDecl(proto[1].name, "function", proto[1].storage, FALSE)
       ELSE UNCHANGED decls
    /\ UNCHANGED <<curr_func, refs, phase, pos, out>>

\* The same with a body: the parameters are declared again, now with a place
\* in the frame, in the function's scope; the body's block has another.
DefineFunc ==
    /\ Parsing /\ proto # <<>> /\ curr_func = 0
    /\ ~Clashes(Around, "func", proto[1].storage, proto[1].name, ProtoTy, TRUE)
    /\ Depth < MaxDepth
    /\ Len(syms) + Len(proto[1].params) < MaxSyms
    /\ LET table == Declared(Around, "func", proto[1].storage, proto[1].name,
                             ProtoTy, TRUE, 0)
           file  == Extended(Around, "func", proto[1].name)
           func  == CHOOSE s \in ToSet(file) :
                      table[s].kind = "func" /\ table[s].name = proto[1].name
           n     == Len(proto[1].params)
       IN  /\ syms' = table \o [i \in 1 .. n |->
                        Sym("local", proto[1].params[i].name, "none",
                            proto[1].params[i].ty, TRUE, func)]
           /\ scopes' = [Front(scopes) EXCEPT ![Depth - 1] = file]
                           \o << [i \in 1 .. n |-> Len(table) + i], <<>> >>
           /\ curr_func' = func
    /\ proto' = <<>>
    /\ FileDecl(proto[1].name, "function", proto[1].storage, TRUE)
    /\ UNCHANGED <<refs, phase, pos, out>>

RejectFunc(is_def) ==
    /\ Parsing /\ proto # <<>> /\ (is_def => curr_func = 0)
    /\ Clashes(Around, "func", proto[1].storage, proto[1].name, ProtoTy, is_def)
    /\ Reject

DeclareLocal(name, ty) ==
    /\ InBody
    /\ declare("local", "none", name, ty, TRUE, curr_func)
    /\ UNCHANGED <<curr_func, proto, refs, phase, pos, out, decls>>

RejectLocal(name, ty) ==
    /\ InBody
    /\ Clashes(Top, "local", "none", name, ty, TRUE)
    /\ Reject

\* An enumerator or a struct tag goes to the innermost scope, be it the file,
\* a parameter list or a block.  `struct name` alone uses an outer tag.
DeclareConst(name) ==
    /\ Parsing
    /\ declare("const", "none", name, IntTy, TRUE, 0)
    /\ UNCHANGED <<curr_func, proto, refs, phase, pos, out, decls>>

DeclareTag(name, is_def) ==
    /\ Parsing
    /\ is_def \/ lookup(TRUE, name) = {}
    /\ declare("struct", "none", name, <<>>, is_def, 0)
    /\ UNCHANGED <<curr_func, proto, refs, phase, pos, out, decls>>

RejectConstOrTag(name) ==
    /\ Parsing
    /\ \/ Clashes(Top, "const", "none", name, IntTy, TRUE)
       \/ Clashes(Top, "struct", "none", name, <<>>, TRUE)
    /\ Reject

-----------------------------------------------------------------------------
(***************************************************************************)
(* Blocks and uses of identifiers.                                         *)
(***************************************************************************)
PushBlock ==
    /\ InBody
    /\ Depth < MaxDepth
    /\ scopes' = Append(scopes, <<>>)
    /\ UNCHANGED <<syms, curr_func, proto, refs, phase, pos, out, decls>>

PopBlock ==
    /\ InBody
    /\ Depth > 3
    /\ scopes' = Front(scopes)
    /\ UNCHANGED <<syms, curr_func, proto, refs, phase, pos, out, decls>>

EndFunc_leaves_scope ==      \* mutant: only the body's block is popped
    /\ InBody
    /\ Depth = 3
    /\ scopes' = Front(scopes)
    /\ curr_func' = 0
    /\ UNCHANGED <<syms, proto, refs, phase, pos, out, decls>>

EndFunc ==
    /\ InBody
    /\ Depth = 3
    /\ scopes' = Front(Front(scopes))
    /\ curr_func' = 0
    /\ UNCHANGED <<syms, proto, refs, phase, pos, out, decls>>

\* An identifier in a body becomes a node that keeps its symbol; a constant
\* becomes a number and an unknown name is an error.
Use(name) ==
    /\ InBody
    /\ \E s \in lookup(FALSE, name) :
         refs' = IF syms[s].kind = "const" THEN refs
                 ELSE refs \cup {[func |-> curr_func, sym |-> s]}
    /\ Cardinality(refs') <= MaxRefs
    /\ UNCHANGED <<syms, scopes, curr_func, proto, phase, pos, out, decls>>

\* Outside bodies only constants may be used (array lengths, initialisers):
\* eval refuses every other node.
RejectUse(name) ==
    /\ Parsing
    /\ \/ lookup(FALSE, name) = {}
       \/ ~InBody /\ \E s \in lookup(FALSE, name) : syms[s].kind # "const"
    /\ Reject

-----------------------------------------------------------------------------
(***************************************************************************)
(* main's second pass.                                                     *)
(***************************************************************************)
EndOfFile ==
    /\ AtFileScope
    /\ phase' = "emit"
    /\ UNCHANGED <<syms, scopes, curr_func, proto, refs, pos, out, decls>>

Emitted(s) == \/ syms[s].kind = "func" /\ syms[s].is_defined
              \/ /\ syms[s].kind = "global"
                 /\ ~(syms[s].storage = "extern" /\ ~syms[s].is_defined)

LabelOf(s) == [name |-> syms[s].name, global |-> syms[s].storage # "static"]

EmitSym ==
    /\ phase = "emit"
    /\ pos <= Len(scopes[1])
    /\ LET s == scopes[1][pos]
       IN  out' = IF Emitted(s) THEN Append(out, LabelOf(s)) ELSE out
    /\ pos' = pos + 1
    /\ UNCHANGED <<syms, scopes, curr_func, proto, refs, phase, decls>>

EndOfScope ==
    /\ phase = "emit"
    /\ pos > Len(scopes[1])
    /\ phase' = "done"
    /\ UNCHANGED <<syms, scopes, curr_func, proto, refs, pos, out, decls>>

\* emit_place_expr: through the GOT, or relative to the program counter?
ViaGot_static(s) == syms[s].storage = "static" /\ ~syms[s].is_defined  \* mutant
ViaGot(s)        == syms[s].storage = "extern" /\ ~syms[s].is_defined

Next ==
    \/ \E n \in Names, st \in Written, t \in Tys, init \in BOOLEAN :
         DeclareObject(n, st, t, init) \/ RejectObject(n, st, t, init)
    \/ \E n \in Names, st \in Written \cup {"none"} : OpenProto(n, st)
    \/ \E n \in Names, t \in Tys :
         \/ DeclareParam(n, t) \/ RejectParam(n, t)
         \/ DeclareLocal(n, t) \/ RejectLocal(n, t)
    \/ DeclareFunc \/ DefineFunc
    \/ \E is_def \in BOOLEAN : RejectFunc(is_def)
    \/ \E n \in Names : \/ DeclareConst(n) \/ RejectConstOrTag(n)
                        \/ Use(n) \/ RejectUse(n)
    \/ \E n \in Names, is_def \in BOOLEAN : DeclareTag(n, is_def)
    \/ PushBlock \/ PopBlock \/ EndFunc
    \/ EndOfFile \/ EmitSym \/ EndOfScope

Spec == Init /\ [][Next]_vars

-----------------------------------------------------------------------------
SymKinds == {"global", "func", "struct", "const", "local"}
SymIds   == 1 .. Len(syms)

\* Every variable has its type.
TypeOK ==
    /\ \A s \in SymIds : /\ syms[s].kind \in SymKinds
                         /\ syms[s].name \in Names
                         /\ syms[s].storage \in Storages
                         /\ syms[s].func \in 0 .. Len(syms)
    /\ \A d \in 1 .. Depth : scopes[d] \in Seq(SymIds)
    /\ curr_func \in 0 .. Len(syms)
    /\ curr_func = 0 <=> Depth <= IF proto = <<>> THEN 1 ELSE 2
    /\ phase \in {"parse", "emit", "done", "rejected"}
    /\ pos \in 1 .. Len(scopes[1]) + 1

\* In every scope a name means at most one thing per name space, whatever was
\* redeclared before: the linear search of lookup_in has one possible answer.
OneMeaning ==
    \A d \in 1 .. Depth : \A i, j \in 1 .. Len(scopes[d]) :
        LET a == syms[scopes[d][i]]
            b == syms[scopes[d][j]]
        IN  /\ a.name = b.name
            /\ (a.kind = "struct") = (b.kind = "struct")
            => i = j

\* Every local that a function's code uses has its place in that function's
\* frame: emit_place_expr adds sym->offs to the x29 of the running function.
\* Parameters of mere prototypes (offs 0: the frame record) are never used.
LocalsInOwnFrame ==
    \A r \in refs : syms[r.sym].kind = "local" => syms[r.sym].func = r.func

\* An object addressed relative to the program counter is in this object file;
\* one taken from the GOT is left to another.  The decision is made in
\* emit_place_expr, the label in main: they must agree on the final table.
AddressesResolve ==
    phase = "done" =>
        \A r \in refs :
            syms[r.sym].kind = "global" =>
                (~ViaGot(r.sym) <=> \E i \in 1 .. Len(out) :
                                       out[i].name = syms[r.sym].name)

\* No label is defined twice, so the assembler accepts the file.
LabelsUnique ==
    \A i, j \in 1 .. Len(out) : out[i].name = out[j].name => i = j

\* A declaration in a block, a body or a parameter list leaves every symbol
\* of the enclosing scopes, and their order, as they were.  The declarator that
\* ends with a step is declared in the scope around its parameter list.
Enclosing == IF proto # <<>> /\ proto' = <<>> THEN 1 .. Depth - 2
                                              ELSE 1 .. Depth - 1

OuterScopesUntouched ==
    [][ \A d \in Enclosing :
            d <= Len(scopes') =>
                /\ scopes'[d] = scopes[d]
                /\ \A s \in ToSet(scopes[d]) : syms'[s] = syms[s] ]_vars

\* The compiler keeps C's promise: it accepts only agreeing declarations and
\* its object file defines and exports exactly the names it must.
C == INSTANCE CLinkage
       WITH labels <- ToSet(out),
            over   <- CASE phase = "done"     -> "done"
                        [] phase = "rejected" -> "rejected"
                        [] OTHER              -> "no"

LinkageAsInC == C!Spec
=============================================================================
