------------------------------ MODULE StmtGen -------------------------------
(***************************************************************************)
(* Statements (compiler/smolcc1.c: p_stmt, emit_stmt, emit_func): the      *)
(* parser's struct stmt, chained by `sub` and `next` and with the loop     *)
(* that a break or continue belongs to; the labels and jumps made of it;   *)
(* and these at work, with conditions that come out either way.            *)
(*                                                                         *)
(* An expression is a name; what its code does is module Machine's matter. *)
(***************************************************************************)
EXTENDS CControl, FiniteSets

CONSTANT Files       \* sequences of function bodies

VARIABLES src,       \* the bodies as written
          code, pc, x0,
          todo,      \* what C has still to do in the function that runs
          phase      \* "source", "run", "done" or "rejected"

vars == <<src, code, pc, x0, todo, phase>>

-----------------------------------------------------------------------------
(***************************************************************************)
(* p_stmt.  A statement is parsed in a state: curr_loop, the number of     *)
(* loops made (the address of the next), and whether all was accepted.     *)
(***************************************************************************)
Nil == [kind |-> "nil"]
Stmt(kind, e, sub) == [kind |-> kind, e |-> e, sub |-> sub, next |-> Nil, loop |-> 0]

Parsing(curr_loop, made, ok) == [curr_loop |-> curr_loop, made |-> made, ok |-> ok]
Res(s, st) == [s |-> s, st |-> st]

\* A declaration's variables, the last one first; each leads to the one before.
Decls(inits) == FoldLeft(LAMBDA before, d : Stmt("Decl", d.e, before), Nil, inits)

Enter(st)           == [st EXCEPT !.curr_loop = st.made + 1, !.made = @ + 1]
Leave_inner(outer, st) == st                          \* mutant: curr_loop is not restored
Leave(outer, st)       == [st EXCEPT !.curr_loop = outer]

InLoop_any(st) == TRUE                                \* mutant: no check
InLoop(st)     == st.curr_loop # 0

Jump(kind, st) ==
    IF InLoop(st) THEN Res([Stmt(kind, None, Nil) EXCEPT !.loop = st.curr_loop], st)
    ELSE Res(Stmt("Empty", None, Nil), [st EXCEPT !.ok = FALSE])

Then(s, next) == [s EXCEPT !.next = next]

RECURSIVE p_stmt(_, _), p_block(_, _)

p_block(ss, st) ==
    IF ss = <<>> THEN Res(Nil, st)
    ELSE LET s    == p_stmt(Head(ss), st)
             rest == p_block(Tail(ss), s.st)
         IN  Res(Then(s.s, rest.s), rest.st)

\* init, step and body one after the other; `while` leaves the first two empty.
p_loop(s, st) ==
    LET parts == IF s.k = "While" THEN <<Nop, Nop, BodyOf(s)>> ELSE s.subs
        sub   == p_block(parts, st)
    IN  Res([Stmt("Loop", s.e, sub.s) EXCEPT !.loop = st.curr_loop], sub.st)

p_stmt(s, st) ==
    CASE s.k \in {"Block", "If"} -> LET sub == p_block(s.subs, st)
                                   IN  Res(Stmt(s.k, s.e, sub.s), sub.st)
      [] s.k \in LoopKinds -> LET loop == p_loop(s, Enter(st))
                              IN  Res(loop.s, Leave(st.curr_loop, loop.st))
      [] s.k \in {"Break", "Continue"} -> Jump(s.k, st)
      [] s.k = "Decl" /\ s.subs # <<>> -> Res(Decls(s.subs), st)
      [] s.k = "Decl" /\ s.subs = <<>> -> Res(Stmt("Empty", None, Nil), st)
      [] OTHER -> Res(Stmt(s.k, s.e, Nil), st)

\* The bodies of a file, one after the other.
p_file(file) ==
    FoldLeft(LAMBDA r, s : LET p == p_stmt(s, r.st) IN Res(Append(r.s, p.s), p.st),
             Res(<<>>, Parsing(0, 0, TRUE)), file)

-----------------------------------------------------------------------------
(***************************************************************************)
(* emit_stmt.  Code is written in a state: the code so far, next_cond_id,  *)
(* next_loop_id, and the loop_id of each loop, 0 until it is emitted.      *)
(***************************************************************************)
Label(of, n)   == [of |-> of, n |-> n]
Eval(e)        == [op |-> "eval", e |-> e, to |-> Label("none", 0)]
Go(op, to)     == [op |-> op, e |-> None, to |-> to]
LabelHere(l)   == Go("label", l)

Emitting(loops) == [code |-> <<>>, cond |-> 0, loop |-> 0, ids |-> [l \in 1 .. loops |-> 0]]

Put(st, is) == [st EXCEPT !.code = @ \o is]

\* Code that is written only if there is an expression.
EvalOf(e) == IF e = None THEN <<>> ELSE <<Eval(e)>>

RECURSIVE emit_init_decls(_, _)
emit_init_decls(s, st) ==
    IF s = Nil THEN st ELSE Put(emit_init_decls(s.sub, st), EvalOf(s.e))

CondId(st)      == [st EXCEPT !.cond = @ + 1]
LoopId_same(st, at) == [st EXCEPT !.ids[at] = st.loop]   \* mutant: not counted up
LoopId(st, at)      == [st EXCEPT !.ids[at] = st.loop, !.loop = @ + 1]

JumpTo(s) == IF s.kind = "Break" THEN "loop.end" ELSE "loop.step"

IfHead(e, n) == <<Eval(e), Go("cbz", Label("if.else", n))>>
IfElse(n)    == <<Go("b", Label("if.end", n)), LabelHere(Label("if.else", n))>>
LoopCond(e, n) ==
    <<LabelHere(Label("loop.cond", n))>> \o EvalOf(e)
    \o <<Go(IF e = None THEN "b" ELSE "cbnz", Label("loop.body", n)),
         LabelHere(Label("loop.end", n))>>

RECURSIVE emit_stmt(_, _, _), emit_stmts(_, _, _)

\* A statement and those chained to it.
emit_stmts(func, s, st) ==
    IF s = Nil THEN st ELSE emit_stmts(func, s.next, emit_stmt(func, s, st))

emit_if(func, s, n, st) ==
    LET then == Put(emit_stmt(func, s.sub, Put(st, IfHead(s.e, n))), IfElse(n))
    IN  Put(emit_stmts(func, s.sub.next, then), <<LabelHere(Label("if.end", n))>>)

emit_loop(func, s, n, st) ==
    LET init == Put(emit_stmt(func, s.sub, st),
                    <<Go("b", Label("loop.cond", n)), LabelHere(Label("loop.body", n))>>)
        body == Put(emit_stmt(func, s.sub.next.next, init), <<LabelHere(Label("loop.step", n))>>)
    IN  Put(emit_stmt(func, s.sub.next, body), LoopCond(s.e, n))

emit_stmt(func, s, st) ==
    CASE s.kind = "Block"  -> emit_stmts(func, s.sub, st)
      [] s.kind = "Return" -> Put(st, EvalOf(s.e) \o <<Go("b", Label("return", func))>>)
      [] s.kind = "If"     -> emit_if(func, s, st.cond, CondId(st))
      [] s.kind = "Loop"   -> emit_loop(func, s, st.loop, LoopId(st, s.loop))
      [] s.kind \in {"Break", "Continue"} ->
           Put(st, <<Go("b", Label(JumpTo(s), IF s.loop = 0 THEN 0 ELSE st.ids[s.loop]))>>)
      [] s.kind = "Decl"   -> emit_init_decls(s, st)
      [] s.kind = "Expr"   -> Put(st, EvalOf(s.e))
      [] OTHER -> st

\* Two functions have two names; here these are their places in the file.
emit_func(func, body, st) ==
    Put(emit_stmt(func, body, Put(st, <<LabelHere(Label("func", func))>>)),
        <<LabelHere(Label("return", func)), Go("ret", Label("none", 0))>>)

emit_file(bodies, loops) ==
    FoldLeftDomain(LAMBDA st, i : emit_func(i, bodies[i], st), Emitting(loops), bodies).code

-----------------------------------------------------------------------------
Init == /\ src \in Files
        /\ code = <<>> /\ pc = 1 /\ x0 = 0 /\ todo = <<>>
        /\ phase = "source"

\* The places of a label in the code.
Places(l) == {i \in DOMAIN code : code[i].op = "label" /\ code[i].to = l}

Compile ==
    /\ phase = "source"
    /\ LET file == p_file(src)
       IN  IF file.st.ok
           THEN phase' = "compiled" /\ code' = emit_file(file.s, file.st.made)
           ELSE phase' = "rejected" /\ code' = <<>>
    /\ UNCHANGED <<src, pc, x0, todo>>

\* Some function of the file is called.
Call == /\ phase = "compiled"
        /\ \E func \in DOMAIN src :
             /\ pc' \in Places(Label("func", func))
             /\ todo' = Unfold(<<src[func]>>)
        /\ phase' = "run"
        /\ UNCHANGED <<src, code, x0>>

Running(ops) == phase = "run" /\ code[pc].op \in ops

\* The code of an expression leaves its value in w0 or x0.
Evaluate == /\ Running({"eval"})
            /\ x0' \in {0, 1}
            /\ todo' = IF todo = <<>> THEN todo ELSE Done(todo, x0')
            /\ pc' = pc + 1
            /\ UNCHANGED <<src, code, phase>>

Branch == /\ Running({"b", "cbz", "cbnz"})
          /\ IF code[pc].op = "b" \/ (code[pc].op = "cbz") = (x0 = 0)
             THEN pc' \in Places(code[pc].to) ELSE pc' = pc + 1
          /\ UNCHANGED <<src, code, x0, todo, phase>>

PassLabel == /\ Running({"label"})
             /\ pc' = pc + 1
             /\ UNCHANGED <<src, code, x0, todo, phase>>

Return == /\ Running({"ret"})
          /\ phase' = "done"
          /\ UNCHANGED <<src, code, pc, x0, todo>>

Next == Compile \/ Call \/ Evaluate \/ Branch \/ PassLabel \/ Return

Spec == Init /\ [][Next]_vars

-----------------------------------------------------------------------------
\* The code evaluates exactly the expressions that C evaluates, in C's order,
\* whichever way the conditions come out, and it returns when C has nothing
\* left to do: each break and continue leaves its own loop, else belongs to
\* its if, and declarations are initialised in the order they are written.
RunsAsWritten ==
    /\ Running({"eval"}) => todo # <<>> /\ Head(todo).e = code[pc].e
    /\ phase = "done" => todo = <<>>

\* Every label of a file is defined once and every jump has its label, over
\* all the functions of the file: the counters go on from one to the next.
LabelsSound ==
    LET Uses == {i \in DOMAIN code : code[i].op \in {"b", "cbz", "cbnz", "label"}}
    IN  phase = "compiled" => \A i \in Uses : Cardinality(Places(code[i].to)) = 1

\* A file is refused just if some break or continue has no loop around it:
\* after a loop, and in the next function, curr_loop is what it was before.
StraysRefused ==
    /\ phase = "rejected" => \E i \in DOMAIN src : Stray(src[i])
    /\ phase = "compiled" => ~\E i \in DOMAIN src : Stray(src[i])
=============================================================================
