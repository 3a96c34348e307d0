----------------------------- MODULE CControl -------------------------------
(***************************************************************************)
(* What C says of the order in which the expressions of a statement are    *)
(* evaluated, by structure alone: a list of what is still to do, without   *)
(* labels, jumps or loop numbers.  The reference for module StmtGen.       *)
(***************************************************************************)
EXTENDS Integers, Sequences, SequencesExt

None == ""           \* in the place of an expression that is left out

\* A statement: its kind, its expression and its parts.  `for` has the parts
\* init, step and body; a declaration has the initialisers as its parts.
Src(k, e, subs) == [k |-> k, e |-> e, subs |-> subs]
Nop             == Src("Empty", None, <<>>)

LoopKinds == {"While", "For"}
BodyOf(s) == Last(s.subs)

\* A round of the loop s, and what follows it.
Test(s)  == [s EXCEPT !.k = "Test"]
Step(s)  == [s EXCEPT !.k = "Step"]
Round(s) == <<BodyOf(s), Step(s)>>

IsStep(s)    == s.k = "Step"
NextStep(t)  == SelectInSeq(t, IsStep)      \* that of the innermost loop
From(t, i)   == SubSeq(t, IF i = 0 THEN 1 ELSE i, Len(t))   \* 0: there is none

\* The list of what is to do, taken apart until an expression comes first.
RECURSIVE Unfold(_)
Unfold(t) ==
    IF t = <<>> THEN t
    ELSE LET s    == Head(t)
             rest == Tail(t)
         IN  CASE s.k \in {"Expr", "If"} -> t
               [] s.k \in {"Return", "Test"} /\ s.e # None -> t
               [] s.k = "Return" -> <<>>
               [] OTHER -> Unfold(
                    CASE s.k \in {"Block", "Decl"} -> s.subs \o rest
                      [] s.k = "Empty"    -> rest
                      [] s.k = "While"    -> <<Test(s)>> \o rest
                      [] s.k = "For"      -> <<s.subs[1], Test(s)>> \o rest
                      [] s.k = "Test"     -> Round(s) \o rest
                      [] s.k = "Step"     -> <<IF Len(s.subs) = 3 THEN s.subs[2] ELSE Nop,
                                               Test(s)>> \o rest
                      [] s.k = "Break"    -> From(rest, NextStep(rest) + 1)
                      [] s.k = "Continue" -> From(rest, NextStep(rest)))

\* What is to do once the expression at the head has the value v.
Done(t, v) ==
    LET s    == Head(t)
        rest == Tail(t)
    IN  Unfold(CASE s.k = "Expr"   -> rest
                 [] s.k = "Return" -> <<>>
                 [] s.k = "If" /\ v # 0   -> <<s.subs[1]>> \o rest
                 [] s.k = "If" /\ v = 0   -> From(s.subs, 2) \o rest
                 [] s.k = "Test" /\ v # 0 -> Round(s) \o rest
                 [] s.k = "Test" /\ v = 0 -> rest)

\* A break or continue that no loop encloses.
RECURSIVE Stray(_)
Stray(s) == \/ s.k \in {"Break", "Continue"}
            \/ s.k \notin LoopKinds /\ \E i \in DOMAIN s.subs : Stray(s.subs[i])
=============================================================================
