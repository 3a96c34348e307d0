------------------------------ MODULE CLinkage ------------------------------
(***************************************************************************)
(* What C promises of the file-scope names of one translation unit, and    *)
(* what README.md claims for smolcc ("storage classes, and linkage are     *)
(* properly handled"): which sequences of declarations are valid, and      *)
(* which names the object file must then define and export.                *)
(*                                                                         *)
(* The specification says nothing of scopes, symbols or passes; module     *)
(* Linkage is the compiler's way of keeping this promise.                  *)
(***************************************************************************)
CONSTANT Names

Kinds    == {"object", "function"}
Storages == {"none", "extern", "static"}
Decls    == [name : Names, kind : Kinds, storage : Storages, is_def : BOOLEAN]

VARIABLES decls,    \* the file-scope declarations so far
          labels,   \* what the object file defines: [name, global]
          over      \* "no", "done" or "rejected"

vars == <<decls, labels, over>>

Of(n)       == {d \in decls : d.name = n}
Internal(n) == \E d \in Of(n) : d.storage = "static"
Defined(n)  == \E d \in Of(n) : d.is_def

\* An object declared without extern is tentatively defined, and counts as
\* defined at the end of the file (C11 6.9.2).
Tentative(n) == \E d \in Of(n) : d.kind = "object" /\ d.storage # "extern"
Needed       == {n \in Names : Defined(n) \/ Tentative(n)}

\* static may not follow an external declaration, and an object may not lose
\* it again; extern, and a function without storage class, take what is there.
Agrees(d) ==
    /\ \A e \in Of(d.name) : e.kind = d.kind
    /\ d.storage = "static" => Of(d.name) = {} \/ Internal(d.name)
    /\ d.kind = "object" /\ d.storage = "none" => ~Internal(d.name)
    /\ d.is_def => ~Defined(d.name)

Init == decls = {} /\ labels = {} /\ over = "no"

Declare(d) == /\ over = "no" /\ labels = {}
              /\ Agrees(d)
              /\ decls' = decls \cup {d}
              /\ UNCHANGED <<labels, over>>

Label(n) == /\ over = "no"
            /\ n \in Needed
            /\ \A l \in labels : l.name # n
            /\ labels' = labels \cup {[name |-> n, global |-> ~Internal(n)]}
            /\ UNCHANGED <<decls, over>>

Finish == /\ over = "no"
          /\ {l.name : l \in labels} = Needed
          /\ over' = "done"
          /\ UNCHANGED <<decls, labels>>

Reject == /\ over = "no"
          /\ over' = "rejected"
          /\ UNCHANGED <<decls, labels>>

Next == \/ \E d \in Decls : Declare(d)
        \/ \E n \in Names : Label(n)
        \/ Finish \/ Reject

Spec == Init /\ [][Next]_vars
=============================================================================
