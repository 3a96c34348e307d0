------------------------------ MODULE CGrammar ------------------------------
(***************************************************************************)
(* The expressions of C11 6.5 by its grammar, as sets: DerivedAs(n, s) is  *)
(* the set of trees that the nonterminal n derives from exactly the tokens *)
(* s.  A string of tokens belongs to C just if the set is not empty, and   *)
(* to one tree only if it has one element.  sizeof applied to a type is    *)
(* taken for a primary expression, as the compiler has it; prefix ++ and   *)
(* --, unary +, sizeof of an expression and compound assignment are not    *)
(* in its language.                                                        *)
(***************************************************************************)
EXTENDS CTypes, SequencesExt

CONSTANTS Identifiers,     \* those in scope, each with the tree it stands for
          LiteralTy(_, _, _),
          MostArgs

Strs(s)  == [i \in DOMAIN s |-> s[i].str]
Words    == {"void", "char", "int", "long"}
\* s without its first and last tokens, and its parts around the place i.
Inside(s)    == SubSeq(s, 2, Len(s) - 1)
Left(s, i)   == SubSeq(s, 1, i - 1)
Right(s, i)  == SubSeq(s, i + 1, Len(s))
At(s, t)     == {i \in DOMAIN s : s[i].kind = "sym" /\ s[i].str = t}

Tree1(k, a)    == Node(k, no_ty, <<a>>, 0)
Tree2(k, a, b) == Node(k, no_ty, <<a, b>>, 0)

\* Binary operators, loosest first; the next level up is "cast".
Binaries == << {"||"}, {"&&"}, {"|"}, {"^"}, {"&"}, {"==", "!="},
               {"<", ">", "<=", ">="}, {"<<", ">>"}, {"+", "-"}, {"*", "/", "%"} >>

\* a > b is b < a.
Applied(t, a, b) ==
    CASE t = "||" -> Tree2("Or", a, b)      [] t = "&&" -> Tree2("And", a, b)
      [] t = "|"  -> Tree2("BitOr", a, b)   [] t = "^"  -> Tree2("BitXor", a, b)
      [] t = "&"  -> Tree2("BitAnd", a, b)  [] t = "==" -> Tree2("Eq", a, b)
      [] t = "!=" -> Tree2("Ne", a, b)      [] t = "<"  -> Tree2("Lt", a, b)
      [] t = ">"  -> Tree2("Lt", b, a)      [] t = "<=" -> Tree2("Le", a, b)
      [] t = ">=" -> Tree2("Le", b, a)      [] t = "<<" -> Tree2("Shl", a, b)
      [] t = ">>" -> Tree2("Shr", a, b)     [] t = "+"  -> Tree2("Add", a, b)
      [] t = "-"  -> Tree2("Sub", a, b)     [] t = "*"  -> Tree2("Mul", a, b)
      [] t = "/"  -> Tree2("Div", a, b)     [] t = "%"  -> Tree2("Mod", a, b)

-----------------------------------------------------------------------------
\* Specifiers, then stars or the length of an array (a number).
Specifies(s, t) ==
    /\ Range(Strs(s)) \subseteq {"const", "unsigned", t}
    /\ \E i \in DOMAIN s : /\ s[i].str = t
                           /\ \A j \in DOMAIN s : s[j].str = t => j = i
                           /\ \A j \in DOMAIN s : s[j].str = "unsigned" => j < i
Specified(s) ==
    LET unsigned == \E i \in DOMAIN s : s[i].str = "unsigned"
        Wide(n)  == Integer(n, ~unsigned)
    IN  {ty \in {Wide(1)} : Specifies(s, "char")} \cup {ty \in {Wide(4)} : Specifies(s, "int")}
        \cup {ty \in {Wide(8)} : Specifies(s, "long")}
        \cup {ty \in {void_ty} : Specifies(s, "void") /\ ~unsigned}

Stars(s)   == \A i \in DOMAIN s : s[i].str = "*"
Pointer(t, n) == FoldLeft(LAMBDA u, i : mk_ptr_ty(u), t, [i \in 1 .. n |-> i])
TypeNames(s) ==
    UNION {{Pointer(t, Len(s) - n) : t \in Specified(SubSeq(s, 1, n))} :
              n \in {m \in DOMAIN s : Stars(SubSeq(s, m + 1, Len(s)))}}
ArrayTypes(s) ==
    IF Len(s) > 3 /\ s[Len(s) - 2].str = "[" /\ s[Len(s) - 1].kind = "num" /\ s[Len(s)].str = "]"
    THEN {mk_arr_ty(t, s[Len(s) - 1].val.n) : t \in TypeNames(SubSeq(s, 1, Len(s) - 3))}
    ELSE {}
AnyType(s) == TypeNames(s) \cup ArrayTypes(s)

-----------------------------------------------------------------------------
\* The nonterminals, as numbers; 4 .. 13 are the operators of Binaries.
expression == 1
assignment == 2
conditional == 3
cast == 14
unary == 15
postfix == 16
primary == 17

RECURSIVE DerivedAs(_, _), Arguments(_)

Expression(s) ==
    DerivedAs(assignment, s) \cup UNION {{Tree2("Comma", a, b) : a \in DerivedAs(expression, Left(s, i)),
                                                      b \in DerivedAs(assignment, Right(s, i))} :
                                 i \in At(s, ",")}

Assignment(s) ==
    DerivedAs(conditional, s) \cup UNION {{Tree2("Assign", a, b) : a \in DerivedAs(unary, Left(s, i)),
                                                     b \in DerivedAs(assignment, Right(s, i))} :
                               i \in At(s, "=")}

CondExpr(s) ==
    DerivedAs(4, s) \cup
    UNION {{Node("Cond", no_ty, <<a, b, c>>, 0) : a \in DerivedAs(4, Left(s, p[1])),
                                                  b \in DerivedAs(expression, SubSeq(s, p[1] + 1, p[2] - 1)),
                                                  c \in DerivedAs(conditional, Right(s, p[2]))} :
              p \in {q \in At(s, "?") \X At(s, ":") : q[1] < q[2]}}

BinaryExpr(n, s) ==
    DerivedAs(n + 1, s) \cup
         UNION {{Applied(s[i].str, a, b) : a \in DerivedAs(n, Left(s, i)),
                                           b \in DerivedAs(n + 1, Right(s, i))} :
                   i \in UNION {At(s, t) : t \in Binaries[n - 3]}}

CastExpr(s) ==
    DerivedAs(unary, s) \cup
    IF 1 \notin At(s, "(") THEN {}
    ELSE UNION {{Node("Cast", t, <<a>>, 0) : t \in AnyType(SubSeq(s, 2, i - 1)),
                                             a \in DerivedAs(cast, Right(s, i))} : i \in At(s, ")")}

UnaryExpr(s) ==
    LET Of(t, k) == IF 1 \in At(s, t) THEN {Tree1(k, a) : a \in DerivedAs(cast, Tail(s))} ELSE {}
    IN  DerivedAs(postfix, s) \cup Of("-", "Neg") \cup Of("~", "BitNot") \cup Of("!", "Not")
                       \cup Of("&", "Addr") \cup Of("*", "Deref")

\* a[b] is *(a + b), and a->m is (*a).m.
PostfixExpr(s) ==
    LET n == Len(s)
        Last2 == SubSeq(s, 1, n - 2)
        Field(a) == Named(Tree1("Member", a), s[n].str)
    IN  DerivedAs(primary, s)
        \cup (IF n \in At(s, "]")
              THEN UNION {{Tree1("Deref", Tree2("Add", a, b)) :
                              a \in DerivedAs(postfix, Left(s, i)),
                              b \in DerivedAs(expression, SubSeq(s, i + 1, n - 1))} : i \in At(s, "[")}
              ELSE {})
        \cup (IF n \in At(s, ")")
              THEN UNION {{Node("Call", no_ty, <<a>> \o args, 0) :
                              a \in DerivedAs(postfix, Left(s, i)),
                              args \in Arguments(SubSeq(s, i + 1, n - 1))} : i \in At(s, "(")}
              ELSE {})
        \cup (IF n > 2 /\ s[n].kind = "wrd"
              THEN (IF n - 1 \in At(s, ".") THEN {Field(a) : a \in DerivedAs(postfix, Last2)} ELSE {})
                   \cup (IF n - 1 \in At(s, "->")
                         THEN {Field(Tree1("Deref", a)) : a \in DerivedAs(postfix, Last2)} ELSE {})
              ELSE {})
        \cup (IF n \in At(s, "++") THEN {Tree1("PostInc", a) : a \in DerivedAs(postfix, Left(s, n))} ELSE {})
        \cup (IF n \in At(s, "--") THEN {Tree1("PostDec", a) : a \in DerivedAs(postfix, Left(s, n))} ELSE {})

\* Lists of at most MostArgs expressions.
Arguments(s) ==
    IF s = <<>> THEN {<<>>}
    ELSE {l \in {<<a>> : a \in DerivedAs(assignment, s)} : MostArgs > 0} \cup
         UNION {{Append(l, a) : l \in {m \in Arguments(Left(s, i)) : m # <<>> /\ Len(m) < MostArgs},
                                a \in DerivedAs(assignment, Right(s, i))} : i \in At(s, ",")}

\* The standard macros va_start(a, b), va_arg(a, type) and va_end(a), whose
\* arguments are s.
VaForms(name, s) ==
    CASE name = "va_end"   -> {Tree1("VaEnd", a) : a \in DerivedAs(assignment, s)}
      [] name = "va_start" -> UNION {{Tree2("VaStart", a, b) : a \in DerivedAs(assignment, Left(s, i)),
                                                b \in DerivedAs(assignment, Right(s, i))} : i \in At(s, ",")}
      [] name = "va_arg"   -> UNION {{Node("VaArg", t, <<a>>, 0) : a \in DerivedAs(assignment, Left(s, i)),
                                                t \in AnyType(Right(s, i))} : i \in At(s, ",")}
      [] OTHER -> {}

PrimaryExpr(s) ==
    LET t == s[1]
        n == Len(s)
        closed == n > 2 /\ n \in At(s, ")")
    IN  CASE n = 0 -> {}
          [] n = 1 -> CASE t.kind = "num" -> {Node("Num", LiteralTy(t.val.n, t.val.u, t.val.l),
                                                   <<>>, t.val.n)}
                        [] t.kind = "str" -> {Named(Node("Str", no_ty, <<>>, 0), t.val.str)}
                        [] t.kind = "chr" -> {Named(Node("Chr", no_ty, <<>>, 0), t.val.str[1])}
                        [] t.kind = "wrd" /\ t.str \in DOMAIN Identifiers -> {Identifiers[t.str]}
                        [] OTHER -> {}
          [] closed /\ t.kind = "sym" /\ t.str = "(" -> DerivedAs(expression, Inside(s))
          [] closed /\ t.kind = "wrd" /\ 2 \in At(s, "(") ->
               IF t.str = "sizeof"
               THEN {Node("Num", no_ty, <<>>, ty_size(ty)) :
                        ty \in {u \in AnyType(SubSeq(s, 3, n - 1)) : is_obj_ty(u)}}
               ELSE VaForms(t.str, SubSeq(s, 3, n - 1))
          [] OTHER -> {}

DerivedAs(n, s) == CASE n = expression  -> Expression(s)
                     [] n = assignment  -> Assignment(s)
                     [] n = conditional -> CondExpr(s)
                     [] n \in 4 .. 13   -> BinaryExpr(n, s)
                     [] n = cast        -> CastExpr(s)
                     [] n = unary       -> UnaryExpr(s)
                     [] n = postfix     -> PostfixExpr(s)
                     [] n = primary     -> PrimaryExpr(s)
=============================================================================
